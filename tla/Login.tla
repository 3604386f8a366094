------------------------------- MODULE Login -------------------------------
(***************************************************************************)
(* The sign-in of one pilot, on both sides: the start of the voice loop    *)
(* (discord_identity.py, get_pilot_session), the requests that a token the *)
(* server no longer takes sends to the browser (session_auth.py), the tabs *)
(* of that browser, and the server's half of Discord's login               *)
(* (server/routes/auth.py, user_service.py).                               *)
(*                                                                         *)
(* A login is the number of its browser tab; that is also its client_state *)
(* and the name of the token it may bring. Token 0 is one from an earlier  *)
(* run of the app.                                                         *)
(***************************************************************************)
EXTENDS Integers, FiniteSets

CONSTANTS
    Requests,       \* requests to ALICE's server, on either event loop
    TimeLimited,    \* those cancelled when they take too long (graph.social_reply)
    MayShare,       \* whether two listeners may bind one port: not on POSIX, on Windows
    Tabs,           \* bound: logins started (a client starts one at most)
    ServerRestarts  \* bound: restarts of the server

ASSUME LoginAssumption ==
    /\ TimeLimited \subseteq Requests /\ MayShare \subseteq BOOLEAN /\ MayShare # {}
    /\ Tabs \in Nat \ {0} /\ ServerRestarts \in Nat

None == -1
Nobody == "nobody"
Startup == "startup"
ASSUME NamesAssumption == {Nobody, Startup} \cap Requests = {}
Clients == Requests \cup {Startup}

VARIABLES
    cache,          \* token in identity.json
    age,            \* per token: unissued, fresh, ageing (less than a day left) or expired
    lock,           \* holder of _relogin_lock
    at,             \* per client, where it is
    sent,           \* per request, the token it was sent with
    acted,          \* per request, how often the server did what it asks
    login,          \* per client, its login, or None
    listening,      \* logins whose local listener waits for its one redirect
    tab,            \* per login, where its browser tab is
    pending,        \* logins in the server's _PENDING_LOGINS
    lapsed,         \* those of them older than their ten minutes
    users,          \* rows of the pilot's Discord account in users
    restarts,       \* restarts of the server so far
    replaced        \* per token, the logins a request has brought home after its rejection

client == <<cache, lock, at, sent, login, listening>>
server == <<pending, lapsed, users, restarts>>
vars == <<cache, age, lock, at, sent, acted, login, listening, tab, pending, lapsed,
          users, restarts, replaced>>

Init ==
    /\ cache \in {None, 0}
    /\ age \in {a \in [0..Tabs -> {"unissued", "fresh", "ageing", "expired"}] :
                  /\ \A t \in 1..Tabs : a[t] = "unissued"
                  /\ a[0] = "unissued" <=> cache = None}
    /\ lock = Nobody
    /\ at = [c \in Clients |-> "idle"]
    /\ sent = [r \in Requests |-> None] /\ acted = [r \in Requests |-> 0]
    /\ login = [c \in Clients |-> None] /\ listening = {}
    /\ tab = [n \in 1..Tabs |-> "none"]
    /\ pending = {} /\ lapsed = {} /\ users \in {0, 1} /\ restarts = 0
    /\ cache = 0 => users = 1
    /\ replaced = [t \in {None} \cup (0..Tabs) |-> 0]

Accepts(token) == token # None /\ age[token] \in {"fresh", "ageing"}
token_expires_within_a_day(token) == age[token] # "fresh"

(*--------------------------------- login ---------------------------------*)

NextTab == CHOOSE n \in 1..Tabs : /\ tab[n] = "none"
                                  /\ \A m \in 1..Tabs : tab[m] = "none" => n <= m

\* Mutant: an early way out of the function leaves the lock behind.
NotReleased(c) == lock
Released(c) == IF lock = c THEN Nobody ELSE lock

\* Opens the browser, then listens for the redirect; without a free port the login
\* fails, and leaves its tab behind.
StartsLogin(c) ==
    /\ \E n \in 1..Tabs : tab[n] = "none"
    /\ tab' = [tab EXCEPT ![NextTab] = "opened"]
    /\ \/ /\ listening = {} \/ TRUE \in MayShare
          /\ at' = [at EXCEPT ![c] = "login"]
          /\ login' = [login EXCEPT ![c] = NextTab]
          /\ listening' = listening \cup {NextTab} /\ UNCHANGED lock
       \/ /\ listening # {} /\ FALSE \in MayShare
          /\ at' = [at EXCEPT ![c] = "failed"]
          /\ lock' = Released(c)
          /\ UNCHANGED <<login, listening>>
    /\ UNCHANGED <<cache, age, sent, acted, server, replaced>>

\* Mutant: takes the token of any redirect.
AnyToken(n, m, token) == token # None
SignedIn(n, m, token) == m = n /\ token # None

\* The listener of login n got the redirect of tab m. Only its own counts, and only
\* with a token; a request releases the lock either way (finally).
LoginEnds(n, m, token) ==
    \E c \in {d \in Clients : login[d] = n} :
       LET signed_in == SignedIn(n, m, token)
       IN  /\ at' = [at EXCEPT ![c] = IF ~signed_in THEN "failed"
                                      ELSE IF c = Startup THEN "ready" ELSE "retry"]
           /\ cache' = IF signed_in THEN token ELSE cache
           /\ IF c \in Requests /\ signed_in
                THEN /\ replaced' = [replaced EXCEPT ![sent[c]] = @ + 1]
                     /\ sent' = [sent EXCEPT ![c] = token]
                ELSE UNCHANGED <<replaced, sent>>
           /\ login' = [login EXCEPT ![c] = None]
           /\ lock' = Released(c)

\* The browser is sent back to localhost: one listener answers it, and stops. That
\* of a cancelled login answers too (nobody waits for what it got).
Redirect(m, token) ==
    /\ tab' = [tab EXCEPT ![m] = "closed"]
    /\ \/ /\ listening = {} /\ UNCHANGED <<client, replaced>>
       \/ \E n \in listening :
            /\ listening' = listening \ {n}
            /\ IF \E c \in Clients : login[c] = n
                 THEN LoginEnds(n, m, token)
                 ELSE UNCHANGED <<cache, lock, at, sent, login, replaced>>

(*-------------------------------- requests -------------------------------*)

Send(r) ==
    /\ at[r] = "idle"
    /\ at' = [at EXCEPT ![r] = "sent"] /\ sent' = [sent EXCEPT ![r] = cache]
    /\ UNCHANGED <<cache, age, lock, acted, login, listening, tab, server, replaced>>

Refused(r) == UNCHANGED acted

\* get_current_user: the server acts, or answers 401. The retry is not retried.
Answered(r) ==
    /\ at[r] \in {"sent", "retry"}
    /\ IF Accepts(sent[r])
         THEN at' = [at EXCEPT ![r] = "done"] /\ acted' = [acted EXCEPT ![r] = @ + 1]
         ELSE /\ at' = [at EXCEPT ![r] = IF @ = "sent" THEN "rejected" ELSE "failed"]
              /\ Refused(r)
    /\ UNCHANGED <<cache, age, lock, sent, login, listening, tab, server, replaced>>

\* relogin_after_rejection: one request at a time ...
Acquires(r) ==
    /\ at[r] = "rejected" /\ lock = Nobody
    /\ lock' = r /\ at' = [at EXCEPT ![r] = "looking"]
    /\ UNCHANGED <<cache, age, sent, acted, login, listening, tab, server, replaced>>

\* ... takes the token that another has brought meanwhile ...
\* Mutant: does not look at the cache again.
NeverLooks(r) == FALSE
OtherBroughtToken(r) == cache # None /\ cache # sent[r]
TakesToken(r) ==
    /\ at[r] = "looking" /\ OtherBroughtToken(r)
    /\ sent' = [sent EXCEPT ![r] = cache] /\ at' = [at EXCEPT ![r] = "retry"]
    /\ lock' = Released(r)
    /\ UNCHANGED <<cache, age, acted, login, listening, tab, server, replaced>>

\* ... or logs in.
LogsIn(r) == at[r] = "looking" /\ ~OtherBroughtToken(r) /\ StartsLogin(r)

\* wait_for gives up. The thread that waits for the lock goes on waiting (to_thread):
\* "ghost"; the listener goes on listening, and its lock is released.
Cancelled(r) ==
    /\ r \in TimeLimited /\ at[r] \in {"sent", "retry", "rejected", "login"}
    /\ at' = [at EXCEPT ![r] = IF @ = "rejected" THEN "ghost" ELSE "failed"]
    /\ login' = [login EXCEPT ![r] = None]
    /\ lock' = Released(r)
    /\ UNCHANGED <<cache, age, sent, acted, listening, tab, server, replaced>>

\* The thread gets the lock of a request that is gone: nobody releases it.
GhostAcquires(r) ==
    /\ at[r] = "ghost" /\ lock = Nobody
    /\ lock' = r /\ at' = [at EXCEPT ![r] = "gone"]
    /\ UNCHANGED <<cache, age, sent, acted, login, listening, tab, server, replaced>>

(*-------------------------------- start-up -------------------------------*)

\* get_pilot_session: a cached token that is not about to expire is checked ...
LooksAtCache ==
    /\ at[Startup] = "idle"
    /\ IF cache # None /\ ~token_expires_within_a_day(cache)
         THEN /\ at' = [at EXCEPT ![Startup] = "checking"]
              /\ UNCHANGED <<lock, login, listening, tab, cache, age, sent, acted, server, replaced>>
         ELSE StartsLogin(Startup)

\* ... and passes also when the server cannot be reached.
_is_valid ==
    /\ at[Startup] = "checking"
    /\ \/ /\ at' = [at EXCEPT ![Startup] = "ready"]
          /\ UNCHANGED <<lock, login, listening, tab, cache, age, sent, acted, server, replaced>>
       \/ ~Accepts(cache) /\ StartsLogin(Startup)

(*------------------------- the server and Discord ------------------------*)

TabMoves(n, from, to) == tab[n] = from /\ tab' = [tab EXCEPT ![n] = to]

\* discord_login: stashes the login behind a nonce, and drops the old ones.
DiscordLogin(n) ==
    /\ TabMoves(n, "opened", "consent")
    /\ pending' = (pending \ lapsed) \cup {n} /\ lapsed' = {}
    /\ UNCHANGED <<client, age, acted, users, restarts, replaced>>

\* discord_callback: the nonce is used up first, whatever comes of it: nothing (it is
\* unknown, or Discord fails: the browser shows an error and the app is not told),
\* a cancel or a refusal, or the profile.
Callback(n) ==
    /\ tab[n] = "consent"
    /\ pending' = pending \ {n} /\ lapsed' = lapsed \ {n}
    /\ \/ TabMoves(n, "consent", "error") /\ UNCHANGED <<client, replaced>>
       \/ n \in pending /\ Redirect(n, None)
       \/ n \in pending /\ TabMoves(n, "consent", "profile") /\ UNCHANGED <<client, replaced>>
    /\ UNCHANGED <<age, acted, users, restarts>>

\* get_or_create_user: the row is looked for, and added in a later step.
FindsUser(n) ==
    /\ TabMoves(n, "profile", IF users > 0 THEN "known" ELSE "new")
    /\ UNCHANGED <<client, age, acted, server, replaced>>
UniqueDiscordId == users = 0
AddsUser(n) ==
    /\ tab[n] = "new"
    /\ IF UniqueDiscordId
         THEN TabMoves(n, "new", "known") /\ users' = users + 1
         ELSE TabMoves(n, "new", "error") /\ UNCHANGED users
    /\ UNCHANGED <<client, age, acted, pending, lapsed, restarts, replaced>>

\* The token is issued and travels with the last redirect.
Issues(n) ==
    /\ tab[n] = "known"
    /\ age' = [age EXCEPT ![n] = "fresh"]
    /\ Redirect(n, n)
    /\ UNCHANGED <<acted, server>>

\* The pilot closes the tab.
Abandons(n) ==
    /\ tab[n] \in {"opened", "consent"} /\ tab' = [tab EXCEPT ![n] = "closed"]
    /\ UNCHANGED <<client, age, acted, server, replaced>>

\* Ten minutes pass: the nonce goes with the next login that is stashed.
Lapses(n) ==
    /\ n \in pending \ lapsed /\ lapsed' = lapsed \cup {n}
    /\ UNCHANGED <<client, age, acted, tab, pending, users, restarts, replaced>>

\* _PENDING_LOGINS is in memory.
ServerRestarted ==
    /\ restarts < ServerRestarts /\ restarts' = restarts + 1
    /\ pending' = {} /\ lapsed' = {}
    /\ UNCHANGED <<client, age, acted, tab, users, replaced>>

\* A token is valid for seven days.
TokenAges(t) ==
    /\ age[t] \in {"fresh", "ageing"}
    /\ age' = [age EXCEPT ![t] = IF @ = "fresh" THEN "ageing" ELSE "expired"]
    /\ UNCHANGED <<client, acted, tab, server, replaced>>

(*--------------------------------- system --------------------------------*)

Request(r) ==
    \/ Send(r) \/ Answered(r) \/ Acquires(r) \/ TakesToken(r) \/ LogsIn(r) \/ GhostAcquires(r)
StartupSteps == LooksAtCache \/ _is_valid
ServerSteps(n) == DiscordLogin(n) \/ FindsUser(n) \/ AddsUser(n) \/ Issues(n)
Environment ==
    \/ ServerRestarted
    \/ \E n \in 1..Tabs : Callback(n) \/ Abandons(n) \/ Lapses(n)
    \/ \E t \in 0..Tabs : TokenAges(t)
    \/ \E r \in TimeLimited : Cancelled(r)

Next ==
    \/ \E r \in Requests : Request(r)
    \/ StartupSteps
    \/ \E n \in 1..Tabs : ServerSteps(n)
    \/ Environment

\* The event loops and the server go on. What the pilot does in the browser, how long
\* a token lasts and a cancellation are not promised.
Fairness ==
    /\ \A r \in Requests : WF_vars(Request(r)) /\ SF_vars(Acquires(r))
    /\ WF_vars(StartupSteps)
    /\ \A n \in 1..Tabs : WF_vars(ServerSteps(n))

Spec == Init /\ [][Next]_vars /\ Fairness

(*------------------------------- properties ------------------------------*)

\* What each variable may hold.
TypeOK ==
    /\ cache \in {None} \cup (0..Tabs) /\ lock \in {Nobody} \cup Requests
    /\ age \in [0..Tabs -> {"unissued", "fresh", "ageing", "expired"}]
    /\ at \in [Clients -> {"idle", "sent", "rejected", "looking", "login", "retry", "ghost",
                           "gone", "checking", "ready", "done", "failed"}]
    /\ sent \in [Requests -> {None} \cup (0..Tabs)] /\ acted \in [Requests -> 0..2]
    /\ login \in [Clients -> {None} \cup (1..Tabs)] /\ listening \subseteq 1..Tabs
    /\ tab \in [1..Tabs -> {"none", "opened", "consent", "profile", "known", "new", "error",
                            "closed"}]
    /\ pending \subseteq 1..Tabs /\ lapsed \subseteq pending
    /\ users \in 0..1 /\ restarts \in 0..ServerRestarts
    /\ replaced \in [{None} \cup (0..Tabs) -> 0..Tabs]

\* Many requests meet a 401 with one token: at most one of them brings a new one from
\* the browser, the others take it from the cache (relogin_after_rejection).
OneLoginPerRejectedToken == \A t \in DOMAIN replaced : replaced[t] <= 1

\* A request is sent again after a login, but what it asks for is done once.
ActedOnce == \A r \in Requests : acted[r] <= 1

\* A token gets into identity.json only by the login that a client of the app waits
\* for: the redirect of an older tab, caught by another login's listener, does not.
OwnLoginOnly == [][cache' # cache => \E c \in Clients : login[c] = cache']_vars

\* The lock is with a request that is about to release it: one that looks at the
\* cache or has its own login open.
LockHeldByLogin ==
    \A r \in Requests : lock = r =>
        \/ at[r] \in {"looking", "gone"}
        \/ at[r] = "login" /\ login[r] \in listening

\* Only an unfinished login keeps a rejected request waiting: it ends, unless from some
\* time on a listener waits for a redirect that never comes, or a thread has taken the
\* lock for a request that is gone.
RejectedRequestsEnd ==
    \A r \in Requests :
        \/ []<>(at[r] # "rejected")
        \/ <>[](listening # {})
        \/ <>[](\E g \in TimeLimited : lock = g /\ at[g] = "gone")

\* The same, had the thread of a cancelled request no lock to leave behind.
CancelledDoNotBlock ==
    \A r \in Requests : []<>(at[r] # "rejected") \/ <>[](listening # {})

\* "opens one login no matter how many requests failed at once"
OneBrowserTab == Cardinality({n \in 1..Tabs : tab[n] \in {"opened", "consent"}}) <= 1
=============================================================================
