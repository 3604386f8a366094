---------------------------- MODULE LoginProofs ----------------------------
(***************************************************************************)
(* However many requests meet a 401, however often the server restarts and *)
(* whatever the pilot does with the tabs of the browser: a rejected token  *)
(* is replaced by one login.                                               *)
(***************************************************************************)
EXTENDS Login, WellFoundedInduction, TLAPS

-----------------------------------------------------------------------------
(* The inductive invariant.                                                *)

(* A login is of the client that waits for it, on a tab of its own, and    *)
(* its listener listens.                                                   *)
OneClientPerLogin ==
    /\ \A c \in Clients : login[c] # None <=> at[c] = "login"
    /\ \A c \in Clients : login[c] # None => login[c] \in listening
    /\ \A n \in listening : tab[n] # "none"
    /\ \A c, d \in Clients : login[c] = login[d] /\ login[c] # None => c = d

(* Whoever looks at the cache, or logs in, for a rejected request has the  *)
(* lock, and nobody else has it but the thread of a cancelled request.     *)
LockIsExclusive ==
    \A r \in Requests : /\ at[r] \in {"looking", "login"} => lock = r
                        /\ lock = r => at[r] \in {"looking", "login", "gone"}

(* A token that is in the cache, or was sent, was issued, and the tab that *)
(* brings it is closed from then on: no token is issued twice.             *)
Issued(t) == t = None \/ age[t] # "unissued"
IssuedOnce ==
    /\ \A n \in 1..Tabs : age[n] # "unissued" => tab[n] = "closed"
    /\ Issued(cache) /\ \A r \in Requests : Issued(sent[r])
    /\ \A t \in DOMAIN replaced : replaced[t] # 0 => Issued(t)

(* A token that was replaced has left the cache for good, which is what a  *)
(* request looks at under the lock: it starts a login only for one that    *)
(* was not replaced, and nobody replaces that one before it is through.    *)
ReplacedIsGone ==
    /\ \A t \in DOMAIN replaced : replaced[t] # 0 => cache # t /\ cache # None
    /\ \A r \in Requests : at[r] = "login" => replaced[sent[r]] = 0

(* Done is done: the server acts on a request and answers it.              *)
ActedIsDone == \A r \in Requests : acted[r] # 0 => at[r] = "done" /\ acted[r] = 1

IInv ==
    /\ TypeOK /\ OneClientPerLogin /\ LockIsExclusive /\ IssuedOnce /\ ReplacedIsGone
    /\ ActedIsDone /\ OneLoginPerRejectedToken

-----------------------------------------------------------------------------
(* Lemmas about what the actions do.                                       *)

LEMMA Names ==
    /\ Startup \notin Requests /\ Nobody \notin Requests /\ Nobody # Startup
    /\ None \notin 0..Tabs /\ TimeLimited \subseteq Requests /\ Tabs \in Nat \ {0}
BY LoginAssumption, NamesAssumption DEF Nobody, Startup, None

(* The tab that a login opens is one that was not opened before.           *)
LEMMA NextTabIsNew ==
    ASSUME TypeOK, \E n \in 1..Tabs : tab[n] = "none"
    PROVE  NextTab \in 1..Tabs /\ tab[NextTab] = "none"
<1> DEFINE New == {n \in 1..Tabs : tab[n] = "none"}
<1>1. New \in SUBSET Nat /\ New # {}
  BY Names
<1>2. \E n \in New : \A m \in New : ~ (<<m, n>> \in OpToRel(<, Nat))
  BY <1>1, NatLessThanWellFounded, WFMin
<1>3. PICK n \in New : \A m \in New : ~ (<<m, n>> \in OpToRel(<, Nat))
  BY <1>2
<1>4. \A m \in New : ~ (m < n)
  BY <1>1, <1>3 DEF OpToRel
<1>5. \E k \in 1..Tabs : /\ tab[k] = "none"
                         /\ \A m \in 1..Tabs : tab[m] = "none" => k <= m
  BY <1>1, <1>4, Names
<1>. QED  BY <1>5 DEF NextTab
-----------------------------------------------------------------------------
(* Each step keeps the invariant.                                          *)

LEMMA SendKeeps ==
    ASSUME IInv, NEW r \in Requests, Send(r)
    PROVE  IInv'
<1> USE Names DEF IInv, Send, client, server, Clients
<1>1. TypeOK'  BY DEF TypeOK
<1>2. OneClientPerLogin'  BY DEF TypeOK, OneClientPerLogin
<1>3. LockIsExclusive'  BY DEF TypeOK, LockIsExclusive
<1>4. IssuedOnce'  BY DEF TypeOK, IssuedOnce, Issued
<1>5. ReplacedIsGone'  BY DEF TypeOK, ReplacedIsGone
<1>6. ActedIsDone'  BY DEF TypeOK, ActedIsDone
<1>7. OneLoginPerRejectedToken'  BY DEF TypeOK, OneLoginPerRejectedToken
<1>. QED  BY <1>1, <1>2, <1>3, <1>4, <1>5, <1>6, <1>7

LEMMA AnsweredKeeps ==
    ASSUME IInv, NEW r \in Requests, Answered(r)
    PROVE  IInv'
<1> USE Names DEF IInv, Answered, Refused, client, server, Clients
<1>1. TypeOK'
  <2>1. acted' \in [Requests -> 0..2]
    <3>1. acted[r] = 0  BY DEF ActedIsDone
    <3>2. acted' = acted \/ acted' = [acted EXCEPT ![r] = 1]  BY <3>1
    <3>. QED  BY <3>2 DEF TypeOK
  <2>. QED  BY <2>1 DEF TypeOK
<1>2. OneClientPerLogin'  BY DEF TypeOK, OneClientPerLogin
<1>3. LockIsExclusive'  BY DEF TypeOK, LockIsExclusive
<1>4. IssuedOnce'  BY DEF TypeOK, IssuedOnce, Issued
<1>5. ReplacedIsGone'  BY DEF TypeOK, ReplacedIsGone
<1>6. ActedIsDone'  BY DEF TypeOK, ActedIsDone
<1>7. OneLoginPerRejectedToken'  BY DEF TypeOK, OneLoginPerRejectedToken
<1>. QED  BY <1>1, <1>2, <1>3, <1>4, <1>5, <1>6, <1>7

LEMMA AcquiresKeeps ==
    ASSUME IInv, NEW r \in Requests, Acquires(r) \/ GhostAcquires(r)
    PROVE  IInv'
<1> USE Names DEF IInv, Acquires, GhostAcquires, client, server, Clients
<1>1. TypeOK'  BY DEF TypeOK
<1>2. OneClientPerLogin'  BY DEF TypeOK, OneClientPerLogin
<1>3. LockIsExclusive'  BY DEF TypeOK, LockIsExclusive
<1>4. IssuedOnce'  BY DEF TypeOK, IssuedOnce, Issued
<1>5. ReplacedIsGone'  BY DEF TypeOK, ReplacedIsGone
<1>6. ActedIsDone'  BY DEF TypeOK, ActedIsDone
<1>7. OneLoginPerRejectedToken'  BY DEF TypeOK, OneLoginPerRejectedToken
<1>. QED  BY <1>1, <1>2, <1>3, <1>4, <1>5, <1>6, <1>7

LEMMA TakesTokenKeeps ==
    ASSUME IInv, NEW r \in Requests, TakesToken(r)
    PROVE  IInv'
<1> USE Names DEF IInv, TakesToken, OtherBroughtToken, Released, client, server, Clients
<1>1. TypeOK'  BY DEF TypeOK
<1>2. OneClientPerLogin'  BY DEF TypeOK, OneClientPerLogin
<1>3. LockIsExclusive'  BY DEF TypeOK, LockIsExclusive
<1>4. IssuedOnce'  BY DEF TypeOK, IssuedOnce, Issued
<1>5. ReplacedIsGone'  BY DEF TypeOK, ReplacedIsGone
<1>6. ActedIsDone'  BY DEF TypeOK, ActedIsDone
<1>7. OneLoginPerRejectedToken'  BY DEF TypeOK, OneLoginPerRejectedToken
<1>. QED  BY <1>1, <1>2, <1>3, <1>4, <1>5, <1>6, <1>7

LEMMA CancelledKeeps ==
    ASSUME IInv, NEW r \in TimeLimited, Cancelled(r)
    PROVE  IInv'
<1> USE Names DEF IInv, Cancelled, Released, client, server, Clients
<1>1. TypeOK'  BY DEF TypeOK
<1>2. OneClientPerLogin'  BY DEF TypeOK, OneClientPerLogin
<1>3. LockIsExclusive'  BY DEF TypeOK, LockIsExclusive
<1>4. IssuedOnce'  BY DEF TypeOK, IssuedOnce, Issued
<1>5. ReplacedIsGone'  BY DEF TypeOK, ReplacedIsGone
<1>6. ActedIsDone'  BY DEF TypeOK, ActedIsDone
<1>7. OneLoginPerRejectedToken'  BY DEF TypeOK, OneLoginPerRejectedToken
<1>. QED  BY <1>1, <1>2, <1>3, <1>4, <1>5, <1>6, <1>7

(* A login is started by the request that has the lock, or by the start-up. *)
LEMMA StartsLoginKeeps ==
    ASSUME IInv, NEW c \in Clients, StartsLogin(c),
           at[c] \in {"idle", "checking", "looking"},
           c \in Requests => lock = c /\ at[c] = "looking" /\ ~OtherBroughtToken(c)
    PROVE  IInv'
<1> USE Names DEF IInv, Clients
<1> DEFINE n == NextTab
<1>a. n \in 1..Tabs /\ tab[n] = "none" /\ tab' = [tab EXCEPT ![n] = "opened"]
  BY NextTabIsNew DEF TypeOK, StartsLogin
<1>b. n \notin listening /\ \A d \in Clients : login[d] # n
  BY <1>a DEF TypeOK, OneClientPerLogin
<1>c. \/ /\ at' = [at EXCEPT ![c] = "login"] /\ login' = [login EXCEPT ![c] = n]
         /\ listening' = listening \cup {n} /\ lock' = lock
      \/ /\ at' = [at EXCEPT ![c] = "failed"] /\ lock' = IF lock = c THEN Nobody ELSE lock
         /\ login' = login /\ listening' = listening
  BY DEF StartsLogin, Released
<1>d. UNCHANGED <<cache, age, sent, acted, pending, lapsed, users, restarts, replaced>>
  BY DEF StartsLogin, server
<1> HIDE DEF n
<1>e. at[c] # "login" /\ at[c] # "done" /\ login[c] = None
  BY DEF OneClientPerLogin, ActedIsDone
<1>f. c \in Requests => replaced[sent[c]] = 0
  BY DEF TypeOK, OtherBroughtToken, ReplacedIsGone, IssuedOnce
<1>1. TypeOK'
  <2>1. tab' \in [1..Tabs -> {"none", "opened", "consent", "profile", "known", "new", "error",
                            "closed"}]
    BY <1>a DEF TypeOK
  <2>2. at' \in [Clients -> {"idle", "sent", "rejected", "looking", "login", "retry", "ghost",
                           "gone", "checking", "ready", "done", "failed"}]
    BY <1>c DEF TypeOK
  <2>3. lock' \in {Nobody} \cup Requests /\ listening' \subseteq 1..Tabs
        /\ login' \in [Clients -> {None} \cup (1..Tabs)]
    <3>1. CASE login' = [login EXCEPT ![c] = n] /\ listening' = listening \cup {n} /\ lock' = lock
      BY <1>a, <3>1 DEF TypeOK
    <3>2. CASE login' = login /\ listening' = listening /\ lock' = IF lock = c THEN Nobody ELSE lock
      BY <3>2 DEF TypeOK
    <3>. QED  BY <1>c, <3>1, <3>2
  <2>. QED  BY <1>d, <2>1, <2>2, <2>3 DEF TypeOK
<1>2. OneClientPerLogin'
  <2>1. CASE at' = [at EXCEPT ![c] = "login"] /\ login' = [login EXCEPT ![c] = n]
             /\ listening' = listening \cup {n}
    BY <2>1, <1>a, <1>b, <1>e DEF TypeOK, OneClientPerLogin
  <2>2. CASE at' = [at EXCEPT ![c] = "failed"] /\ login' = login /\ listening' = listening
    BY <2>2, <1>a, <1>e DEF TypeOK, OneClientPerLogin
  <2>. QED  BY <1>c, <2>1, <2>2
<1>3. LockIsExclusive'  BY <1>c, <1>d DEF TypeOK, LockIsExclusive
<1>4. IssuedOnce'  BY <1>a, <1>d DEF TypeOK, IssuedOnce, Issued
<1>5. ReplacedIsGone'  BY <1>c, <1>d, <1>f DEF TypeOK, ReplacedIsGone
<1>6. ActedIsDone'  BY <1>c, <1>d, <1>e DEF TypeOK, ActedIsDone
<1>7. OneLoginPerRejectedToken'  BY <1>d DEF OneLoginPerRejectedToken
<1>. QED  BY <1>1, <1>2, <1>3, <1>4, <1>5, <1>6, <1>7

(* What happens in the browser and on the server, short of a redirect,     *)
(* closes no tab twice and issues nothing.                                 *)
LEMMA BrowserKeeps ==
    ASSUME IInv, TypeOK', UNCHANGED <<client, acted, replaced, age>>,
           \A n \in 1..Tabs : /\ tab[n] = "closed" => tab'[n] = "closed"
                              /\ tab[n] # "none" => tab'[n] # "none"
    PROVE  IInv'
<1> USE Names DEF IInv, Clients
<1>a. UNCHANGED <<cache, lock, at, sent, login, listening, acted, replaced, age>>
  BY DEF client
<1>1. OneClientPerLogin'
  <2>1. \A k \in listening' : tab'[k] # "none"  BY <1>a DEF TypeOK, OneClientPerLogin
  <2>. QED  BY <1>a, <2>1 DEF OneClientPerLogin
<1>2. LockIsExclusive'  BY <1>a DEF TypeOK, LockIsExclusive
<1>3. IssuedOnce'
  <2>1. \A k \in 1..Tabs : age'[k] # "unissued" => tab'[k] = "closed"  BY <1>a DEF IssuedOnce
  <2>. QED  BY <1>a, <2>1 DEF IssuedOnce, Issued
<1>4. ReplacedIsGone'  BY <1>a DEF TypeOK, ReplacedIsGone
<1>5. ActedIsDone'  BY <1>a DEF TypeOK, ActedIsDone
<1>6. OneLoginPerRejectedToken'  BY <1>a DEF TypeOK, OneLoginPerRejectedToken
<1>. QED  BY <1>1, <1>2, <1>3, <1>4, <1>5, <1>6

LEMMA ServerKeeps ==
    ASSUME IInv, NEW n \in 1..Tabs,
           \/ DiscordLogin(n) \/ FindsUser(n) \/ AddsUser(n)
           \/ Abandons(n) \/ Lapses(n) \/ ServerRestarted
    PROVE  IInv'
<1> USE Names DEF IInv, client, server, Clients
<1>1. TypeOK'
  <2>1. CASE DiscordLogin(n)     BY <2>1 DEF TypeOK, DiscordLogin, TabMoves
  <2>2. CASE FindsUser(n)        BY <2>2 DEF TypeOK, FindsUser, TabMoves
  <2>3. CASE AddsUser(n)         BY <2>3 DEF TypeOK, AddsUser, TabMoves, UniqueDiscordId
  <2>4. CASE Abandons(n)         BY <2>4 DEF TypeOK, Abandons
  <2>5. CASE Lapses(n)           BY <2>5 DEF TypeOK, Lapses
  <2>6. CASE ServerRestarted     BY <2>6, LoginAssumption DEF TypeOK, ServerRestarted
  <2>. QED  BY <2>1, <2>2, <2>3, <2>4, <2>5, <2>6
<1>2. /\ UNCHANGED <<client, acted, replaced, age>>
      /\ \A k \in 1..Tabs : /\ tab[k] = "closed" => tab'[k] = "closed"
                            /\ tab[k] # "none" => tab'[k] # "none"
  BY DEF TypeOK, DiscordLogin, FindsUser, AddsUser, Abandons, Lapses, ServerRestarted, TabMoves
<1>. QED  BY <1>1, <1>2, BrowserKeeps

LEMMA TokenAgesKeeps ==
    ASSUME IInv, NEW t \in 0..Tabs, TokenAges(t) PROVE IInv'
<1> USE Names DEF IInv, TokenAges, client, server, Clients
<1>1. TypeOK'  BY DEF TypeOK
<1>2. OneClientPerLogin'  BY DEF TypeOK, OneClientPerLogin
<1>3. LockIsExclusive'  BY DEF TypeOK, LockIsExclusive
<1>4. IssuedOnce'  BY DEF TypeOK, IssuedOnce, Issued
<1>5. ReplacedIsGone'  BY DEF TypeOK, ReplacedIsGone
<1>6. ActedIsDone'  BY DEF TypeOK, ActedIsDone
<1>7. OneLoginPerRejectedToken'  BY DEF TypeOK, OneLoginPerRejectedToken
<1>. QED  BY <1>1, <1>2, <1>3, <1>4, <1>5, <1>6, <1>7

(* A redirect closes its tab, and brings the login that waits for it the   *)
(* token, if any: one that was never in the cache before.                  *)
LEMMA RedirectKeeps ==
    ASSUME IInv, NEW n \in 1..Tabs, NEW token \in {None, n}, Redirect(n, token),
           tab[n] \in {"consent", "known"},
           IF token = None THEN UNCHANGED age ELSE age' = [age EXCEPT ![n] = "fresh"],
           pending' \subseteq 1..Tabs, lapsed' \subseteq pending',
           UNCHANGED <<acted, users, restarts>>
    PROVE  IInv'
<1> USE Names DEF IInv, Clients
<1>a. tab' = [tab EXCEPT ![n] = "closed"]  BY DEF Redirect
<1>b. age' \in [0..Tabs -> {"unissued", "fresh", "ageing", "expired"}]
  BY DEF TypeOK
<1>c. \A k \in 1..Tabs : age'[k] # "unissued" => tab'[k] = "closed"
  BY <1>a DEF TypeOK, IssuedOnce
<1>d. \A t \in {None} \cup (0..Tabs) : Issued(t) => Issued(t)'
  BY DEF TypeOK, Issued
<1>e. token # None => Issued(token)'
  <2>1. token # None => age'[n] = "fresh"
    BY DEF TypeOK
  <2>. QED  BY <2>1 DEF Issued
<1>1. CASE UNCHANGED <<cache, lock, at, sent, login, replaced>>
           /\ (listening' = listening \/ \E k \in listening : listening' = listening \ {k} /\ \A c \in Clients : login[c] # k)
  <2>1. TypeOK'  BY <1>1, <1>a, <1>b DEF TypeOK
  <2>2. OneClientPerLogin'  BY <1>1, <1>a DEF TypeOK, OneClientPerLogin
  <2>3. LockIsExclusive'  BY <1>1 DEF LockIsExclusive
  <2>4. IssuedOnce'  BY <1>1, <1>c, <1>d, <2>1 DEF TypeOK, IssuedOnce
  <2>5. ReplacedIsGone'  BY <1>1 DEF ReplacedIsGone
  <2>6. ActedIsDone'  BY <1>1 DEF ActedIsDone
  <2>7. OneLoginPerRejectedToken'  BY <1>1 DEF OneLoginPerRejectedToken
  <2>. QED  BY <2>1, <2>2, <2>3, <2>4, <2>5, <2>6, <2>7
<1>2. CASE \E k \in listening : listening' = listening \ {k} /\ LoginEnds(k, n, token)
  <2>. PICK k \in listening : listening' = listening \ {k} /\ LoginEnds(k, n, token)
    BY <1>2
  <2>a. PICK c \in Clients :
          /\ login[c] = k
          /\ at' = [at EXCEPT ![c] = IF ~SignedIn(k, n, token) THEN "failed"
                                     ELSE IF c = Startup THEN "ready" ELSE "retry"]
          /\ cache' = IF SignedIn(k, n, token) THEN token ELSE cache
          /\ IF c \in Requests /\ SignedIn(k, n, token)
               THEN /\ replaced' = [replaced EXCEPT ![sent[c]] = @ + 1]
                    /\ sent' = [sent EXCEPT ![c] = token]
               ELSE UNCHANGED <<replaced, sent>>
          /\ login' = [login EXCEPT ![c] = None]
          /\ lock' = Released(c)
    BY DEF LoginEnds
  <2>b. k \in 1..Tabs /\ at[c] = "login" /\ (c \in Requests => lock = c /\ replaced[sent[c]] = 0)
    BY <2>a DEF TypeOK, OneClientPerLogin, LockIsExclusive, ReplacedIsGone
  <2>c. SignedIn(k, n, token) => k = n /\ token = n
    BY DEF SignedIn
  <2>d. /\ replaced' \in [{None} \cup (0..Tabs) -> 0..Tabs]
        /\ sent' \in [Requests -> {None} \cup (0..Tabs)]
        /\ \A t \in {None} \cup (0..Tabs) :
             replaced'[t] = IF c \in Requests /\ SignedIn(k, n, token) /\ t = sent[c]
                              THEN 1 ELSE replaced[t]
    <3>1. CASE c \in Requests /\ SignedIn(k, n, token)
      <4>1. sent[c] \in {None} \cup (0..Tabs) /\ replaced[sent[c]] + 1 = 1 /\ 1 \in 0..Tabs
        BY <2>b, <3>1 DEF TypeOK
      <4>2. replaced' = [replaced EXCEPT ![sent[c]] = 1]
        BY <2>a, <3>1, <4>1
      <4>. QED  BY <2>a, <2>c, <3>1, <4>1, <4>2 DEF TypeOK
    <3>2. CASE ~(c \in Requests /\ SignedIn(k, n, token))
      BY <2>a, <3>2 DEF TypeOK
    <3>. QED  BY <3>1, <3>2
  <2>1. TypeOK'
    <3>1. tab' \in [1..Tabs -> {"none", "opened", "consent", "profile", "known", "new", "error",
                              "closed"}]
      BY <1>a DEF TypeOK
    <3>2. at' \in [Clients -> {"idle", "sent", "rejected", "looking", "login", "retry", "ghost",
                             "gone", "checking", "ready", "done", "failed"}]
      BY <2>a DEF TypeOK
    <3>3. cache' \in {None} \cup (0..Tabs) /\ lock' \in {Nobody} \cup Requests
          /\ listening' \subseteq 1..Tabs /\ login' \in [Clients -> {None} \cup (1..Tabs)]
      BY <2>a DEF TypeOK, Released
    <3>. QED  BY <1>b, <2>d, <3>1, <3>2, <3>3 DEF TypeOK
  <2>2. OneClientPerLogin'
    <3>1. \A d \in Clients : login'[d] # None <=> at'[d] = "login"
      BY <2>a, <2>b DEF TypeOK, OneClientPerLogin
    <3>2. \A d \in Clients : login'[d] # None => login'[d] \in listening'
      BY <2>a, <2>b DEF TypeOK, OneClientPerLogin
    <3>3. \A j \in listening' : tab'[j] # "none"
      BY <1>a DEF TypeOK, OneClientPerLogin
    <3>4. \A d, e \in Clients : login'[d] = login'[e] /\ login'[d] # None => d = e
      BY <2>a, <2>b DEF TypeOK, OneClientPerLogin
    <3>. QED  BY <3>1, <3>2, <3>3, <3>4 DEF OneClientPerLogin
  <2>3. LockIsExclusive'  BY <2>a, <2>b DEF TypeOK, LockIsExclusive, Released
  <2>4. IssuedOnce'
    <3>1. Issued(cache)'  BY <1>d, <1>e, <2>a, <2>c DEF TypeOK, IssuedOnce, SignedIn
    <3>2. \A r \in Requests : Issued(sent[r])'
      BY <1>d, <1>e, <2>a, <2>c DEF TypeOK, IssuedOnce, SignedIn
    <3>3. \A t \in DOMAIN replaced' : replaced'[t] # 0 => Issued(t)'
      BY <1>d, <2>b, <2>d DEF TypeOK, IssuedOnce
    <3>. QED  BY <1>c, <3>1, <3>2, <3>3 DEF IssuedOnce
  <2>5. ReplacedIsGone'
    <3>1. CASE SignedIn(k, n, token)
      <4>1. tab[n] # "closed" /\ age[n] = "unissued"
        BY DEF TypeOK, IssuedOnce
      <4>2. replaced[n] = 0 /\ \A r \in Requests : sent[r] # n
        BY <4>1 DEF TypeOK, IssuedOnce, Issued
      <4>3. cache' = n  BY <3>1, <2>a, <2>c
      <4>4. \A t \in DOMAIN replaced' : replaced'[t] # 0 => cache' # t /\ cache' # None
        BY <2>d, <4>2, <4>3 DEF TypeOK
      <4>5. ASSUME NEW r \in Requests, at'[r] = "login" PROVE replaced'[sent'[r]] = 0
        <5>1. r # c /\ at[r] = "login"
          BY <4>5, <3>1, <2>a, <2>b DEF TypeOK
        <5>2. c \notin Requests
          BY <5>1, <2>b DEF LockIsExclusive
        <5>. QED  BY <5>1, <5>2, <2>a DEF ReplacedIsGone
      <4>. QED  BY <4>4, <4>5 DEF ReplacedIsGone
    <3>2. CASE ~SignedIn(k, n, token)
      BY <3>2, <2>a DEF TypeOK, ReplacedIsGone
    <3>. QED  BY <3>1, <3>2
  <2>6. ActedIsDone'  BY <2>a, <2>b DEF TypeOK, ActedIsDone
  <2>7. OneLoginPerRejectedToken'
    <3>1. \A t \in {None} \cup (0..Tabs) : replaced'[t] <= 1
      <4>1. \A t \in {None} \cup (0..Tabs) : replaced[t] <= 1
        BY DEF TypeOK, OneLoginPerRejectedToken
      <4>. QED  BY <2>d, <4>1
    <3>. QED  BY <2>d, <3>1 DEF OneLoginPerRejectedToken
  <2>. QED  BY <2>1, <2>2, <2>3, <2>4, <2>5, <2>6, <2>7
<1>. QED  BY <1>1, <1>2 DEF Redirect, client

LEMMA CallbackKeeps ==
    ASSUME IInv, NEW n \in 1..Tabs, Callback(n)
    PROVE  IInv'
<1> USE Names DEF IInv
<1>a. /\ tab[n] = "consent" /\ pending' = pending \ {n} /\ lapsed' = lapsed \ {n}
      /\ UNCHANGED <<age, acted, users, restarts>>
  BY DEF Callback
<1>b. pending' \subseteq 1..Tabs /\ lapsed' \subseteq pending'
  BY <1>a DEF TypeOK
<1>1. CASE Redirect(n, None)  BY <1>1, <1>a, <1>b, RedirectKeeps
<1>2. CASE /\ TabMoves(n, "consent", "error") \/ TabMoves(n, "consent", "profile")
           /\ UNCHANGED <<client, replaced>>
  <2>1. /\ tab' \in [1..Tabs -> {"none", "opened", "consent", "profile", "known", "new", "error",
                                "closed"}]
        /\ \A k \in 1..Tabs : /\ tab[k] = "closed" => tab'[k] = "closed"
                              /\ tab[k] # "none" => tab'[k] # "none"
    BY <1>2 DEF TypeOK, TabMoves
  <2>2. TypeOK'  BY <1>2, <1>a, <1>b, <2>1 DEF TypeOK, client
  <2>. QED  BY <1>2, <1>a, <2>1, <2>2, BrowserKeeps
<1>. QED  BY <1>1, <1>2 DEF Callback

LEMMA IssuesKeeps ==
    ASSUME IInv, NEW n \in 1..Tabs, Issues(n)
    PROVE  IInv'
<1>1. /\ tab[n] = "known" /\ age' = [age EXCEPT ![n] = "fresh"] /\ n # None
      /\ UNCHANGED <<acted, pending, lapsed, users, restarts>>
  BY Names DEF Issues, server
<1>2. pending' \subseteq 1..Tabs /\ lapsed' \subseteq pending'
  BY <1>1 DEF IInv, TypeOK
<1>3. Redirect(n, n)  BY DEF Issues
<1>. QED  BY <1>1, <1>2, <1>3, RedirectKeeps

LEMMA StartupKeeps ==
    ASSUME IInv, StartupSteps
    PROVE  IInv'
<1>1. CASE StartsLogin(Startup) /\ at[Startup] \in {"idle", "checking"}
  <2>1. Startup \in Clients /\ Startup \notin Requests  BY Names DEF Clients
  <2>. QED  BY <1>1, <2>1, StartsLoginKeeps
<1>2. CASE /\ at' = [at EXCEPT ![Startup] = "checking"] \/ at' = [at EXCEPT ![Startup] = "ready"]
           /\ at[Startup] \in {"idle", "checking"}
           /\ UNCHANGED <<lock, login, listening, tab, cache, age, sent, acted, server, replaced>>
  <2> USE Names, <1>2 DEF IInv, server, Clients
  <2>1. TypeOK'  BY DEF TypeOK
  <2>2. OneClientPerLogin'  BY DEF TypeOK, OneClientPerLogin
  <2>3. LockIsExclusive'  BY DEF TypeOK, LockIsExclusive
  <2>4. IssuedOnce'  BY DEF TypeOK, IssuedOnce, Issued
  <2>5. ReplacedIsGone'  BY DEF TypeOK, ReplacedIsGone
  <2>6. ActedIsDone'  BY DEF TypeOK, ActedIsDone
  <2>7. OneLoginPerRejectedToken'  BY DEF TypeOK, OneLoginPerRejectedToken
  <2>. QED  BY <2>1, <2>2, <2>3, <2>4, <2>5, <2>6, <2>7
<1>. QED  BY <1>1, <1>2 DEF StartupSteps, LooksAtCache, _is_valid

LEMMA LogsInKeeps ==
    ASSUME IInv, NEW r \in Requests, LogsIn(r)
    PROVE  IInv'
<1>1. r \in Clients /\ StartsLogin(r) /\ at[r] = "looking" /\ ~OtherBroughtToken(r)
  BY DEF LogsIn, Clients
<1>2. lock = r
  BY <1>1 DEF IInv, LockIsExclusive
<1>. QED  BY <1>1, <1>2, StartsLoginKeeps

LEMMA InitIInv == Init => IInv
<1> USE Names DEF Init, IInv, Clients
<1>1. Init => TypeOK  BY LoginAssumption DEF TypeOK
<1>2. Init => OneClientPerLogin  BY DEF OneClientPerLogin
<1>3. Init => LockIsExclusive  BY DEF LockIsExclusive
<1>4. Init => IssuedOnce  BY DEF IssuedOnce, Issued
<1>5. Init => ReplacedIsGone /\ ActedIsDone /\ OneLoginPerRejectedToken
  BY DEF ReplacedIsGone, ActedIsDone, OneLoginPerRejectedToken
<1>. QED  BY <1>1, <1>2, <1>3, <1>4, <1>5

LEMMA NextIInv == IInv /\ [Next]_vars => IInv'
<1> SUFFICES ASSUME IInv, [Next]_vars PROVE IInv'
  OBVIOUS
<1>1. CASE \E r \in Requests : Request(r)
  BY <1>1, SendKeeps, AnsweredKeeps, AcquiresKeeps, TakesTokenKeeps, LogsInKeeps DEF Request
<1>2. CASE StartupSteps
  BY <1>2, StartupKeeps
<1>3. CASE \E n \in 1..Tabs : ServerSteps(n)
  BY <1>3, ServerKeeps, IssuesKeeps DEF ServerSteps
<1>4. CASE Environment
  <2>1. CASE ServerRestarted
    <3>1. 1 \in 1..Tabs  BY Names
    <3>. QED  BY <2>1, <3>1, ServerKeeps
  <2>2. CASE \E n \in 1..Tabs : Callback(n) \/ Abandons(n) \/ Lapses(n)
    BY <2>2, CallbackKeeps, ServerKeeps
  <2>3. CASE \E t \in 0..Tabs : TokenAges(t)
    BY <2>3, TokenAgesKeeps
  <2>4. CASE \E r \in TimeLimited : Cancelled(r)
    BY <2>4, CancelledKeeps
  <2>. QED  BY <1>4, <2>1, <2>2, <2>3, <2>4 DEF Environment
<1>5. CASE UNCHANGED vars
  BY <1>5 DEF vars, IInv, TypeOK, OneClientPerLogin, LockIsExclusive, IssuedOnce, Issued,
              ReplacedIsGone, ActedIsDone, OneLoginPerRejectedToken
<1>. QED  BY <1>1, <1>2, <1>3, <1>4, <1>5 DEF Next

-----------------------------------------------------------------------------
(* The theorems.                                                           *)

LEMMA Invariance == Spec => []IInv
BY InitIInv, NextIInv, PTL DEF Spec

(* Every variable of the sign-in stays within its type: no number of       *)
(* requests, tabs, restarts and cancellations brings a second row for the  *)
(* pilot's Discord account into users.                                     *)
THEOREM TypeCorrect == Spec => []TypeOK
<1>1. IInv => TypeOK  BY DEF IInv
<1>. QED  BY <1>1, Invariance, PTL

(* relogin_after_rejection: of all the requests that were refused with one *)
(* token, on either event loop, at most one brings a new token from the    *)
(* browser, although a login may be cancelled, or caught by the wrong      *)
(* listener, while others wait for the lock.                               *)
THEOREM OneLogin == Spec => []OneLoginPerRejectedToken
<1>1. IInv => OneLoginPerRejectedToken  BY DEF IInv
<1>. QED  BY <1>1, Invariance, PTL

(* A request is sent a second time after a login, but the server does what *)
(* it asks for once: never both before the 401 and in the retry.           *)
THEOREM NeverTwice == Spec => []ActedOnce
<1>1. IInv => ActedOnce  BY DEF IInv, TypeOK, ActedIsDone, ActedOnce
<1>. QED  BY <1>1, Invariance, PTL

(* As long as a request has the lock and is not gone, it is at work under  *)
(* it: it looks at the cache, or the listener of its own login waits. A    *)
(* lock that nobody will release is that of a cancelled request's thread.  *)
THEOREM LockIsAtWork == Spec => []LockHeldByLogin
<1>1. IInv => LockHeldByLogin
  BY DEF IInv, OneClientPerLogin, LockIsExclusive, LockHeldByLogin, Clients
<1>. QED  BY <1>1, Invariance, PTL

(* identity.json only ever gets the token of the login that a client waits *)
(* for: the state that comes back with a redirect is compared before its   *)
(* token is kept (discord_identity.py).                                    *)
THEOREM OnlyOwnLogin == Spec => OwnLoginOnly
<1>1. ASSUME IInv, [Next]_vars, cache' # cache
      PROVE  \E c \in Clients : login[c] = cache'
  <2>1. \/ \E n \in 1..Tabs : Redirect(n, None)
        \/ \E n \in 1..Tabs : Redirect(n, n)
    BY <1>1 DEF Next, Request, StartupSteps, ServerSteps, Environment, vars, client, Send, Answered,
                Acquires, TakesToken, LogsIn, GhostAcquires, Cancelled, LooksAtCache, _is_valid,
                StartsLogin, DiscordLogin, FindsUser, AddsUser, Issues, Callback, Abandons, Lapses,
                ServerRestarted, TokenAges
  <2>2. PICK n \in 1..Tabs : \E token \in {None, n} : Redirect(n, token)
    BY <2>1
  <2>3. PICK token \in {None, n}, k \in listening : LoginEnds(k, n, token)
    BY <1>1, <2>2 DEF Redirect, client
  <2>4. PICK c \in Clients : /\ login[c] = k
                            /\ cache' = IF SignedIn(k, n, token) THEN token ELSE cache
    BY <2>3 DEF LoginEnds
  <2>. QED  BY <1>1, <2>4 DEF SignedIn
<1>2. IInv /\ [Next]_vars => [cache' # cache => \E c \in Clients : login[c] = cache']_vars
  BY <1>1
<1>. QED  BY <1>2, Invariance, PTL DEF Spec, OwnLoginOnly
=============================================================================
