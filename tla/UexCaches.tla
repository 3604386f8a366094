------------------------------ MODULE UexCaches ------------------------------
(***************************************************************************)
(* The server's caches of UEX data (app/server/uex_cache_service.py): rows *)
(* of prices and routes that are read through, the hourly prefetch of the  *)
(* routes out of every trade terminal, the reference data, and the calls   *)
(* of the day that all of them spend.                                      *)
(*                                                                         *)
(* Time passes in ticks.  A request, and a round of the prefetch, is over  *)
(* within a tick (requests time out, a round "goes out in under a minute", *)
(* uex_route_prefetch.py:23), so no tick passes while one is in flight.    *)
(***************************************************************************)
EXTENDS Naturals, FiniteSets

CONSTANTS
    Origins,         \* terminals whose routes are prefetched (kind ROUTE_BY_ORIGIN)
    Requests,        \* requests in flight, of pilots and of server/refresh_static_caches.py
    Fetchers,        \* the prefetch's semaphore: PREFETCH_CONCURRENCY fetches at a time
    Cap, Reserve,    \* calls a day after the margin; calls the prefetch leaves to pilots
    EndpointCalls, CategoryCalls,                  \* the two halves of a reference build
    RouteTTL, RecentEnough, Interval,    \* in ticks
    Faults           \* which of "uex_down", "restart" happen

ASSUME BudgetAssumption ==
    /\ {Cap, Reserve, EndpointCalls, CategoryCalls} \subseteq Nat
    /\ EndpointCalls > 0
ASSUME TimesAssumption ==
    /\ {RouteTTL, RecentEnough, Interval} \subseteq Nat /\ RecentEnough > 0
    /\ Interval < RouteTTL /\ RecentEnough < Interval     \* config.py:58, uex_route_prefetch.py:46
ASSUME FetchersAssumption == IsFiniteSet(Fetchers)
ASSUME NamesAssumption == "prefetch" \notin Requests

OtherKinds == "other"     \* prices, routes by commodity, distances: only cached on demand
Builders == {"prefetch"} \cup Requests
None == "none"

VARIABLES
    calls,       \* uex_call_count of the day
    age,         \* ticks since fetched_at, of each origin with a cached row
    reference,   \* the newest reference row, by the day it was stored
    build,       \* where each rebuild of the reference is
    search,      \* where each lookup is
    round,       \* what prefetch_forever is at
    sleep,       \* ticks until its next round
    due, stopped, fetch,   \* the round: what is left, and what each fetcher is at
    dipped,      \* history: calls of the day the prefetch took from the reserve
    lost,        \* history: rebuilds of its rounds that took some of these for nothing
    passed       \* history: origins the prefetch could not refresh since they were stored

prefetching == <<round, sleep, due, stopped, fetch>>
takes == <<dipped, lost>>
vars == <<calls, age, reference, build, search, prefetching, takes, passed>>

(* Rows older than this are told apart by nothing the code does.           *)
OldestAge == Interval + RecentEnough

Cached(o) == o \in DOMAIN age
Fresh(o) == Cached(o) /\ age[o] <= RouteTTL

(***************************************************************************)
(* The calls of the day.                                                   *)
(***************************************************************************)

Affordable(n) == calls + n <= Cap

remaining_today == IF calls < Cap THEN Cap - calls ELSE 0

spend(n) == Affordable(n) /\ calls' = calls + n
Refused(n) == ~Affordable(n) /\ UNCHANGED calls

(* Of the next n calls, those beyond what is left above the reserve.       *)
FromReserve(n) ==
    LET above == IF remaining_today <= Reserve THEN 0 ELSE remaining_today - Reserve
    IN  IF n > above THEN n - above ELSE 0

(***************************************************************************)
(* A lookup of a pilot.                                                    *)
(***************************************************************************)
NoSearch == [at |-> "idle"]

Free(s) == search[s] = NoSearch /\ build[s] = [at |-> "idle"]

(* A fresh row is the answer, and nothing changes.  Routes out of a        *)
(* terminal are fetched by a search that was just told they are not        *)
(* cached; a row of another kind can be missing or expired at any time.    *)
(* With the calls used up, stale rows beat no answer, and with none the    *)
(* server answers 503: nothing changes either.                             *)
Ask(s) ==
    /\ Free(s)
    /\ \E k \in {o \in Origins : ~Fresh(o)} \cup {OtherKinds} :
          search' = [search EXCEPT ![s] = [at |-> "asked", key |-> k]]
    /\ spend(1)
    /\ UNCHANGED <<age, reference, build, prefetching, takes, passed>>

Stored(o) ==
    /\ age' = [i \in DOMAIN age \cup {o} |-> IF i = o THEN 0 ELSE age[i]]
    /\ passed' = passed \ {o}

Answered(s) ==
    /\ search[s] # NoSearch
    /\ IF search[s].key \in Origins THEN Stored(search[s].key) ELSE UNCHANGED <<age, passed>>
    /\ search' = [search EXCEPT ![s] = NoSearch]
    /\ UNCHANGED <<calls, reference, build, prefetching, takes>>

(***************************************************************************)
(* The reference data: one bundle, rebuilt as a whole.  A row is good for  *)
(* a day, so it expires at most once a day.                                *)
(***************************************************************************)
NoBuild == [at |-> "idle"]
Building(b, at) == build[b] # NoBuild /\ build[b].at = at
ReferenceFresh == reference \in {"today", "yesterday"}

StartBuild(b) ==
    /\ build[b] = NoBuild
    /\ build' = [build EXCEPT ![b] = [at |-> "endpoints"]]

(* A pilot's client finds the reference missing or expired; the script     *)
(* does not look.                                                          *)
AskReference(s) ==
    /\ Free(s)
    /\ StartBuild(s)
    /\ UNCHANGED <<calls, age, reference, search, prefetching, takes, passed>>

(* The round of the prefetch goes by how its rebuild ended.                *)
BuildOver(b, end) == build' = [build EXCEPT ![b] = IF b = "prefetch" THEN [at |-> end] ELSE NoBuild]

(* The round's rebuild comes to nothing, with its first half paid for and  *)
(* some of that, if any of the day, from the reserve.                      *)
Loses(b) ==
    lost' = IF b = "prefetch" /\ build[b].at \in {"categories", "built"} /\ dipped > 0
            THEN lost + 1 ELSE lost

(* Neither half looks at the reserve, the prefetch's own rebuild no more   *)
(* than a pilot's.                                                         *)
BuildCalls(b) ==
    /\ \E half \in {[at |-> "endpoints", calls |-> EndpointCalls, then |-> "categories"],
                    [at |-> "categories", calls |-> CategoryCalls, then |-> "built"]} :
          /\ Building(b, half.at)
          /\ \/ /\ spend(half.calls) /\ UNCHANGED lost
                /\ build' = [build EXCEPT ![b].at = half.then]
                /\ dipped' = IF b = "prefetch" THEN dipped + FromReserve(half.calls) ELSE dipped
             \/ Refused(half.calls) /\ BuildOver(b, "failed") /\ Loses(b) /\ UNCHANGED dipped
    /\ UNCHANGED <<age, reference, search, prefetching, passed>>

(* Delete and insert are one transaction.  Of the rows that overlapping    *)
(* rebuilds leave, readers take the newest (load_reference_cache).         *)
BuildStores(b) ==
    /\ Building(b, "built")
    /\ reference' = "today"
    /\ BuildOver(b, "done")
    /\ UNCHANGED <<calls, age, search, prefetching, takes, passed>>

ReferenceExpires ==
    /\ reference = "yesterday"
    /\ reference' = "expired"
    /\ UNCHANGED <<calls, age, build, search, prefetching, takes, passed>>

(***************************************************************************)
(* The prefetch.                                                           *)
(***************************************************************************)
NoFetch == [at |-> "idle"]
Fetching(f, at) == fetch[f] # NoFetch /\ fetch[f].at = at

OnlyStaleDue == {o \in Origins : ~Fresh(o)}     \* mutant: refreshes what has expired

Due == {o \in Origins : ~Cached(o) \/ age[o] >= RecentEnough}

RoundStarts ==
    /\ round = "sleeping" /\ sleep = 0
    /\ IF ReferenceFresh
       THEN round' = "looking" /\ UNCHANGED build
       ELSE round' = "building" /\ StartBuild("prefetch")
    /\ UNCHANGED <<calls, age, reference, search, sleep, due, stopped, fetch, takes, passed>>

RoundLooks ==
    /\ round = "looking" \/ Building("prefetch", "done")
    /\ build' = [build EXCEPT !["prefetch"] = NoBuild]
    /\ round' = "fetching" /\ due' = Due /\ stopped' = FALSE
    /\ UNCHANGED <<calls, age, reference, search, sleep, fetch, takes, passed>>

Sleeps == round' = "sleeping" /\ sleep' = Interval

EndsTheTask == round' = "ended" /\ UNCHANGED sleep     \* mutant: nothing catches the exception

CarriesOn == Sleeps

RoundFails ==
    /\ Building("prefetch", "failed")
    /\ build' = [build EXCEPT !["prefetch"] = NoBuild]
    /\ CarriesOn
    /\ passed' = passed \cup Origins
    /\ UNCHANGED <<calls, age, reference, search, due, stopped, fetch, takes>>

NeverStops == FALSE     \* mutant: the reserve is not looked at

AtReserve == remaining_today <= Reserve

(* A fetcher enters the semaphore with the next terminal.                  *)
FetchOne(f) ==
    /\ round = "fetching" /\ fetch[f] = NoFetch
    /\ \E o \in due :
          /\ due' = due \ {o}
          /\ IF stopped \/ AtReserve
             THEN stopped' = TRUE /\ passed' = passed \cup {o} /\ UNCHANGED fetch
             ELSE fetch' = [fetch EXCEPT ![f] = [at |-> "checked", key |-> o]] /\ UNCHANGED <<stopped, passed>>
    /\ UNCHANGED <<calls, age, reference, build, search, round, sleep, takes>>

(* With the calls used up meanwhile, a row of any age is the answer and    *)
(* the round goes on; with none, the refusal stops it.                     *)
FetchSpends(f) ==
    /\ Fetching(f, "checked")
    /\ \/ /\ spend(1)
          /\ fetch' = [fetch EXCEPT ![f].at = "asked"]
          /\ dipped' = dipped + FromReserve(1)
          /\ UNCHANGED <<stopped, passed>>
       \/ /\ Refused(1)
          /\ fetch' = [fetch EXCEPT ![f] = NoFetch]
          /\ stopped' = (stopped \/ ~Cached(fetch[f].key))
          /\ passed' = passed \cup {fetch[f].key}
          /\ UNCHANGED dipped
    /\ UNCHANGED <<age, reference, build, search, round, sleep, due, lost>>

FetchAnswered(f) ==
    /\ Fetching(f, "asked")
    /\ Stored(fetch[f].key)
    /\ fetch' = [fetch EXCEPT ![f] = NoFetch]
    /\ UNCHANGED <<calls, reference, build, search, round, sleep, due, stopped, takes>>

RoundEnds ==
    /\ round = "fetching" /\ due = {} /\ \A f \in Fetchers : fetch[f] = NoFetch
    /\ Sleeps /\ stopped' = FALSE
    /\ UNCHANGED <<calls, age, reference, build, search, due, fetch, takes, passed>>

(***************************************************************************)
(* UEX answers with a 5xx or not in time: what was spent is spent.         *)
(***************************************************************************)
SearchFails(s) ==
    /\ search[s] # NoSearch
    /\ search' = [search EXCEPT ![s] = NoSearch]
    /\ UNCHANGED <<age, build, fetch, passed, lost>>

BuildFails(b) ==
    /\ build[b].at \in {"categories", "built"}
    /\ BuildOver(b, "failed") /\ Loses(b)
    /\ UNCHANGED <<age, search, fetch, passed>>

FetchFails(f) ==
    /\ Fetching(f, "asked")
    /\ fetch' = [fetch EXCEPT ![f] = NoFetch]
    /\ passed' = passed \cup {fetch[f].key}
    /\ UNCHANGED <<age, build, search, lost>>

UexFails ==
    /\ "uex_down" \in Faults
    /\ \/ \E s \in Requests : SearchFails(s)
       \/ \E b \in Builders : BuildFails(b)
       \/ \E f \in Fetchers : FetchFails(f)
    /\ UNCHANGED <<calls, reference, round, sleep, due, stopped, dipped>>

(***************************************************************************)
(* The clocks and the world.                                               *)
(***************************************************************************)
Tick ==
    /\ round = "sleeping" /\ sleep > 0
    /\ \A s \in Requests : search[s] = NoSearch
    /\ \A b \in Builders : build[b] = NoBuild
    /\ sleep' = sleep - 1
    /\ age' = [k \in DOMAIN age |-> IF age[k] = OldestAge THEN age[k] ELSE age[k] + 1]
    /\ UNCHANGED <<calls, reference, build, search, round, due, stopped, fetch, takes, passed>>

NewDay ==
    /\ calls' = 0 /\ dipped' = 0 /\ lost' = 0
    /\ reference' = IF reference = "today" THEN "yesterday" ELSE reference
    /\ UNCHANGED <<age, build, search, prefetching, passed>>

(* A redeploy: what is in memory is gone, and a round starts right away.   *)
Restart ==
    /\ "restart" \in Faults
    /\ Loses("prefetch") /\ build' = [b \in Builders |-> NoBuild]
    /\ search' = [s \in Requests |-> NoSearch]
    /\ round' = "sleeping" /\ sleep' = 0 /\ due' = {} /\ stopped' = FALSE
    /\ fetch' = [f \in Fetchers |-> NoFetch]
    /\ UNCHANGED <<calls, age, reference, dipped, passed>>

-----------------------------------------------------------------------------
Init ==
    /\ calls = 0 /\ dipped = 0 /\ lost = 0 /\ passed = {}
    /\ age = [k \in {} |-> 0]
    /\ reference = None
    /\ build = [b \in Builders |-> NoBuild]
    /\ search = [s \in Requests |-> NoSearch]
    /\ round = "sleeping" /\ sleep = 0 /\ due = {} /\ stopped = FALSE
    /\ fetch = [f \in Fetchers |-> NoFetch]

Rebuild(b) == BuildCalls(b) \/ BuildStores(b)
Round == RoundStarts \/ RoundLooks \/ RoundFails \/ RoundEnds
Prefetch(f) == FetchOne(f) \/ FetchSpends(f) \/ FetchAnswered(f)

Asked == \E s \in Requests : Ask(s) \/ AskReference(s)

Next ==
    \/ Asked \/ Round
    \/ \E s \in Requests : Answered(s)
    \/ \E b \in Builders : Rebuild(b)
    \/ \E f \in Fetchers : Prefetch(f)
    \/ ReferenceExpires \/ Tick \/ NewDay \/ UexFails \/ Restart

(* Every await is under an HTTP timeout, the prefetch is one task in a     *)
(* loop, and clocks run.  Nobody has to search and nothing has to fail.    *)
Fairness ==
    /\ WF_vars(Round) /\ WF_vars(Tick) /\ WF_vars(NewDay)
    /\ \A s \in Requests : WF_vars(Answered(s))
    /\ \A b \in Builders : WF_vars(Rebuild(b))
    /\ \A f \in Fetchers : WF_vars(Prefetch(f))

Spec == Init /\ [][Next]_vars
FairSpec == Spec /\ Fairness
-----------------------------------------------------------------------------
TypeOK ==
    /\ calls \in 0 .. Cap
    /\ DOMAIN age \subseteq Origins /\ \A k \in DOMAIN age : age[k] \in 0 .. OldestAge
    /\ reference \in {None, "today", "yesterday", "expired"}
    /\ DOMAIN build = Builders /\ DOMAIN search = Requests /\ DOMAIN fetch = Fetchers
    /\ \A s \in Requests : search[s] # NoSearch => search[s].key \in Origins \cup {OtherKinds}
    /\ \A f \in Fetchers : fetch[f] # NoFetch => round = "fetching" /\ fetch[f].key \in Origins
    /\ round \in {"sleeping", "looking", "building", "fetching", "ended"}
    /\ sleep \in 0 .. Interval /\ due \subseteq Origins /\ passed \subseteq Origins
    /\ stopped \in BOOLEAN /\ dipped \in Nat /\ lost \in Nat

(***************************************************************************)
(* What the prefetch takes from the pilots' reserve in a day, over all its *)
(* rounds and restarts: a call for each fetcher at most, for what is left  *)
(* is read in one transaction and spent in another one; and the calls of   *)
(* one rebuild of the reference, which looks at no reserve, with once more *)
(* those of each rebuild that came to nothing.                             *)
(***************************************************************************)
RebuildCost == EndpointCalls + CategoryCalls

ReserveLeftToPilots ==
    dipped <= Cardinality(Fetchers) + RebuildCost * (lost + 1)

(* "stops once today's remaining calls drop to [the reserve], leaving      *)
(* those for pilots' own lookups" (uex_route_prefetch.py:9), but for the   *)
(* calls the fetchers were already allowed.                                *)
PrefetchStopsAtReserve == dipped <= Cardinality(Fetchers)

(* However restarts, the rounds' skipping of recent rows and the pilots'   *)
(* own fetches fall, a terminal that no round had to pass over is never    *)
(* older than an interval and what the round before took for recent.       *)
RoutesAgeIsBounded ==
    \A o \in Origins \ passed : Cached(o) => age[o] < Interval + RecentEnough

(* prefetch_forever survives whatever fails: once UEX answers, and nobody  *)
(* else spends its calls, each terminal's routes are fresh again and again.*)
RoutesComeBack ==
    <>[][~(Asked \/ UexFails \/ Restart)]_vars
        => \A o \in Origins : []<>Fresh(o)

(* "Keeps every trade terminal's routes cached, so best_route searches all *)
(* of them" (uex_route_prefetch.py:1), with a TTL that "outlive[s] one     *)
(* interval plus the run itself" (price_cache.py:21).                      *)
RoutesStayFresh ==
    \A o \in Origins \ passed : Cached(o) => Fresh(o)

(* "only a lookup with nothing cached at all gets a 503"                   *)
(* (docs/llm-gateway.md:421): of the reference.                            *)
CachedReferenceIsServed ==
    [][\A b \in Requests : BuildCalls(b) /\ Refused(EndpointCalls) /\ ~ReferenceFresh => reference = None]_vars
=============================================================================
