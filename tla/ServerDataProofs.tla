-------------------------- MODULE ServerDataProofs --------------------------
(***************************************************************************)
(* What the server fetches and keeps, for any terminals, requests,         *)
(* fetchers, prompts, releases, ships and lookups: what the prefetch takes *)
(* of the pilots' reserve and how old its routes get; the prompts are      *)
(* never lost or set back; the wiki's rows follow a patch of the game, and *)
(* a process asks for nothing twice.                                       *)
(***************************************************************************)
EXTENDS UexCaches, Prompts, WikiCache, FiniteSetTheorems, TLAPS

-----------------------------------------------------------------------------
(* The inductive invariant.                                                *)

Fetches == {NoFetch} \cup [at : {"checked", "asked"}, key : Origins]
Searches == {NoSearch} \cup [at : {"asked"}, key : Origins \cup {OtherKinds}]
Builds == [at : {"idle", "endpoints", "categories", "built", "done", "failed"}]

(* What the variables hold.  A rebuild of the prefetch is one of a round   *)
(* that waits for it, and fetchers fetch in a round.                       *)
Shape ==
    /\ calls \in 0 .. Cap /\ dipped \in Nat /\ lost \in Nat
    /\ DOMAIN age \subseteq Origins /\ \A k \in DOMAIN age : age[k] \in 0 .. OldestAge
    /\ reference \in {None, "today", "yesterday", "expired"}
    /\ build \in [Builders -> Builds] /\ search \in [Requests -> Searches]
    /\ fetch \in [Fetchers -> Fetches]
    /\ round \in {"sleeping", "looking", "building", "fetching"}
    /\ sleep \in 0 .. Interval /\ due \subseteq Origins /\ passed \subseteq Origins
    /\ stopped \in BOOLEAN
    /\ build["prefetch"] # NoBuild => round = "building"
    /\ \A f \in Fetchers : fetch[f] # NoFetch => round = "fetching"

(* What the round's rebuild has spent: the one in flight, or the one that  *)
(* left the reference of today.  A rebuild that began while there was one  *)
(* of today is not the prefetch's.                                         *)
PaidForRebuild ==
    IF Building("prefetch", "categories") THEN EndpointCalls
    ELSE IF \/ Building("prefetch", "built") \/ Building("prefetch", "done")
            \/ build["prefetch"] = NoBuild /\ reference = "today"
         THEN RebuildCost ELSE 0

DoneBeforeToday == Building("prefetch", "done") /\ reference # "today"

(* A fetcher that was told there is more than the reserve may spend a call *)
(* of it, once.  Nobody is told so after the first such call of the day.   *)
Told == {f \in Fetchers : Fetching(f, "checked")}
DipsAreOfTheTold ==
    /\ dipped + Cardinality(Told) <= Cardinality(Fetchers) + RebuildCost * lost + PaidForRebuild
    /\ dipped > 0 => AtReserve
    /\ DoneBeforeToday => dipped = 0

(* A route that was not passed over was recent when the round ended, and   *)
(* ages while the prefetch sleeps; in a round it waits to be fetched.      *)
AgesAreOfOneSleep ==
    \A o \in (Origins \ passed) \cap DOMAIN age :
        /\ age[o] < OldestAge
        /\ round = "sleeping" => age[o] + sleep < OldestAge
        /\ round = "fetching" => \/ age[o] < RecentEnough \/ o \in due
                                 \/ \E f \in Fetchers : fetch[f] # NoFetch /\ fetch[f].key = o

IInv == Shape /\ DipsAreOfTheTold /\ AgesAreOfOneSleep

-----------------------------------------------------------------------------
(* Lemmas.                                                                 *)

LEMMA Bounds ==
    /\ Cap \in Nat /\ Reserve \in Nat /\ EndpointCalls \in Nat /\ CategoryCalls \in Nat
    /\ RouteTTL \in Nat /\ RecentEnough \in Nat /\ Interval \in Nat
    /\ 0 < RecentEnough /\ RecentEnough < Interval /\ OldestAge = Interval + RecentEnough
BY BudgetAssumption, TimesAssumption DEF OldestAge

LEMMA ToldIsFinite ==
    /\ IsFiniteSet(Told) /\ Cardinality(Told) \in Nat /\ Cardinality(Fetchers) \in Nat
    /\ Cardinality(Told) <= Cardinality(Fetchers)
BY FetchersAssumption, FS_Subset, FS_CardinalityType DEF Told

(* Calls are only counted up within a day, so the reserve stays reached.   *)
LEMMA ReserveStaysReached ==
    ASSUME Shape, AtReserve, calls' \in Nat, calls <= calls'
    PROVE  AtReserve'
<1>1. calls \in Nat /\ Cap \in Nat /\ Reserve \in Nat
  BY Bounds DEF Shape
<1>2. \A m, n \in Nat : m <= n /\ (IF m < Cap THEN Cap - m ELSE 0) <= Reserve
                         => (IF n < Cap THEN Cap - n ELSE 0) <= Reserve
  BY <1>1
<1>. QED  BY <1>1, <1>2 DEF AtReserve, remaining_today

(* Of n calls, the reserve gives n at most, and then it is all that is     *)
(* left.                                                                   *)
LEMMA FromReserveIs ==
    ASSUME Shape, NEW n \in Nat
    PROVE  /\ FromReserve(n) \in Nat /\ FromReserve(n) <= n
           /\ calls' = calls + n /\ FromReserve(n) > 0 => AtReserve'
<1>1. calls \in Nat /\ Cap \in Nat /\ Reserve \in Nat
  BY Bounds DEF Shape
<1>. QED  BY <1>1 DEF FromReserve, AtReserve, remaining_today

LEMMA LosesAtMostOnce ==
    ASSUME Shape, NEW b \in Builders, Loses(b)
    PROVE  lost' \in Nat /\ (lost' = lost \/ lost' = lost + 1)
BY DEF Shape, Loses

LEMMA RebuildCostIs ==
    /\ RebuildCost \in Nat /\ EndpointCalls \in Nat /\ CategoryCalls \in Nat
    /\ RebuildCost = EndpointCalls + CategoryCalls
    /\ \A n \in Nat : RebuildCost * n \in Nat /\ RebuildCost * (n + 1) = RebuildCost * n + RebuildCost
BY Bounds DEF RebuildCost

-----------------------------------------------------------------------------
(* Each step keeps the shape.                                              *)

LEMMA SpendKeeps ==
    ASSUME Shape, NEW n \in Nat, spend(n)
    PROVE  calls' \in 0 .. Cap /\ calls <= calls'
BY Bounds DEF Shape, spend, Affordable

LEMMA StoredKeeps ==
    ASSUME Shape, NEW o \in Origins, Stored(o)
    PROVE  /\ DOMAIN age' = DOMAIN age \cup {o} /\ DOMAIN age' \subseteq Origins
           /\ \A k \in DOMAIN age' : age'[k] = IF k = o THEN 0 ELSE age[k]
           /\ \A k \in DOMAIN age' : age'[k] \in 0 .. OldestAge
           /\ passed' = passed \ {o}
BY Bounds DEF Shape, Stored

LEMMA AskedKeepsShape ==
    ASSUME Shape, NEW s \in Requests, Ask(s) \/ AskReference(s) \/ Answered(s)
    PROVE  Shape'
<1>1. CASE Ask(s)
  <2>1. calls' \in 0 .. Cap  BY <1>1, SpendKeeps DEF Ask
  <2>2. search' \in [Requests -> Searches]
    BY <1>1 DEF Ask, Shape, Searches
  <2>. QED  BY <1>1, <2>1, <2>2 DEF Ask, Shape, prefetching, takes
<1>2. CASE AskReference(s)
  <2>1. s \in Builders /\ s # "prefetch"
    BY NamesAssumption DEF Builders
  <2>2. build' \in [Builders -> Builds] /\ build'["prefetch"] = build["prefetch"]
    BY <1>2, <2>1 DEF AskReference, StartBuild, Shape, Builds, Builders
  <2>. QED  BY <1>2, <2>2 DEF AskReference, Shape, prefetching, takes
<1>3. CASE Answered(s)
  <2>1. search' \in [Requests -> Searches]
    BY <1>3 DEF Answered, Shape, Searches
  <2>2. CASE search[s].key \in Origins
    BY <1>3, <2>1, <2>2, StoredKeeps DEF Answered, Shape, prefetching, takes
  <2>3. CASE search[s].key \notin Origins
    BY <1>3, <2>1, <2>3 DEF Answered, Shape, prefetching, takes
  <2>. QED  BY <2>2, <2>3
<1>. QED  BY <1>1, <1>2, <1>3

LEMMA BuildOverKeeps ==
    ASSUME Shape, NEW b \in Builders, NEW end \in {"done", "failed"}, BuildOver(b, end),
           build[b] # NoBuild
    PROVE  /\ build' \in [Builders -> Builds]
           /\ build'["prefetch"] # NoBuild => build["prefetch"] # NoBuild
BY DEF Shape, BuildOver, Builds, NoBuild, Builders

LEMMA RebuildKeepsShape ==
    ASSUME Shape, NEW b \in Builders, Rebuild(b)
    PROVE  Shape'
<1>1. CASE BuildCalls(b)
  <2>1. PICK half \in {[at |-> "endpoints", calls |-> EndpointCalls, then |-> "categories"],
                       [at |-> "categories", calls |-> CategoryCalls, then |-> "built"]} :
          /\ Building(b, half.at)
          /\ \/ /\ spend(half.calls) /\ lost' = lost
                /\ build' = [build EXCEPT ![b].at = half.then]
                /\ dipped' = IF b = "prefetch" THEN dipped + FromReserve(half.calls) ELSE dipped
             \/ Refused(half.calls) /\ BuildOver(b, "failed") /\ Loses(b) /\ dipped' = dipped
    BY <1>1 DEF BuildCalls
  <2>2. half.calls \in Nat /\ half.then \in {"categories", "built"} /\ build[b] # NoBuild
    BY <2>1, Bounds DEF Building
  <2>3. /\ calls' \in 0 .. Cap /\ build' \in [Builders -> Builds]
        /\ build'["prefetch"] # NoBuild => build["prefetch"] # NoBuild
    <3>1. CASE spend(half.calls) /\ build' = [build EXCEPT ![b].at = half.then]
      <4>1. calls' \in 0 .. Cap  BY <3>1, <2>2, SpendKeeps
      <4>2. build' \in [Builders -> Builds]
        BY <3>1, <2>2 DEF Shape, Builds
      <4>3. build'["prefetch"] # NoBuild => build["prefetch"] # NoBuild
        BY <3>1, <2>2 DEF Shape, Builders
      <4>. QED  BY <4>1, <4>2, <4>3
    <3>2. CASE Refused(half.calls) /\ BuildOver(b, "failed")
      BY <3>2, <2>2, BuildOverKeeps DEF Refused, Shape
    <3>. QED  BY <2>1, <3>1, <3>2
  <2>4. dipped' \in Nat /\ lost' \in Nat
    BY <2>1, <2>2, FromReserveIs, LosesAtMostOnce DEF Shape
  <2>. QED  BY <1>1, <2>3, <2>4 DEF BuildCalls, Shape, prefetching
<1>2. CASE BuildStores(b)
  <2>1. build[b] # NoBuild /\ BuildOver(b, "done")  BY <1>2 DEF BuildStores, Building
  <2>2. /\ build' \in [Builders -> Builds]
        /\ build'["prefetch"] # NoBuild => build["prefetch"] # NoBuild
    BY <2>1, BuildOverKeeps
  <2>. QED  BY <1>2, <2>2 DEF BuildStores, Shape, prefetching, takes
<1>. QED  BY <1>1, <1>2 DEF Rebuild

LEMMA RoundKeepsShape ==
    ASSUME Shape, Round
    PROVE  Shape'
<1>0. "prefetch" \in Builders /\ NoBuild \in Builds  BY DEF Builders, NoBuild, Builds
<1>a. build["prefetch"] = NoBuild \/ \A f \in Fetchers : fetch[f] = NoFetch
  BY DEF Shape
<1>1. CASE RoundStarts
  <2>1. build' \in [Builders -> Builds] /\ (build'["prefetch"] # NoBuild => round' = "building")
    BY <1>0, <1>1 DEF RoundStarts, StartBuild, Shape, Builds
  <2>. QED  BY <1>1, <2>1 DEF RoundStarts, Shape, takes
<1>2. CASE RoundLooks
  BY <1>0, <1>2 DEF RoundLooks, Shape, Due, takes
<1>3. CASE RoundFails
  <2>1. \A f \in Fetchers : fetch[f] = NoFetch  BY <1>a, <1>3 DEF RoundFails, Building
  <2>2. build' \in [Builders -> Builds] /\ build'["prefetch"] = NoBuild
    BY <1>0, <1>3 DEF RoundFails, Shape
  <2>. QED  BY <1>3, <2>1, <2>2, Bounds DEF RoundFails, CarriesOn, Sleeps, Shape, takes
<1>4. CASE RoundEnds
  <2>1. stopped' \in BOOLEAN  BY <1>4 DEF RoundEnds
  <2>2. UNCHANGED <<calls, age, reference, build, search, due, fetch, takes, passed>>
        /\ round' = "sleeping" /\ sleep' \in 0 .. Interval
    BY <1>4, Bounds DEF RoundEnds, Sleeps
  <2>3. build["prefetch"] = NoBuild /\ \A f \in Fetchers : fetch[f] = NoFetch
    BY <1>4 DEF RoundEnds, Shape
  <2>. QED  BY <2>1, <2>2, <2>3 DEF Shape, takes
<1>. QED  BY <1>1, <1>2, <1>3, <1>4 DEF Round

LEMMA PrefetchKeepsShape ==
    ASSUME Shape, NEW f \in Fetchers, Prefetch(f)
    PROVE  Shape'
<1>1. CASE FetchOne(f)
  <2>1. fetch' \in [Fetchers -> Fetches]
    BY <1>1 DEF FetchOne, Shape, Fetches
  <2>. QED  BY <1>1, <2>1 DEF FetchOne, Shape, takes
<1>2. CASE FetchSpends(f)
  <2>1. fetch[f] # NoFetch /\ fetch[f] \in [at : {"checked", "asked"}, key : Origins]
        /\ round = "fetching"
    BY <1>2 DEF FetchSpends, Fetching, Shape, Fetches
  <2>2. fetch' \in [Fetchers -> Fetches]
    BY <1>2, <2>1 DEF FetchSpends, Shape, Fetches
  <2>3. calls' \in 0 .. Cap
    BY <1>2, SpendKeeps DEF FetchSpends, Refused, Shape
  <2>4. dipped' \in Nat /\ passed' \subseteq Origins /\ stopped' \in BOOLEAN
    <3>1. dipped' = dipped \/ dipped' = dipped + FromReserve(1)  BY <1>2 DEF FetchSpends
    <3>2. passed' = passed \/ passed' = passed \cup {fetch[f].key}  BY <1>2 DEF FetchSpends
    <3>3. stopped' = stopped \/ stopped' = (stopped \/ ~Cached(fetch[f].key))  BY <1>2 DEF FetchSpends
    <3>4. dipped' \in Nat /\ passed' \subseteq Origins  BY <2>1, <3>1, <3>2, FromReserveIs DEF Shape
    <3>5. stopped' \in BOOLEAN  BY <3>3, Zenon DEF Shape, Cached
    <3>. QED  BY <3>4, <3>5
  <2>. QED  BY <1>2, <2>1, <2>2, <2>3, <2>4 DEF FetchSpends, Shape
<1>3. CASE FetchAnswered(f)
  <2>1. fetch[f].key \in Origins /\ round = "fetching"
    BY <1>3 DEF FetchAnswered, Fetching, Shape, Fetches
  <2>2. fetch' \in [Fetchers -> Fetches]
    BY <1>3 DEF FetchAnswered, Shape, Fetches
  <2>. QED  BY <1>3, <2>1, <2>2, StoredKeeps DEF FetchAnswered, Shape, takes
<1>. QED  BY <1>1, <1>2, <1>3 DEF Prefetch

LEMMA WorldKeepsShape ==
    ASSUME Shape, ReferenceExpires \/ Tick \/ NewDay \/ UexFails \/ Restart
    PROVE  Shape'
<1>1. CASE ReferenceExpires
  BY <1>1 DEF ReferenceExpires, Shape, prefetching, takes
<1>2. CASE Tick
  BY <1>2, Bounds DEF Tick, Shape, takes
<1>3. CASE NewDay
  BY <1>3, Bounds DEF NewDay, Shape, prefetching
<1>4. CASE UexFails
  <2>1. CASE \E s \in Requests : SearchFails(s)
    <3>1. search' \in [Requests -> Searches]  BY <2>1 DEF SearchFails, Shape, Searches
    <3>. QED  BY <1>4, <2>1, <3>1 DEF UexFails, SearchFails, Shape
  <2>2. CASE \E b \in Builders : BuildFails(b)
    <3>1. PICK b \in Builders : BuildFails(b)  BY <2>2
    <3>2. build[b] # NoBuild /\ BuildOver(b, "failed")  BY <3>1 DEF BuildFails, NoBuild
    <3>. QED  BY <1>4, <3>1, <3>2, BuildOverKeeps, LosesAtMostOnce DEF UexFails, BuildFails, Shape
  <2>3. CASE \E f \in Fetchers : FetchFails(f)
    <3>1. PICK f \in Fetchers : FetchFails(f)  BY <2>3
    <3>2. fetch' \in [Fetchers -> Fetches] /\ passed' \subseteq Origins
      BY <3>1 DEF FetchFails, Fetching, Shape, Fetches
    <3>. QED  BY <1>4, <3>1, <3>2 DEF UexFails, FetchFails, Shape
  <2>. QED  BY <1>4, <2>1, <2>2, <2>3 DEF UexFails
<1>5. CASE Restart
  <2>1. build' \in [Builders -> Builds] /\ build'["prefetch"] = NoBuild
    BY <1>5 DEF Restart, Builders, Builds, NoBuild
  <2>2. search' \in [Requests -> Searches]  BY <1>5 DEF Restart, Searches
  <2>3. fetch' \in [Fetchers -> Fetches] /\ \A f \in Fetchers : fetch'[f] = NoFetch
    BY <1>5 DEF Restart, Fetches
  <2>4. /\ sleep' \in 0 .. Interval /\ due' \subseteq Origins /\ round' = "sleeping"
        /\ UNCHANGED <<calls, age, reference, dipped, passed>> /\ lost' \in Nat
    BY <1>5, Bounds, LosesAtMostOnce DEF Restart, Builders
  <2>5. stopped' \in BOOLEAN  BY <1>5 DEF Restart
  <2>. QED  BY <2>1, <2>2, <2>3, <2>4, <2>5 DEF Shape
<1>. QED  BY <1>1, <1>2, <1>3, <1>4, <1>5

LEMMA NextKeepsShape == Shape /\ [Next]_vars => Shape'
<1> SUFFICES ASSUME Shape, [Next]_vars PROVE Shape'
  OBVIOUS
<1>1. CASE Asked \/ \E s \in Requests : Answered(s)
  BY <1>1, AskedKeepsShape DEF Asked
<1>2. CASE \E b \in Builders : Rebuild(b)  BY <1>2, RebuildKeepsShape
<1>3. CASE Round  BY <1>3, RoundKeepsShape
<1>4. CASE \E f \in Fetchers : Prefetch(f)  BY <1>4, PrefetchKeepsShape
<1>5. CASE ReferenceExpires \/ Tick \/ NewDay \/ UexFails \/ Restart
  BY <1>5, WorldKeepsShape
<1>6. CASE UNCHANGED vars  BY <1>6 DEF vars, prefetching, takes, Shape
<1>. QED  BY <1>1, <1>2, <1>3, <1>4, <1>5, <1>6 DEF Next

-----------------------------------------------------------------------------
(* Each step keeps the bound on the dips.                                  *)

LEMMA PaidForRebuildIs ==
    PaidForRebuild \in Nat /\ PaidForRebuild' \in Nat
BY RebuildCostIs DEF PaidForRebuild

LEMMA FewerAreTold ==
    ASSUME Shape, Shape', DipsAreOfTheTold, dipped' = dipped, lost' = lost, calls <= calls',
           Told' \subseteq Told, PaidForRebuild <= PaidForRebuild', DoneBeforeToday' => DoneBeforeToday
    PROVE  DipsAreOfTheTold'
<1>1. Cardinality(Told') \in Nat /\ Cardinality(Told') <= Cardinality(Told)
  BY ToldIsFinite, FS_Subset, FS_CardinalityType
<1>2. dipped' > 0 => AtReserve'
  BY ReserveStaysReached DEF DipsAreOfTheTold, Shape
<1>3. DoneBeforeToday' => dipped' = 0
  BY DEF DipsAreOfTheTold
<1>4. RebuildCost * lost \in Nat /\ dipped \in Nat
  BY RebuildCostIs DEF Shape
<1>5. dipped' + Cardinality(Told') <= Cardinality(Fetchers) + RebuildCost * lost' + PaidForRebuild'
  <2>1. dipped + Cardinality(Told) <= Cardinality(Fetchers) + RebuildCost * lost + PaidForRebuild
    BY DEF DipsAreOfTheTold
  <2> HIDE DEF PaidForRebuild
  <2>. QED  BY <1>1, <1>4, <2>1, ToldIsFinite, PaidForRebuildIs
<1>. QED  BY <1>2, <1>3, <1>5 DEF DipsAreOfTheTold

(* Where the prefetch's rebuild and the reference stay, so does its bill.  *)
LEMMA SameBill ==
    ASSUME build'["prefetch"] = build["prefetch"], reference' \in {reference, "today"}
    PROVE  PaidForRebuild <= PaidForRebuild' /\ (DoneBeforeToday' => DoneBeforeToday)
BY RebuildCostIs DEF PaidForRebuild, DoneBeforeToday, Building, NoBuild

(* With nothing taken today, the told are no more than the fetchers.       *)
LEMMA NothingTaken ==
    ASSUME Shape', dipped' = 0
    PROVE  DipsAreOfTheTold'
<1>1. Cardinality(Told') \in Nat /\ Cardinality(Told') <= Cardinality(Fetchers)
  BY FetchersAssumption, FS_Subset, FS_CardinalityType DEF Told
<1>2. RebuildCost * lost' \in Nat
  BY RebuildCostIs DEF Shape
<1>. QED  BY <1>1, <1>2, ToldIsFinite, PaidForRebuildIs DEF DipsAreOfTheTold

(* Nobody fetches while the round waits for its rebuild.                   *)
LEMMA NobodyToldMeanwhile ==
    ASSUME Shape, build["prefetch"] # NoBuild
    PROVE  Told = {} /\ Cardinality(Told) = 0
<1>1. Told = {}
  BY DEF Shape, Told, Fetching
<1>. QED  BY <1>1, FS_EmptySet

(* A rebuild that comes to nothing leaves its bill to the next one.        *)
LEMMA LostBillIsCounted ==
    ASSUME Shape, Shape', DipsAreOfTheTold, Loses("prefetch"), calls' = calls, dipped' = dipped,
           Told' \subseteq Told, reference' = reference,
           \/ build'["prefetch"] = NoBuild /\ ~DoneBeforeToday
           \/ build'["prefetch"] = [at |-> "failed"] /\ build["prefetch"].at \notin {"idle", "done"}
    PROVE  DipsAreOfTheTold'
<1>1. CASE dipped = 0
  BY <1>1, NothingTaken
<1>2. CASE dipped > 0 /\ build["prefetch"].at \in {"categories", "built"}
  <2>1. lost' = lost + 1  BY <1>2 DEF Loses
  <2>2. Told = {} /\ Cardinality(Told) = 0 /\ Told' = {} /\ Cardinality(Told') = 0
    BY <1>2, NobodyToldMeanwhile, FS_EmptySet DEF NoBuild
  <2>3. dipped <= Cardinality(Fetchers) + RebuildCost * lost + RebuildCost
    <3>1. dipped + 0 <= Cardinality(Fetchers) + RebuildCost * lost + PaidForRebuild
      BY <2>2 DEF DipsAreOfTheTold
    <3>2. PaidForRebuild <= RebuildCost  BY RebuildCostIs DEF PaidForRebuild
    <3>3. RebuildCost * lost \in Nat /\ dipped \in Nat  BY RebuildCostIs DEF Shape
    <3>. QED  BY <3>1, <3>2, <3>3, ToldIsFinite, PaidForRebuildIs, RebuildCostIs
  <2>4. dipped' + Cardinality(Told') <= Cardinality(Fetchers) + RebuildCost * lost' + PaidForRebuild'
    <3>1. RebuildCost * lost' = RebuildCost * lost + RebuildCost /\ RebuildCost * lost \in Nat
          /\ dipped \in Nat
      BY <2>1, RebuildCostIs DEF Shape
    <3>. QED  BY <2>2, <2>3, <3>1, ToldIsFinite, PaidForRebuildIs, RebuildCostIs
  <2>5. AtReserve'  BY <1>2 DEF DipsAreOfTheTold, AtReserve, remaining_today
  <2>6. ~DoneBeforeToday'  BY DEF DoneBeforeToday, Building, NoBuild
  <2>. QED  BY <2>4, <2>5, <2>6 DEF DipsAreOfTheTold
<1>3. CASE build["prefetch"].at \notin {"categories", "built"}
  <2>1. lost' = lost  BY <1>3 DEF Loses
  <2>2. PaidForRebuild <= PaidForRebuild' /\ (DoneBeforeToday' => DoneBeforeToday)
    <3>1. CASE build'["prefetch"] = NoBuild /\ ~DoneBeforeToday
      BY <1>3, <3>1, RebuildCostIs DEF PaidForRebuild, DoneBeforeToday, Building, NoBuild
    <3>2. CASE build'["prefetch"] = [at |-> "failed"] /\ build["prefetch"].at \notin {"idle", "done"}
      BY <1>3, <3>2, RebuildCostIs DEF PaidForRebuild, DoneBeforeToday, Building, NoBuild
    <3>. QED  BY <3>1, <3>2
  <2>3. calls <= calls'  BY DEF Shape
  <2>. QED  BY <2>1, <2>2, <2>3, FewerAreTold
<1>. QED  BY <1>1, <1>2, <1>3 DEF Shape

LEMMA FetchOneKeepsDips ==
    ASSUME Shape, Shape', DipsAreOfTheTold, NEW f \in Fetchers, FetchOne(f)
    PROVE  DipsAreOfTheTold'
<1>1. dipped' = dipped /\ lost' = lost /\ calls' = calls /\ calls \in Nat
  BY DEF FetchOne, takes, Shape
<1>2. CASE fetch' = fetch
  <2>1. PaidForRebuild <= PaidForRebuild' /\ (DoneBeforeToday' => DoneBeforeToday)
    BY SameBill DEF FetchOne
  <2>2. Told' \subseteq Told  BY <1>2 DEF Told, Fetching
  <2>. QED  BY <1>1, <2>1, <2>2, FewerAreTold
<1>3. CASE ~AtReserve
  <2>1. dipped' = 0  BY <1>1, <1>3 DEF DipsAreOfTheTold, Shape
  <2>. QED  BY <2>1, NothingTaken
<1>. QED  BY <1>2, <1>3 DEF FetchOne

LEMMA FetchSpendsKeepsDips ==
    ASSUME Shape, Shape', DipsAreOfTheTold, NEW f \in Fetchers, FetchSpends(f)
    PROVE  DipsAreOfTheTold'
<1>1. f \in Told /\ fetch[f] # NoFetch /\ fetch[f] \in [at : {"checked", "asked"}, key : Origins]
  BY DEF FetchSpends, Fetching, Told, Shape, Fetches
<1>2. Told' = Told \ {f}
  BY <1>1 DEF FetchSpends, Told, Fetching, Shape, NoFetch
<1>3. Cardinality(Told') = Cardinality(Told) - 1
  BY <1>1, <1>2, ToldIsFinite, FS_RemoveElement
<1>4. lost' = lost /\ PaidForRebuild' = PaidForRebuild /\ ~DoneBeforeToday'
  <2>1. UNCHANGED <<lost, build, reference>>  BY DEF FetchSpends
  <2>2. build["prefetch"] = NoBuild  BY <1>1 DEF Shape
  <2>. QED  BY <2>1, <2>2 DEF PaidForRebuild, DoneBeforeToday, Building
<1>5. /\ dipped' \in Nat /\ dipped' <= dipped + 1
      /\ dipped' > 0 => AtReserve'
  <2>1. CASE Refused(1) /\ dipped' = dipped
    BY <2>1 DEF Refused, Shape, DipsAreOfTheTold, AtReserve, remaining_today
  <2>2. CASE spend(1) /\ dipped' = dipped + FromReserve(1)
    <3>1. FromReserve(1) \in Nat /\ FromReserve(1) <= 1 /\ (FromReserve(1) > 0 => AtReserve')
      BY <2>2, FromReserveIs DEF spend
    <3>2. dipped > 0 => AtReserve'
      BY <2>2, SpendKeeps, ReserveStaysReached DEF DipsAreOfTheTold
    <3>. QED  BY <2>2, <3>1, <3>2 DEF Shape
  <2>. QED  BY <2>1, <2>2 DEF FetchSpends
<1>6. dipped' + Cardinality(Told') <= Cardinality(Fetchers) + RebuildCost * lost' + PaidForRebuild'
  <2>1. dipped + Cardinality(Told) <= Cardinality(Fetchers) + RebuildCost * lost + PaidForRebuild
    BY DEF DipsAreOfTheTold
  <2>2. RebuildCost * lost \in Nat /\ dipped \in Nat  BY RebuildCostIs DEF Shape
  <2>. QED  BY <1>3, <1>4, <1>5, <2>1, <2>2, ToldIsFinite, PaidForRebuildIs
<1>. QED  BY <1>4, <1>5, <1>6 DEF DipsAreOfTheTold

(* The rebuild of the prefetch pays for its halves, and its bill with it.  *)
LEMMA BuildCallsKeepsDips ==
    ASSUME Shape, Shape', DipsAreOfTheTold, NEW b \in Builders, BuildCalls(b)
    PROVE  DipsAreOfTheTold'
<1>0. UNCHANGED <<age, reference, search, prefetching, passed>> /\ Told' = Told
  BY DEF BuildCalls, prefetching, Told, Fetching
<1>1. PICK half \in {[at |-> "endpoints", calls |-> EndpointCalls, then |-> "categories"],
                     [at |-> "categories", calls |-> CategoryCalls, then |-> "built"]} :
        /\ Building(b, half.at)
        /\ \/ /\ spend(half.calls) /\ lost' = lost
              /\ build' = [build EXCEPT ![b].at = half.then]
              /\ dipped' = IF b = "prefetch" THEN dipped + FromReserve(half.calls) ELSE dipped
           \/ Refused(half.calls) /\ BuildOver(b, "failed") /\ Loses(b) /\ dipped' = dipped
  BY DEF BuildCalls
<1>2. half.calls \in Nat  BY <1>1, Bounds
<1>3. CASE b # "prefetch"
  <2>1. build'["prefetch"] = build["prefetch"] /\ dipped' = dipped /\ lost' = lost
    BY <1>1, <1>3 DEF BuildOver, Loses, Shape, Builders
  <2>2. calls <= calls'
    BY <1>1, <1>2, SpendKeeps DEF Refused, Shape
  <2>3. PaidForRebuild <= PaidForRebuild' /\ (DoneBeforeToday' => DoneBeforeToday)
    BY <1>0, <2>1, SameBill
  <2>. QED  BY <1>0, <2>1, <2>2, <2>3, FewerAreTold
<1>4. CASE b = "prefetch" /\ Refused(half.calls) /\ BuildOver(b, "failed") /\ Loses(b) /\ dipped' = dipped
  <2>1. build'["prefetch"] = [at |-> "failed"]
    BY <1>4 DEF BuildOver, Shape
  <2>2. build["prefetch"].at \notin {"idle", "done"}
    BY <1>1, <1>4 DEF Building
  <2>. QED  BY <1>0, <1>4, <2>1, <2>2, LostBillIsCounted DEF Refused
<1>5. CASE /\ b = "prefetch" /\ spend(half.calls) /\ lost' = lost
           /\ build' = [build EXCEPT ![b].at = half.then]
           /\ dipped' = dipped + FromReserve(half.calls)
  <2>1. build["prefetch"] # NoBuild /\ build["prefetch"].at = half.at
    BY <1>1, <1>5 DEF Building
  <2>2. build'["prefetch"] # NoBuild /\ build'["prefetch"].at = half.then
    BY <1>1, <1>5, <2>1 DEF Shape, Builds, NoBuild
  <2>3. Told = {} /\ Told' = {} /\ Cardinality(Told) = 0 /\ Cardinality(Told') = 0
    BY <1>0, <2>1, NobodyToldMeanwhile
  <2>4. PaidForRebuild' = PaidForRebuild + half.calls
    BY <1>1, <2>1, <2>2, RebuildCostIs DEF PaidForRebuild, Building
  <2>5. FromReserve(half.calls) \in Nat /\ FromReserve(half.calls) <= half.calls
        /\ (FromReserve(half.calls) > 0 => AtReserve')
    BY <1>2, <1>5, FromReserveIs DEF spend
  <2>6. dipped > 0 => AtReserve'
    BY <1>2, <1>5, SpendKeeps, ReserveStaysReached DEF DipsAreOfTheTold
  <2>7. dipped' + Cardinality(Told') <= Cardinality(Fetchers) + RebuildCost * lost' + PaidForRebuild'
    <3>1. dipped + 0 <= Cardinality(Fetchers) + RebuildCost * lost + PaidForRebuild
      BY <2>3 DEF DipsAreOfTheTold
    <3>2. RebuildCost * lost \in Nat /\ dipped \in Nat  BY RebuildCostIs DEF Shape
    <3>. QED  BY <1>2, <1>5, <2>3, <2>4, <2>5, <3>1, <3>2, ToldIsFinite, PaidForRebuildIs
  <2>8. ~DoneBeforeToday'
    BY <1>1, <2>2 DEF DoneBeforeToday, Building
  <2>9. dipped' > 0 => AtReserve'
    BY <1>5, <2>5, <2>6 DEF Shape
  <2>. QED  BY <2>7, <2>8, <2>9 DEF DipsAreOfTheTold
<1>. QED  BY <1>1, <1>3, <1>4, <1>5

LEMMA BuildStoresKeepsDips ==
    ASSUME Shape, Shape', DipsAreOfTheTold, NEW b \in Builders, BuildStores(b)
    PROVE  DipsAreOfTheTold'
<1>1. /\ calls <= calls' /\ dipped' = dipped /\ lost' = lost /\ Told' = Told /\ reference' = "today"
  BY DEF BuildStores, prefetching, takes, Told, Fetching, Shape
<1>2. PaidForRebuild <= PaidForRebuild' /\ (DoneBeforeToday' => DoneBeforeToday)
  <2>1. CASE b = "prefetch"
    <3>1. build'["prefetch"] = [at |-> "done"] /\ build["prefetch"].at = "built"
      BY <2>1 DEF BuildStores, BuildOver, Building, Shape
    <3>2. PaidForRebuild' = RebuildCost
      BY <3>1 DEF PaidForRebuild, Building, NoBuild
    <3>3. PaidForRebuild <= RebuildCost  BY RebuildCostIs DEF PaidForRebuild
    <3>. QED  BY <1>1, <3>2, <3>3 DEF DoneBeforeToday
  <2>2. CASE b # "prefetch"
    <3>1. build'["prefetch"] = build["prefetch"]
      BY <2>2 DEF BuildStores, BuildOver, Shape, Builders
    <3>. QED  BY <1>1, <3>1, SameBill
  <2>. QED  BY <2>1, <2>2
<1>. QED  BY <1>1, <1>2, FewerAreTold

LEMMA RoundKeepsDips ==
    ASSUME Shape, Shape', DipsAreOfTheTold, Round
    PROVE  DipsAreOfTheTold'
<1>0. calls' = calls /\ dipped' = dipped /\ lost' = lost /\ Told' = Told /\ reference' = reference
  BY DEF Round, RoundStarts, RoundLooks, RoundFails, RoundEnds, takes, Told, Fetching
<1>a. calls <= calls' /\ "prefetch" \in Builders  BY <1>0 DEF Shape, Builders
<1>1. CASE RoundStarts
  <2>1. \/ build' = build
        \/ /\ ~ReferenceFresh /\ build["prefetch"] = NoBuild
           /\ build'["prefetch"] = [at |-> "endpoints"]
    BY <1>a, <1>1 DEF RoundStarts, StartBuild, Shape
  <2>2. PaidForRebuild <= PaidForRebuild' /\ (DoneBeforeToday' => DoneBeforeToday)
    BY <1>0, <2>1, RebuildCostIs DEF PaidForRebuild, DoneBeforeToday, Building, NoBuild, ReferenceFresh
  <2>. QED  BY <1>0, <1>a, <2>2, FewerAreTold
<1>2. CASE RoundLooks
  <2>1. build'["prefetch"] = NoBuild  BY <1>a, <1>2 DEF RoundLooks, Shape
  <2>2. build["prefetch"] = NoBuild \/ build["prefetch"].at = "done"
    BY <1>2 DEF RoundLooks, Building, Shape
  <2>3. CASE DoneBeforeToday
    BY <1>0, <2>3, NothingTaken DEF DipsAreOfTheTold
  <2>4. CASE ~DoneBeforeToday
    <3>1. PaidForRebuild <= PaidForRebuild' /\ (DoneBeforeToday' => DoneBeforeToday)
      BY <1>0, <2>1, <2>2, <2>4, RebuildCostIs DEF PaidForRebuild, DoneBeforeToday, Building, NoBuild
    <3>. QED  BY <1>0, <1>a, <3>1, FewerAreTold
  <2>. QED  BY <2>3, <2>4
<1>3. CASE RoundFails
  <2>1. build'["prefetch"] = NoBuild /\ build["prefetch"].at = "failed"
    BY <1>a, <1>3 DEF RoundFails, Building, Shape
  <2>2. PaidForRebuild <= PaidForRebuild' /\ (DoneBeforeToday' => DoneBeforeToday)
    BY <1>0, <2>1, RebuildCostIs DEF PaidForRebuild, DoneBeforeToday, Building, NoBuild
  <2>. QED  BY <1>0, <1>a, <2>2, FewerAreTold
<1>4. CASE RoundEnds
  <2>1. PaidForRebuild <= PaidForRebuild' /\ (DoneBeforeToday' => DoneBeforeToday)
    BY <1>0, <1>4, SameBill DEF RoundEnds
  <2>. QED  BY <1>0, <1>a, <2>1, FewerAreTold
<1>. QED  BY <1>1, <1>2, <1>3, <1>4 DEF Round

LEMMA WorldKeepsDips ==
    ASSUME Shape, Shape', DipsAreOfTheTold, ReferenceExpires \/ Tick \/ NewDay \/ UexFails \/ Restart
    PROVE  DipsAreOfTheTold'
<1>0. calls \in Nat /\ "prefetch" \in Builders  BY DEF Shape, Builders
<1>1. CASE ReferenceExpires \/ Tick
  <2>1. calls <= calls' /\ dipped' = dipped /\ lost' = lost /\ Told' = Told /\ build' = build
    BY <1>0, <1>1 DEF ReferenceExpires, Tick, prefetching, takes, Told, Fetching
  <2>2. \/ reference' = reference
        \/ reference = "yesterday" /\ reference' = "expired"
    BY <1>1 DEF ReferenceExpires, Tick
  <2>3. PaidForRebuild <= PaidForRebuild' /\ (DoneBeforeToday' => DoneBeforeToday)
    BY <2>1, <2>2, RebuildCostIs DEF PaidForRebuild, DoneBeforeToday, Building
  <2>. QED  BY <2>1, <2>3, FewerAreTold
<1>2. CASE NewDay
  BY <1>2, NothingTaken DEF NewDay
<1>3. CASE UexFails
  <2>0. calls' = calls /\ dipped' = dipped /\ reference' = reference  BY <1>3 DEF UexFails
  <2>1. CASE \/ \E s \in Requests : SearchFails(s)
             \/ \E f \in Fetchers : FetchFails(f)
    <3>1. lost' = lost /\ build' = build /\ Told' \subseteq Told
      BY <2>1 DEF SearchFails, FetchFails, Told, Fetching, Shape
    <3>2. PaidForRebuild <= PaidForRebuild' /\ (DoneBeforeToday' => DoneBeforeToday)
      BY <2>0, <3>1, SameBill
    <3>. QED  BY <1>0, <2>0, <3>1, <3>2, FewerAreTold
  <2>2. CASE \E b \in Builders : BuildFails(b)
    <3>1. PICK b \in Builders : BuildFails(b)  BY <2>2
    <3>2. Told' = Told /\ Loses(b) /\ BuildOver(b, "failed")
      BY <3>1 DEF BuildFails, Told, Fetching
    <3>3. CASE b = "prefetch"
      <4>1. build'["prefetch"] = [at |-> "failed"] /\ build["prefetch"].at \in {"categories", "built"}
            /\ build["prefetch"] # NoBuild
        BY <1>0, <3>1, <3>2, <3>3 DEF BuildFails, BuildOver, NoBuild, Shape
      <4>. QED  BY <2>0, <3>2, <3>3, <4>1, LostBillIsCounted
    <3>4. CASE b # "prefetch"
      <4>1. lost' = lost /\ build'["prefetch"] = build["prefetch"]
        BY <1>0, <3>2, <3>4 DEF Loses, BuildOver, Shape
      <4>2. PaidForRebuild <= PaidForRebuild' /\ (DoneBeforeToday' => DoneBeforeToday)
        BY <2>0, <4>1, SameBill
      <4>. QED  BY <1>0, <2>0, <3>2, <4>1, <4>2, FewerAreTold
    <3>. QED  BY <3>3, <3>4
  <2>. QED  BY <1>3, <2>1, <2>2 DEF UexFails
<1>4. CASE Restart
  <2>1. /\ calls' = calls /\ dipped' = dipped /\ reference' = reference /\ Told' = {}
        /\ Loses("prefetch") /\ build'["prefetch"] = NoBuild
    BY <1>0, <1>4 DEF Restart, Told, Fetching, NoFetch
  <2>2. CASE DoneBeforeToday
    BY <2>1, <2>2, NothingTaken DEF DipsAreOfTheTold
  <2>3. CASE ~DoneBeforeToday
    BY <2>1, <2>3, LostBillIsCounted
  <2>. QED  BY <2>2, <2>3
<1>. QED  BY <1>1, <1>2, <1>3, <1>4

LEMMA NextKeepsDips == Shape /\ DipsAreOfTheTold /\ [Next]_vars => DipsAreOfTheTold'
<1> SUFFICES ASSUME Shape, DipsAreOfTheTold, [Next]_vars PROVE DipsAreOfTheTold'
  OBVIOUS
<1>0. Shape' /\ calls \in Nat  BY NextKeepsShape DEF Shape
<1>1. CASE \E s \in Requests : Ask(s) \/ AskReference(s) \/ Answered(s)
  <2>1. /\ calls <= calls' /\ dipped' = dipped /\ lost' = lost /\ Told' = Told /\ reference' = reference
    BY <1>0, <1>1, SpendKeeps DEF Ask, AskReference, Answered, prefetching, takes, Told, Fetching
  <2>2. build'["prefetch"] = build["prefetch"]
    BY <1>1, NamesAssumption DEF Ask, AskReference, StartBuild, Answered, Shape, Builders
  <2>3. PaidForRebuild <= PaidForRebuild' /\ (DoneBeforeToday' => DoneBeforeToday)
    BY <2>1, <2>2, SameBill
  <2>. QED  BY <1>0, <2>1, <2>3, FewerAreTold
<1>2. CASE \E b \in Builders : Rebuild(b)
  BY <1>0, <1>2, BuildCallsKeepsDips, BuildStoresKeepsDips DEF Rebuild
<1>3. CASE Round  BY <1>0, <1>3, RoundKeepsDips
<1>4. CASE \E f \in Fetchers : FetchOne(f)  BY <1>0, <1>4, FetchOneKeepsDips
<1>5. CASE \E f \in Fetchers : FetchSpends(f)  BY <1>0, <1>5, FetchSpendsKeepsDips
<1>6. CASE \E f \in Fetchers : FetchAnswered(f)
  <2>1. /\ calls' = calls /\ dipped' = dipped /\ lost' = lost /\ Told' \subseteq Told
        /\ build' = build /\ reference' = reference
    BY <1>6 DEF FetchAnswered, takes, Told, Fetching, Shape
  <2>2. PaidForRebuild <= PaidForRebuild' /\ (DoneBeforeToday' => DoneBeforeToday)
    BY <2>1, SameBill
  <2>. QED  BY <1>0, <2>1, <2>2, FewerAreTold
<1>7. CASE ReferenceExpires \/ Tick \/ NewDay \/ UexFails \/ Restart
  BY <1>0, <1>7, WorldKeepsDips
<1>8. CASE UNCHANGED vars
  <2>1. /\ calls' = calls /\ dipped' = dipped /\ lost' = lost /\ Told' = Told
        /\ build' = build /\ reference' = reference
    BY <1>8 DEF vars, prefetching, takes, Told, Fetching
  <2>2. PaidForRebuild <= PaidForRebuild' /\ (DoneBeforeToday' => DoneBeforeToday)
    BY <2>1, SameBill
  <2>. QED  BY <1>0, <2>1, <2>2, FewerAreTold
<1>. QED
  BY <1>1, <1>2, <1>3, <1>4, <1>5, <1>6, <1>7, <1>8 DEF Next, Asked, Prefetch

-----------------------------------------------------------------------------
(* Each step keeps the bound on the ages.                                  *)

(* What gets older, or leaves a round, is what the lemmas below are about. *)
LEMMA AgesStay ==
    ASSUME Shape, AgesAreOfOneSleep, age' = age, passed \subseteq passed',
           \/ round' = round /\ sleep' = sleep
           \/ round' = "sleeping" /\ sleep' = 0
           \/ round' \in {"looking", "building"},
           \A o \in Origins \ passed' :
              /\ o \in due => o \in due'
              /\ \A f \in Fetchers : fetch[f] # NoFetch /\ fetch[f].key = o
                                       => fetch'[f] # NoFetch /\ fetch'[f].key = o
    PROVE  AgesAreOfOneSleep'
<1> SUFFICES ASSUME NEW o \in (Origins \ passed') \cap DOMAIN age
             PROVE  /\ age[o] < OldestAge
                    /\ round' = "sleeping" => age[o] + sleep' < OldestAge
                    /\ round' = "fetching" =>
                         \/ age[o] < RecentEnough \/ o \in due'
                         \/ \E f \in Fetchers : fetch'[f] # NoFetch /\ fetch'[f].key = o
  BY DEF AgesAreOfOneSleep
<1>1. o \in (Origins \ passed) \cap DOMAIN age /\ age[o] \in Nat  BY Bounds DEF Shape
<1>. QED  BY <1>1, Bounds DEF AgesAreOfOneSleep

LEMMA StoredKeepsAges ==
    ASSUME Shape, AgesAreOfOneSleep, NEW k \in Origins, Stored(k),
           UNCHANGED <<round, sleep, due>>,
           \A f \in Fetchers : fetch[f] # fetch'[f] => fetch[f] # NoFetch /\ fetch[f].key = k
    PROVE  AgesAreOfOneSleep'
<1>1. /\ DOMAIN age' = DOMAIN age \cup {k} /\ passed' = passed \ {k}
      /\ \A o \in DOMAIN age' : age'[o] = IF o = k THEN 0 ELSE age[o]
  BY StoredKeeps
<1> SUFFICES ASSUME NEW o \in (Origins \ passed') \cap DOMAIN age'
             PROVE  /\ age'[o] < OldestAge
                    /\ round = "sleeping" => age'[o] + sleep < OldestAge
                    /\ round = "fetching" =>
                         \/ age'[o] < RecentEnough \/ o \in due
                         \/ \E f \in Fetchers : fetch'[f] # NoFetch /\ fetch'[f].key = o
  BY DEF AgesAreOfOneSleep
<1>2. CASE o = k
  <2>1. age'[o] = 0 /\ sleep \in 0 .. Interval  BY <1>1, <1>2 DEF Shape
  <2>. QED  BY <2>1, Bounds
<1>3. CASE o # k
  <2>1. o \in (Origins \ passed) \cap DOMAIN age /\ age'[o] = age[o]  BY <1>1, <1>3
  <2>. QED  BY <1>3, <2>1 DEF AgesAreOfOneSleep
<1>. QED  BY <1>2, <1>3

LEMMA RoundKeepsAges ==
    ASSUME Shape, AgesAreOfOneSleep, Round
    PROVE  AgesAreOfOneSleep'
<1>1. CASE RoundStarts  BY <1>1, AgesStay DEF RoundStarts
<1>2. CASE RoundLooks
  <2>1. /\ round' = "fetching" /\ due' = Due /\ age' = age /\ passed' = passed
    BY <1>2 DEF RoundLooks
  <2>2. \A o \in (Origins \ passed) \cap DOMAIN age :
           age[o] < OldestAge /\ (age[o] < RecentEnough \/ o \in Due)
    BY Bounds DEF AgesAreOfOneSleep, Due, Shape, Cached
  <2>. QED  BY <2>1, <2>2 DEF AgesAreOfOneSleep
<1>3. CASE RoundFails
  <2>1. Origins \ passed' = {}  BY <1>3 DEF RoundFails
  <2>. QED  BY <2>1 DEF AgesAreOfOneSleep
<1>4. CASE RoundEnds
  <2>1. /\ round = "fetching" /\ due = {} /\ \A f \in Fetchers : fetch[f] = NoFetch
        /\ round' = "sleeping" /\ sleep' = Interval /\ age' = age /\ passed' = passed
    BY <1>4 DEF RoundEnds, Sleeps
  <2>2. \A o \in (Origins \ passed) \cap DOMAIN age :
           age[o] \in Nat /\ age[o] < RecentEnough
    BY <2>1, Bounds DEF AgesAreOfOneSleep, Shape
  <2>. QED  BY <2>1, <2>2, Bounds DEF AgesAreOfOneSleep
<1>. QED  BY <1>1, <1>2, <1>3, <1>4 DEF Round

LEMMA PrefetchKeepsAges ==
    ASSUME Shape, AgesAreOfOneSleep, NEW f \in Fetchers, Prefetch(f)
    PROVE  AgesAreOfOneSleep'
<1>1. CASE FetchOne(f)
  <2>1. PICK o \in due :
          /\ due' = due \ {o}
          /\ \/ passed' = passed \cup {o} /\ fetch' = fetch
             \/ passed' = passed /\ fetch' = [fetch EXCEPT ![f] = [at |-> "checked", key |-> o]]
    BY <1>1 DEF FetchOne
  <2>2. fetch[f] = NoFetch /\ UNCHANGED <<age, round, sleep>>  BY <1>1 DEF FetchOne
  <2>3. CASE passed' = passed \cup {o} /\ fetch' = fetch
    BY <2>1, <2>2, <2>3, AgesStay
  <2>4. CASE passed' = passed /\ fetch' = [fetch EXCEPT ![f] = [at |-> "checked", key |-> o]]
    <3>1. fetch'[f] # NoFetch /\ fetch'[f].key = o /\ \A g \in Fetchers \ {f} : fetch'[g] = fetch[g]
      BY <2>4 DEF Shape, NoFetch
    <3>2. \A k \in (Origins \ passed) \cap DOMAIN age :
             (\/ k \in due \/ \E g \in Fetchers : fetch[g] # NoFetch /\ fetch[g].key = k)
               => (\/ k \in due' \/ \E g \in Fetchers : fetch'[g] # NoFetch /\ fetch'[g].key = k)
      BY <2>1, <2>2, <3>1
    <3>. QED  BY <2>2, <2>4, <3>2 DEF AgesAreOfOneSleep
  <2>. QED  BY <2>1, <2>3, <2>4
<1>2. CASE FetchSpends(f)
  <2>1. fetch[f] # NoFetch /\ fetch[f] \in [at : {"checked", "asked"}, key : Origins]
    BY <1>2 DEF FetchSpends, Fetching, Shape, Fetches
  <2>2. UNCHANGED <<age, round, sleep, due>>  BY <1>2 DEF FetchSpends
  <2>3. CASE fetch' = [fetch EXCEPT ![f].at = "asked"] /\ passed' = passed
    <3>1. fetch'[f] # NoFetch /\ fetch'[f].key = fetch[f].key
          /\ \A g \in Fetchers \ {f} : fetch'[g] = fetch[g]
      BY <2>1, <2>3 DEF Shape, NoFetch
    <3>. QED  BY <2>2, <2>3, <3>1, AgesStay
  <2>4. CASE fetch' = [fetch EXCEPT ![f] = NoFetch] /\ passed' = passed \cup {fetch[f].key}
    <3>1. \A g \in Fetchers \ {f} : fetch'[g] = fetch[g]  BY <2>4 DEF Shape
    <3>. QED  BY <2>2, <2>4, <3>1, AgesStay
  <2>. QED  BY <1>2, <2>3, <2>4 DEF FetchSpends
<1>3. CASE FetchAnswered(f)
  <2>1. fetch[f] # NoFetch /\ fetch[f].key \in Origins
    BY <1>3 DEF FetchAnswered, Fetching, Shape, Fetches
  <2>2. \A g \in Fetchers \ {f} : fetch'[g] = fetch[g]  BY <1>3 DEF FetchAnswered, Shape
  <2>3. UNCHANGED <<round, sleep, due>> /\ Stored(fetch[f].key)  BY <1>3 DEF FetchAnswered
  <2>4. \A g \in Fetchers : fetch[g] # fetch'[g] => fetch[g] # NoFetch /\ fetch[g].key = fetch[f].key
    BY <2>1, <2>2
  <2>. QED  BY <2>1, <2>3, <2>4, StoredKeepsAges
<1>. QED  BY <1>1, <1>2, <1>3 DEF Prefetch

LEMMA TickKeepsAges ==
    ASSUME Shape, AgesAreOfOneSleep, Tick
    PROVE  AgesAreOfOneSleep'
<1>1. /\ round = "sleeping" /\ round' = "sleeping" /\ sleep' = sleep - 1 /\ sleep \in Nat /\ sleep > 0
      /\ passed' = passed /\ DOMAIN age' = DOMAIN age
      /\ \A o \in DOMAIN age : age'[o] = IF age[o] = OldestAge THEN age[o] ELSE age[o] + 1
  BY Bounds DEF Tick, Shape
<1>2. \A o \in (Origins \ passed) \cap DOMAIN age : age[o] \in Nat /\ age[o] + sleep < OldestAge
  BY <1>1, Bounds DEF AgesAreOfOneSleep, Shape
<1>3. \A o \in (Origins \ passed) \cap DOMAIN age :
         age'[o] < OldestAge /\ age'[o] + sleep' < OldestAge
  BY <1>1, <1>2, Bounds
<1>. QED  BY <1>1, <1>3 DEF AgesAreOfOneSleep

LEMMA NextKeepsAges == Shape /\ AgesAreOfOneSleep /\ [Next]_vars => AgesAreOfOneSleep'
<1> SUFFICES ASSUME Shape, AgesAreOfOneSleep, [Next]_vars PROVE AgesAreOfOneSleep'
  OBVIOUS
<1>1. CASE \/ \E s \in Requests : Ask(s) \/ AskReference(s)
           \/ \E b \in Builders : Rebuild(b)
           \/ ReferenceExpires \/ NewDay \/ UNCHANGED vars
  <2>1. UNCHANGED <<age, round, sleep, due, fetch, passed>>
    BY <1>1 DEF Ask, AskReference, Rebuild, BuildCalls, BuildStores, ReferenceExpires, NewDay,
                vars, prefetching
  <2>. QED  BY <2>1, AgesStay
<1>2. CASE \E s \in Requests : Answered(s)
  <2>1. PICK s \in Requests : Answered(s)  BY <1>2
  <2>2. UNCHANGED <<round, sleep, due, fetch>>  BY <2>1 DEF Answered, prefetching
  <2>3. CASE search[s].key \in Origins
    <3>1. Stored(search[s].key) /\ UNCHANGED <<round, sleep, due>>
      BY <2>1, <2>2, <2>3 DEF Answered
    <3>2. \A f \in Fetchers : fetch'[f] = fetch[f]  BY <2>2
    <3>. QED  BY <2>3, <3>1, <3>2, StoredKeepsAges
  <2>4. CASE search[s].key \notin Origins
    BY <2>1, <2>2, <2>4, AgesStay DEF Answered
  <2>. QED  BY <2>3, <2>4
<1>3. CASE Round  BY <1>3, RoundKeepsAges
<1>4. CASE \E f \in Fetchers : Prefetch(f)  BY <1>4, PrefetchKeepsAges
<1>5. CASE Tick  BY <1>5, TickKeepsAges
<1>6. CASE UexFails
  <2>1. CASE UNCHANGED <<age, fetch, passed>>
    BY <1>6, <2>1, AgesStay DEF UexFails
  <2>2. CASE \E f \in Fetchers : FetchFails(f)
    <3>1. PICK f \in Fetchers : FetchFails(f)  BY <2>2
    <3>2. passed' = passed \cup {fetch[f].key} /\ \A g \in Fetchers \ {f} : fetch'[g] = fetch[g]
      BY <3>1 DEF FetchFails, Shape
    <3>. QED  BY <1>6, <3>1, <3>2, AgesStay DEF UexFails, FetchFails
  <2>. QED  BY <1>6, <2>1, <2>2 DEF UexFails, SearchFails, BuildFails
<1>7. CASE Restart
  <2>1. /\ round' = "sleeping" /\ sleep' = 0 /\ age' = age /\ passed' = passed
    BY <1>7 DEF Restart
  <2>2. \A o \in (Origins \ passed) \cap DOMAIN age : age[o] \in Nat /\ age[o] < OldestAge
    BY Bounds DEF AgesAreOfOneSleep, Shape
  <2>. QED  BY <2>1, <2>2, Bounds DEF AgesAreOfOneSleep
<1>. QED  BY <1>1, <1>2, <1>3, <1>4, <1>5, <1>6, <1>7 DEF Next, Asked

-----------------------------------------------------------------------------
(* The theorems.                                                           *)

LEMMA InitIInv == Init => IInv
<1> SUFFICES ASSUME Init PROVE IInv
  OBVIOUS
<1>1. Shape
  <2>1. build \in [Builders -> Builds] /\ build["prefetch"] = NoBuild
    BY DEF Init, Builders, Builds, NoBuild
  <2>2. search \in [Requests -> Searches] /\ fetch \in [Fetchers -> Fetches]
    BY DEF Init, Searches, Fetches
  <2>3. \A f \in Fetchers : fetch[f] = NoFetch  BY DEF Init
  <2>4. /\ sleep \in 0 .. Interval /\ due \subseteq Origins /\ round = "sleeping"
        /\ calls \in 0 .. Cap /\ dipped \in Nat /\ lost \in Nat /\ passed \subseteq Origins
        /\ DOMAIN age = {} /\ reference = None
    BY Bounds DEF Init
  <2>5. stopped \in BOOLEAN  BY DEF Init
  <2>. QED  BY <2>1, <2>2, <2>3, <2>4, <2>5 DEF Shape
<1>2. DipsAreOfTheTold
  <2>1. Told = {} /\ Cardinality(Told) = 0  BY FS_EmptySet DEF Init, Told, Fetching
  <2>2. dipped = 0 /\ RebuildCost * lost \in Nat  BY RebuildCostIs DEF Init
  <2>. QED  BY <2>1, <2>2, ToldIsFinite, PaidForRebuildIs DEF DipsAreOfTheTold
<1>3. AgesAreOfOneSleep
  BY DEF Init, AgesAreOfOneSleep
<1>. QED  BY <1>1, <1>2, <1>3 DEF IInv

LEMMA Invariance == Spec => []IInv
<1>1. IInv /\ [Next]_vars => IInv'
  BY NextKeepsShape, NextKeepsDips, NextKeepsAges DEF IInv
<1>. QED  BY <1>1, InitIInv, PTL DEF Spec

(* The calls of the day never pass the cap after the margin, whoever       *)
(* spends them (uex_budget.spend), and every other variable of the caches  *)
(* stays within its type.                                                  *)
THEOREM TypeCorrect == Spec => []TypeOK
<1>1. IInv => TypeOK
  <2> SUFFICES ASSUME Shape PROVE TypeOK
    BY DEF IInv
  <2>1. \A s \in Requests : search[s] # NoSearch => search[s].key \in Origins \cup {OtherKinds}
    BY DEF Shape, Searches
  <2>2. \A f \in Fetchers : fetch[f] # NoFetch => round = "fetching" /\ fetch[f].key \in Origins
    BY DEF Shape, Fetches
  <2>. QED  BY <2>1, <2>2 DEF Shape, TypeOK
<1>. QED  BY <1>1, Invariance, PTL

(* What the prefetch takes from the pilots' reserve in a day: at most a    *)
(* call for each fetcher, since what is left is read in one transaction    *)
(* and spent in another one (fetch_one), and the calls of its rebuild of   *)
(* the reference, which looks at no reserve (prefetch_once:51), with once  *)
(* more those of each rebuild that came to nothing.  However pilots spend  *)
(* meanwhile and however often the server restarts.                        *)
THEOREM ReserveIsLeft == Spec => []ReserveLeftToPilots
<1>1. IInv => ReserveLeftToPilots
  <2> SUFFICES ASSUME Shape, DipsAreOfTheTold PROVE ReserveLeftToPilots
    BY DEF IInv
  <2>1. dipped + Cardinality(Told) <= Cardinality(Fetchers) + RebuildCost * lost + PaidForRebuild
    BY DEF DipsAreOfTheTold
  <2>2. PaidForRebuild <= RebuildCost  BY RebuildCostIs DEF PaidForRebuild
  <2>3. /\ RebuildCost * (lost + 1) = RebuildCost * lost + RebuildCost
        /\ RebuildCost * lost \in Nat /\ dipped \in Nat
    BY RebuildCostIs DEF Shape
  <2>4. dipped <= Cardinality(Fetchers) + RebuildCost * (lost + 1)
    BY <2>1, <2>2, <2>3, ToldIsFinite, PaidForRebuildIs, RebuildCostIs
  <2>. QED  BY <2>4 DEF ReserveLeftToPilots
<1>. QED  BY <1>1, Invariance, PTL

(* A route that no round had to pass over is younger than an interval and  *)
(* what counts as recent: the round that skips it does so because it is    *)
(* recent, and the next one comes an interval later (_recent_enough).      *)
THEOREM RoutesAreYoung == Spec => []RoutesAgeIsBounded
<1>1. IInv => RoutesAgeIsBounded
  BY Bounds DEF IInv, AgesAreOfOneSleep, RoutesAgeIsBounded, Cached
<1>. QED  BY <1>1, Invariance, PTL

-----------------------------------------------------------------------------
(* The prompts.                                                            *)

LoadedSoFar == {PROMPT_NAMES[i] : i \in 1 .. Len(PROMPT_NAMES) - Len(refreshing)}

(* What is still to be loaded is the end of the list; no text is of a      *)
(* later release than the Hub's; what has been pulled is as new as all     *)
(* that is loaded, for nothing else is loaded meanwhile; and the first     *)
(* refresh leaves nothing out.                                             *)
PromptsShape ==
    /\ hub \in 1 .. Releases /\ pulled \in 1 .. Nothing
    /\ messages = [n \in DOMAIN messages |-> messages[n]]
    /\ \A n \in DOMAIN messages : messages[n] \in 0 .. hub
    /\ refreshing \in Seq(ToSet(PROMPT_NAMES))
    /\ Len(refreshing) <= Len(PROMPT_NAMES)
    /\ \A i \in DOMAIN refreshing :
          refreshing[i] = PROMPT_NAMES[Len(PROMPT_NAMES) - Len(refreshing) + i]

PulledIsNew ==
    pulled # Nothing => /\ pulled <= hub /\ refreshing # <<>>
                        /\ \A n \in DOMAIN messages : messages[n] <= pulled

FirstIsWhole ==
    /\ DOMAIN messages \subseteq ToSet(PROMPT_NAMES)
    /\ serving = "starting" => LoadedSoFar \subseteq DOMAIN messages

PromptsInv == PromptsShape /\ PulledIsNew /\ FirstIsWhole /\ EveryPlaceholderExpands

NamesOfPrompts == ToSet(PROMPT_NAMES)

(* The first of what is still to be loaded is the prompt after the loaded. *)
LEMMA NextPrompt ==
    ASSUME PromptsShape, refreshing # <<>>
    PROVE  /\ Head(refreshing) \in NamesOfPrompts /\ Tail(refreshing) \in Seq(NamesOfPrompts)
           /\ Len(Tail(refreshing)) = Len(refreshing) - 1 /\ Len(refreshing) > 0
           /\ Head(refreshing) = PROMPT_NAMES[Len(PROMPT_NAMES) - Len(Tail(refreshing))]
           /\ \A i \in DOMAIN Tail(refreshing) :
                 Tail(refreshing)[i] = PROMPT_NAMES[Len(PROMPT_NAMES) - Len(Tail(refreshing)) + i]
<1>1. /\ refreshing \in Seq(NamesOfPrompts) /\ PROMPT_NAMES \in Seq(NamesOfPrompts)
      /\ \A i \in DOMAIN refreshing :
            refreshing[i] = PROMPT_NAMES[Len(PROMPT_NAMES) - Len(refreshing) + i]
    BY PromptNamesAssumption DEF PromptsShape, NamesOfPrompts
<1> DEFINE rest == refreshing
           names == NamesOfPrompts
<1>2. rest \in Seq(names) /\ rest # <<>>
    BY <1>1
<1>3. /\ Head(rest) \in names /\ Tail(rest) \in Seq(names) /\ Head(rest) = rest[1]
      /\ Len(Tail(rest)) = Len(rest) - 1 /\ Len(rest) > 0 /\ Len(rest) \in Nat
      /\ \A i \in 1 .. Len(rest) - 1 : Tail(rest)[i] = rest[i + 1]
      /\ DOMAIN rest = 1 .. Len(rest) /\ DOMAIN Tail(rest) = 1 .. Len(rest) - 1
    <2> HIDE DEF rest, names
    <2> QED BY <1>2
<1>4. Len(PROMPT_NAMES) \in Nat
    BY <1>1
<1> QED BY <1>1, <1>3, <1>4

(* What is loaded so far, when the next prompt is loaded too.              *)
LEMMA OneMoreLoaded ==
    ASSUME PromptsShape, refreshing # <<>>, refreshing' = Tail(refreshing)
    PROVE  LoadedSoFar' = LoadedSoFar \cup {Head(refreshing)}
<1> DEFINE all == Len(PROMPT_NAMES)
           left == Len(refreshing)
<1>1. all \in Nat /\ left \in Nat /\ left > 0 /\ left <= all
    BY NextPrompt, PromptNamesAssumption DEF PromptsShape
<1>2. /\ Len(refreshing') = left - 1
      /\ Head(refreshing) = PROMPT_NAMES[all - left + 1]
    BY NextPrompt, <1>1
<1>3. 1 .. all - Len(refreshing') = (1 .. all - left) \cup {all - left + 1}
    <2> HIDE DEF all, left
    <2> QED BY <1>1, <1>2
<1> QED BY <1>2, <1>3 DEF LoadedSoFar

LEMMA PromptsStart ==
    PromptsInit => PromptsInv
<1> SUFFICES ASSUME PromptsInit PROVE PromptsInv
    OBVIOUS
<1>1. /\ PROMPT_NAMES \in Seq(ToSet(PROMPT_NAMES)) /\ Len(PROMPT_NAMES) \in Nat
      /\ Releases \in Nat /\ Releases > 0
    BY PromptNamesAssumption, ReleasesAssumption
<1>2. DOMAIN PROMPT_NAMES = 1 .. Len(PROMPT_NAMES)
    BY <1>1
<1>3. DOMAIN messages = {}
    BY DEF PromptsInit
<1>4. PromptsShape
    <2>1. messages = [n \in DOMAIN messages |-> messages[n]]
        BY DEF PromptsInit
    <2>2. \A i \in DOMAIN refreshing :
             refreshing[i] = PROMPT_NAMES[Len(PROMPT_NAMES) - Len(refreshing) + i]
        BY <1>1, <1>2 DEF PromptsInit
    <2> QED BY <1>1, <1>3, <2>1, <2>2 DEF PromptsInit, PromptsShape, Nothing
<1>5. LoadedSoFar = {}
    BY <1>1 DEF PromptsInit, LoadedSoFar
<1> QED BY <1>3, <1>4, <1>5 DEF PromptsInv, PulledIsNew, FirstIsWhole, EveryPlaceholderExpands, PromptsInit

(* When nothing is left to be loaded, everything is loaded so far.         *)
LEMMA AllLoaded ==
    ASSUME refreshing = <<>>
    PROVE  LoadedSoFar = ToSet(PROMPT_NAMES)
<1>1. Len(PROMPT_NAMES) \in Nat /\ DOMAIN PROMPT_NAMES = 1 .. Len(PROMPT_NAMES)
    BY PromptNamesAssumption
<1>2. Len(refreshing) = 0
    OBVIOUS
<1> QED BY <1>1, <1>2 DEF LoadedSoFar, ToSet

LEMMA HubKeeps ==
    ASSUME PromptsInv, HubMoves \/ Pulls
    PROVE  PromptsInv'
<1>1. /\ UNCHANGED <<messages, refreshing, serving>>
      /\ hub' \in 1 .. Releases /\ hub' >= hub /\ hub \in 1 .. Releases
    BY ReleasesAssumption DEF HubMoves, Pulls, PromptsInv, PromptsShape
<1>2. pulled' \in 1 .. Nothing /\ Nothing' = Nothing /\ Nothing = Releases + 1
    BY ReleasesAssumption DEF HubMoves, Pulls, PromptsInv, PromptsShape, Nothing
<1>3. LoadedSoFar' = LoadedSoFar
    BY <1>1 DEF LoadedSoFar
<1>4. PromptsShape'
    <2>1. \A n \in DOMAIN messages' : messages'[n] \in 0 .. hub'
        BY <1>1 DEF PromptsInv, PromptsShape
    <2> QED BY <1>1, <1>2, <2>1 DEF PromptsInv, PromptsShape
<1>5. PulledIsNew'
    <2>1. CASE HubMoves
        BY <1>1, <1>2, <2>1 DEF HubMoves, PromptsInv, PulledIsNew
    <2>2. CASE Pulls
        BY <1>1, <1>2, <2>2 DEF Pulls, PromptsInv, PromptsShape, PulledIsNew
    <2> QED BY <2>1, <2>2
<1> QED BY <1>1, <1>3, <1>4, <1>5 DEF PromptsInv, FirstIsWhole, EveryPlaceholderExpands

(* Loading one prompt, whichever text it is given, so that no later one is *)
(* left waiting.                                                           *)
LEMMA LoadingKeeps ==
    ASSUME PromptsInv, refreshing # <<>>,
           refreshing' = Tail(refreshing), pulled' = Nothing, UNCHANGED <<hub, serving>>,
           \/ UNCHANGED messages /\ Loaded(Head(refreshing))
           \/ \E text \in 0 .. hub : Store(Head(refreshing), text)
    PROVE  PromptsInv'
<1> DEFINE name == Head(refreshing)
<1>1. name \in ToSet(PROMPT_NAMES)
    BY NextPrompt DEF PromptsInv, NamesOfPrompts
<1>2. /\ DOMAIN messages' = DOMAIN messages \cup {name}
      /\ messages' = [n \in DOMAIN messages' |-> messages'[n]]
      /\ \A n \in DOMAIN messages' : messages'[n] \in 0 .. hub
    <2>1. CASE UNCHANGED messages /\ Loaded(name)
        BY <2>1 DEF PromptsInv, PromptsShape, Loaded
    <2>2. CASE \E text \in 0 .. hub : Store(name, text)
        <3>1. PICK text \in 0 .. hub : Store(name, text)
            BY <2>2
        <3> HIDE DEF name
        <3> QED BY <3>1 DEF Store, PromptsInv, PromptsShape
    <2> QED BY <2>1, <2>2
<1>3. LoadedSoFar' = LoadedSoFar \cup {name}
    BY OneMoreLoaded DEF PromptsInv
<1>4. PromptsShape'
    <2>1. /\ refreshing' \in Seq(ToSet(PROMPT_NAMES)) /\ Len(refreshing') <= Len(PROMPT_NAMES)
          /\ \A i \in DOMAIN refreshing' :
                refreshing'[i] = PROMPT_NAMES[Len(PROMPT_NAMES) - Len(refreshing') + i]
        <3>1. /\ Tail(refreshing) \in Seq(NamesOfPrompts)
              /\ Len(Tail(refreshing)) = Len(refreshing) - 1
              /\ \A i \in DOMAIN Tail(refreshing) :
                    Tail(refreshing)[i] = PROMPT_NAMES[Len(PROMPT_NAMES) - Len(Tail(refreshing)) + i]
            BY NextPrompt DEF PromptsInv
        <3>2. Len(refreshing) \in Nat /\ Len(PROMPT_NAMES) \in Nat
            BY PromptNamesAssumption DEF PromptsInv, PromptsShape
        <3> QED BY <3>1, <3>2 DEF PromptsInv, PromptsShape, NamesOfPrompts
    <2>2. Nothing \in 1 .. Nothing
        BY ReleasesAssumption DEF Nothing
    <2> QED BY <1>2, <2>1, <2>2 DEF PromptsInv, PromptsShape
<1>5. FirstIsWhole'
    BY <1>1, <1>2, <1>3 DEF PromptsInv, FirstIsWhole
<1>6. EveryPlaceholderExpands'
    BY <1>1, <1>2 DEF PromptsInv, EveryPlaceholderExpands
<1> QED BY <1>4, <1>5, <1>6 DEF PromptsInv, PulledIsNew

LEMMA LoadsKeeps ==
    ASSUME PromptsInv, LoadsFromHub \/ WithoutHub
    PROVE  PromptsInv'
<1>1. CASE LoadsFromHub
    <2>1. refreshing # <<>> /\ pulled \in 0 .. hub
        BY <1>1 DEF LoadsFromHub, PromptsInv, PromptsShape, PulledIsNew
    <2> QED BY <1>1, <2>1, LoadingKeeps DEF LoadsFromHub
<1>2. CASE WithoutHub
    <2>1. 0 \in 0 .. hub
        BY ReleasesAssumption DEF PromptsInv, PromptsShape
    <2> QED BY <1>2, <2>1, LoadingKeeps DEF WithoutHub, Unanswered, Keeps, Snapshot
<1> QED BY <1>1, <1>2

LEMMA RefreshKeeps ==
    ASSUME PromptsInv, Raises \/ Serves \/ refresh_forever
    PROVE  PromptsInv'
<1>1. UNCHANGED <<hub, messages>> /\ pulled' \in 1 .. Nothing
    BY ReleasesAssumption DEF PromptsInv, PromptsShape, Raises, Serves, refresh_forever, Nothing
<1>2. refreshing' \in {<<>>, PROMPT_NAMES}
    BY DEF Raises, Serves, refresh_forever, FirstRefreshDone
<1>3. /\ PROMPT_NAMES \in Seq(ToSet(PROMPT_NAMES)) /\ Len(PROMPT_NAMES) \in Nat
      /\ DOMAIN PROMPT_NAMES = 1 .. Len(PROMPT_NAMES)
    BY PromptNamesAssumption
<1>4. PromptsShape'
    <2>1. CASE refreshing' = <<>>
        BY <1>1, <1>3, <2>1 DEF PromptsInv, PromptsShape
    <2>2. CASE refreshing' = PROMPT_NAMES
        <3>1. \A i \in DOMAIN refreshing' :
                 refreshing'[i] = PROMPT_NAMES[Len(PROMPT_NAMES) - Len(refreshing') + i]
            BY <1>3, <2>2
        <3> QED BY <1>1, <1>3, <2>2, <3>1 DEF PromptsInv, PromptsShape
    <2> QED BY <1>2, <2>1, <2>2
<1>5. PulledIsNew'
    BY <1>1 DEF PromptsInv, PulledIsNew, Raises, Serves, refresh_forever, FirstRefreshDone
<1>6. FirstIsWhole' /\ EveryPlaceholderExpands'
    <2>1. DOMAIN messages \subseteq ToSet(PROMPT_NAMES)
        BY DEF PromptsInv, FirstIsWhole
    <2>2. CASE Raises
        BY <1>1, <2>1, <2>2 DEF PromptsInv, FirstIsWhole, EveryPlaceholderExpands, Raises
    <2>3. CASE Serves
        <3>1. DOMAIN messages = ToSet(PROMPT_NAMES)
            BY <2>1, <2>3, AllLoaded DEF PromptsInv, FirstIsWhole, Serves, FirstRefreshDone
        <3> QED BY <1>1, <2>1, <2>3, <3>1 DEF FirstIsWhole, EveryPlaceholderExpands, Serves
    <2>4. CASE refresh_forever
        BY <1>1, <2>1, <2>4 DEF PromptsInv, FirstIsWhole, EveryPlaceholderExpands, refresh_forever
    <2> QED BY <2>2, <2>3, <2>4
<1> QED BY <1>4, <1>5, <1>6 DEF PromptsInv

(* The invariant of the prompts: what is left of a refresh is the end of   *)
(* its list, and what it has pulled and not stored yet is as new as all    *)
(* that is loaded (prompt_service.py's refresh is one task's).             *)
THEOREM PromptsInvariant == PromptsSpec => []PromptsInv
<1>1. PromptsInit => PromptsInv
    BY PromptsStart
<1>2. PromptsInv /\ [PromptsNext]_promptVars => PromptsInv'
    <2> SUFFICES ASSUME PromptsInv, [PromptsNext]_promptVars PROVE PromptsInv'
        OBVIOUS
    <2>1. CASE UNCHANGED promptVars
        BY <2>1 DEF promptVars, PromptsInv, PromptsShape, PulledIsNew, FirstIsWhole,
                    LoadedSoFar, EveryPlaceholderExpands
    <2> QED BY <2>1, HubKeeps, LoadsKeeps, RefreshKeeps DEF PromptsNext
<1> QED BY <1>1, <1>2, PTL DEF PromptsSpec

(* A request never carries a placeholder that the gateway cannot expand:   *)
(* the server comes up with every prompt or not at all (main.py's          *)
(* lifespan), and no later refresh takes one away.                         *)
THEOREM PlaceholdersExpand == PromptsSpec => []EveryPlaceholderExpands
<1>1. PromptsInv => EveryPlaceholderExpands
    BY DEF PromptsInv
<1> QED BY <1>1, PromptsInvariant, PTL

(* Whatever the Hub does while a text is on its way, and however often it  *)
(* does not answer, no prompt is lost and none is set back to an older     *)
(* text, of the Hub or of the snapshot (prompt_service.py's refresh).        *)
THEOREM PromptsNeverSetBack == PromptsSpec => PromptsStay
<1> DEFINE Stay == \A n \in DOMAIN messages : n \in DOMAIN messages' /\ messages'[n] >= messages[n]
<1>1. PromptsInv /\ [PromptsNext]_promptVars => [Stay]_messages
    <2> SUFFICES ASSUME PromptsInv, [PromptsNext]_promptVars, messages' # messages
                 PROVE  Stay
        OBVIOUS
    <2>1. \A n \in DOMAIN messages : messages[n] \in Nat
        BY ReleasesAssumption DEF PromptsInv, PromptsShape
    <2>2. CASE LoadsFromHub
        <3> DEFINE name == Head(refreshing)
        <3>1. Store(name, pulled) /\ pulled \in Nat
            BY <2>2, ReleasesAssumption DEF LoadsFromHub, PromptsInv, PromptsShape, Nothing
        <3>2. \A n \in DOMAIN messages : messages[n] <= pulled
            BY <2>2 DEF LoadsFromHub, PromptsInv, PulledIsNew
        <3> HIDE DEF name
        <3> QED BY <2>1, <3>1, <3>2 DEF Store
    <2>3. CASE WithoutHub
        <3> DEFINE name == Head(refreshing)
        <3>1. Store(name, Snapshot) /\ name \notin DOMAIN messages
            BY <2>3 DEF WithoutHub, Keeps, Loaded
        <3> HIDE DEF name
        <3> QED BY <2>1, <3>1 DEF Store, Snapshot
    <2> QED BY <2>2, <2>3 DEF PromptsNext, HubMoves, Pulls, Raises, Serves, refresh_forever, promptVars
<1> QED BY <1>1, PromptsInvariant, PTL DEF PromptsSpec, PromptsStay

-----------------------------------------------------------------------------
(* The rows of the wiki.                                                   *)

Storing(j) == Is(j, "storing")
Locks == {AtRest} \cup [at : Tasks]
Asking == {"asked", "fetching", "storing"}

(* What a lookup or the script is at.                                      *)
Jobs == [at : {"waiting", "asked", "fetching"}, key : Keys]
        \cup [at : {"storing"}, key : Keys, value : Values] \cup {AtRest}

(* What a process has been told.                                           *)
Known == UNION {[S -> Values] : S \in SUBSET Keys}

WikiShape ==
    /\ patch \in 0 .. CACHE_TTL + 2
    /\ row = [k \in DOMAIN row |-> row[k]] /\ DOMAIN row \subseteq Keys
    /\ \A k \in DOMAIN row : /\ row[k] \in [value : Values, age : 0 .. CACHE_TTL + 1]
    /\ l1 \in [Processes -> Known]
    /\ holds \in [Processes -> [{"SHIP_SPEED", "LOCATIONS"} -> Locks]]
    /\ job \in [Tasks \cup Keys -> Jobs]

(* An answer from before the patch is stored before a day is over, and a   *)
(* row from before it is as old as the patch, or not served.               *)
OldIsOfBefore ==
    /\ \A j \in Tasks \cup Keys : Storing(j) /\ job[j].value = "old" => patch <= 1
    /\ \A k \in DOMAIN row : row[k].value = "old" /\ Current(k) => row[k].age >= patch - 1

(* Who asks the server has the lock, and has found the cache without the   *)
(* key; nobody else can have put it there since.                           *)
AskersHoldLock ==
    \A t \in Tasks : job[t].at \in Asking => /\ Lock(t) = [at |-> t]
                                            /\ job[t].key \notin DOMAIN l1[Process[t]]

WikiInv == WikiShape /\ OldIsOfBefore /\ AskersHoldLock

LEMMA JobFields ==
    ASSUME NEW j \in Jobs
    PROVE  /\ j = AtRest \/ (/\ j.at \in {"waiting", "asked", "fetching", "storing"}
                           /\ j.key \in Keys)
           /\ j.at # "idle" => j.key \in Keys
           /\ j.at = "storing" => j.value \in Values
           /\ j.at = "idle" => j = AtRest
           /\ j.at = "waiting" => /\ [j EXCEPT !.at = "asked"] \in Jobs
                                  /\ [j EXCEPT !.at = "asked"].at = "asked"
                                  /\ [j EXCEPT !.at = "asked"].key = j.key
           /\ j.at = "asked" => /\ [j EXCEPT !.at = "fetching"] \in Jobs
                                /\ [j EXCEPT !.at = "fetching"].at = "fetching"
                                /\ [j EXCEPT !.at = "fetching"].key = j.key
BY DEF Jobs, AtRest

LEMMA JobsMade ==
    ASSUME NEW k \in Keys
    PROVE  /\ AtRest \in Jobs /\ AtRest.at = "idle"
           /\ [at |-> "waiting", key |-> k] \in Jobs /\ Scripted(k, "waiting") \in Jobs
           /\ Scripted(k, "fetching") \in Jobs /\ Scripted(k, "fetching").at = "fetching"
           /\ \A v \in Values : [at |-> "storing", key |-> k, value |-> v] \in Jobs
BY DEF Jobs, AtRest, Scripted

LEMMA PutKnown ==
    ASSUME NEW f \in Known, NEW k \in Keys, NEW v \in Values
    PROVE  Put(f, k, v) \in Known /\ DOMAIN Put(f, k, v) = DOMAIN f \cup {k}
<1>1. PICK S \in SUBSET Keys : f \in [S -> Values]
    BY DEF Known
<1>2. Put(f, k, v) \in [S \cup {k} -> Values]
    BY <1>1 DEF Put
<1>3. S \cup {k} \in SUBSET Keys
    OBVIOUS
<1>4. Put(f, k, v) \in Known
    BY <1>2, <1>3, Zenon DEF Known
<1>5. DOMAIN Put(f, k, v) = DOMAIN f \cup {k}
    BY DEF Put
<1> QED BY <1>4, <1>5

(* Two lookups of a process that ask ask for different kinds.              *)
LEMMA AskersDiffer ==
    ASSUME AskersHoldLock, NEW t \in Tasks, NEW u \in Tasks, t # u, Process[t] = Process[u],
           job[t].at \in Asking, job[u].at \in Asking
    PROVE  Kind(job[t].key) # Kind(job[u].key) /\ job[t].key # job[u].key
<1>1. Lock(t) = [at |-> t] /\ Lock(u) = [at |-> u]
    BY DEF AskersHoldLock
<1>2. [at |-> t] # [at |-> u]
    <2>1. [at |-> t].at = t /\ [at |-> u].at = u
        OBVIOUS
    <2> QED BY <2>1
<1> QED BY <1>1, <1>2 DEF Lock

LEMMA WikiStart ==
    WikiInit => WikiInv
<1> SUFFICES ASSUME WikiInit PROVE WikiInv
    OBVIOUS
<1>1. AtRest \in Jobs /\ AtRest.at = "idle" /\ AtRest \in Locks
    BY DEF Jobs, AtRest, Locks
<1>2. DOMAIN row = {} /\ row = [k \in DOMAIN row |-> row[k]]
    BY DEF WikiInit
<1>3. [k \in {} |-> NotFound] \in Known
    <2>1. [k \in {} |-> NotFound] \in [{} -> Values]
        OBVIOUS
    <2> QED BY <2>1 DEF Known
<1>4. l1 \in [Processes -> Known]
    <2> DEFINE empty == [k \in {} |-> NotFound]
    <2>1. l1 = [p \in Processes |-> empty] /\ empty \in Known
        BY <1>3 DEF WikiInit
    <2> HIDE DEF empty
    <2> QED BY <2>1
<1>5. holds \in [Processes -> [{"SHIP_SPEED", "LOCATIONS"} -> Locks]]
    BY <1>1 DEF WikiInit
<1>6. job \in [Tasks \cup Keys -> Jobs] /\ \A j \in Tasks \cup Keys : job[j].at = "idle"
    BY <1>1 DEF WikiInit
<1>7. WikiShape
    <2>1. patch \in 0 .. CACHE_TTL + 2
        BY TTLAssumption DEF WikiInit
    <2> QED BY <1>2, <1>4, <1>5, <1>6, <2>1 DEF WikiShape
<1> QED BY <1>2, <1>6, <1>7 DEF WikiInv, OldIsOfBefore, AskersHoldLock, Storing, Is, Current, Asking

(* A lookup t has gone to another state of its own, and nothing else has   *)
(* happened.                                                               *)
LEMMA MovesKeep ==
    ASSUME WikiInv, NEW t \in Tasks \cup Keys, NEW to \in Jobs, Becomes(t, to),
           UNCHANGED <<patch, row, l1, holds>>,
           to.at = "storing" /\ to.value = "old" => patch <= 1,
           t \in Tasks /\ to.at \in Asking =>
              /\ to.key = job[t].key /\ Lock(t) = [at |-> t]
              /\ job[t].key \notin DOMAIN l1[Process[t]]
    PROVE  WikiInv'
<1>1. /\ job' \in [Tasks \cup Keys -> Jobs] /\ job'[t] = to
      /\ \A u \in Tasks \cup Keys : u # t => job'[u] = job[u]
    BY DEF WikiInv, WikiShape, Becomes
<1>2. WikiShape'
    BY <1>1 DEF WikiInv, WikiShape
<1>3. OldIsOfBefore'
    BY <1>1 DEF WikiInv, OldIsOfBefore, Storing, Is, Current
<1>4. AskersHoldLock'
    BY <1>1 DEF WikiInv, AskersHoldLock, Lock, Asking
<1> QED BY <1>2, <1>3, <1>4 DEF WikiInv

LEMMA AsksKeeps ==
    ASSUME WikiInv, NEW t \in Tasks, NEW k \in Keys, Asks(t, k)
    PROVE  WikiInv'
<1> DEFINE to == [at |-> "waiting", key |-> k]
<1>1. to \in Jobs /\ to.at = "waiting"
    BY JobsMade
<1>2. Becomes(t, to) /\ UNCHANGED <<patch, row, l1, holds>>
    BY DEF Asks
<1> HIDE DEF to
<1> QED BY <1>1, <1>2, MovesKeep DEF Asking

LEMMA MissesKeeps ==
    ASSUME WikiInv, NEW t \in Tasks, MissesRow(t)
    PROVE  WikiInv'
<1> DEFINE to == [job[t] EXCEPT !.at = "fetching"]
<1>1. job[t] \in Jobs /\ job[t].at = "asked"
    BY DEF WikiInv, WikiShape, MissesRow, Is
<1>2. to \in Jobs /\ to.at = "fetching" /\ to.key = job[t].key
    BY <1>1, JobFields
<1>3. Becomes(t, to) /\ UNCHANGED <<patch, row, l1, holds>>
    BY DEF MissesRow
<1>4. Lock(t) = [at |-> t] /\ job[t].key \notin DOMAIN l1[Process[t]]
    BY <1>1 DEF WikiInv, AskersHoldLock, Asking
<1> HIDE DEF to
<1> QED BY <1>2, <1>3, <1>4, MovesKeep

LEMMA AnswersKeeps ==
    ASSUME WikiInv, NEW t \in Tasks \cup Keys, WikiAnswers(t)
    PROVE  WikiInv'
<1>1. job[t] \in Jobs /\ job[t].at = "fetching" /\ UNCHANGED <<patch, row, l1, holds>>
    BY DEF WikiInv, WikiShape, WikiAnswers, Is
<1>2. job[t].key \in Keys
    BY <1>1, JobFields
<1>3. PICK v \in {Data, NotFound} : Becomes(t, [at |-> "storing", key |-> job[t].key, value |-> v])
    BY DEF WikiAnswers
<1>4. v \in Values /\ (v = "old" => patch <= 1)
    <2>1. (v = "old" => patch = 0) /\ v \in Values
        BY <1>3 DEF Data, NotFound, Values
    <2> QED BY <2>1
<1> DEFINE to == [at |-> "storing", key |-> job[t].key, value |-> v]
<1>5. to \in Jobs /\ to.at = "storing" /\ to.value = v /\ to.key = job[t].key
    BY <1>2, <1>4, JobsMade
<1>6. t \in Tasks => Lock(t) = [at |-> t] /\ job[t].key \notin DOMAIN l1[Process[t]]
    BY <1>1 DEF WikiInv, AskersHoldLock, Asking
<1>7. Becomes(t, to)
    BY <1>3
<1> HIDE DEF to
<1> QED BY <1>1, <1>4, <1>5, <1>6, <1>7, MovesKeep

(* What the lock of one process and kind is given to changes no other.     *)
LEMMA LockGiven ==
    ASSUME WikiInv, NEW t \in Tasks, NEW owner \in Locks, Holds(t, owner)
    PROVE  /\ holds' \in [Processes -> [{"SHIP_SPEED", "LOCATIONS"} -> Locks]]
           /\ holds'[Process[t]][Kind(job[t].key)] = owner
           /\ \A p \in Processes, k \in Keys :
                 p # Process[t] \/ Kind(k) # Kind(job[t].key) => holds'[p][Kind(k)] = holds[p][Kind(k)]
<1>1. \A k : Kind(k) \in {"SHIP_SPEED", "LOCATIONS"}
    BY DEF Kind
<1>2. holds \in [Processes -> [{"SHIP_SPEED", "LOCATIONS"} -> Locks]] /\ Process[t] \in Processes
    BY DEF WikiInv, WikiShape, Processes
<1> QED BY <1>1, <1>2 DEF Holds

(* A lookup that has the lock is through with it, whether or not it has    *)
(* been told something.                                                    *)
LEMMA ThroughKeeps ==
    ASSUME WikiInv, NEW t \in Tasks, job[t].at \in Asking, UNCHANGED patch,
           GivesUpLock(t), Becomes(t, AtRest),
           \/ UNCHANGED l1
           \/ \E v \in Values : l1' = [l1 EXCEPT ![Process[t]] = Put(@, job[t].key, v)],
           /\ row' = [k \in DOMAIN row' |-> row'[k]] /\ DOMAIN row' \subseteq Keys
           /\ \A k \in DOMAIN row' : row'[k] \in [value : Values, age : 0 .. CACHE_TTL + 1]
           /\ \A k \in DOMAIN row' : row'[k].value = "old" /\ Current(k)' => row'[k].age >= patch - 1
    PROVE  WikiInv'
<1>1. /\ job[t].key \in Keys /\ AtRest \in Jobs /\ AtRest.at = "idle" /\ Process[t] \in Processes
      /\ \A u \in Tasks : Process[u] \in Processes
    <2>1. job[t] \in Jobs /\ job[t].at # "idle"
        BY DEF WikiInv, WikiShape, Asking
    <2>2. job[t].key \in Keys
        BY <2>1, JobFields
    <2> QED BY <2>2, JobsMade DEF Processes
<1>2. /\ job' \in [Tasks \cup Keys -> Jobs] /\ job'[t] = AtRest
      /\ \A u \in Tasks \cup Keys : u # t => job'[u] = job[u]
    BY <1>1 DEF WikiInv, WikiShape, Becomes
<1>3. Holds(t, AtRest) /\ AtRest \in Locks
    BY DEF GivesUpLock, Locks
<1>4. /\ l1' \in [Processes -> Known]
      /\ \A p \in Processes : DOMAIN l1'[p] \subseteq
            IF p = Process[t] THEN DOMAIN l1[p] \cup {job[t].key} ELSE DOMAIN l1[p]
    <2>1. l1 \in [Processes -> Known]
        BY DEF WikiInv, WikiShape
    <2>2. CASE UNCHANGED l1
        BY <2>1, <2>2
    <2>3. CASE \E v \in Values : l1' = [l1 EXCEPT ![Process[t]] = Put(@, job[t].key, v)]
        <3>1. PICK v \in Values : l1' = [l1 EXCEPT ![Process[t]] = Put(@, job[t].key, v)]
            BY <2>3
        <3> DEFINE learnt == Put(l1[Process[t]], job[t].key, v)
        <3>2. learnt \in Known /\ DOMAIN learnt = DOMAIN l1[Process[t]] \cup {job[t].key}
            BY <1>1, <2>1, PutKnown
        <3>3. l1' = [l1 EXCEPT ![Process[t]] = learnt]
            BY <3>1
        <3> HIDE DEF learnt
        <3> QED BY <1>1, <2>1, <3>2, <3>3
    <2> QED BY <2>2, <2>3
<1>5. WikiShape'
    BY <1>2, <1>3, <1>4, LockGiven DEF WikiInv, WikiShape
<1>6. OldIsOfBefore'
    BY <1>1, <1>2 DEF WikiInv, OldIsOfBefore, Storing, Is
<1>7. AskersHoldLock'
    <2> SUFFICES ASSUME NEW u \in Tasks, job'[u].at \in Asking
                 PROVE  /\ holds'[Process[u]][Kind(job'[u].key)] = [at |-> u]
                        /\ job'[u].key \notin DOMAIN l1'[Process[u]]
        BY DEF AskersHoldLock, Lock, Asking
    <2>1. u # t /\ job'[u] = job[u]
        BY <1>1, <1>2 DEF Asking
    <2>2. /\ holds[Process[u]][Kind(job[u].key)] = [at |-> u] /\ job[u].key \in Keys
          /\ job[u].key \notin DOMAIN l1[Process[u]]
        <3>1. job[u] \in Jobs /\ job[u].at \in Asking /\ job[u].at # "idle"
            BY <2>1 DEF WikiInv, WikiShape, Asking
        <3>2. job[u].key \in Keys
            BY <3>1, JobFields
        <3> QED BY <3>1, <3>2 DEF WikiInv, AskersHoldLock, Lock, Asking
    <2>3. Process[u] = Process[t] => Kind(job[u].key) # Kind(job[t].key) /\ job[u].key # job[t].key
        BY <2>1, AskersDiffer DEF WikiInv
    <2>4. holds'[Process[u]][Kind(job[u].key)] = [at |-> u]
        BY <1>1, <1>3, <2>2, <2>3, LockGiven
    <2> QED BY <1>1, <1>4, <2>1, <2>2, <2>3, <2>4
<1> QED BY <1>5, <1>6, <1>7 DEF WikiInv

LEMMA FailsKeeps ==
    ASSUME WikiInv, NEW t \in Tasks, Fails(t)
    PROVE  WikiInv'
<1>1. /\ job[t].at \in Asking /\ UNCHANGED <<patch, row, l1>>
      /\ GivesUpLock(t) /\ Becomes(t, AtRest)
    BY DEF Fails, Is, Asking
<1>2. /\ row = [k \in DOMAIN row |-> row[k]] /\ DOMAIN row \subseteq Keys
      /\ \A k \in DOMAIN row : row[k] \in [value : Values, age : 0 .. CACHE_TTL + 1]
      /\ \A k \in DOMAIN row : row[k].value = "old" /\ Current(k) => row[k].age >= patch - 1
    BY DEF WikiInv, WikiShape, OldIsOfBefore
<1> QED BY <1>1, <1>2, ThroughKeeps DEF Current

LEMMA ServesRowKeeps ==
    ASSUME WikiInv, NEW t \in Tasks, ServesRow(t)
    PROVE  WikiInv'
<1> DEFINE v == row[job[t].key].value
<1>1. /\ job[t].at \in Asking /\ UNCHANGED <<patch, row>>
      /\ GivesUpLock(t) /\ Becomes(t, AtRest)
      /\ l1' = [l1 EXCEPT ![Process[t]] = Put(@, job[t].key, v)]
    BY DEF ServesRow, Learns, Read, Is, Asking
<1>2. /\ row = [k \in DOMAIN row |-> row[k]] /\ DOMAIN row \subseteq Keys
      /\ \A k \in DOMAIN row : row[k] \in [value : Values, age : 0 .. CACHE_TTL + 1]
      /\ \A k \in DOMAIN row : row[k].value = "old" /\ Current(k) => row[k].age >= patch - 1
    BY DEF WikiInv, WikiShape, OldIsOfBefore
<1>3. v \in Values
    BY <1>2 DEF ServesRow, Current
<1> HIDE DEF v
<1> QED BY <1>1, <1>2, <1>3, ThroughKeeps DEF Current

(* A row that is stored is of today: one from before the patch was fetched *)
(* no more than a day before.                                              *)
LEMMA RowStored ==
    ASSUME WikiInv, NEW j \in Tasks \cup Keys, job[j].at = "storing", UNCHANGED patch,
           row' = Put(row, job[j].key, [value |-> job[j].value, age |-> 0])
    PROVE  /\ job[j].key \in Keys /\ job[j].value \in Values
           /\ row' = [k \in DOMAIN row' |-> row'[k]] /\ DOMAIN row' \subseteq Keys
           /\ \A k \in DOMAIN row' : row'[k] \in [value : Values, age : 0 .. CACHE_TTL + 1]
           /\ \A k \in DOMAIN row' : row'[k].value = "old" /\ Current(k)' => row'[k].age >= patch - 1
<1> DEFINE key == job[j].key
           new == [value |-> job[j].value, age |-> 0]
<1>1. key \in Keys /\ job[j].value \in Values
    <2>1. job[j] \in Jobs /\ job[j].at # "idle"
        BY DEF WikiInv, WikiShape
    <2> QED BY <2>1, JobFields
<1>2. /\ new \in [value : Values, age : 0 .. CACHE_TTL + 1]
      /\ new.value = job[j].value /\ new.age = 0
    <2>1. 0 \in 0 .. CACHE_TTL + 1
        BY TTLAssumption
    <2> QED BY <1>1, <2>1, Zenon
<1>3. job[j].value = "old" => patch <= 1
    BY DEF WikiInv, OldIsOfBefore, Storing, Is
<1>4. /\ row = [k \in DOMAIN row |-> row[k]] /\ DOMAIN row \subseteq Keys
      /\ \A k \in DOMAIN row : row[k] \in [value : Values, age : 0 .. CACHE_TTL + 1]
      /\ \A k \in DOMAIN row : row[k].value = "old" /\ Current(k) => row[k].age >= patch - 1
      /\ patch \in Int
    BY TTLAssumption DEF WikiInv, WikiShape, OldIsOfBefore
<1>5. row' = Put(row, key, new)
    OBVIOUS
<1>6. key \in Keys
    BY <1>1
<1>7. new.value = "old" => patch <= 1
    BY <1>2, <1>3
<1>11. job[j].key \in Keys /\ job[j].value \in Values
    BY <1>1
<1> HIDE DEF key, new
<1>8. /\ DOMAIN row' = DOMAIN row \cup {key} /\ row' = [k \in DOMAIN row' |-> row'[k]]
      /\ row'[key] = new /\ \A k \in DOMAIN row : k # key => row'[k] = row[k]
    BY <1>5 DEF Put
<1>9. \A k \in DOMAIN row' : row'[k].value = "old" /\ Current(k)' => row'[k].age >= patch - 1
    <2> SUFFICES ASSUME NEW k \in DOMAIN row', row'[k].value = "old", Current(k)'
                 PROVE  row'[k].age >= patch - 1
        OBVIOUS
    <2>1. CASE k = key
        BY <1>2, <1>4, <1>7, <1>8, <2>1
    <2>2. CASE k # key
        <3>1. k \in DOMAIN row /\ row'[k] = row[k]
            BY <1>8, <2>2
        <3>2. Current(k)
            BY <3>1 DEF Current
        <3> QED BY <1>4, <3>1, <3>2
    <2> QED BY <2>1, <2>2
<1>10. /\ DOMAIN row' \subseteq Keys
       /\ \A k \in DOMAIN row' : row'[k] \in [value : Values, age : 0 .. CACHE_TTL + 1]
    <2> DEFINE Rows == [value : Values, age : 0 .. CACHE_TTL + 1]
    <2>1. new \in Rows /\ \A k \in DOMAIN row : row[k] \in Rows
        BY <1>2, <1>4
    <2> HIDE DEF Rows
    <2>2. \A k \in DOMAIN row' : row'[k] \in Rows
        BY <1>8, <2>1
    <2>3. DOMAIN row' \subseteq Keys
        BY <1>4, <1>6, <1>8
    <2> QED BY <2>2, <2>3 DEF Rows
<1> QED BY <1>8, <1>9, <1>10, <1>11

LEMMA StoresKeeps ==
    ASSUME WikiInv, NEW j \in Tasks \cup Keys, _store_payload(j)
    PROVE  WikiInv'
<1>1. /\ job[j].at = "storing" /\ job[j].at \in Asking /\ UNCHANGED patch
      /\ row' = Put(row, job[j].key, [value |-> job[j].value, age |-> 0])
    BY DEF _store_payload, Is, Asking
<1>2. /\ job[j].key \in Keys /\ job[j].value \in Values
      /\ row' = [k \in DOMAIN row' |-> row'[k]] /\ DOMAIN row' \subseteq Keys
      /\ \A k \in DOMAIN row' : row'[k] \in [value : Values, age : 0 .. CACHE_TTL + 1]
      /\ \A k \in DOMAIN row' : row'[k].value = "old" /\ Current(k)' => row'[k].age >= patch - 1
    BY <1>1, RowStored
<1>3. CASE j \in Tasks /\ Learns(j, job[j].value)
    <2>1. GivesUpLock(j) /\ Becomes(j, AtRest)
        BY <1>3 DEF Learns
    <2>2. \E v \in Values : l1' = [l1 EXCEPT ![Process[j]] = Put(@, job[j].key, v)]
        BY <1>2, <1>3 DEF Learns
    <2> QED BY <1>1, <1>2, <1>3, <2>1, <2>2, ThroughKeeps
<1>4. CASE j \in Keys /\ Becomes(j, AtRest) /\ UNCHANGED <<l1, holds>>
    <2>1. /\ AtRest \in Jobs /\ AtRest.at = "idle" /\ j \notin Tasks
        BY <1>2, <1>4, JobsMade, TasksAssumption
    <2>2. /\ job' \in [Tasks \cup Keys -> Jobs] /\ job'[j] = AtRest
          /\ \A u \in Tasks \cup Keys : u # j => job'[u] = job[u]
        BY <1>4, <2>1 DEF WikiInv, WikiShape, Becomes
    <2>3. WikiShape'
        BY <1>1, <1>2, <1>4, <2>2 DEF WikiInv, WikiShape
    <2>4. OldIsOfBefore'
        BY <1>1, <1>2, <2>1, <2>2 DEF WikiInv, OldIsOfBefore, Storing, Is
    <2>5. AskersHoldLock'
        BY <1>4, <2>1, <2>2 DEF WikiInv, AskersHoldLock, Lock, Asking
    <2> QED BY <2>3, <2>4, <2>5 DEF WikiInv
<1> QED BY <1>3, <1>4 DEF _store_payload

(* The lock is free: whoever takes it is the only one who asks for its     *)
(* kind.                                                                   *)
LEMMA TakesLockKeeps ==
    ASSUME WikiInv, NEW t \in Tasks, TakesLock(t)
    PROVE  WikiInv'
<1>1. /\ job[t] \in Jobs /\ job[t].at = "waiting" /\ Lock(t) = AtRest
      /\ UNCHANGED <<patch, row, l1>>
    BY DEF WikiInv, WikiShape, TakesLock, Is
<1>2. job[t].key \in Keys
    BY <1>1, JobFields
<1>3. CASE IsThereNow(t) /\ Becomes(t, AtRest) /\ UNCHANGED holds
    <2>1. AtRest \in Jobs /\ AtRest.at = "idle"
        BY <1>2, JobsMade
    <2> QED BY <1>1, <1>3, <2>1, MovesKeep DEF Asking
<1>4. CASE ~IsThereNow(t) /\ Holds(t, [at |-> t]) /\ Becomes(t, [job[t] EXCEPT !.at = "asked"])
    <2> DEFINE to == [job[t] EXCEPT !.at = "asked"]
    <2>1. to \in Jobs /\ to.at = "asked" /\ to.key = job[t].key
        BY <1>1, JobFields
    <2>2. Becomes(t, to)
        BY <1>4
    <2> HIDE DEF to
    <2>3. /\ job' \in [Tasks \cup Keys -> Jobs] /\ job'[t] = to
          /\ \A u \in Tasks \cup Keys : u # t => job'[u] = job[u]
        BY <2>1, <2>2 DEF WikiInv, WikiShape, Becomes
    <2>4. [at |-> t] \in Locks /\ Holds(t, [at |-> t])
        BY <1>4 DEF Locks
    <2>5. WikiShape'
        BY <1>1, <2>3, <2>4, LockGiven DEF WikiInv, WikiShape
    <2>6. OldIsOfBefore'
        BY <1>1, <2>1, <2>3 DEF WikiInv, OldIsOfBefore, Storing, Is, Current
    <2>7. AskersHoldLock'
        <3> SUFFICES ASSUME NEW u \in Tasks, job'[u].at \in Asking
                     PROVE  /\ holds'[Process[u]][Kind(job'[u].key)] = [at |-> u]
                            /\ job'[u].key \notin DOMAIN l1'[Process[u]]
            BY DEF AskersHoldLock, Lock, Asking
        <3>1. CASE u = t
            BY <1>1, <1>4, <2>1, <2>3, <2>4, <3>1, LockGiven DEF IsThereNow
        <3>2. CASE u # t
            <4>1. /\ job'[u] = job[u] /\ job[u] \in Jobs /\ job[u].at # "idle" /\ job[u].at \in Asking
                BY <2>3, <3>2 DEF WikiInv, WikiShape, Asking
            <4>2. job[u].key \in Keys
                BY <4>1, JobFields
            <4>3. /\ holds[Process[u]][Kind(job[u].key)] = [at |-> u]
                  /\ job[u].key \notin DOMAIN l1[Process[u]]
                BY <4>1 DEF WikiInv, AskersHoldLock, Lock
            <4>4. [at |-> u] # AtRest
                <5>1. [at |-> u].at = u /\ AtRest.at = "idle"
                    BY DEF AtRest
                <5> QED BY <5>1, TasksAssumption
            <4>5. Process[u] # Process[t] \/ Kind(job[u].key) # Kind(job[t].key)
                BY <1>1, <4>3, <4>4 DEF Lock
            <4> DEFINE owner == [at |-> t]
            <4>6. owner \in Locks /\ Holds(t, owner)
                BY <2>4
            <4> HIDE DEF owner
            <4>7. holds'[Process[u]][Kind(job[u].key)] = holds[Process[u]][Kind(job[u].key)]
                <5>1. Process[u] \in Processes
                    BY DEF Processes
                <5> QED BY <4>2, <4>5, <4>6, <5>1, LockGiven
            <4> QED BY <1>1, <4>1, <4>3, <4>7
        <3> QED BY <3>1, <3>2
    <2> QED BY <2>5, <2>6, <2>7 DEF WikiInv
<1> QED BY <1>3, <1>4 DEF TakesLock

(* The script goes from key to key, and touches no lookup.                 *)
LEMMA ScriptMoves ==
    ASSUME WikiInv, UNCHANGED <<patch, row, l1, holds>>, job' \in [Tasks \cup Keys -> Jobs],
           \A t \in Tasks : job'[t] = job[t],
           \A k \in Keys : job'[k] = job[k] \/ job'[k].at # "storing"
    PROVE  WikiInv'
<1>1. WikiShape'
    BY DEF WikiInv, WikiShape
<1>2. OldIsOfBefore'
    BY DEF WikiInv, OldIsOfBefore, Storing, Is, Current
<1>3. AskersHoldLock'
    BY DEF WikiInv, AskersHoldLock, Lock, Asking
<1> QED BY <1>1, <1>2, <1>3 DEF WikiInv

LEMMA ScriptKeeps ==
    ASSUME WikiInv, RefreshesShips \/ RefreshesLocations \/ ScriptFails
    PROVE  WikiInv'
<1>1. /\ job \in [Tasks \cup Keys -> Jobs] /\ DOMAIN job = Tasks \cup Keys
      /\ LOCATIONS \in Keys /\ Ships \subseteq Keys /\ \A t \in Tasks : t \notin Keys
    BY TasksAssumption DEF WikiInv, WikiShape, Keys
<1>2. /\ AtRest \in Jobs /\ AtRest.at # "storing"
      /\ \A k \in Keys : /\ Scripted(k, "waiting") \in Jobs /\ Scripted(k, "waiting").at # "storing"
                         /\ Scripted(k, "fetching") \in Jobs /\ Scripted(k, "fetching").at # "storing"
    <2>1. LOCATIONS \in Keys
        BY <1>1 DEF Keys
    <2>2. \A k \in Keys : Scripted(k, "waiting").at = "waiting" /\ Scripted(k, "fetching").at = "fetching"
        BY DEF Scripted
    <2> QED BY <2>1, <2>2, JobsMade
<1>3. UNCHANGED <<patch, row, l1, holds>>
    BY DEF RefreshesShips, RefreshesLocations, ScriptFails
<1>4. CASE RefreshesShips
    <2>1. job' = [j \in Tasks \cup Keys |->
                    CASE j = LOCATIONS               -> Scripted(j, "waiting")
                      [] j \in Ships \cap DOMAIN row -> Scripted(j, "fetching")
                      [] OTHER                       -> job[j]]
        BY <1>1, <1>4 DEF RefreshesShips
    <2>2. LOCATIONS \notin Tasks /\ \A t \in Tasks : t \notin Ships
        BY <1>1
    <2>3. /\ \A t \in Tasks : job'[t] = job[t]
          /\ \A k \in Keys : \/ job'[k] = job[k]
                             \/ job'[k] = Scripted(k, "waiting")
                             \/ job'[k] = Scripted(k, "fetching")
        <3>1. \A t \in Tasks : job'[t] = job[t]
            BY <2>1, <2>2, Zenon
        <3>2. \A k \in Keys : k # LOCATIONS /\ k \notin Ships \cap DOMAIN row => job'[k] = job[k]
            BY <2>1
        <3>3. \A k \in Keys : k = LOCATIONS => job'[k] = Scripted(k, "waiting")
            BY <2>1, KeysAssumption
        <3>4. \A k \in Keys : k # LOCATIONS /\ k \in Ships \cap DOMAIN row
                                 => job'[k] = Scripted(k, "fetching")
            BY <2>1, Zenon
        <3> QED BY <3>1, <3>2, <3>3, <3>4
    <2>4. \A j \in Tasks \cup Keys : job'[j] \in Jobs
        BY <1>1, <1>2, <2>3
    <2>5. job' \in [Tasks \cup Keys -> Jobs]
        <3>1. DOMAIN job' = Tasks \cup Keys /\ job' = [j \in DOMAIN job' |-> job'[j]]
            BY <2>1
        <3> QED BY <2>4, <3>1
    <2> QED BY <1>2, <1>3, <2>3, <2>5, ScriptMoves
<1>5. CASE RefreshesLocations
    <2> DEFINE to == Scripted(LOCATIONS, "fetching")
    <2>1. job' = [job EXCEPT ![LOCATIONS] = to] /\ to \in Jobs /\ to.at # "storing"
        BY <1>1, <1>2, <1>5 DEF RefreshesLocations, Becomes
    <2> HIDE DEF to
    <2> QED BY <1>1, <1>3, <2>1, ScriptMoves
<1>6. CASE ScriptFails
    <2>1. job' = [j \in Tasks \cup Keys |-> IF j \in Keys THEN AtRest ELSE job[j]]
        BY <1>1, <1>6 DEF ScriptFails
    <2> QED BY <1>1, <1>2, <1>3, <2>1, ScriptMoves
<1> QED BY <1>4, <1>5, <1>6

(* A day later nobody has an answer from the day before in hand.           *)
LEMMA DayKeeps ==
    ASSUME WikiInv, Day
    PROVE  WikiInv'
<1> DEFINE NextPatch == IF patch = 0 \/ patch > CACHE_TTL + 1 THEN patch ELSE patch + 1
<1>1. /\ patch' = NextPatch /\ UNCHANGED <<l1, holds, job>>
      /\ patch \in 0 .. CACHE_TTL + 2 /\ CACHE_TTL \in Nat
    BY TTLAssumption DEF Day, WikiInv, WikiShape
<1>2. \A j \in Tasks \cup Keys : ~Storing(j)
    BY DEF WikiInv, WikiShape, Day, Storing, Is
<1>3. /\ DOMAIN row' = DOMAIN row /\ DOMAIN row \subseteq Keys
      /\ row' = [k \in DOMAIN row' |-> row'[k]]
      /\ \A k \in DOMAIN row : row'[k] = IF Current(k) THEN [row[k] EXCEPT !.age = @ + 1] ELSE row[k]
    BY DEF Day, WikiInv, WikiShape
<1>4. \A k \in DOMAIN row :
         /\ row'[k] \in [value : Values, age : 0 .. CACHE_TTL + 1]
         /\ row'[k].value = row[k].value
         /\ IF Current(k) THEN row'[k].age = row[k].age + 1 ELSE row'[k] = row[k]
    <2> SUFFICES ASSUME NEW k \in DOMAIN row
                 PROVE  /\ row'[k] \in [value : Values, age : 0 .. CACHE_TTL + 1]
                        /\ row'[k].value = row[k].value
                        /\ IF Current(k) THEN row'[k].age = row[k].age + 1 ELSE row'[k] = row[k]
        OBVIOUS
    <2>1. row[k] \in [value : Values, age : 0 .. CACHE_TTL + 1]
        BY DEF WikiInv, WikiShape
    <2>2. CASE Current(k)
        <3>1. row[k].age + 1 \in 0 .. CACHE_TTL + 1
            BY <1>1, <2>1, <2>2 DEF Current
        <3>2. row'[k] = [row[k] EXCEPT !.age = row[k].age + 1]
            BY <1>3, <2>2
        <3> DEFINE older == row[k].age + 1
                   Ages  == 0 .. CACHE_TTL + 1
        <3>3. /\ older \in Ages /\ row[k] \in [value : Values, age : Ages]
              /\ row'[k] = [row[k] EXCEPT !.age = older]
            BY <2>1, <3>1, <3>2
        <3> HIDE DEF older, Ages
        <3>4. /\ row'[k] \in [value : Values, age : Ages]
              /\ row'[k].value = row[k].value /\ row'[k].age = older
            BY <3>3
        <3> QED BY <2>2, <3>4 DEF older, Ages
    <2>3. CASE ~Current(k)
        BY <1>3, <2>1, <2>3
    <2> QED BY <2>2, <2>3
<1>5. NextPatch \in 0 .. CACHE_TTL + 2 /\ NextPatch <= patch + 1
    BY <1>1
<1> HIDE DEF NextPatch
<1>6. WikiShape'
    BY <1>1, <1>3, <1>4, <1>5 DEF WikiInv, WikiShape
<1>7. OldIsOfBefore'
    <2>1. \A k \in DOMAIN row' : row'[k].value = "old" /\ Current(k)' => row'[k].age >= patch' - 1
        <3> SUFFICES ASSUME NEW k \in DOMAIN row', row'[k].value = "old", Current(k)'
                     PROVE  row'[k].age >= patch' - 1
            OBVIOUS
        <3>1. k \in DOMAIN row /\ row[k].value = "old" /\ row[k].age \in Int /\ patch \in Int
            BY <1>1, <1>3, <1>4 DEF WikiInv, WikiShape
        <3>2. Current(k)
            BY <1>4, <3>1 DEF Current
        <3>3. row[k].age >= patch - 1 /\ row'[k].age = row[k].age + 1
            BY <1>4, <3>1, <3>2 DEF WikiInv, OldIsOfBefore
        <3> QED BY <1>1, <1>5, <3>1, <3>3
    <2>2. \A j \in Tasks \cup Keys : ~Storing(j)'
        BY <1>1, <1>2 DEF Storing, Is
    <2> QED BY <2>1, <2>2 DEF OldIsOfBefore
<1>8. AskersHoldLock'
    BY <1>1 DEF WikiInv, AskersHoldLock, Lock, Asking
<1> QED BY <1>6, <1>7, <1>8 DEF WikiInv

LEMMA PatchesKeeps ==
    ASSUME WikiInv, Patches
    PROVE  WikiInv'
<1>1. patch' = 1 /\ UNCHANGED <<row, l1, holds, job>>
    BY DEF Patches
<1>2. WikiShape'
    <2>1. 1 \in 0 .. CACHE_TTL + 2
        BY TTLAssumption
    <2> QED BY <1>1, <2>1 DEF WikiInv, WikiShape
<1>3. OldIsOfBefore'
    <2>1. \A k \in DOMAIN row : row[k].age >= 0
        BY TTLAssumption DEF WikiInv, WikiShape
    <2> QED BY <1>1, <2>1 DEF WikiInv, OldIsOfBefore, Storing, Is, Current
<1>4. AskersHoldLock'
    BY <1>1 DEF WikiInv, AskersHoldLock, Lock, Asking
<1> QED BY <1>2, <1>3, <1>4 DEF WikiInv

LEMMA RestartsKeeps ==
    ASSUME WikiInv, NEW p \in Processes, Restarts(p)
    PROVE  WikiInv'
<1> DEFINE empty == [k \in {} |-> NotFound]
<1>1. empty \in Known
    <2>1. empty \in [{} -> Values]
        OBVIOUS
    <2> HIDE DEF empty
    <2> QED BY <2>1 DEF Known
<1>2. l1' = [l1 EXCEPT ![p] = empty] /\ UNCHANGED <<patch, row, holds, job>>
    BY DEF Restarts
<1> HIDE DEF empty
<1>3. WikiShape'
    <2>1. l1' \in [Processes -> Known]
        BY <1>1, <1>2 DEF WikiInv, WikiShape
    <2> QED BY <1>2, <2>1 DEF WikiInv, WikiShape
<1>4. OldIsOfBefore'
    BY <1>2 DEF WikiInv, OldIsOfBefore, Storing, Is, Current
<1>5. AskersHoldLock'
    <2>1. \A t \in Tasks : job[t].at \in Asking => Process[t] # p
        BY DEF Restarts, Is, Asking
    <2>2. \A t \in Tasks : Process[t] # p => l1'[Process[t]] = l1[Process[t]]
        BY <1>2 DEF WikiInv, WikiShape, Processes
    <2> QED BY <1>2, <2>1, <2>2 DEF WikiInv, AskersHoldLock, Lock, Asking
<1> QED BY <1>3, <1>4, <1>5 DEF WikiInv

(* The invariant of the wiki's data: an answer from before the patch of    *)
(* the game is written while it is no older than the row will say, and a   *)
(* process has one lookup at the server for a kind of key, the lock's.     *)
THEOREM WikiInvariant == WikiSpec => []WikiInv
<1>1. WikiInit => WikiInv
    BY WikiStart
<1>2. WikiInv /\ [WikiNext]_wikiVars => WikiInv'
    <2> SUFFICES ASSUME WikiInv, [WikiNext]_wikiVars PROVE WikiInv'
        OBVIOUS
    <2>1. CASE UNCHANGED wikiVars
        BY <2>1 DEF wikiVars, WikiInv, WikiShape, OldIsOfBefore, AskersHoldLock, Storing, Is,
                    Current, Lock, Asking
    <2>2. ASSUME NEW t \in Tasks, Serve(t) PROVE WikiInv'
        BY <2>2, TakesLockKeeps, ServesRowKeeps, MissesKeeps, AnswersKeeps, StoresKeeps, FailsKeeps
           DEF Serve
    <2>3. ASSUME NEW t \in Tasks, NEW k \in Keys, Asks(t, k) PROVE WikiInv'
        BY <2>3, AsksKeeps
    <2>4. CASE Script
        BY <2>4, ScriptKeeps, AnswersKeeps, StoresKeeps DEF Script
    <2>5. ASSUME NEW p \in Processes, Restarts(p) PROVE WikiInv'
        BY <2>5, RestartsKeeps
    <2> QED BY <2>1, <2>2, <2>3, <2>4, <2>5, DayKeeps, PatchesKeeps DEF WikiNext
<1> QED BY <1>1, <1>2, PTL DEF WikiSpec

(* A day after a patch of the game the server serves nothing from before   *)
(* it, whatever lookups, refreshes and failures came in which order and    *)
(* whether or not the script was run (refresh_static_caches.py:4).         *)
THEOREM PatchIsServed == WikiSpec => []PatchReachesTheServer
<1>1. WikiInv => PatchReachesTheServer
    BY TTLAssumption DEF WikiInv, WikiShape, OldIsOfBefore, PatchReachesTheServer, Current
<1> QED BY <1>1, WikiInvariant, PTL

(* A process asks the server for what it has not been told, and for one    *)
(* key of a kind at a time, however many lookups wait for the lock         *)
(* (client.py looks at the cache again under it).                          *)
THEOREM OneAskPerKey == WikiSpec => []AskedOnce
<1>1. WikiInv => AskedOnce
    BY DEF WikiInv, AskersHoldLock, AskedOnce, Asking, Is
<1> QED BY <1>1, WikiInvariant, PTL
=============================================================================
