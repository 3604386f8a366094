----------------------------- MODULE WikiCache -----------------------------
(***************************************************************************)
(* Data of the star-citizen.wiki: speeds of ships, by name, and the one    *)
(* table of all locations.  The server keeps rows for a day                *)
(* (app/server/wiki_cache_service.py), each of ALICE's processes keeps     *)
(* what it was told (app/tools/starcitizenwiki/client.py), and after a     *)
(* patch of the game a script fetches anew what is cached                  *)
(* (app/server/refresh_static_caches.py).                                  *)
(*                                                                         *)
(* A tick is a day; what is asked is answered, or has failed, within one.  *)
(***************************************************************************)
EXTENDS Integers

CONSTANTS
    Ships,              \* cache keys of kind SHIP_SPEED
    Tasks, Process,     \* lookups of a process may run at a time
    CACHE_TTL           \* in ticks

LOCATIONS == "_all"
Keys == Ships \cup {LOCATIONS}
Kind(k) == IF k = LOCATIONS THEN "LOCATIONS" ELSE "SHIP_SPEED"
NotFound == "not found"       \* cached like anything else: {"ship_speed": null}
AtRest == [at |-> "idle"]

ASSUME KeysAssumption == LOCATIONS \notin Ships
ASSUME TTLAssumption == CACHE_TTL \in Nat
ASSUME TasksAssumption == Tasks \cap Keys = {} /\ "idle" \notin Tasks

Processes == {Process[t] : t \in Tasks}

VARIABLES
    patch,     \* 0 before the patch, then the ticks since, from 1
    row,       \* the rows of the server: the value, and the ticks since fetched_at
    l1,        \* _cache and _locations_cache of each process
    holds,     \* who holds _cache_lock and _locations_cache_lock of each process
    job        \* what each lookup is at, and the script with each key

wikiVars == <<patch, row, l1, holds, job>>

Is(j, at) == job[j].at = at
Becomes(j, to) == job' = [job EXCEPT ![j] = to]
Put(f, k, v) == [i \in DOMAIN f \cup {k} |-> IF i = k THEN v ELSE f[i]]

WikiInit ==
    /\ patch = 0
    /\ row = [k \in {} |-> AtRest]
    /\ l1 = [p \in Processes |-> [k \in {} |-> NotFound]]
    /\ holds = [p \in Processes |-> [kind \in {"SHIP_SPEED", "LOCATIONS"} |-> AtRest]]
    /\ job = [j \in Tasks \cup Keys |-> AtRest]

Data == IF patch = 0 THEN "old" ELSE "new"

(***************************************************************************)
(* A lookup of a process.  What is in its cache is the answer, for good.   *)
(***************************************************************************)
Lock(t) == holds[Process[t]][Kind(job[t].key)]
Holds(t, owner) == holds' = [holds EXCEPT ![Process[t]][Kind(job[t].key)] = owner]

Asks(t, k) ==
    /\ Is(t, "idle") /\ k \notin DOMAIN l1[Process[t]]
    /\ Becomes(t, [at |-> "waiting", key |-> k])
    /\ UNCHANGED <<patch, row, l1, holds>>

(* Under the lock the cache is looked at again.                            *)
IsThereNow(t) == job[t].key \in DOMAIN l1[Process[t]]

TakesLock(t) ==
    /\ Is(t, "waiting") /\ Lock(t) = AtRest
    /\ \/ IsThereNow(t) /\ Becomes(t, AtRest) /\ UNCHANGED holds
       \/ ~IsThereNow(t) /\ Holds(t, [at |-> t]) /\ Becomes(t, [job[t] EXCEPT !.at = "asked"])
    /\ UNCHANGED <<patch, row, l1>>

GivesUpLock(t) == Holds(t, AtRest)

Learns(t, v) ==
    /\ l1' = [l1 EXCEPT ![Process[t]] = Put(@, job[t].key, v)]
    /\ GivesUpLock(t) /\ Becomes(t, AtRest)

(***************************************************************************)
(* The server.                                                             *)
(***************************************************************************)
Current(k) == k \in DOMAIN row /\ row[k].age <= CACHE_TTL

(* mutant: a row that is read is good for another day                      *)
ReadRenews(k) == row' = [row EXCEPT ![k].age = 0]
Read(k) == UNCHANGED row

ServesRow(t) ==
    /\ Is(t, "asked") /\ Current(job[t].key)
    /\ Read(job[t].key)
    /\ Learns(t, row[job[t].key].value)
    /\ UNCHANGED patch

MissesRow(t) ==
    /\ Is(t, "asked") /\ ~Current(job[t].key)
    /\ Becomes(t, [job[t] EXCEPT !.at = "fetching"])
    /\ UNCHANGED <<patch, row, l1, holds>>

(* refresh_ship_speed and refresh_locations: the wiki is asked, then the   *)
(* row is written, whatever it holds by then.                              *)
WikiAnswers(j) ==
    /\ Is(j, "fetching")
    /\ \E v \in {Data} \cup (IF job[j].key \in Ships THEN {NotFound} ELSE {}) :
          Becomes(j, [at |-> "storing", key |-> job[j].key, value |-> v])
    /\ UNCHANGED <<patch, row, l1, holds>>

_store_payload(j) ==
    /\ Is(j, "storing")
    /\ row' = Put(row, job[j].key, [value |-> job[j].value, age |-> 0])
    /\ \/ j \in Tasks /\ Learns(j, job[j].value)
       \/ j \in Keys /\ Becomes(j, AtRest) /\ UNCHANGED <<l1, holds>>
    /\ UNCHANGED patch

(* The server, or the wiki, fails: nothing is kept.                        *)
Fails(t) ==
    /\ \E at \in {"asked", "fetching", "storing"} : Is(t, at)
    /\ UNCHANGED <<patch, row, l1>>
    /\ GivesUpLock(t) /\ Becomes(t, AtRest)

(***************************************************************************)
(* The script, run by hand: every ship that is cached, then the locations. *)
(* What fails ends all of it.                                              *)
(***************************************************************************)
Scripted(k, at) == [at |-> at, key |-> k]

RefreshesShips ==
    /\ \A k \in Keys : Is(k, "idle")
    /\ job' = [j \in DOMAIN job |->
                 CASE j = LOCATIONS              -> Scripted(j, "waiting")
                   [] j \in Ships \cap DOMAIN row -> Scripted(j, "fetching")
                   [] OTHER                      -> job[j]]
    /\ UNCHANGED <<patch, row, l1, holds>>

RefreshesLocations ==
    /\ Is(LOCATIONS, "waiting") /\ \A k \in Ships : Is(k, "idle")
    /\ Becomes(LOCATIONS, Scripted(LOCATIONS, "fetching"))
    /\ UNCHANGED <<patch, row, l1, holds>>

ScriptFails ==
    /\ \E k \in Keys : Is(k, "fetching") \/ Is(k, "storing")
    /\ job' = [j \in DOMAIN job |-> IF j \in Keys THEN AtRest ELSE job[j]]
    /\ UNCHANGED <<patch, row, l1, holds>>

(***************************************************************************)
(* The game, the days, the pilots.                                         *)
(***************************************************************************)
Patches ==
    /\ patch = 0 /\ patch' = 1
    /\ UNCHANGED <<row, l1, holds, job>>

Day ==
    /\ \A j \in DOMAIN job : Is(j, "idle") \/ Is(j, "waiting")
    /\ \A k \in Keys : Is(k, "idle")
    /\ patch' = IF patch = 0 \/ patch > CACHE_TTL + 1 THEN patch ELSE patch + 1
    /\ row' = [k \in DOMAIN row |->
                  IF Current(k) THEN [row[k] EXCEPT !.age = @ + 1] ELSE row[k]]
    /\ UNCHANGED <<l1, holds, job>>

(* ALICE is closed and started again.                                      *)
Restarts(p) ==
    /\ \A t \in Tasks : Process[t] = p => Is(t, "idle")
    /\ l1' = [l1 EXCEPT ![p] = [k \in {} |-> NotFound]]
    /\ UNCHANGED <<patch, row, holds, job>>

Serve(t) == \/ TakesLock(t) \/ ServesRow(t) \/ MissesRow(t) \/ WikiAnswers(t)
            \/ _store_payload(t) \/ Fails(t)
Script == \/ RefreshesShips \/ RefreshesLocations \/ ScriptFails
          \/ \E k \in Keys : WikiAnswers(k) \/ _store_payload(k)

WikiNext ==
    \/ \E t \in Tasks : Serve(t) \/ \E k \in Keys : Asks(t, k)
    \/ Script \/ Patches \/ Day \/ \E p \in Processes : Restarts(p)

(* Requests end, and the lock goes to who has waited longest: with one     *)
(* task at a time that waits, to that one.                                 *)
WikiFairness == \A t \in Tasks : SF_wikiVars(TakesLock(t)) /\ WF_wikiVars(Serve(t))

WikiSpec == WikiInit /\ [][WikiNext]_wikiVars /\ WikiFairness

(***************************************************************************)
(* Properties                                                              *)
(***************************************************************************)
Values == {"old", "new", NotFound}
WikiTypeOK ==
    /\ patch \in 0 .. CACHE_TTL + 2
    /\ DOMAIN row \subseteq Keys
    /\ \A k \in DOMAIN row : row[k].value \in Values /\ row[k].age \in 0 .. CACHE_TTL + 1
    /\ \A p \in Processes : DOMAIN l1[p] \subseteq Keys

(* While a process waits for the server's answer ("asked") it asks for the *)
(* key only once, and not for what it has been told while the lookup       *)
(* waited for the lock.                                                    *)
AskedOnce ==
    \A t \in Tasks : Is(t, "asked") =>
        /\ job[t].key \notin DOMAIN l1[Process[t]]
        /\ Lock(t) = [at |-> t]

(* A day after a patch the server serves nothing from before it, also when *)
(* nobody has run the script, whoever stored what in which order           *)
(* (refresh_static_caches.py:4).                                           *)
PatchReachesTheServer ==
    patch - 1 > CACHE_TTL =>
        \A k \in DOMAIN row : Current(k) => row[k].value # "old"

(* A lookup ends, though another one failed while it held the lock.        *)
LookupsEnd == \A t \in Tasks : ~Is(t, "idle") ~> Is(t, "idle")

(* Not so: refresh_static_caches.py:4 has pilots see old data "for up to a *)
(* day", but what a process was told stays for as long as it runs.         *)
PatchReachesThePilots ==
    patch - 1 > CACHE_TTL =>
        \A p \in Processes : \A k \in DOMAIN l1[p] : l1[p][k] # "old"
=============================================================================
