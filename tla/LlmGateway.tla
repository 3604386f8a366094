----------------------------- MODULE LlmGateway -----------------------------
(***************************************************************************)
(* The language model gateway, app/server/llm_gateway_service.py.          *)
(*                                                                         *)
(* Every pilot's chat is sent to heket, the model host, unless heket is    *)
(* benched (mark_down) or has llm_max_inflight chats running; otherwise it *)
(* is sent to a paid provider, up to a daily budget.  A probe benches and  *)
(* readmits heket, and starts the warm-up that loads its models.           *)
(*                                                                         *)
(* All of it are coroutines on one event loop: a step below runs from one  *)
(* await to the next.  The bench is a deadline on the clock; what the code *)
(* compares is whether it has passed, so it is "past", "soon" (DOWN_FOR_S  *)
(* from a failed chat) or "never" (math.inf, the probe's).  The reasons    *)
(* that only reach the usage log are one reason, "down".                   *)
(***************************************************************************)
EXTENDS Integers, FiniteSets

CONSTANTS
    Chats,          \* requests of pilots that the server may be serving
    Models,         \* the heket models of the roles
    MaxInflight,    \* settings.llm_max_inflight; 0: no limit
    Cap,            \* settings.fallback_daily_usd_cap; 0: no cap
    Cost,           \* the price of a paid answer
    FallbackConfigured,     \* fallback_configured()
    Pinned,         \* whether settings.heket_model_digest is set
    Faults,         \* which of "hang_up", "garbled", "database", "restart" happen
    SpendBound,     \* bound of the model: spending is counted up to here
    LeakBound       \* bound of the model: slots that pilots who hang up may leak

ASSUME ChatsAssumption == IsFiniteSet(Chats)
ASSUME LimitsAssumption == MaxInflight \in Nat /\ Cap \in Nat /\ Cost \in Nat
ASSUME BoundAssumption == SpendBound \in Nat

VARIABLES
    chat,       \* where open_chat, or the body it returned, is for each request
    inflight,   \* HeketState.inflight
    down_until, \* HeketState.down_until
    spent,      \* the hosted cost of today's llm_usage rows
    probe,      \* where probe_forever is
    serving,    \* whether lifespan has got to its yield
    warmup,     \* the models that the warm-up task has still to load; {}: no task
    box         \* heket itself

vars == <<chat, inflight, down_until, spent, probe, serving, warmup, box>>

-----------------------------------------------------------------------------
(***************************************************************************)
(* "overflow_budget": open_chat awaits the budget of a busy host;          *)
(* "opening": the request was sent to heket; "accepted": heket answered,   *)
(* and the body has not been asked for; "streaming": it has; "budget":     *)
(* open_chat awaits the budget of a fallback; "fallback": the paid request *)
(* was sent; "recording": it was answered, and its usage row is written.   *)
(***************************************************************************)
ChatState == [phase  : {"idle", "overflow_budget", "opening", "accepted", "streaming",
                        "budget", "fallback", "recording"},
              reason : {"none", "down", "overflow"}]

NoChat  == [phase |-> "idle", reason |-> "none"]
Opening == [phase |-> "opening", reason |-> "none"]

Box == [up : BOOLEAN, digest_ok : BOOLEAN, loaded : SUBSET Models]

OnHeket == {c \in Chats : chat[c].phase \in {"accepted", "streaming"}}

(* Requests that have passed the budget check and may still add to it.     *)
Paying == {c \in Chats : chat[c].phase \in {"fallback", "recording"}}

TypeOK ==
    /\ chat \in [Chats -> ChatState]
    /\ inflight \in Nat
    /\ down_until \in {"past", "soon", "never"}
    /\ spent \in 0..SpendBound
    /\ probe \in {"tags", "ps", "sleeping", "dead"}
    /\ serving \in BOOLEAN
    /\ warmup \subseteq Models
    /\ box \in Box

Init ==
    /\ chat = [c \in Chats |-> NoChat]
    /\ inflight = 0
    /\ down_until = "past"
    /\ spent = 0
    /\ probe = "tags"
    /\ serving = FALSE
    /\ warmup = {}
    /\ box \in Box

-----------------------------------------------------------------------------
(* Routing.                                                                *)

skip_heket_reason ==
    IF down_until # "past" THEN "down"
    ELSE IF MaxInflight # 0 /\ inflight >= MaxInflight THEN "overflow"
    ELSE "none"

(* The end of open_chat: the fallback, behind its budget.  Without a cap   *)
(* fallback_budget_exhausted does not await.                               *)
RoutedAway(reason) ==
    IF ~FallbackConfigured THEN NoChat
    ELSE [phase |-> IF Cap = 0 THEN "fallback" ELSE "budget", reason |-> reason]

Routed(reason) ==
    CASE reason = "none" -> Opening
      [] reason = "overflow" /\ Cap # 0 -> [phase |-> "overflow_budget", reason |-> reason]
      [] OTHER -> RoutedAway(reason)

Goes(c, state) == chat' = [chat EXCEPT ![c] = state]
At(c, phase) == chat[c].phase = phase

open_chat(c) ==
    /\ serving
    /\ At(c, "idle")
    /\ Goes(c, Routed(skip_heket_reason))
    /\ UNCHANGED <<inflight, down_until, spent, probe, serving, warmup, box>>

ExhaustedPastCap ==    \* mutant: > for >=
    {spent > Cap} \cup IF "database" \in Faults THEN {FALSE} ELSE {}

(* What fallback_budget_exhausted may answer; a failed read fails open.    *)
fallback_budget_exhausted ==
    {spent >= Cap} \cup IF "database" \in Faults THEN {FALSE} ELSE {}

(* A busy host and a spent budget: the chat queues on heket.               *)
OverflowDecided(c) ==
    /\ At(c, "overflow_budget")
    /\ \E exhausted \in fallback_budget_exhausted :
          Goes(c, IF exhausted THEN Opening ELSE RoutedAway("overflow"))
    /\ UNCHANGED <<inflight, down_until, spent, probe, serving, warmup, box>>

FallbackDecided(c) ==
    /\ At(c, "budget")
    /\ \E exhausted \in fallback_budget_exhausted :
          Goes(c, IF exhausted THEN NoChat ELSE [chat[c] EXCEPT !.phase = "fallback"])
    /\ UNCHANGED <<inflight, down_until, spent, probe, serving, warmup, box>>

-----------------------------------------------------------------------------
(* heket.                                                                  *)

(* _open_heket: heket answered with a status below 500.  Its model is      *)
(* loaded then.                                                            *)
HeketAccepts(c) ==
    /\ At(c, "opening")
    /\ box.up
    /\ inflight' = inflight + 1
    /\ Goes(c, [chat[c] EXCEPT !.phase = "accepted"])
    /\ \E m \in Models : box' = [box EXCEPT !.loaded = @ \cup {m}]
    /\ UNCHANGED <<down_until, spent, probe, serving, warmup>>

HeketFailsFreeingSlot(c) ==    \* mutant: a slot that was never taken is freed
    /\ At(c, "opening")
    /\ inflight' = inflight - 1
    /\ down_until' = "soon"
    /\ Goes(c, RoutedAway("down"))
    /\ UNCHANGED <<spent, probe, serving, warmup, box>>

HeketFailsUnbenched(c) ==    \* mutant: benched until now
    /\ At(c, "opening")
    /\ down_until' = "past"
    /\ Goes(c, RoutedAway("down"))
    /\ UNCHANGED <<inflight, spent, probe, serving, warmup, box>>

(* HeketFailed: connect error, timeout or 5xx.  open_chat benches heket,   *)
(* whatever bench there was, and falls back.                               *)
HeketFails(c) ==
    /\ At(c, "opening")
    /\ down_until' = "soon"
    /\ Goes(c, RoutedAway("down"))
    /\ UNCHANGED <<inflight, spent, probe, serving, warmup, box>>

BodyStarts(c) ==
    /\ At(c, "accepted")
    /\ Goes(c, [chat[c] EXCEPT !.phase = "streaming"])
    /\ UNCHANGED <<inflight, down_until, spent, probe, serving, warmup, box>>

(* The pilot hung up while heket was still to answer.  Starlette finds out *)
(* when it starts the response, and drops the body without asking it for   *)
(* anything: a generator that never ran has no finally to run.             *)
PilotHungUp(c) ==
    /\ "hang_up" \in Faults
    /\ At(c, "accepted")
    /\ inflight - Cardinality(OnHeket) < LeakBound
    /\ Goes(c, NoChat)
    /\ UNCHANGED <<inflight, down_until, spent, probe, serving, warmup, box>>

BodyEndsKeepingSlot(c) ==    \* mutant: the finally does not give the slot back
    /\ At(c, "streaming")
    /\ Goes(c, NoChat)
    /\ UNCHANGED <<inflight, down_until, spent, probe, serving, warmup, box>>

(* The finally of body(): the stream is complete, broke or was abandoned.  *)
(* A row of heket's does not count towards the budget.                     *)
BodyEnds(c) ==
    /\ At(c, "streaming")
    /\ inflight' = inflight - 1
    /\ Goes(c, NoChat)
    /\ UNCHANGED <<down_until, spent, probe, serving, warmup, box>>

-----------------------------------------------------------------------------
(* The paid fallback.                                                      *)

Added(cost) == IF spent + cost > SpendBound THEN SpendBound ELSE spent + cost

(* _relay_anthropic, _relay_openai: the provider answered, for money, or   *)
(* failed, and the row of a failed request has no cost.                    *)
FallbackAnswers(c) ==
    /\ At(c, "fallback")
    /\ \/ Goes(c, [chat[c] EXCEPT !.phase = "recording"])
       \/ Goes(c, NoChat)
    /\ UNCHANGED <<inflight, down_until, spent, probe, serving, warmup, box>>

(* record_usage, which swallows a failed write.                            *)
record_usage(c) ==
    /\ At(c, "recording")
    /\ \/ spent' = Added(Cost)
       \/ "database" \in Faults /\ spent' = spent
    /\ Goes(c, NoChat)
    /\ UNCHANGED <<inflight, down_until, probe, serving, warmup, box>>

Midnight ==
    /\ spent > 0
    /\ spent' = 0
    /\ UNCHANGED <<chat, inflight, down_until, probe, serving, warmup, box>>

-----------------------------------------------------------------------------
(* Health.                                                                 *)

(* probe_once is over: lifespan serves, and probe_forever sleeps.          *)
ProbeOver == probe' = "sleeping" /\ serving' = TRUE

(* /api/tags.  An answer that is not JSON raises what probe_once does not  *)
(* catch: probe_forever ends, and cancels the warm-up; before serving, the *)
(* server fails to start, and is started again.                            *)
ProbeTags ==
    /\ probe = "tags"
    /\ \/ /\ ~box.up \/ (Pinned /\ ~box.digest_ok)
          /\ down_until' = "never"
          /\ ProbeOver
          /\ UNCHANGED warmup
       \/ /\ box.up /\ (Pinned => box.digest_ok)
          /\ probe' = "ps"
          /\ UNCHANGED <<down_until, serving, warmup>>
       \/ /\ box.up /\ "garbled" \in Faults
          /\ probe' = IF serving THEN "dead" ELSE "tags"
          /\ warmup' = {}
          /\ UNCHANGED <<down_until, serving>>
    /\ UNCHANGED <<chat, inflight, spent, box>>

StartWarmupNever(cold) == warmup    \* mutant: the warm-up is left to the pilots
start_warmup(cold) == IF warmup = {} THEN cold ELSE warmup

(* /api/ps.  The models count as loaded if it cannot be read.              *)
ProbePs ==
    /\ probe = "ps"
    /\ \E cold \in {Models \ box.loaded} \cup
                   IF ~box.up \/ "garbled" \in Faults THEN {{}} ELSE {} :
          /\ box.up \/ cold = {}
          /\ IF cold = {} THEN down_until' = "past" /\ UNCHANGED warmup
             ELSE down_until' = "never" /\ warmup' = start_warmup(cold)
    /\ ProbeOver
    /\ UNCHANGED <<chat, inflight, spent, box>>

ProbeWakes ==
    /\ probe = "sleeping"
    /\ probe' = "tags"
    /\ UNCHANGED <<chat, inflight, down_until, spent, serving, warmup, box>>

(* A round of the probe starts within PROBE_INTERVAL_S (15 s) and sets the *)
(* bench anew when it ends, so the DOWN_FOR_S (30 s) of a failed chat run  *)
(* out only when no probe is left, or a slow one is at its second request. *)
BenchExpires ==
    /\ down_until = "soon"
    /\ probe \in {"dead", "ps"}
    /\ down_until' = "past"
    /\ UNCHANGED <<chat, inflight, spent, probe, serving, warmup, box>>

(* warm_up loads one model after the other, and gives up at the first that *)
(* fails.                                                                  *)
warm_up ==
    /\ warmup # {}
    /\ \/ /\ box.up
          /\ \E m \in warmup : /\ warmup' = warmup \ {m}
                               /\ box' = [box EXCEPT !.loaded = @ \cup {m}]
       \/ /\ ~box.up
          /\ warmup' = {}
          /\ UNCHANGED box
    /\ UNCHANGED <<chat, inflight, down_until, spent, probe, serving>>

-----------------------------------------------------------------------------
(* The environment: heket comes, goes, is given another build and unloads  *)
(* models; the server is restarted, and finds its spending in the table.   *)

BoxChanges ==
    /\ box' \in Box \ {box}
    /\ UNCHANGED <<chat, inflight, down_until, spent, probe, serving, warmup>>

Restart ==
    /\ "restart" \in Faults
    /\ chat' = [c \in Chats |-> NoChat]
    /\ inflight' = 0
    /\ down_until' = "past"
    /\ probe' = "tags"
    /\ serving' = FALSE
    /\ warmup' = {}
    /\ UNCHANGED <<spent, box>>

ChatStep(c) ==
    \/ OverflowDecided(c) \/ FallbackDecided(c)
    \/ HeketAccepts(c) \/ HeketFails(c)
    \/ BodyStarts(c) \/ PilotHungUp(c) \/ BodyEnds(c)
    \/ FallbackAnswers(c) \/ record_usage(c)

Probe == ProbeTags \/ ProbePs \/ ProbeWakes

Next ==
    \/ \E c \in Chats : open_chat(c) \/ ChatStep(c)
    \/ Probe \/ BenchExpires \/ warm_up
    \/ Midnight \/ BoxChanges \/ Restart

Spec == Init /\ [][Next]_vars

(* Timers fire, and every await of the gateway ends: each has a timeout.   *)
Fairness ==
    /\ \A c \in Chats : WF_vars(ChatStep(c))
    /\ WF_vars(Probe) /\ WF_vars(BenchExpires) /\ WF_vars(warm_up)

FairSpec == Spec /\ Fairness

-----------------------------------------------------------------------------
(* While no pilot hangs up, the in-flight count is the number of chats     *)
(* that heket has accepted and not finished: the count of llm_usage        *)
(* ("how many requests were already running on heket",                     *)
(* llm_gateway_service.py:22-23) and the overflow guard rest on it.        *)
InflightCounts == inflight = Cardinality(OnHeket)

(* Whatever happens, no slot is given back twice: the gateway never takes  *)
(* heket for less busy than it is.                                         *)
SlotsNeverFreedTwice == inflight >= Cardinality(OnHeket)

(* The day's hosted spending passes the cap by no more than what the       *)
(* requests being served at the time had been allowed before it was        *)
(* reached (fallback_budget_exhausted is asked before the paid request,    *)
(* and the cost recorded after it).                                        *)
SpendBounded == Cap # 0 => spent <= Cap - 1 + Cost * Cardinality(Chats)

(* A host that stays up, with the pinned build, and unloads nothing, is    *)
(* not left benched: "the next probe ... marks the box up" (:537-538).     *)
WarmBoxComesBack ==
    (/\ <>[](box.up /\ (Pinned => box.digest_ok))
     /\ <>[][box.loaded \subseteq box'.loaded]_vars)
    => []<>(down_until = "past")

(* A host that stays down, or on another build than the pinned one, ends   *)
(* up benched for good: the chats that were on their way to it when it was *)
(* found out bench it anew, for a shorter time, and do not readmit it (a   *)
(* different digest is "treated as down", config.py:86-88).                *)
DeadBoxIsBenched ==
    <>[](~box.up \/ (Pinned /\ ~box.digest_ok)) => <>[](down_until # "past")

(* "Past the cap, an overflow queues on heket instead of paying"           *)
(* (docs/llm-gateway.md:207): a chat that met a busy host is not refused.  *)
OverflowNeverRefused ==
    [][\A c \in Chats : At(c, "budget") /\ chat[c].reason = "overflow"
                        => chat'[c].phase # "idle"]_vars
=============================================================================
