-------------------------- MODULE LlmGatewayProofs --------------------------
(***************************************************************************)
(* Theorems about the language model gateway, for any number of chats, any *)
(* limit, cap and price, and every fault unless a theorem excludes it.     *)
(***************************************************************************)
EXTENDS LlmGateway, FiniteSetTheorems, TLAPS

-----------------------------------------------------------------------------
(* Counting chats.                                                         *)

LEMMA OnHeketFinite == IsFiniteSet(OnHeket) /\ Cardinality(OnHeket) \in Nat
  BY ChatsAssumption, FS_Subset, FS_CardinalityType DEF OnHeket

LEMMA PayingFinite ==
  /\ IsFiniteSet(Paying) /\ Cardinality(Paying) \in Nat
  /\ Cardinality(Paying) <= Cardinality(Chats) /\ Cardinality(Chats) \in Nat
  BY ChatsAssumption, FS_Subset, FS_CardinalityType DEF Paying

(* A step of one chat into, or out of, a set of phases.                    *)
LEMMA CountedIn ==
  ASSUME NEW S, IsFiniteSet(S), NEW c, c \notin S, NEW T, T = S \cup {c}
  PROVE  Cardinality(T) = Cardinality(S) + 1
  BY FS_AddElement

LEMMA CountedOut ==
  ASSUME NEW S, IsFiniteSet(S), NEW c \in S, NEW T, T = S \ {c}
  PROVE  Cardinality(T) = Cardinality(S) - 1 /\ Cardinality(S) >= 1
  <1>1. Cardinality(T) = Cardinality(S) - 1
    BY FS_RemoveElement
  <1>2. Cardinality(T) \in Nat /\ Cardinality(S) \in Nat
    BY FS_RemoveElement, FS_CardinalityType
  <1> QED BY <1>1, <1>2

-----------------------------------------------------------------------------
(* Type correctness of everything but the count, which needs the slots.    *)

ChatTypeOK == chat \in [Chats -> ChatState]

LEMMA RoutedType ==
  \A reason \in {"none", "down", "overflow"} :
      Routed(reason) \in ChatState /\ RoutedAway(reason) \in ChatState
  BY DEF Routed, RoutedAway, ChatState, NoChat, Opening

LEMMA ChatTypeStep ==
  ASSUME ChatTypeOK, [Next]_vars
  PROVE  ChatTypeOK'
  <1> USE DEF ChatTypeOK
  <1>1. ASSUME NEW c \in Chats, NEW state \in ChatState, Goes(c, state) PROVE ChatTypeOK'
    BY <1>1 DEF Goes
  <1>2. NoChat \in ChatState /\ Opening \in ChatState
    BY DEF NoChat, Opening, ChatState
  <1>3. ASSUME NEW c \in Chats, open_chat(c) \/ ChatStep(c) PROVE ChatTypeOK'
    <2>1. ASSUME NEW phase, [chat[c] EXCEPT !.phase = phase] \in ChatState,
                 Goes(c, [chat[c] EXCEPT !.phase = phase])
          PROVE  ChatTypeOK'
      BY <2>1, <1>1
    <2>2. \A phase \in {"fallback", "accepted", "streaming", "recording"} :
             [chat[c] EXCEPT !.phase = phase] \in ChatState
      BY DEF ChatState
    <2>3. CASE open_chat(c)
      BY <2>3, <1>1, RoutedType DEF open_chat, skip_heket_reason
    <2>4. CASE OverflowDecided(c)
      BY <2>4, <1>1, <1>2, RoutedType DEF OverflowDecided
    <2>5. CASE FallbackDecided(c)
      BY <2>5, <1>1, <1>2, <2>2 DEF FallbackDecided
    <2>6. CASE HeketAccepts(c)
      BY <2>6, <2>1, <2>2 DEF HeketAccepts
    <2>7. CASE HeketFails(c)
      BY <2>7, <1>1, RoutedType DEF HeketFails
    <2>8. CASE BodyStarts(c)
      BY <2>8, <2>1, <2>2 DEF BodyStarts
    <2>9. CASE PilotHungUp(c) \/ BodyEnds(c) \/ record_usage(c)
      BY <2>9, <1>1, <1>2 DEF PilotHungUp, BodyEnds, record_usage
    <2>10. CASE FallbackAnswers(c)
      BY <2>10, <1>1, <1>2, <2>1, <2>2 DEF FallbackAnswers
    <2> QED BY <1>3, <2>3, <2>4, <2>5, <2>6, <2>7, <2>8, <2>9, <2>10 DEF ChatStep
  <1>4. CASE Restart
    BY <1>4, <1>2 DEF Restart
  <1>5. CASE Probe \/ BenchExpires \/ warm_up \/ Midnight \/ BoxChanges \/ UNCHANGED vars
    BY <1>5 DEF Probe, ProbeTags, ProbePs, ProbeWakes, BenchExpires, warm_up, Midnight,
                BoxChanges, vars
  <1> QED BY <1>3, <1>4, <1>5 DEF Next

-----------------------------------------------------------------------------
(* Slots.                                                                  *)

(* What a step may do to the chats on heket and to the count of them: the  *)
(* count follows them, but for a pilot who hangs up.                       *)
SlotStep ==
  \/ OnHeket' = OnHeket /\ inflight' = inflight
  \/ \E c \in Chats \ OnHeket : OnHeket' = OnHeket \cup {c} /\ inflight' = inflight + 1
  \/ \E c \in OnHeket : OnHeket' = OnHeket \ {c} /\ inflight' = inflight - 1
  \/ "hang_up" \in Faults /\ \E c \in OnHeket : OnHeket' = OnHeket \ {c} /\ inflight' = inflight
  \/ OnHeket' = {} /\ inflight' = 0

LEMMA EveryStepIsASlotStep ==
  ASSUME ChatTypeOK, [Next]_vars
  PROVE  SlotStep
  <1> USE DEF ChatTypeOK
  <1>1. ASSUME NEW c \in Chats, NEW state, Goes(c, state),
               c \notin OnHeket, state.phase \notin {"accepted", "streaming"}
        PROVE  OnHeket' = OnHeket
    BY <1>1 DEF Goes, OnHeket
  <1>2. ASSUME NEW c \in Chats, NEW state, Goes(c, state),
               c \in OnHeket, state.phase \notin {"accepted", "streaming"}
        PROVE  OnHeket' = OnHeket \ {c}
    BY <1>2 DEF Goes, OnHeket
  <1>3. NoChat.phase = "idle" /\ Opening.phase = "opening"
    BY DEF NoChat, Opening
  <1>4. \A reason \in {"none", "down", "overflow"} :
           /\ Routed(reason).phase \notin {"accepted", "streaming"}
           /\ RoutedAway(reason).phase \notin {"accepted", "streaming"}
    BY DEF Routed, RoutedAway, NoChat, Opening
  <1>5. ASSUME NEW c \in Chats, open_chat(c) \/ ChatStep(c) PROVE SlotStep
    <2>0. \A phase : [chat[c] EXCEPT !.phase = phase].phase = phase
      BY DEF ChatState
    <2>1. CASE open_chat(c)
      BY <2>1, <1>1, <1>4 DEF open_chat, skip_heket_reason, At, OnHeket, SlotStep
    <2>2. CASE OverflowDecided(c)
      BY <2>2, <1>1, <1>3, <1>4 DEF OverflowDecided, At, OnHeket, SlotStep
    <2>3. CASE FallbackDecided(c)
      BY <2>3, <1>1, <1>3, <2>0 DEF FallbackDecided, At, OnHeket, SlotStep
    <2>4. CASE HeketAccepts(c)
      <3>1. c \notin OnHeket /\ OnHeket' = OnHeket \cup {c}
        BY <2>4, <2>0 DEF HeketAccepts, Goes, At, OnHeket, ChatState
      <3> QED BY <2>4, <3>1 DEF HeketAccepts, SlotStep
    <2>5. CASE HeketFails(c)
      BY <2>5, <1>1, <1>4 DEF HeketFails, At, OnHeket, SlotStep
    <2>6. CASE BodyStarts(c)
      <3>1. OnHeket' = OnHeket
        BY <2>6, <2>0 DEF BodyStarts, Goes, At, OnHeket, ChatState
      <3> QED BY <2>6, <3>1 DEF BodyStarts, SlotStep
    <2>7. CASE PilotHungUp(c)
      BY <2>7, <1>2, <1>3 DEF PilotHungUp, At, OnHeket, SlotStep
    <2>8. CASE BodyEnds(c)
      BY <2>8, <1>2, <1>3 DEF BodyEnds, At, OnHeket, SlotStep
    <2>9. CASE FallbackAnswers(c)
      BY <2>9, <1>1, <1>3, <2>0 DEF FallbackAnswers, At, OnHeket, SlotStep
    <2>10. CASE record_usage(c)
      BY <2>10, <1>1, <1>3 DEF record_usage, At, OnHeket, SlotStep
    <2> QED BY <1>5, <2>1, <2>2, <2>3, <2>4, <2>5, <2>6, <2>7, <2>8, <2>9, <2>10 DEF ChatStep
  <1>6. CASE Restart
    BY <1>6, <1>3 DEF Restart, OnHeket, SlotStep
  <1>7. CASE Probe \/ BenchExpires \/ warm_up \/ Midnight \/ BoxChanges \/ UNCHANGED vars
    BY <1>7 DEF Probe, ProbeTags, ProbePs, ProbeWakes, BenchExpires, warm_up, Midnight,
                BoxChanges, vars, OnHeket, SlotStep
  <1> QED BY <1>5, <1>6, <1>7 DEF Next

SlotInv ==
  /\ ChatTypeOK
  /\ inflight \in Nat
  /\ SlotsNeverFreedTwice
  /\ "hang_up" \notin Faults => InflightCounts

LEMMA SlotInvInit == Init => SlotInv
  <1> SUFFICES ASSUME Init PROVE SlotInv
    OBVIOUS
  <1>1. ChatTypeOK
    BY DEF Init, ChatTypeOK, ChatState, NoChat
  <1>2. OnHeket = {}
    BY DEF Init, OnHeket, NoChat
  <1>3. Cardinality(OnHeket) = 0
    BY <1>2, FS_EmptySet
  <1> QED BY <1>1, <1>3 DEF Init, SlotInv, SlotsNeverFreedTwice, InflightCounts

LEMMA SlotInvStep ==
  ASSUME SlotInv, [Next]_vars
  PROVE  SlotInv'
  <1> USE DEF SlotInv, SlotsNeverFreedTwice, InflightCounts
  <1>1. ChatTypeOK'
    BY ChatTypeStep
  <1>2. IsFiniteSet(OnHeket) /\ Cardinality(OnHeket) \in Nat
    BY OnHeketFinite
  <1>3. CASE OnHeket' = OnHeket /\ inflight' = inflight
    BY <1>1, <1>3
  <1>4. ASSUME NEW c \in Chats \ OnHeket, OnHeket' = OnHeket \cup {c}, inflight' = inflight + 1
        PROVE  SlotInv'
    <2>1. Cardinality(OnHeket') = Cardinality(OnHeket) + 1
      BY <1>2, <1>4, CountedIn
    <2> QED BY <1>1, <1>2, <1>4, <2>1
  <1>5. ASSUME NEW c \in OnHeket, OnHeket' = OnHeket \ {c}, inflight' \in {inflight, inflight - 1},
               inflight' = inflight => "hang_up" \in Faults
        PROVE  SlotInv'
    <2>1. Cardinality(OnHeket') = Cardinality(OnHeket) - 1 /\ Cardinality(OnHeket) >= 1
      BY <1>2, <1>5, CountedOut
    <2> QED BY <1>1, <1>2, <1>5, <2>1
  <1>6. CASE OnHeket' = {} /\ inflight' = 0
    <2>1. Cardinality(OnHeket') = 0
      BY <1>6, FS_EmptySet
    <2> QED BY <1>1, <1>6, <2>1
  <1>7. inflight - 1 # inflight
    OBVIOUS
  <1> QED BY <1>3, <1>4, <1>5, <1>6, <1>7, EveryStepIsASlotStep DEF SlotStep

THEOREM SlotInvariance == Spec => []SlotInv
  <1>1. Init => SlotInv
    BY SlotInvInit
  <1>2. SlotInv /\ [Next]_vars => SlotInv'
    BY SlotInvStep
  <1> QED BY <1>1, <1>2, PTL DEF Spec

(* Whatever the faults, the gateway never counts fewer chats on heket than *)
(* run there: body()'s finally runs at most once for each += 1 of          *)
(* _open_heket.                                                            *)
THEOREM NoSlotIsFreedTwice == Spec => []SlotsNeverFreedTwice
  BY SlotInvariance, PTL DEF SlotInv

(* And if no pilot hangs up before the response starts, it counts them     *)
(* exactly.                                                                *)
THEOREM SlotsAreCounted ==
  ASSUME "hang_up" \notin Faults
  PROVE  Spec => []InflightCounts
  <1>1. SlotInv => InflightCounts
    BY DEF SlotInv
  <1> QED BY <1>1, SlotInvariance, PTL

-----------------------------------------------------------------------------
(* The budget, while the database answers.                                 *)

SpendStep ==
  \/ Paying' \subseteq Paying /\ spent' \in 0..spent
  \/ \E c \in Chats \ Paying : /\ Paying' = Paying \cup {c} /\ spent' = spent
                              /\ spent < Cap
  \/ \E c \in Paying : Paying' = Paying \ {c} /\ spent' \in 0..(spent + Cost)

LEMMA EveryStepIsASpendStep ==
  ASSUME ChatTypeOK, spent \in Nat, Cap # 0, "database" \notin Faults, [Next]_vars
  PROVE  SpendStep
  <1> USE DEF ChatTypeOK
  <1>1. ASSUME NEW c \in Chats, NEW state, Goes(c, state),
               state.phase \notin {"fallback", "recording"}
        PROVE  Paying' = Paying \ {c}
    BY <1>1 DEF Goes, Paying
  <1>2. ASSUME Paying' \subseteq Paying, spent' = spent PROVE SpendStep
    BY <1>2 DEF SpendStep
  <1>3. NoChat.phase = "idle" /\ Opening.phase = "opening"
    BY DEF NoChat, Opening
  <1>4. \A reason \in {"none", "down", "overflow"} :
           /\ Routed(reason).phase \notin {"fallback", "recording"}
           /\ RoutedAway(reason).phase \notin {"fallback", "recording"}
    BY DEF Routed, RoutedAway, NoChat, Opening
  <1>5. ASSUME NEW c \in Chats, open_chat(c) \/ ChatStep(c) PROVE SpendStep
    <2>0. \A phase : [chat[c] EXCEPT !.phase = phase].phase = phase
      BY DEF ChatState
    <2>1. CASE open_chat(c)
      BY <2>1, <1>1, <1>2, <1>4 DEF open_chat, skip_heket_reason
    <2>2. CASE OverflowDecided(c)
      BY <2>2, <1>1, <1>2, <1>3, <1>4 DEF OverflowDecided
    <2>3. CASE FallbackDecided(c)
      <3>1. CASE Goes(c, NoChat)
        BY <2>3, <3>1, <1>1, <1>2, <1>3 DEF FallbackDecided
      <3>2. CASE ~Goes(c, NoChat)
        <4>1. spent < Cap /\ Goes(c, [chat[c] EXCEPT !.phase = "fallback"])
          <5>1. PICK exhausted \in fallback_budget_exhausted :
                   Goes(c, IF exhausted THEN NoChat ELSE [chat[c] EXCEPT !.phase = "fallback"])
            BY <2>3 DEF FallbackDecided
          <5>2. exhausted = (spent >= Cap)
            BY <5>1, Zenon DEF fallback_budget_exhausted
          <5>3. ~exhausted /\ Goes(c, [chat[c] EXCEPT !.phase = "fallback"])
            BY <3>2, <5>1, Zenon
          <5>4. ~(spent >= Cap)
            BY <5>2, <5>3, Zenon
          <5>5. spent < Cap
            BY <5>4, LimitsAssumption
          <5> QED BY <5>3, <5>5
        <4>2. c \notin Paying /\ Paying' = Paying \cup {c}
          BY <2>3, <4>1, <2>0 DEF FallbackDecided, Goes, At, Paying, ChatState
        <4> QED BY <2>3, <4>1, <4>2 DEF FallbackDecided, SpendStep
      <3> QED BY <3>1, <3>2
    <2>4. CASE HeketAccepts(c)
      BY <2>4, <1>1, <1>2, <2>0 DEF HeketAccepts
    <2>5. CASE HeketFails(c)
      BY <2>5, <1>1, <1>2, <1>4 DEF HeketFails
    <2>6. CASE BodyStarts(c)
      BY <2>6, <1>1, <1>2, <2>0 DEF BodyStarts
    <2>7. CASE PilotHungUp(c) \/ BodyEnds(c)
      BY <2>7, <1>1, <1>2, <1>3 DEF PilotHungUp, BodyEnds
    <2>8. CASE FallbackAnswers(c)
      <3>1. CASE Goes(c, NoChat)
        BY <2>8, <3>1, <1>1, <1>2, <1>3 DEF FallbackAnswers
      <3>2. CASE Goes(c, [chat[c] EXCEPT !.phase = "recording"])
        <4>1. Paying' = Paying
          BY <2>8, <3>2, <2>0 DEF FallbackAnswers, Goes, At, Paying, ChatState
        <4> QED BY <2>8, <4>1, <1>2 DEF FallbackAnswers
      <3> QED BY <2>8, <3>1, <3>2 DEF FallbackAnswers
    <2>9. CASE record_usage(c)
      <3>1. c \in Paying /\ Paying' = Paying \ {c}
        BY <2>9, <1>1, <1>3 DEF record_usage, At, Paying
      <3>2. spent' \in 0..(spent + Cost)
        BY <2>9, LimitsAssumption, BoundAssumption DEF record_usage, Added
      <3> QED BY <3>1, <3>2 DEF SpendStep
    <2> QED BY <1>5, <2>1, <2>2, <2>3, <2>4, <2>5, <2>6, <2>7, <2>8, <2>9 DEF ChatStep
  <1>6. CASE Restart
    BY <1>6, <1>2, <1>3 DEF Restart, Paying
  <1>7. CASE Midnight
    BY <1>7 DEF Midnight, Paying, SpendStep
  <1>8. CASE Probe \/ BenchExpires \/ warm_up \/ BoxChanges \/ UNCHANGED vars
    BY <1>8, <1>2 DEF Probe, ProbeTags, ProbePs, ProbeWakes, BenchExpires, warm_up,
                      BoxChanges, vars, Paying
  <1> QED BY <1>5, <1>6, <1>7, <1>8 DEF Next

(* A request that has passed the check has its cost reserved.              *)
SpendInv ==
  /\ ChatTypeOK
  /\ spent \in Nat
  /\ spent + Cost * Cardinality(Paying) <= Cap - 1 + Cost * Cardinality(Chats)

LEMMA Times ==
  ASSUME NEW m \in Nat, NEW n \in Nat, m <= n
  PROVE  /\ Cost * m \in Nat /\ Cost * n \in Nat /\ Cost * m <= Cost * n
         /\ Cost * (m + 1) = Cost * m + Cost
  BY LimitsAssumption

LEMMA SpendInvInit == Init /\ Cap # 0 => SpendInv
  <1> SUFFICES ASSUME Init, Cap # 0 PROVE SpendInv
    OBVIOUS
  <1>1. ChatTypeOK
    BY DEF Init, ChatTypeOK, ChatState, NoChat
  <1>2. Paying = {}
    BY DEF Init, Paying, NoChat
  <1>3. Cardinality(Paying) = 0
    BY <1>2, FS_EmptySet
  <1>4. Cost * 0 <= Cost * Cardinality(Chats) /\ Cost * 0 = 0 /\ Cost * Cardinality(Chats) \in Nat
    BY PayingFinite, <1>3, Times, LimitsAssumption
  <1> QED BY <1>1, <1>3, <1>4, LimitsAssumption DEF Init, SpendInv

LEMMA SpendInvStep ==
  ASSUME SpendInv, Cap # 0, "database" \notin Faults, [Next]_vars
  PROVE  SpendInv'
  <1> USE DEF SpendInv
  <1> DEFINE p  == Cardinality(Paying)
             p1 == Cardinality(Paying')
             n  == Cardinality(Chats)
  <1>1. ChatTypeOK'
    BY ChatTypeStep
  <1>2. IsFiniteSet(Paying) /\ p \in Nat /\ n \in Nat /\ p <= n
    BY PayingFinite
  <1>3. Paying' \subseteq Chats /\ IsFiniteSet(Paying') /\ p1 \in Nat /\ p1 <= n
    BY ChatsAssumption, FS_Subset, FS_CardinalityType DEF Paying
  <1>4. Cost * p1 \in Nat /\ Cost * n \in Nat /\ Cost * p1 <= Cost * n /\ Cost * p \in Nat
    BY <1>2, <1>3, Times
  <1>5. SpendStep
    BY EveryStepIsASpendStep
  <1>6. CASE Paying' \subseteq Paying /\ spent' \in 0..spent
    <2>1. p1 <= p
      BY <1>2, <1>6, FS_Subset
    <2>2. Cost * p1 <= Cost * p
      BY <1>2, <1>3, <2>1, Times
    <2> QED BY <1>1, <1>4, <1>6, <2>2, LimitsAssumption
  <1>7. ASSUME NEW c \in Chats \ Paying, Paying' = Paying \cup {c}, spent' = spent, spent < Cap
        PROVE  SpendInv'
    BY <1>1, <1>4, <1>7, LimitsAssumption
  <1>8. ASSUME NEW c \in Paying, Paying' = Paying \ {c}, spent' \in 0..(spent + Cost)
        PROVE  SpendInv'
    <2>1. p = p1 + 1
      BY <1>2, <1>3, <1>8, CountedOut
    <2>2. Cost * p = Cost * p1 + Cost
      BY <1>3, <2>1, Times
    <2>3. spent' + Cost * p1 <= spent + Cost * p
      BY <1>4, <1>8, <2>2, LimitsAssumption
    <2> QED BY <1>1, <1>4, <1>8, <2>3, LimitsAssumption
  <1> QED BY <1>5, <1>6, <1>7, <1>8 DEF SpendStep

(* While the database answers, and whatever else fails, the day's paid     *)
(* spending exceeds the cap by less than one answer per request being      *)
(* served: fallback_budget_exhausted is asked once for every paid request. *)
THEOREM SpendingIsBounded ==
  ASSUME "database" \notin Faults
  PROVE  Spec => []SpendBounded
  <1>1. CASE Cap = 0
    <2>1. SpendBounded
      BY <1>1 DEF SpendBounded
    <2> QED BY <2>1, PTL
  <1>2. CASE Cap # 0
    <2>1. Init => SpendInv
      BY <1>2, SpendInvInit
    <2>2. SpendInv /\ [Next]_vars => SpendInv'
      BY <1>2, SpendInvStep
    <2>3. SpendInv => SpendBounded
      <3> SUFFICES ASSUME SpendInv PROVE SpendBounded
        OBVIOUS
      <3>1. Cost * Cardinality(Paying) \in Nat /\ Cost * Cardinality(Chats) \in Nat
        BY PayingFinite, Times
      <3> QED BY <3>1, LimitsAssumption DEF SpendInv, SpendBounded
    <2> QED BY <2>1, <2>2, <2>3, PTL DEF Spec
  <1> QED BY <1>1, <1>2

-----------------------------------------------------------------------------
(* Type correctness.                                                       *)

OtherTypesOK ==
  /\ down_until \in {"past", "soon", "never"}
  /\ spent \in 0..SpendBound
  /\ probe \in {"tags", "ps", "sleeping", "dead"}
  /\ serving \in BOOLEAN
  /\ warmup \subseteq Models
  /\ box \in Box

LEMMA OtherTypesStep ==
  ASSUME OtherTypesOK, [Next]_vars
  PROVE  OtherTypesOK'
  <1> USE DEF OtherTypesOK
  <1>1. \A m \in Models : [box EXCEPT !.loaded = @ \cup {m}] \in Box
    BY DEF Box
  <1>2. ASSUME NEW c \in Chats, open_chat(c) \/ ChatStep(c) PROVE OtherTypesOK'
    <2>1. CASE record_usage(c)
      <3>1. spent' \in 0..SpendBound
        BY <2>1, LimitsAssumption, BoundAssumption DEF record_usage, Added
      <3> QED BY <2>1, <3>1 DEF record_usage
    <2>2. CASE HeketAccepts(c)
      BY <2>2, <1>1 DEF HeketAccepts
    <2>3. CASE HeketFails(c)
      BY <2>3 DEF HeketFails
    <2>4. CASE \/ open_chat(c) \/ OverflowDecided(c) \/ FallbackDecided(c) \/ BodyStarts(c)
               \/ PilotHungUp(c) \/ BodyEnds(c) \/ FallbackAnswers(c)
      BY <2>4 DEF open_chat, OverflowDecided, FallbackDecided, BodyStarts, PilotHungUp,
                  BodyEnds, FallbackAnswers
    <2> QED BY <1>2, <2>1, <2>2, <2>3, <2>4 DEF ChatStep
  <1>3. CASE Probe
    <2>1. CASE ProbeTags
      BY <2>1 DEF ProbeTags, ProbeOver
    <2>2. CASE ProbePs
      <3>1. PICK cold \in SUBSET Models :
               IF cold = {} THEN down_until' = "past" /\ UNCHANGED warmup
               ELSE down_until' = "never" /\ warmup' = start_warmup(cold)
        BY <2>2 DEF ProbePs
      <3>2. down_until' \in {"past", "never"} /\ warmup' \subseteq Models
        BY <3>1 DEF start_warmup
      <3> QED BY <2>2, <3>2 DEF ProbePs, ProbeOver
    <2>3. CASE ProbeWakes
      BY <2>3 DEF ProbeWakes
    <2> QED BY <1>3, <2>1, <2>2, <2>3 DEF Probe
  <1>4. CASE warm_up
    BY <1>4, <1>1 DEF warm_up
  <1>5. CASE Midnight
    BY <1>5, BoundAssumption DEF Midnight
  <1>6. CASE BenchExpires \/ BoxChanges \/ Restart \/ UNCHANGED vars
    BY <1>6 DEF BenchExpires, BoxChanges, Restart, vars
  <1> QED BY <1>2, <1>3, <1>4, <1>5, <1>6 DEF Next

(* The gateway's state keeps its types; that the in-flight count stays a   *)
(* natural number rests on no slot being freed twice.                      *)
THEOREM TypeCorrect == Spec => []TypeOK
  <1>1. Init => OtherTypesOK
    <2> SUFFICES ASSUME Init PROVE OtherTypesOK
      OBVIOUS
    <2>1. 0 \in 0..SpendBound
      BY BoundAssumption
    <2> QED BY <2>1, Zenon DEF Init, OtherTypesOK
  <1>2. OtherTypesOK /\ [Next]_vars => OtherTypesOK'
    BY OtherTypesStep
  <1>3. Spec => []OtherTypesOK
    BY <1>1, <1>2, PTL DEF Spec
  <1>4. OtherTypesOK /\ SlotInv => TypeOK
    BY DEF OtherTypesOK, SlotInv, ChatTypeOK, TypeOK
  <1> QED BY <1>3, <1>4, SlotInvariance, PTL
=============================================================================
