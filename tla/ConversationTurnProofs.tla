----------------------- MODULE ConversationTurnProofs -----------------------
(***************************************************************************)
(* A session of any length, with any windows, tools and answers: what the  *)
(* model is sent is well formed and of this turn, the topic check is       *)
(* skipped only after one that was passed, and a call that never got its   *)
(* result is forgotten in time.                                            *)
(***************************************************************************)
EXTENDS ConversationTurn, FiniteSetTheorems, WellFoundedInduction, TLAPS

-----------------------------------------------------------------------------
(* The inductive invariants.                                               *)

Texts == {"line", "empty", "asks", "again", "page"}
Message == [type : {"human", "ai", "tool"}, calls : Seq(Tools), text : Texts]
PastTopicCheck == {"request", "social", "skipped"}
HumansAfter(ms, i) == {j \in HumanPositions(ms) : j > i}
HumansFrom(ms, i) == {j \in HumanPositions(ms) : j >= i}

(* A thread begins with the pilot; the pilot's lines can be counted from   *)
(* its end; a result comes after the call it is of, or after another       *)
(* result of the same answer.                                              *)
HasItsCall(ms, i) ==
    \E j \in 1 .. (i - 1) : /\ ms[j].type = "ai" /\ ToSet(ms[i].calls) \subseteq ToSet(ms[j].calls)
                            /\ \A k \in (j + 1) .. i : ms[k].type = "tool"
Thread(ms) ==
    /\ ms \in Seq(Message)
    /\ ms # <<>> => ms[1].type = "human"
    /\ \A n \in 1 .. Cardinality(HumanPositions(ms)) :
          \E i \in HumanPositions(ms) : Cardinality(HumansFrom(ms, i)) = n
    /\ \A i \in DOMAIN ms : ms[i].type = "tool" => HasItsCall(ms, i)

(* Where a turn is: the model waits only for an answer to the window, and  *)
(* the tools run for the calls of the last message.                        *)
Sent == _windowed_history(messages, HISTORY_TURNS, HISTORY_FULL_TOOL_RESULT_TURNS)
NodeInv ==
    /\ node \in {"listening", "start", "classify_topic", "respond", "replying", "tools",
                 "social", "decline", "speaking", "failing", "stopped"}
    /\ steps \in Nat /\ steps <= RecursionLimit
    /\ node \notin {"listening", "stopped"} => messages # <<>>
    /\ node = "tools" => Last(messages).type = "ai" /\ Last(messages).calls # <<>>
    /\ IF node = "replying" THEN prompt.window = Sent ELSE prompt = NoPrompt

(* What the next turn finds of this one. A turn that has not passed the    *)
(* topic check has asked nothing, unless it was declined.                  *)
Quiet(ms) == ms = <<>> \/ Last(ms).type = "human"
Judgements == [before : PastTopicCheck \cup {None, "off_topic"}, now : PastTopicCheck \cup {None, "off_topic"}]
TopicInv ==
    /\ judged \in Judgements
    /\ judged.now = "skipped" => judged.before \in PastTopicCheck
    /\ node = "start" =>
          /\ judged.now = None /\ Quiet(messages)
          /\ graph.pending_confirmation \/ _alice_just_asked(messages, graph.on_topic) => judged.before \in PastTopicCheck
    /\ judged.now = None /\ node # "start" =>
          ~graph.pending_confirmation /\ Quiet(messages) /\ node \in {"listening", "classify_topic", "failing", "stopped"}
    /\ judged.now = "off_topic" =>
          ~graph.pending_confirmation /\ ~graph.on_topic /\ node \in {"listening", "decline", "speaking", "failing", "stopped"}
    /\ node = "classify_topic" => judged.now = None

(* What is kept of the turns before is not taken for this turn's.          *)
GraphState == [on_topic : BOOLEAN, social : BOOLEAN, pending_confirmation : BOOLEAN,
               active_runs : Nat, active_runs_turn : Int, tool_groups : SUBSET (Groups \cup {None}),
               tool_groups_turn : Int]
GraphInv ==
    /\ graph \in GraphState
    /\ -1 <= graph.active_runs_turn /\ graph.active_runs_turn <= pilot_turn /\ graph.active_runs <= pilot_turn
    /\ -1 <= graph.tool_groups_turn /\ graph.tool_groups_turn <= pilot_turn
    /\ graph.active_runs_turn = pilot_turn => graph.active_runs \in {0, pilot_turn}
    /\ graph.tool_groups_turn = pilot_turn =>
          /\ judged.now \in {"request", "social", "off_topic"}
          /\ graph.tool_groups # {None} => groups_of_tools(LastTurnsTools(messages)) \subseteq graph.tool_groups
    /\ PromptIsOfThisTurn

(* Every turn refused since a call was left unanswered began after it.     *)
RefusedInv ==
    /\ rejected \in Nat /\ (rejected < HISTORY_TURNS \/ rejected < CLASSIFY_HISTORY_TURNS)
    /\ \A i \in Unanswered(messages) :
          LET after == Cardinality(HumansAfter(messages, i))
          IN  IF node \in {"listening", "failing", "stopped"} THEN rejected <= after
              ELSE rejected < after \/ (node = "tools" /\ i = Len(messages))

IInv == Thread(messages) /\ NodeInv /\ TopicInv /\ GraphInv /\ RefusedInv

-----------------------------------------------------------------------------
(* Histories.                                                              *)

LEMMA Positions ==
    ASSUME NEW ms \in Seq(Message), NEW S \in SUBSET DOMAIN ms
    PROVE  /\ DOMAIN ms = 1 .. Len(ms) /\ Len(ms) \in Nat
           /\ IsFiniteSet(S) /\ Cardinality(S) \in Nat
           /\ \A i \in S : i \in Nat /\ 1 <= i /\ i <= Len(ms)
<1>1. DOMAIN ms = 1 .. Len(ms) /\ Len(ms) \in Nat
  OBVIOUS
<1>2. IsFiniteSet(1 .. Len(ms))
  BY <1>1, FS_Interval
<1>3. IsFiniteSet(S) /\ Cardinality(S) \in Nat
  BY <1>1, <1>2, FS_Subset, FS_CardinalityType
<1> QED BY <1>1, <1>3

LEMMA Humans ==
    ASSUME NEW ms \in Seq(Message)
    PROVE  /\ HumanPositions(ms) \subseteq DOMAIN ms
           /\ Cardinality(HumanPositions(ms)) \in Nat
           /\ \A i : HumansAfter(ms, i) \subseteq DOMAIN ms /\ HumansFrom(ms, i) \subseteq DOMAIN ms
           /\ \A i : Cardinality(HumansAfter(ms, i)) \in Nat /\ Cardinality(HumansFrom(ms, i)) \in Nat
<1>1. /\ HumanPositions(ms) \subseteq DOMAIN ms
      /\ \A i : HumansAfter(ms, i) \subseteq DOMAIN ms /\ HumansFrom(ms, i) \subseteq DOMAIN ms
  BY DEF HumanPositions, HumansAfter, HumansFrom
<1> QED BY <1>1, Positions

(* ms goes on to ext without a line of the pilot's.                        *)
GoesOn(ms, ext) ==
    /\ ext \in Seq(Message) /\ Len(ms) <= Len(ext)
    /\ \A i \in 1 .. Len(ms) : ext[i] = ms[i]
    /\ \A i \in 1 .. Len(ext) : i > Len(ms) => ext[i].type # "human"

LEMMA SameHumans ==
    ASSUME NEW ms \in Seq(Message), NEW ext, GoesOn(ms, ext)
    PROVE  /\ HumanPositions(ext) = HumanPositions(ms)
           /\ \A i : HumansAfter(ext, i) = HumansAfter(ms, i) /\ HumansFrom(ext, i) = HumansFrom(ms, i)
           /\ PreviousTurn(ext) = PreviousTurn(ms)
           /\ LastTurnsTools(ext) = LastTurnsTools(ms)
<1>1. /\ DOMAIN ms = 1 .. Len(ms) /\ DOMAIN ext = 1 .. Len(ext) /\ Len(ms) \in Nat /\ Len(ext) \in Nat
      /\ Len(ms) <= Len(ext)
  BY DEF GoesOn
<1>2. HumanPositions(ext) = HumanPositions(ms)
  <2>1. ASSUME NEW i \in DOMAIN ext, ext[i].type = "human" PROVE i \in DOMAIN ms /\ ms[i].type = "human"
    <3>1. i \in DOMAIN ms
      BY <1>1, <2>1 DEF GoesOn
    <3> QED BY <1>1, <2>1, <3>1 DEF GoesOn
  <2>2. ASSUME NEW i \in DOMAIN ms PROVE i \in DOMAIN ext /\ ext[i] = ms[i]
    BY <1>1, <2>2 DEF GoesOn
  <2> QED BY <2>1, <2>2, Zenon DEF HumanPositions
<1>3. \A i : HumansAfter(ext, i) = HumansAfter(ms, i) /\ HumansFrom(ext, i) = HumansFrom(ms, i)
  BY <1>2, Zenon DEF HumansAfter, HumansFrom
<1>4. PreviousTurn(ext) = PreviousTurn(ms) /\ \A i \in PreviousTurn(ms) : ext[i] = ms[i]
  <2>1. ASSUME NEW i \in DOMAIN ext, Cardinality({j \in HumanPositions(ms) : j > i}) = 1
        PROVE  i \in DOMAIN ms
    <3> SUFFICES ASSUME i \notin DOMAIN ms PROVE FALSE
      OBVIOUS
    <3>1. i > Len(ms)
      BY <1>1
    <3>2. {j \in HumanPositions(ms) : j > i} = {}
      BY <1>1, <3>1 DEF HumanPositions
    <3>3. Cardinality({j \in HumanPositions(ms) : j > i}) = 0
      BY <3>2, FS_EmptySet, Zenon
    <3> QED BY <2>1, <3>3
  <2>2. ASSUME NEW i \in DOMAIN ms PROVE i \in DOMAIN ext /\ ext[i] = ms[i]
    BY <1>1, <2>2 DEF GoesOn
  <2>3. PreviousTurn(ms) \subseteq DOMAIN ms
    BY DEF PreviousTurn
  <2> QED BY <1>2, <2>1, <2>2, <2>3, Zenon DEF PreviousTurn
<1>5. LastTurnsTools(ext) = LastTurnsTools(ms)
  BY <1>4, Zenon DEF LastTurnsTools
<1> QED BY <1>2, <1>3, <1>4, <1>5

(* The pilot says something.                                               *)
LEMMA HumanJoins ==
    ASSUME NEW ms \in Seq(Message), NEW ext, ext = Append(ms, Human)
    PROVE  /\ ext \in Seq(Message) /\ Len(ext) = Len(ms) + 1 /\ Last(ext).type = "human"
           /\ \A i \in 1 .. Len(ms) : ext[i] = ms[i]
           /\ Len(ext) \notin HumanPositions(ms)
           /\ HumanPositions(ext) = HumanPositions(ms) \cup {Len(ext)}
           /\ Cardinality(HumanPositions(ext)) = Cardinality(HumanPositions(ms)) + 1
           /\ \A i \in 1 .. Len(ms) :
                 /\ Cardinality(HumansAfter(ext, i)) = Cardinality(HumansAfter(ms, i)) + 1
                 /\ Cardinality(HumansFrom(ext, i)) = Cardinality(HumansFrom(ms, i)) + 1
           /\ HumansFrom(ext, Len(ext)) = {Len(ext)}
<1>1. Human \in Message /\ Human.type = "human"
  BY DEF Human, Message, Texts
<1>2. /\ ext \in Seq(Message) /\ Len(ext) = Len(ms) + 1 /\ ext[Len(ext)] = Human
      /\ \A i \in 1 .. Len(ms) : ext[i] = ms[i]
      /\ DOMAIN ext = 1 .. Len(ms) + 1 /\ DOMAIN ms = 1 .. Len(ms) /\ Len(ms) \in Nat
  BY <1>1
<1>3. HumanPositions(ext) = HumanPositions(ms) \cup {Len(ext)}
  <2>1. ASSUME NEW i \in DOMAIN ext PROVE (i \in DOMAIN ms /\ ext[i] = ms[i]) \/ i = Len(ext)
    BY <1>1, <1>2
  <2>2. ASSUME NEW i \in DOMAIN ms PROVE i \in DOMAIN ext /\ ext[i] = ms[i]
    BY <1>2
  <2>3. Len(ext) \in DOMAIN ext /\ ext[Len(ext)].type = "human"
    BY <1>1, <1>2
  <2> QED BY <2>1, <2>2, <2>3 DEF HumanPositions
<1>4. /\ Len(ext) \notin HumanPositions(ms) /\ \A i \in HumanPositions(ms) : i \in 1 .. Len(ms)
      /\ \A i : Len(ext) \notin HumansAfter(ms, i) /\ Len(ext) \notin HumansFrom(ms, i)
  BY <1>2 DEF HumanPositions, HumansAfter, HumansFrom
<1>5. IsFiniteSet(HumanPositions(ms)) /\ \A i : IsFiniteSet(HumansAfter(ms, i)) /\ IsFiniteSet(HumansFrom(ms, i))
  BY Humans, Positions
<1>6. Cardinality(HumanPositions(ext)) = Cardinality(HumanPositions(ms)) + 1
  BY <1>3, <1>4, <1>5, FS_AddElement
<1>7. ASSUME NEW i \in 1 .. Len(ms)
      PROVE  /\ Cardinality(HumansAfter(ext, i)) = Cardinality(HumansAfter(ms, i)) + 1
             /\ Cardinality(HumansFrom(ext, i)) = Cardinality(HumansFrom(ms, i)) + 1
  <2>1. Len(ext) > i /\ Len(ext) >= i
    BY <1>2
  <2>2. /\ HumansAfter(ext, i) = HumansAfter(ms, i) \cup {Len(ext)}
        /\ HumansFrom(ext, i) = HumansFrom(ms, i) \cup {Len(ext)}
    BY <1>3, <2>1 DEF HumansAfter, HumansFrom
  <2> QED BY <1>4, <1>5, <2>2, FS_AddElement
<1>8. HumansFrom(ext, Len(ext)) = {Len(ext)}
  BY <1>2, <1>3, <1>4 DEF HumansFrom
<1> QED BY <1>1, <1>2, <1>3, <1>4, <1>6, <1>7, <1>8 DEF Last

(* What comes after the pilot's line.                                      *)
LEMMA ThereIsALast ==
    ASSUME NEW n \in Nat, NEW S \in SUBSET (1 .. n), S # {}
    PROVE  \E m \in S : \A j \in S : j <= m
<1> DEFINE FromEnd == {k \in Nat : n - k \in S}
<1>1. FromEnd \in SUBSET Nat /\ FromEnd # {}
  <2>1. PICK i \in S : TRUE
    OBVIOUS
  <2>2. n - i \in Nat /\ n - (n - i) = i
    BY <2>1
  <2> QED BY <2>1, <2>2
<1>2. \E k \in FromEnd : \A l \in FromEnd : ~ (<<l, k>> \in OpToRel(<, Nat))
  BY <1>1, NatLessThanWellFounded, WFMin
<1>3. PICK k \in FromEnd : \A l \in FromEnd : ~ (l < k)
  BY <1>1, <1>2 DEF OpToRel
<1>4. ASSUME NEW j \in S PROVE j <= n - k
  <2>1. n - j \in Nat /\ n - (n - j) = j
    OBVIOUS
  <2>2. ~ (n - j < k)
    BY <1>3, <2>1
  <2> QED BY <2>1, <2>2
<1> QED BY <1>3, <1>4

LEMMA FallbackIsALine ==
    ASSUME NEW ms \in Seq(Message)
    PROVE  fallback_line(ms) \in Message /\ fallback_line(ms).type = "ai" /\ fallback_line(ms).calls = <<>>
<1> DEFINE results == {i \in ThisTurn(ms) : ms[i].type = "tool"}
           last == CHOOSE i \in results : \A j \in results : j <= i
<1>1. CASE results # {} /\ ms[last].text # "page"
  <2>1. results \in SUBSET (1 .. Len(ms)) /\ Len(ms) \in Nat
    BY DEF ThisTurn
  <2>2. last \in results
    BY <1>1, <2>1, ThereIsALast
  <2>3. ms[last].text \in Texts
    <3> HIDE DEF last, results
    <3>1. ms[last] \in Message
      BY <2>1, <2>2
    <3> QED BY <3>1 DEF Message
  <2>4. fallback_line(ms) = Says(ms[last].text)
    BY <1>1, Zenon DEF fallback_line
  <2> HIDE DEF last, results
  <2> QED BY <2>3, <2>4 DEF Says, Message
<1>2. CASE ~(results # {} /\ ms[last].text # "page")
  <2>1. fallback_line(ms) = Says("again")
    BY <1>2, Zenon DEF fallback_line
  <2> QED BY <2>1 DEF Says, Message, Texts
<1> QED BY <1>1, <1>2

LEMMA RepliesAreLines ==
    ASSUME NEW ms \in Seq(Message), NEW reply \in _reply(ms)
    PROVE  reply \in Message /\ reply.type = "ai"
<1>1. ASSUME NEW a \in Answers
      PROVE  recover_tool_call(a) \in Message /\ recover_tool_call(a).type = "ai"
  <2>1. a.calls \in Seq(Tools) /\ (a.text = "written" \/ (a \in Message /\ a.type = "ai"))
    <3>1. CASE a \in {Says(t) : t \in {"line", "asks", "empty"}}
      <4>1. PICK t \in {"line", "asks", "empty"} : a = Says(t)
        BY <3>1
      <4>2. <<>> \in Seq(Tools)
        OBVIOUS
      <4> QED BY <4>1, <4>2 DEF Says, Message, Texts
    <3>2. CASE a \in {Calls(c) : c \in ToolCalls}
      BY <3>2, AnswersAssumption DEF Calls, Message, Texts
    <3>3. CASE a \in {[type |-> "ai", calls |-> c, text |-> "written"] : c \in ToolCalls}
      BY <3>3, AnswersAssumption
    <3> QED BY <3>1, <3>2, <3>3 DEF Answers
  <2>2. Calls(a.calls) \in Message /\ Calls(a.calls).type = "ai"
    BY <2>1 DEF Calls, Message, Texts
  <2> QED BY <2>1, <2>2, Zenon DEF recover_tool_call
<1> QED BY <1>1, FallbackIsALine, Zenon DEF _reply

LEMMA AnswerJoins ==
    ASSUME NEW ms, Thread(ms), ms # <<>>, NEW m \in Message, m.type = "ai", NEW ext, ext = Append(ms, m)
    PROVE  /\ GoesOn(ms, ext) /\ Thread(ext) /\ ext # <<>> /\ Last(ext) = m
           /\ \A i \in Unanswered(ext) : i \in Unanswered(ms) \/ (i = Len(ext) /\ m.calls # <<>>)
<1>1. /\ ms \in Seq(Message) /\ ext \in Seq(Message) /\ Len(ext) = Len(ms) + 1 /\ ext[Len(ext)] = m
      /\ \A i \in 1 .. Len(ms) : ext[i] = ms[i]
      /\ DOMAIN ext = 1 .. Len(ms) + 1 /\ DOMAIN ms = 1 .. Len(ms) /\ Len(ms) \in Nat /\ Len(ms) > 0
  BY DEF Thread
<1>2. GoesOn(ms, ext)
  BY <1>1 DEF GoesOn
<1>3. /\ HumanPositions(ext) = HumanPositions(ms)
      /\ \A i : HumansFrom(ext, i) = HumansFrom(ms, i)
  BY <1>1, <1>2, SameHumans
<1>4. ASSUME NEW i \in DOMAIN ext, ext[i].type = "tool" PROVE HasItsCall(ext, i)
  <2>1. i \in DOMAIN ms /\ ms[i].type = "tool"
    BY <1>1, <1>4
  <2>2. HasItsCall(ms, i)
    BY <2>1 DEF Thread
  <2>3. \A k \in 1 .. i : ext[k] = ms[k]
    BY <1>1, <2>1
  <2>4. i \in Nat
    BY <1>1, <2>1
  <2> QED BY <2>2, <2>3, <2>4 DEF HasItsCall
<1>5. ext[1].type = "human"
  BY <1>1 DEF Thread
<1>6. Thread(ext)
  <2>1. \A n \in 1 .. Cardinality(HumanPositions(ext)) :
           \E i \in HumanPositions(ext) : Cardinality(HumansFrom(ext, i)) = n
    BY <1>3 DEF Thread
  <2> QED BY <1>1, <1>4, <1>5, <2>1, Zenon DEF Thread
<1>7. ASSUME NEW i \in Unanswered(ext) PROVE i \in Unanswered(ms) \/ (i = Len(ext) /\ m.calls # <<>>)
  <2>1. i \in DOMAIN ext /\ ext[i].type = "ai" /\ ext[i].calls # <<>> /\ (i = Len(ext) \/ ext[i + 1].type # "tool")
    BY DEF Unanswered
  <2>2. CASE i = Len(ext)
    BY <1>1, <2>1, <2>2
  <2>3. CASE i # Len(ext)
    <3>1. i \in DOMAIN ms /\ ext[i] = ms[i] /\ (i = Len(ms) \/ ext[i + 1] = ms[i + 1])
      BY <1>1, <2>1, <2>3
    <3> QED BY <2>1, <2>3, <3>1 DEF Unanswered
  <2> QED BY <2>2, <2>3
<1>8. ext # <<>> /\ Last(ext) = m
  BY <1>1 DEF Last
<1> QED BY <1>2, <1>6, <1>7, <1>8

(* ext is ms with the results of the calls it ends with.                   *)
Answered(ms, ext) ==
    /\ ext \in Seq(Message) /\ Len(ext) = Len(ms) + Len(Last(ms).calls)
    /\ \A i \in 1 .. Len(ms) : ext[i] = ms[i]
    /\ \A i \in 1 .. Len(ext) : i > Len(ms) =>
          ext[i].type = "tool" /\ ext[i].calls = <<Last(ms).calls[i - Len(ms)]>>

LEMMA ResultsJoin ==
    ASSUME NEW ms, Thread(ms), ms # <<>>, Last(ms).type = "ai", Last(ms).calls # <<>>,
           NEW ext, Answered(ms, ext)
    PROVE  /\ GoesOn(ms, ext) /\ Thread(ext) /\ ext # <<>>
           /\ \A i \in Unanswered(ext) : i \in Unanswered(ms) /\ i # Len(ms)
<1> DEFINE calls == Last(ms).calls
<1>1. /\ ms \in Seq(Message) /\ Len(ms) \in Nat /\ Len(ms) > 0 /\ DOMAIN ms = 1 .. Len(ms)
      /\ ms[Len(ms)] \in Message /\ ms[Len(ms)].type = "ai" /\ ms[Len(ms)].calls = calls
      /\ calls \in Seq(Tools) /\ Len(calls) \in Nat /\ Len(calls) > 0
  <2>1. ms \in Seq(Message) /\ Len(ms) \in Nat /\ Len(ms) > 0 /\ DOMAIN ms = 1 .. Len(ms)
    BY DEF Thread
  <2>2. ms[Len(ms)] \in Message /\ Last(ms) = ms[Len(ms)]
    BY <2>1 DEF Last
  <2>3. calls \in Seq(Tools)
    BY <2>2 DEF Message
  <2> QED BY <2>1, <2>2, <2>3
<1> HIDE DEF calls
<1>2. /\ ext \in Seq(Message) /\ Len(ext) = Len(ms) + Len(calls) /\ DOMAIN ext = 1 .. Len(ext)
      /\ Len(ext) \in Nat /\ \A i \in 1 .. Len(ms) : ext[i] = ms[i]
  BY DEF Answered, calls
<1>3. \A i \in 1 .. Len(ext) : i > Len(ms) => ext[i].type = "tool" /\ ext[i].calls = <<calls[i - Len(ms)]>>
  BY DEF Answered, calls
<1>4. GoesOn(ms, ext)
  BY <1>1, <1>2, <1>3 DEF GoesOn
<1>5. HumanPositions(ext) = HumanPositions(ms) /\ \A i : HumansFrom(ext, i) = HumansFrom(ms, i)
  BY <1>1, <1>4, SameHumans
<1>6. ASSUME NEW i \in DOMAIN ext, ext[i].type = "tool" PROVE HasItsCall(ext, i)
  <2>0. i \in Nat /\ 1 <= i /\ i <= Len(ext)
    BY <1>1, <1>2
  <2>1. CASE i <= Len(ms)
    <3>1. HasItsCall(ms, i) /\ \A k \in 1 .. i : ext[k] = ms[k]
      <4>1. i \in DOMAIN ms /\ ms[i].type = "tool" /\ \A k \in 1 .. i : ext[k] = ms[k]
        BY <1>1, <1>2, <1>6, <2>0, <2>1
      <4> QED BY <4>1 DEF Thread
    <3>2. ASSUME NEW j \in 1 .. (i - 1), ms[j].type = "ai", ToSet(ms[i].calls) \subseteq ToSet(ms[j].calls),
                 \A k \in (j + 1) .. i : ms[k].type = "tool"
          PROVE  /\ ext[j].type = "ai" /\ ToSet(ext[i].calls) \subseteq ToSet(ext[j].calls)
                 /\ \A k \in (j + 1) .. i : ext[k].type = "tool"
      <4>1. j \in 1 .. i /\ i \in 1 .. i /\ \A k \in (j + 1) .. i : k \in 1 .. i
        BY <2>0
      <4> QED BY <3>1, <3>2, <4>1, Zenon
    <3> QED BY <3>1, <3>2, Zenon DEF HasItsCall
  <2>2. CASE i > Len(ms)
    <3>1. /\ Len(ms) \in 1 .. (i - 1) /\ ext[Len(ms)] = ms[Len(ms)]
          /\ \A k \in (Len(ms) + 1) .. i : k \in 1 .. Len(ext) /\ k > Len(ms)
      BY <1>1, <1>2, <2>0, <2>2
    <3>2. \A k \in (Len(ms) + 1) .. i : ext[k].type = "tool"
      BY <1>3, <3>1
    <3>3. i - Len(ms) \in DOMAIN calls
      BY <1>1, <1>2, <2>0, <2>2
    <3>4. ext[i].calls = <<calls[i - Len(ms)]>>
      BY <1>2, <1>3, <2>2
    <3>5. ToSet(ext[i].calls) = {calls[i - Len(ms)]}
      BY <3>4 DEF ToSet
    <3>6. calls[i - Len(ms)] \in ToSet(calls)
      BY <3>3 DEF ToSet
    <3> QED BY <1>1, <3>1, <3>2, <3>5, <3>6 DEF HasItsCall
  <2> QED BY <1>1, <2>0, <2>1, <2>2
<1>7. ext[1].type = "human"
  BY <1>1, <1>2 DEF Thread
<1>8. Thread(ext)
  <2>1. \A n \in 1 .. Cardinality(HumanPositions(ext)) :
           \E i \in HumanPositions(ext) : Cardinality(HumansFrom(ext, i)) = n
    BY <1>5 DEF Thread
  <2> QED BY <1>2, <1>6, <1>7, <2>1, Zenon DEF Thread
<1>9. ASSUME NEW i \in Unanswered(ext) PROVE i \in Unanswered(ms) /\ i # Len(ms)
  <2>1. i \in DOMAIN ext /\ ext[i].type = "ai" /\ ext[i].calls # <<>> /\ (i = Len(ext) \/ ext[i + 1].type # "tool")
    BY DEF Unanswered
  <2>2. i \in Nat /\ 1 <= i /\ i <= Len(ms)
    BY <1>1, <1>2, <1>3, <2>1
  <2>3. i # Len(ms)
    <3>0. Len(ms) + 1 \in 1 .. Len(ext) /\ Len(ms) + 1 > Len(ms) /\ Len(ms) # Len(ext)
      <4>1. PICK m \in Nat : m = Len(ms)
        BY <1>1
      <4>2. PICK n \in Nat : n = Len(calls)
        BY <1>1
      <4>3. n > 0 /\ Len(ext) = m + n
        BY <1>1, <1>2, <4>1, <4>2, Zenon
      <4>4. m + 1 \in 1 .. (m + n) /\ m + 1 > m /\ m # m + n
        BY <4>1, <4>2, <4>3
      <4> QED BY <4>1, <4>3, <4>4, Zenon
    <3>1. ext[Len(ms) + 1].type = "tool" /\ Len(ms) # Len(ext)
      BY <1>3, <3>0, Zenon
    <3> QED BY <2>1, <3>1
  <2>4. ext[i] = ms[i] /\ ext[i + 1] = ms[i + 1] /\ i # Len(ext)
    <3>1. ASSUME NEW m \in Nat, NEW n \in Nat, NEW k \in Nat, 1 <= k, k <= m, k # m
          PROVE  k \in 1 .. m /\ k + 1 \in 1 .. m /\ k # m + n
      BY <3>1
    <3>2. i \in 1 .. Len(ms) /\ i + 1 \in 1 .. Len(ms) /\ i # Len(ms) + Len(calls)
      BY <1>1, <2>2, <2>3, <3>1, Zenon
    <3> QED BY <1>2, <3>2, Zenon
  <2> QED BY <1>1, <2>1, <2>2, <2>3, <2>4 DEF Unanswered
<1>10. ext # <<>>
  BY <1>1, <1>2
<1> QED BY <1>4, <1>8, <1>9, <1>10

(* The pilot's line begins a turn, and ends what came before it.           *)
LEMMA LineJoins ==
    ASSUME NEW ms, Thread(ms), NEW ext, ext = Append(ms, Human)
    PROVE  /\ Thread(ext) /\ ext # <<>> /\ Last(ext).type = "human"
           /\ Cardinality(HumanPositions(ext)) = Cardinality(HumanPositions(ms)) + 1
           /\ \A i \in Unanswered(ext) :
                 i \in Unanswered(ms) /\ Cardinality(HumansAfter(ext, i)) = Cardinality(HumansAfter(ms, i)) + 1
<1> DEFINE count == Cardinality(HumanPositions(ms))
<1>1. /\ ms \in Seq(Message) /\ ext \in Seq(Message) /\ Len(ext) = Len(ms) + 1 /\ Last(ext).type = "human"
      /\ \A i \in 1 .. Len(ms) : ext[i] = ms[i]
      /\ HumanPositions(ext) = HumanPositions(ms) \cup {Len(ext)}
      /\ Cardinality(HumanPositions(ext)) = count + 1
      /\ \A i \in 1 .. Len(ms) :
            /\ Cardinality(HumansAfter(ext, i)) = Cardinality(HumansAfter(ms, i)) + 1
            /\ Cardinality(HumansFrom(ext, i)) = Cardinality(HumansFrom(ms, i)) + 1
      /\ HumansFrom(ext, Len(ext)) = {Len(ext)}
  BY HumanJoins DEF Thread
<1>2. /\ DOMAIN ext = 1 .. Len(ext) /\ DOMAIN ms = 1 .. Len(ms) /\ Len(ms) \in Nat /\ count \in Nat
      /\ HumanPositions(ms) \subseteq 1 .. Len(ms)
  BY <1>1, Humans
<1>3. ext[Len(ext)].type = "human" /\ Cardinality(HumansFrom(ext, Len(ext))) = 1 /\ ext # <<>>
  <2>1. Cardinality(HumansFrom(ext, Len(ext))) = 1
    BY <1>1, FS_Singleton, Zenon
  <2>2. ext[Len(ext)].type = "human"
    BY <1>1, Zenon DEF Last
  <2>3. Len(ext) # 0
    BY <1>1, <1>2
  <2> QED BY <2>1, <2>2, <2>3
<1>4. ASSUME NEW n \in 1 .. Cardinality(HumanPositions(ext))
      PROVE  \E i \in HumanPositions(ext) : Cardinality(HumansFrom(ext, i)) = n
  <2>0. n \in Nat /\ n >= 1 /\ n <= count + 1
    BY <1>1, <1>2
  <2>1. CASE n = 1
    BY <1>1, <1>3, <2>1
  <2>2. CASE n # 1
    <3>1. n - 1 \in 1 .. count
      BY <1>2, <2>0, <2>2
    <3>2. PICK i \in HumanPositions(ms) : Cardinality(HumansFrom(ms, i)) = n - 1
      BY <3>1 DEF Thread
    <3>3. Cardinality(HumansFrom(ext, i)) = (n - 1) + 1
      BY <1>1, <1>2, <3>2
    <3>4. Cardinality(HumansFrom(ext, i)) = n
      BY <2>0, <3>3
    <3> QED BY <1>1, <3>4
  <2> QED BY <2>1, <2>2
<1>5. ext[1].type = "human"
  <2>1. CASE ms = <<>>
    BY <1>1, <1>3, <2>1
  <2>2. CASE ms # <<>>
    BY <1>1, <1>2, <2>2 DEF Thread
  <2> QED BY <2>1, <2>2
<1>6. ASSUME NEW i \in DOMAIN ext, ext[i].type = "tool" PROVE HasItsCall(ext, i)
  <2>1. i # Len(ext)
    BY <1>3, <1>6
  <2>2. i \in DOMAIN ms /\ ms[i].type = "tool" /\ i \in Nat /\ \A k \in 1 .. i : ext[k] = ms[k]
    BY <1>1, <1>2, <1>6, <2>1
  <2>3. HasItsCall(ms, i)
    BY <2>2 DEF Thread
  <2> QED BY <2>2, <2>3 DEF HasItsCall
<1>7. Thread(ext)
  BY <1>1, <1>4, <1>5, <1>6, Zenon DEF Thread
<1>8. ASSUME NEW i \in Unanswered(ext)
      PROVE  i \in Unanswered(ms) /\ Cardinality(HumansAfter(ext, i)) = Cardinality(HumansAfter(ms, i)) + 1
  <2>1. i \in DOMAIN ext /\ ext[i].type = "ai" /\ ext[i].calls # <<>> /\ (i = Len(ext) \/ ext[i + 1].type # "tool")
    BY DEF Unanswered
  <2>2. i # Len(ext)
    BY <1>3, <2>1
  <2>3. i \in DOMAIN ms /\ ext[i] = ms[i] /\ (i = Len(ms) \/ ext[i + 1] = ms[i + 1])
    BY <1>1, <1>2, <2>1, <2>2
  <2> QED BY <1>1, <1>2, <2>1, <2>2, <2>3 DEF Unanswered
<1> QED BY <1>1, <1>3, <1>7, <1>8

LEMMA NoLines == Thread(<<>>) /\ HumanPositions(<<>>) = {} /\ Unanswered(<<>>) = {} /\ Cardinality(HumanPositions(<<>>)) = 0
<1>1. HumanPositions(<<>>) = {} /\ Unanswered(<<>>) = {}
  BY DEF HumanPositions, Unanswered
<1>2. Cardinality(HumanPositions(<<>>)) = 0
  BY <1>1, FS_EmptySet
<1>3. <<>> \in Seq(Message)
  OBVIOUS
<1>4. 1 .. Cardinality(HumanPositions(<<>>)) = {} /\ DOMAIN <<>> = {}
  BY <1>2
<1> QED BY <1>1, <1>2, <1>3, <1>4, Zenon DEF Thread

-----------------------------------------------------------------------------
(* What is sent.                                                           *)

(* The window begins with a line of the pilot's, at most `turns' from the  *)
(* end, and the results are kept whole from one of the pilot's lines on.   *)
LEMMA WindowBegins ==
    ASSUME NEW ms, Thread(ms), ms # <<>>, NEW turns \in Nat \ {0}, NEW full \in Nat \ {0}
    PROVE  /\ WindowStart(ms, turns) \in HumanPositions(ms)
           /\ Cardinality(HumansFrom(ms, WindowStart(ms, turns))) <= turns
           /\ KeepResultsFrom(ms, full) \in HumanPositions(ms)
<1> DEFINE count == Cardinality(HumanPositions(ms))
<1>1. /\ ms \in Seq(Message) /\ count \in Nat /\ 1 \in HumanPositions(ms)
      /\ HumanPositions(ms) \subseteq DOMAIN ms /\ DOMAIN ms = 1 .. Len(ms) /\ Len(ms) \in Nat
  BY Humans DEF Thread, HumanPositions
<1>2. HumansFrom(ms, 1) = HumanPositions(ms)
  BY <1>1 DEF HumansFrom
<1>3. ASSUME NEW n \in Nat \ {0}, n <= count
      PROVE  FromTheEnd(ms, n) \in HumanPositions(ms) /\ Cardinality(HumansFrom(ms, FromTheEnd(ms, n))) = n
  <2>1. n \in 1 .. count
    BY <1>1, <1>3
  <2>2. \E i \in HumanPositions(ms) : Cardinality({j \in HumanPositions(ms) : j >= i}) = n
    BY <2>1 DEF Thread, HumansFrom
  <2> QED BY <2>2, Zenon DEF FromTheEnd, HumansFrom
<1>4. /\ WindowStart(ms, turns) \in HumanPositions(ms)
      /\ Cardinality(HumansFrom(ms, WindowStart(ms, turns))) <= turns
  <2>1. CASE count > turns
    <3>1. turns <= count /\ turns <= turns
      BY <1>1, <2>1
    <3>2. WindowStart(ms, turns) = FromTheEnd(ms, turns)
      BY <2>1, Zenon DEF WindowStart
    <3> QED BY <1>3, <3>1, <3>2, Zenon
  <2>2. CASE ~(count > turns)
    <3>1. WindowStart(ms, turns) = 1 /\ count <= turns
      BY <1>1, <2>2 DEF WindowStart
    <3> QED BY <1>1, <1>2, <3>1, Zenon
  <2> QED BY <2>1, <2>2
<1>5. KeepResultsFrom(ms, full) \in HumanPositions(ms)
  <2>1. CASE count >= full
    <3>1. full <= count
      BY <1>1, <2>1
    <3>2. KeepResultsFrom(ms, full) = FromTheEnd(ms, full)
      BY <2>1, Zenon DEF KeepResultsFrom
    <3> QED BY <1>3, <3>1, <3>2, Zenon
  <2>2. CASE ~(count >= full)
    BY <1>1, <2>2, Zenon DEF KeepResultsFrom
  <2> QED BY <2>1, <2>2
<1> QED BY <1>4, <1>5

(* Message by message: what is sent at k was said at first + k - 1.        *)
IsWindow(w, ms, turns) ==
    \E first \in HumanPositions(ms), keep \in HumanPositions(ms) :
       /\ Cardinality(HumansFrom(ms, first)) <= turns
       /\ DOMAIN w = 1 .. Len(w) /\ Len(w) = Len(ms) - first + 1
       /\ \A k \in 1 .. Len(w) :
             /\ first + k - 1 \in 1 .. Len(ms)
             /\ w[k].type = ms[first + k - 1].type /\ w[k].calls = ms[first + k - 1].calls
             /\ first + k - 1 >= keep => w[k] = ms[first + k - 1]

LEMMA WindowIs ==
    ASSUME NEW ms, Thread(ms), ms # <<>>, NEW turns \in Nat \ {0}, NEW full \in Nat \ {0}
    PROVE  IsWindow(_windowed_history(ms, turns, full), ms, turns)
<1> DEFINE w == _windowed_history(ms, turns, full)
<1> DEFINE first == WindowStart(ms, turns)
           keep == KeepResultsFrom(ms, full)
           said(i) == IF ms[i].type = "tool" /\ i < keep THEN [ms[i] EXCEPT !.text = "omitted"] ELSE ms[i]
<1>1. first \in HumanPositions(ms) /\ keep \in HumanPositions(ms) /\ Cardinality(HumansFrom(ms, first)) <= turns
  BY WindowBegins
<1>2. w = [k \in 1 .. (Len(ms) - first + 1) |-> said(first + k - 1)]
  BY Zenon DEF _windowed_history
<1>3. ASSUME NEW i \in DOMAIN ms
      PROVE  said(i).type = ms[i].type /\ said(i).calls = ms[i].calls /\ (i >= keep => said(i) = ms[i])
  <2>1. ms[i] \in Message /\ i \in Nat /\ keep \in Nat
    BY <1>1 DEF Thread, HumanPositions
  <2> HIDE DEF keep
  <2> QED BY <2>1 DEF Message
<1>4. ms \in Seq(Message) /\ DOMAIN ms = 1 .. Len(ms) /\ Len(ms) \in Nat /\ first \in 1 .. Len(ms) /\ keep \in 1 .. Len(ms)
  BY <1>1 DEF Thread, HumanPositions
<1> HIDE DEF first, keep, said, w
<1>5. DOMAIN w = 1 .. (Len(ms) - first + 1) /\ Len(w) = Len(ms) - first + 1
  <2>1. Len(ms) - first + 1 \in Nat
    BY <1>4
  <2> QED BY <1>2, <2>1
<1>6. ASSUME NEW k \in 1 .. Len(w)
      PROVE  /\ first + k - 1 \in 1 .. Len(ms)
             /\ w[k].type = ms[first + k - 1].type /\ w[k].calls = ms[first + k - 1].calls
             /\ first + k - 1 >= keep => w[k] = ms[first + k - 1]
  <2>1. first + k - 1 \in 1 .. Len(ms)
    BY <1>4, <1>5
  <2>2. w[k] = said(first + k - 1)
    BY <1>2, <1>5, Zenon
  <2> QED BY <1>3, <1>4, <2>1, <2>2, Zenon
<1>7. IsWindow(w, ms, turns)
  BY <1>1, <1>5, <1>6, Zenon DEF IsWindow
<1> QED BY <1>7 DEF w

(* What is sent has the call of every result in front of it, and the       *)
(* results of this turn whole.                                             *)
WellFormed(w) ==
    /\ w # <<>> => w[1].type = "human"
    /\ \A i \in DOMAIN w : w[i].type = "tool" =>
         /\ \E j \in 1..(i - 1) :
              /\ w[j].type = "ai" /\ ToSet(w[i].calls) \subseteq ToSet(w[j].calls)
              /\ \A k \in (j + 1)..i : w[k].type = "tool"
         /\ i \in ThisTurn(w) => w[i].text # "omitted"

LEMMA WhatIsSentIsWellFormed ==
    ASSUME NEW ms, Thread(ms), NEW turns \in Nat \ {0}, NEW w, IsWindow(w, ms, turns)
    PROVE  /\ WellFormed(w)
           /\ \A i \in Unanswered(w) : \E p \in Unanswered(ms) : Cardinality(HumansAfter(ms, p)) + 1 <= turns
<1>1. PICK first \in HumanPositions(ms), keep \in HumanPositions(ms) :
              /\ Cardinality(HumansFrom(ms, first)) <= turns
              /\ DOMAIN w = 1 .. Len(w) /\ Len(w) = Len(ms) - first + 1
              /\ \A k \in 1 .. Len(w) :
                    /\ first + k - 1 \in 1 .. Len(ms)
                    /\ w[k].type = ms[first + k - 1].type /\ w[k].calls = ms[first + k - 1].calls
                    /\ first + k - 1 >= keep => w[k] = ms[first + k - 1]
  BY Zenon DEF IsWindow
<1>2. /\ ms \in Seq(Message) /\ Len(ms) \in Nat /\ first \in Nat /\ 1 <= first /\ first <= Len(ms)
      /\ keep \in Nat /\ 1 <= keep /\ keep <= Len(ms) /\ DOMAIN ms = 1 .. Len(ms)
      /\ ms[first].type = "human" /\ ms[keep].type = "human" /\ Len(w) \in Nat /\ Len(w) > 0
  BY <1>1 DEF Thread, HumanPositions
<1>3. w[1].type = "human"
  <2>1. 1 \in 1 .. Len(w) /\ first + 1 - 1 = first
    BY <1>2
  <2> QED BY <1>1, <1>2, <2>1
<1>4. ASSUME NEW i \in DOMAIN w, w[i].type = "tool"
      PROVE  \E j \in 1 .. (i - 1) :
                /\ w[j].type = "ai" /\ ToSet(w[i].calls) \subseteq ToSet(w[j].calls)
                /\ \A k \in (j + 1) .. i : w[k].type = "tool"
  <2>1. /\ i \in Nat /\ 1 <= i /\ i <= Len(w) /\ first + i - 1 \in DOMAIN ms
        /\ ms[first + i - 1].type = "tool" /\ ms[first + i - 1].calls = w[i].calls
    BY <1>1, <1>2, <1>4
  <2>0. PICK at \in DOMAIN ms : at = first + i - 1
    BY <2>1
  <2>2. PICK p \in 1 .. (at - 1) : /\ ms[p].type = "ai" /\ ToSet(w[i].calls) \subseteq ToSet(ms[p].calls)
                                   /\ \A k \in (p + 1) .. at : ms[k].type = "tool"
    <3>1. ms[at].type = "tool" /\ ms[at].calls = w[i].calls
      BY <2>0, <2>1, Zenon
    <3>2. HasItsCall(ms, at)
      BY <3>1, Zenon DEF Thread
    <3> QED BY <3>1, <3>2, Zenon DEF HasItsCall
  <2>3. p > first
    <3> SUFFICES ASSUME ~(p > first) PROVE FALSE
      OBVIOUS
    <3>1. p = first \/ first \in (p + 1) .. at
      BY <1>2, <2>0, <2>1, <2>2
    <3> QED BY <1>2, <2>2, <3>1
  <2>4. /\ p - first + 1 \in 1 .. (i - 1) /\ p - first + 1 \in 1 .. Len(w)
        /\ first + (p - first + 1) - 1 = p
    BY <1>2, <2>0, <2>1, <2>2, <2>3
  <2>5. w[p - first + 1].type = "ai" /\ w[p - first + 1].calls = ms[p].calls
    BY <1>1, <2>2, <2>4
  <2>6. ASSUME NEW k \in ((p - first + 1) + 1) .. i PROVE w[k].type = "tool"
    <3>1. k \in 1 .. Len(w) /\ first + k - 1 \in (p + 1) .. at
      BY <1>2, <2>0, <2>1, <2>2, <2>3
    <3> QED BY <1>1, <2>2, <3>1, Zenon
  <2> QED BY <2>2, <2>4, <2>5, <2>6, Zenon
<1>5. ASSUME NEW i \in DOMAIN w, w[i].type = "tool", i \in ThisTurn(w) PROVE w[i].text # "omitted"
  <2>1. i \in Nat /\ 1 <= i /\ i <= Len(w) /\ \A j \in HumanPositions(w) : j <= i
    BY <1>1, <1>2, <1>5 DEF ThisTurn
  <2>2. first + i - 1 >= keep
    <3>1. CASE keep < first
      BY <1>2, <2>1, <3>1
    <3>2. CASE ~(keep < first)
      <4>1. keep - first + 1 \in 1 .. Len(w) /\ first + (keep - first + 1) - 1 = keep
        BY <1>1, <1>2, <3>2
      <4>2. keep - first + 1 \in HumanPositions(w)
        BY <1>1, <1>2, <4>1 DEF HumanPositions
      <4>3. keep - first + 1 <= i
        BY <2>1, <4>2
      <4> QED BY <1>2, <2>1, <4>3
    <3> QED BY <3>1, <3>2
  <2>3. i \in 1 .. Len(w)
    BY <2>1, <1>2
  <2>4. w[i] = ms[first + i - 1] /\ first + i - 1 \in DOMAIN ms
    BY <1>1, <1>2, <2>2, <2>3, Zenon
  <2>5. w[i] \in Message
    BY <1>2, <2>4
  <2> QED BY <2>5 DEF Message, Texts
<1>6. ASSUME NEW i \in Unanswered(w)
      PROVE  \E p \in Unanswered(ms) : Cardinality(HumansAfter(ms, p)) + 1 <= turns
  <2>1. /\ i \in 1 .. Len(w) /\ w[i].type = "ai" /\ w[i].calls # <<>>
        /\ i = Len(w) \/ w[i + 1].type # "tool"
    BY <1>1 DEF Unanswered
  <2>2. /\ first + i - 1 \in DOMAIN ms /\ ms[first + i - 1].type = "ai" /\ ms[first + i - 1].calls # <<>>
    BY <1>1, <1>2, <2>1
  <2>3. first + i - 1 = Len(ms) \/ ms[(first + i - 1) + 1].type # "tool"
    <3>1. CASE i = Len(w)
      BY <1>1, <1>2, <3>1
    <3>2. CASE i # Len(w)
      <4>1. i + 1 \in 1 .. Len(w) /\ first + (i + 1) - 1 = (first + i - 1) + 1
        BY <1>2, <2>1, <3>2
      <4>2. w[i + 1].type = ms[first + (i + 1) - 1].type
        BY <1>1, <4>1
      <4> QED BY <2>1, <3>2, <4>1, <4>2
    <3> QED BY <3>1, <3>2
  <2>4. first + i - 1 \in Unanswered(ms)
    BY <2>2, <2>3, Zenon DEF Unanswered
  <2>5. Cardinality(HumansAfter(ms, first + i - 1)) + 1 <= turns
    <3>1. first + i - 1 \in Nat /\ first <= first + i - 1
      BY <1>2, <2>1
    <3>2. /\ HumansAfter(ms, first + i - 1) \subseteq HumansAfter(ms, first)
          /\ HumansFrom(ms, first) = HumansAfter(ms, first) \cup {first}
          /\ first \notin HumansAfter(ms, first)
      BY <1>1, <1>2, <3>1 DEF HumansAfter, HumansFrom, HumanPositions
    <3>3. /\ IsFiniteSet(HumansAfter(ms, first)) /\ Cardinality(HumansAfter(ms, first)) \in Nat
          /\ Cardinality(HumansAfter(ms, first + i - 1)) \in Nat
      BY <1>2, Humans, Positions
    <3>4. Cardinality(HumansFrom(ms, first)) = Cardinality(HumansAfter(ms, first)) + 1
      <4>1. Cardinality(HumansAfter(ms, first) \cup {first}) = Cardinality(HumansAfter(ms, first)) + 1
        BY <3>2, <3>3, FS_AddElement, Zenon
      <4> QED BY <3>2, <4>1, Zenon
    <3>5. Cardinality(HumansAfter(ms, first + i - 1)) <= Cardinality(HumansAfter(ms, first))
      BY <3>2, <3>3, FS_Subset
    <3> QED BY <1>1, <3>3, <3>4, <3>5
  <2> QED BY <2>4, <2>5
<1>7. WellFormed(w)
  BY <1>3, <1>4, <1>5, Zenon DEF WellFormed
<1> QED BY <1>6, <1>7

-----------------------------------------------------------------------------
(* What the steps do to the history.                                       *)

LEMMA QuietAsksNothing ==
    ASSUME NEW ms, Thread(ms), Quiet(ms)
    PROVE  PreviousTurn(Append(ms, Human)) = {}
<1> SUFFICES ASSUME NEW i \in PreviousTurn(Append(ms, Human)) PROVE FALSE
  OBVIOUS
<1>1. PICK ext : ext = Append(ms, Human)
  OBVIOUS
<1>2. /\ ms \in Seq(Message) /\ Len(ext) = Len(ms) + 1 /\ ext \in Seq(Message)
      /\ HumanPositions(ext) = HumanPositions(ms) \cup {Len(ext)} /\ Last(ext).type = "human"
      /\ \A k \in 1 .. Len(ms) : ext[k] = ms[k]
  <2>1. ms \in Seq(Message)
    BY DEF Thread
  <2> QED BY <1>1, <2>1, HumanJoins, Zenon
<1>3. i \in DOMAIN ext /\ ext[i].type # "human" /\ Cardinality(HumansAfter(ext, i)) = 1
  BY <1>1, Zenon DEF PreviousTurn, HumansAfter
<1>4. /\ Len(ms) \in Nat /\ DOMAIN ms = 1 .. Len(ms) /\ DOMAIN ext = 1 .. Len(ext)
      /\ i \in Nat /\ 1 <= i /\ i <= Len(ms) /\ ms[i].type # "human"
  <2>1. Len(ms) \in Nat /\ DOMAIN ms = 1 .. Len(ms) /\ DOMAIN ext = 1 .. Len(ext)
    BY <1>2
  <2>2. ext[Len(ext)].type = "human"
    BY <1>2, Zenon DEF Last
  <2>3. i \in Nat /\ 1 <= i /\ i <= Len(ms) + 1 /\ i # Len(ms) + 1
    BY <1>2, <1>3, <2>1, <2>2
  <2> QED BY <1>2, <1>3, <2>1, <2>3
<1>5. Len(ms) \in HumanPositions(ms) /\ i # Len(ms)
  <2>1. ms # <<>>
    BY <1>4
  <2>2. ms[Len(ms)].type = "human"
    BY <2>1, Zenon DEF Quiet, Last
  <2>3. Len(ms) \in DOMAIN ms
    BY <1>4
  <2>4. Len(ms) \in HumanPositions(ms)
    BY <2>2, <2>3, Zenon DEF HumanPositions
  <2>5. i # Len(ms)
    BY <1>4, <2>2, Zenon
  <2> QED BY <2>4, <2>5
<1>6. Len(ms) \in HumansAfter(ext, i) /\ Len(ext) \in HumansAfter(ext, i) /\ Len(ms) # Len(ext)
  <2>1. Len(ms) > i /\ Len(ext) > i /\ Len(ms) # Len(ext)
    <3>1. PICK n \in Nat : n = Len(ms)
      BY <1>4
    <3>2. i \in Nat /\ i <= n /\ i # n
      BY <1>4, <1>5, <3>1, Zenon
    <3>3. n > i /\ n + 1 > i /\ n # n + 1
      BY <3>1, <3>2, SMT
    <3> QED BY <1>2, <3>1, <3>3, Zenon
  <2> QED BY <1>2, <1>5, <2>1, Zenon DEF HumansAfter
<1>7. IsFiniteSet(HumansAfter(ext, i))
  BY <1>2, Humans, Positions
<1>8. \E x : HumansAfter(ext, i) = {x}
  BY <1>3, <1>7, FS_Singleton, Zenon
<1>9. PICK x : HumansAfter(ext, i) = {x}
  BY <1>8
<1>10. Len(ms) = x /\ Len(ext) = x
  BY <1>6, <1>9, Zenon
<1> QED BY <1>6, <1>10, Zenon

LEMMA AnswerAdds ==
    ASSUME IInv, Replied \/ social_reply \/ decline_topic
    PROVE  \E m \in Message : /\ m.type = "ai" /\ messages' = Append(messages, m)
                              /\ node' = tools_condition(m)
<1>1. messages \in Seq(Message)
  BY DEF IInv, Thread
<1>2. CASE Replied
  BY <1>1, <1>2, RepliesAreLines, Zenon DEF Replied
<1>3. ASSUME NEW text \in {"line", "asks"}
      PROVE  Says(text) \in Message /\ Says(text).type = "ai" /\ tools_condition(Says(text)) = "speaking"
  BY DEF Says, Message, Texts, tools_condition
<1>4. CASE social_reply \/ decline_topic
  BY <1>3, <1>4, Zenon DEF social_reply, decline_topic
<1> QED BY <1>2, <1>4

LEMMA ToolsAnswer ==
    ASSUME IInv, ToolNode
    PROVE  /\ messages # <<>> /\ Last(messages).type = "ai" /\ Last(messages).calls # <<>>
           /\ Answered(messages, messages')
<1> DEFINE calls == Last(messages).calls
<1>1. node = "tools" /\ messages \in Seq(Message)
  BY Zenon DEF IInv, Thread, ToolNode
<1>2. messages # <<>> /\ Last(messages).type = "ai" /\ calls # <<>>
  BY <1>1, Zenon DEF IInv, NodeInv
<1>3. calls \in Seq(Tools)
  <2>1. Last(messages) \in Message
    BY <1>1, <1>2 DEF Last
  <2> QED BY <2>1 DEF Message
<1>4. PICK outcome \in [DOMAIN calls -> UNION {Outcomes(t) : t \in Tools}] :
         /\ \A k \in DOMAIN calls : outcome[k] \in Outcomes(calls[k])
         /\ messages' = messages \o [k \in DOMAIN calls |-> Result(calls[k], outcome[k].text)]
  BY Zenon DEF ToolNode
<1> DEFINE results == [k \in DOMAIN calls |-> Result(calls[k], outcome[k].text)]
<1>5. ASSUME NEW k \in DOMAIN calls
      PROVE  results[k] \in Message /\ results[k].type = "tool" /\ results[k].calls = <<calls[k]>>
  <2>1. outcome[k] \in Outcomes(calls[k]) /\ calls[k] \in Tools
    BY <1>3, <1>4
  <2>2. outcome[k].text \in Texts
    BY <2>1 DEF Outcomes, Texts
  <2>3. results[k] = Result(calls[k], outcome[k].text)
    BY Zenon
  <2> HIDE DEF results, calls
  <2>4. <<calls[k]>> \in Seq(Tools)
    BY <2>1
  <2> QED BY <2>2, <2>3, <2>4 DEF Result, Message
<1>6. DOMAIN results = DOMAIN calls /\ messages' = messages \o results
  BY <1>4, Zenon
<1> HIDE DEF results, calls
<1>7. results \in Seq(Message) /\ Len(results) = Len(calls) /\ DOMAIN calls = 1 .. Len(calls) /\ Len(calls) \in Nat
  <2>1. DOMAIN calls = 1 .. Len(calls) /\ Len(calls) \in Nat
    BY <1>3
  <2>2. results = [k \in 1 .. Len(calls) |-> results[k]]
    BY <2>1 DEF results
  <2> QED BY <1>5, <2>1, <2>2
<1>8. /\ messages' \in Seq(Message) /\ Len(messages') = Len(messages) + Len(calls)
      /\ \A i \in 1 .. Len(messages) : messages'[i] = messages[i]
      /\ \A i \in 1 .. Len(messages') : i > Len(messages) => messages'[i] = results[i - Len(messages)]
  <2>1. messages \in Seq(Message) /\ results \in Seq(Message) /\ messages' = messages \o results
    BY <1>1, <1>6, <1>7
  <2>2. messages' \in Seq(Message) /\ Len(messages') = Len(messages) + Len(results)
    BY <2>1
  <2>3. \A i \in 1 .. Len(messages) : messages'[i] = messages[i]
    BY <2>1
  <2>4. \A i \in 1 .. Len(messages') : i > Len(messages) => messages'[i] = results[i - Len(messages)]
    BY <2>1
  <2> QED BY <1>7, <2>2, <2>3, <2>4, Zenon
<1>9. ASSUME NEW i \in 1 .. Len(messages'), i > Len(messages)
      PROVE  messages'[i].type = "tool" /\ messages'[i].calls = <<calls[i - Len(messages)]>>
  <2>1. i - Len(messages) \in DOMAIN calls
    BY <1>1, <1>7, <1>8, <1>9
  <2> QED BY <1>5, <1>8, <1>9, <2>1, Zenon
<1> QED BY <1>2, <1>8, <1>9, Zenon DEF Answered, calls

-----------------------------------------------------------------------------
(* Each step keeps the invariant.                                          *)

LEMMA ThreadKept ==
    ASSUME IInv, [Next]_vars
    PROVE  Thread(messages') /\ (messages # <<>> \/ Hears => messages' # <<>>)
<1>1. Thread(messages)
  BY DEF IInv
<1>2. CASE UNCHANGED messages
  <2>1. ~Hears
    <3> SUFFICES ASSUME Hears PROVE FALSE
      OBVIOUS
    <3>1. messages \in Seq(Message)
      BY <1>1 DEF Thread
    <3>2. Len(messages) + 1 = Len(messages) /\ Len(messages) \in Nat
      <4>1. Len(Append(messages, Human)) = Len(messages) + 1
        BY <3>1, HumanJoins, Zenon
      <4>2. Append(messages, Human) = messages
        BY <1>2, Zenon DEF Hears
      <4>3. Len(messages) \in Nat
        BY <3>1
      <4> QED BY <4>1, <4>2, <4>3, Zenon
    <3> QED BY <3>2
  <2> QED BY <1>1, <1>2, <2>1, Zenon
<1>3. CASE Hears
  BY <1>1, <1>3, LineJoins, Zenon DEF Hears
<1>4. CASE Replied \/ social_reply \/ decline_topic
  <2>1. messages # <<>>
    BY <1>4, Zenon DEF IInv, NodeInv, Replied, social_reply, decline_topic
  <2> QED BY <1>1, <1>4, <2>1, AnswerAdds, AnswerJoins, Zenon
<1>5. CASE ToolNode
  BY <1>1, <1>5, ToolsAnswer, ResultsJoin, Zenon
<1> QED
  BY <1>2, <1>3, <1>4, <1>5, Zenon
  DEF Next, vars, HearsNothing, ListeningFails, _run_turn, route_start, classify_topic, FallBackToClassifier, Judged, respond,
      HostRefuses, TurnFails, TooManySteps, Speaks, _announce_failure

LEMMA NodeKept ==
    ASSUME IInv, [Next]_vars
    PROVE  NodeInv'
<1> DEFINE Nodes == {"listening", "start", "classify_topic", "respond", "replying", "tools",
                     "social", "decline", "speaking", "failing", "stopped"}
           Typed == node \in Nodes
           Counted == steps \in Nat /\ steps <= RecursionLimit
           Begun == node \notin {"listening", "stopped"} => messages # <<>>
           Called == node = "tools" => Last(messages).type = "ai" /\ Last(messages).calls # <<>>
           Asked == IF node = "replying" THEN prompt.window = Sent ELSE prompt = NoPrompt
<1>0. Typed /\ Counted /\ Begun /\ Called /\ Asked
  BY Zenon DEF IInv, NodeInv
<1>1. messages # <<>> \/ Hears => messages' # <<>>
  BY ThreadKept
<1>2. ASSUME UNCHANGED vars PROVE NodeInv'
  BY <1>0, <1>2, Zenon DEF vars, NodeInv, Sent, NoPrompt
<1>3. ASSUME Hears PROVE NodeInv'
  <2>1. Counted'
    BY <1>3, WindowAssumption DEF Hears
  <2> QED BY <1>0, <1>1, <1>3, <2>1, Zenon DEF Hears, NodeInv
<1>4. ASSUME route_start PROVE NodeInv'
  BY <1>0, <1>1, <1>4, Zenon DEF route_start, NodeInv
<1>5. ASSUME NodeRuns PROVE Counted'
  BY <1>0, <1>5, WindowAssumption DEF NodeRuns
<1>6. ASSUME classify_topic \/ FallBackToClassifier PROVE NodeInv'
  <2>1. \E kind, groups : Judged(kind, groups)
    BY <1>6, Zenon DEF classify_topic, FallBackToClassifier
  <2>2. node = "classify_topic" /\ NodeRuns
    BY <1>6, Zenon DEF classify_topic, FallBackToClassifier
  <2>3. UNCHANGED <<messages, prompt>> /\ node' \in {"social", "respond", "decline"}
    BY <2>1, Zenon DEF Judged, route_topic
  <2> QED BY <1>0, <1>1, <1>5, <2>2, <2>3, Zenon DEF NodeInv
<1>7. ASSUME respond PROVE NodeInv'
  <2>1. prompt'.window = Sent /\ UNCHANGED messages /\ node = "respond" /\ node' = "replying" /\ NodeRuns
    BY <1>7 DEF respond, Sent
  <2>2. prompt'.window = Sent'
    BY <2>1, Zenon DEF Sent
  <2> QED BY <1>0, <1>1, <1>5, <2>1, <2>2, Zenon DEF NodeInv
<1>8. ASSUME Replied PROVE NodeInv'
  <2>1. PICK m \in Message : m.type = "ai" /\ messages' = Append(messages, m) /\ node' = tools_condition(m)
    BY <1>8, AnswerAdds
  <2>2. UNCHANGED steps /\ prompt' = NoPrompt /\ node = "replying"
    BY <1>8, Zenon DEF Replied
  <2>3. Last(messages') = m /\ node' \in {"speaking", "tools"} /\ (node' = "tools" => m.calls # <<>>)
    <3>1. Thread(messages) /\ messages # <<>>
      BY <1>0, <2>2, Zenon DEF IInv
    <3>2. Last(messages') = m
      BY <2>1, <3>1, AnswerJoins, Zenon
    <3> QED BY <2>1, <3>2, Zenon DEF tools_condition
  <2> QED BY <1>0, <1>1, <2>1, <2>2, <2>3, Zenon DEF NodeInv, NoPrompt
<1>9. ASSUME ToolNode PROVE NodeInv'
  <2>1. node = "tools" /\ node' = "respond" /\ UNCHANGED prompt /\ NodeRuns
    BY <1>9, Zenon DEF ToolNode
  <2> QED BY <1>0, <1>1, <1>5, <2>1, Zenon DEF NodeInv, NoPrompt
<1>10. ASSUME social_reply \/ decline_topic PROVE NodeInv'
  <2>1. node \in {"social", "decline"} /\ node' = "speaking" /\ UNCHANGED prompt /\ NodeRuns
    BY <1>10, Zenon DEF social_reply, decline_topic
  <2> QED BY <1>0, <1>1, <1>5, <2>1, Zenon DEF NodeInv, NoPrompt
<1>11. ASSUME HostRefuses \/ TurnFails \/ TooManySteps PROVE NodeInv'
  <2>1. /\ node \notin {"listening", "stopped"} /\ node' = "failing" /\ UNCHANGED <<messages, steps>>
        /\ prompt' = NoPrompt \/ (node # "replying" /\ UNCHANGED prompt)
    BY <1>11, Zenon DEF HostRefuses, Unpaired, TurnFails, TooManySteps, CanFail
  <2> QED BY <1>0, <1>1, <2>1, Zenon DEF NodeInv, NoPrompt
<1>12. ASSUME Speaks \/ _announce_failure \/ ListeningFails PROVE NodeInv'
  <2>1. /\ node \in {"speaking", "failing", "listening"} /\ node' \in {"listening", "stopped"}
        /\ UNCHANGED <<messages, steps, prompt>>
    BY <1>12, Zenon DEF Speaks, _announce_failure, ListeningFails
  <2> QED BY <1>0, <1>1, <2>1, Zenon DEF NodeInv, NoPrompt
<1> QED
  BY <1>2, <1>3, <1>4, <1>6, <1>7, <1>8, <1>9, <1>10, <1>11, <1>12, Zenon DEF Next, HearsNothing, _run_turn


LEMMA Kinds ==
    ASSUME NEW d \in Decisions
    PROVE  d.kind \in {"request", "social", "off_topic"} /\ d.tool_groups \in SUBSET (Groups \cup {None})
<1>1. PICK c \in {"request", "social", "off_topic"}, p \in {5, 7, 9}, g \in LikelyGroups :
         d = [kind |-> apply_floors(c, p), tool_groups |-> chosen_groups(g)]
  BY DEF Decisions
<1>2. apply_floors(c, p) \in {"request", "social", "off_topic"}
  BY Zenon DEF apply_floors
<1>3. {"timers", "routes"} \subseteq Groups
  BY DEF Groups, TOOL_GROUPS
<1>4. chosen_groups(g) \in SUBSET (Groups \cup {None})
  BY <1>3, AnswersAssumption, Zenon DEF chosen_groups
<1>5. d.kind = apply_floors(c, p) /\ d.tool_groups = chosen_groups(g)
  BY <1>1
<1> QED BY <1>2, <1>4, <1>5, Zenon

(* The graph's state, field by field.                                      *)
IsGraph(g) ==
    /\ g = [on_topic |-> g.on_topic, social |-> g.social, pending_confirmation |-> g.pending_confirmation,
            active_runs |-> g.active_runs, active_runs_turn |-> g.active_runs_turn,
            tool_groups |-> g.tool_groups, tool_groups_turn |-> g.tool_groups_turn]
    /\ g.on_topic \in BOOLEAN /\ g.social \in BOOLEAN /\ g.pending_confirmation \in BOOLEAN

(* The topic decision leaves the rest of the graph's state.                *)
LEMMA Judging ==
    ASSUME IInv, classify_topic \/ FallBackToClassifier
    PROVE  \E kind \in {"request", "social", "off_topic"}, runs \in {0, pilot_turn} :
              /\ judged' = [judged EXCEPT !.now = kind]
              /\ node' \in {"social", "respond", "decline"} /\ (kind = "off_topic" <=> node' = "decline")
              /\ UNCHANGED <<messages, prompt, recorded, rejected, heard>>
              /\ node = "classify_topic"
              /\ graph'.on_topic \in BOOLEAN /\ graph'.social \in BOOLEAN
              /\ (graph'.on_topic <=> kind # "off_topic")
              /\ graph'.pending_confirmation = graph.pending_confirmation
              /\ graph'.active_runs = runs /\ graph'.active_runs_turn = pilot_turn
              /\ IsGraph(graph')
              /\ \/ /\ graph'.tool_groups_turn = pilot_turn
                    /\ \E groups \in SUBSET (Groups \cup {None}) :
                          graph'.tool_groups = _with_last_turns_groups(groups, messages)
                 \/ /\ graph'.tool_groups_turn = graph.tool_groups_turn
                    /\ graph'.tool_groups = graph.tool_groups
<1>1. PICK kind, groups :
         /\ kind \in {"request", "social", "off_topic"}
         /\ Judged(kind, groups) /\ node = "classify_topic"
         /\ \/ /\ groups.turn = pilot_turn
               /\ \E g \in SUBSET (Groups \cup {None}) : groups.set = _with_last_turns_groups(g, messages)
            \/ groups.set = graph.tool_groups /\ groups.turn = graph.tool_groups_turn
  <2>1. CASE classify_topic
    <3>1. PICK d \in Decisions : Judged(d.kind, [set |-> _with_last_turns_groups(d.tool_groups, messages),
                                                 turn |-> pilot_turn])
      BY <2>1, Zenon DEF classify_topic
    <3> DEFINE chosen == [set |-> _with_last_turns_groups(d.tool_groups, messages), turn |-> pilot_turn]
    <3>2. chosen.turn = pilot_turn /\ chosen.set = _with_last_turns_groups(d.tool_groups, messages)
      OBVIOUS
    <3> HIDE DEF chosen
    <3>3. Judged(d.kind, chosen) /\ node = "classify_topic"
      BY <2>1, <3>1, Zenon DEF chosen, classify_topic
    <3>4. d.kind \in {"request", "social", "off_topic"} /\ d.tool_groups \in SUBSET (Groups \cup {None})
      BY Kinds
    <3>5. \E g \in SUBSET (Groups \cup {None}) : chosen.set = _with_last_turns_groups(g, messages)
      BY <3>2, <3>4, Zenon
    <3> WITNESS d.kind, chosen
    <3> QED BY <3>2, <3>3, <3>4, <3>5, Zenon
  <2>2. CASE FallBackToClassifier
    <3>1. PICK k \in {"request", "off_topic"} :
             Judged(k, [set |-> graph.tool_groups, turn |-> graph.tool_groups_turn])
      BY <2>2, Zenon DEF FallBackToClassifier
    <3> DEFINE chosen == [set |-> graph.tool_groups, turn |-> graph.tool_groups_turn]
    <3>2. chosen.turn = graph.tool_groups_turn /\ chosen.set = graph.tool_groups
      OBVIOUS
    <3> HIDE DEF chosen
    <3>3. Judged(k, chosen) /\ node = "classify_topic" /\ k \in {"request", "social", "off_topic"}
      BY <2>2, <3>1, Zenon DEF chosen, FallBackToClassifier
    <3> WITNESS k, chosen
    <3> QED BY <3>2, <3>3, Zenon
  <2> QED BY <2>1, <2>2
<1>2. PICK runs \in {0, pilot_turn} :
         graph' = [graph EXCEPT !.on_topic = kind # "off_topic", !.social = kind = "social",
                                !.active_runs = runs, !.active_runs_turn = pilot_turn,
                                !.tool_groups = groups.set, !.tool_groups_turn = groups.turn]
  BY <1>1, Zenon DEF Judged, _active_runs_note
<1>3. graph \in GraphState
  BY Zenon DEF IInv, GraphInv
<1>4. /\ graph'.on_topic = (kind # "off_topic") /\ graph'.social = (kind = "social")
      /\ graph'.pending_confirmation = graph.pending_confirmation
      /\ graph'.active_runs = runs /\ graph'.active_runs_turn = pilot_turn
      /\ graph'.tool_groups = groups.set /\ graph'.tool_groups_turn = groups.turn
  BY <1>2, <1>3 DEF GraphState
<1>7. IsGraph(graph')
  <2>1. /\ graph' = [on_topic |-> graph'.on_topic, social |-> graph'.social,
                     pending_confirmation |-> graph'.pending_confirmation,
                     active_runs |-> graph'.active_runs, active_runs_turn |-> graph'.active_runs_turn,
                     tool_groups |-> graph'.tool_groups, tool_groups_turn |-> graph'.tool_groups_turn]
    BY <1>2, <1>3 DEF GraphState
  <2>2. graph'.on_topic \in BOOLEAN /\ graph'.social \in BOOLEAN /\ graph'.pending_confirmation \in BOOLEAN
    BY <1>3, <1>4 DEF GraphState
  <2> QED BY <2>1, <2>2, Zenon DEF IsGraph
<1>5. /\ judged' = [judged EXCEPT !.now = kind]
      /\ node' = route_topic(kind # "off_topic", kind = "social")
      /\ UNCHANGED <<messages, prompt, recorded, rejected, heard>>
  BY <1>1, Zenon DEF Judged
<1>6. node' \in {"social", "respond", "decline"} /\ (kind = "off_topic" <=> node' = "decline")
  BY <1>5, Zenon DEF route_topic
<1> QED BY <1>1, <1>4, <1>5, <1>6, <1>7, Zenon

(* What a reply writes into the graph's state.                             *)
LEMMA Replying ==
    ASSUME IInv, Replied
    PROVE  /\ graph' \in [on_topic : BOOLEAN, social : BOOLEAN, pending_confirmation : BOOLEAN,
                          active_runs : {prompt.runs}, active_runs_turn : {pilot_turn},
                          tool_groups : {graph.tool_groups}, tool_groups_turn : {graph.tool_groups_turn}]
           /\ graph'.on_topic = graph.on_topic
<1>1. graph \in GraphState
  BY Zenon DEF IInv, GraphInv
<1>2. PICK pending \in BOOLEAN :
         graph' = [graph EXCEPT !.pending_confirmation = pending, !.active_runs = prompt.runs,
                                !.active_runs_turn = pilot_turn]
  <2>1. _just_ran_confirmation_prone_tool(messages) \in BOOLEAN
    BY Zenon DEF _just_ran_confirmation_prone_tool
  <2> QED BY <2>1, Zenon DEF Replied
<1> QED BY <1>1, <1>2 DEF GraphState

LEMMA TopicKept ==
    ASSUME IInv, [Next]_vars
    PROVE  TopicInv'
<1> DEFINE AsksNow == graph.pending_confirmation \/ _alice_just_asked(messages, graph.on_topic)
           S0 == judged \in Judgements
           S1 == judged.now = "skipped" => judged.before \in PastTopicCheck
           S2 == node = "start" => /\ judged.now = None /\ Quiet(messages)
                                   /\ AsksNow => judged.before \in PastTopicCheck
           S3 == judged.now = None /\ node # "start" =>
                    ~graph.pending_confirmation /\ Quiet(messages) /\ node \in {"listening", "classify_topic", "failing", "stopped"}
           S4 == judged.now = "off_topic" =>
                    ~graph.pending_confirmation /\ ~graph.on_topic /\ node \in {"listening", "decline", "speaking", "failing", "stopped"}
           S5 == node = "classify_topic" => judged.now = None
<1>0. S0 /\ S1 /\ S2 /\ S3 /\ S4 /\ S5
  BY Zenon DEF IInv, TopicInv
<1>1. judged.now \in PastTopicCheck \cup {None, "off_topic"} /\ judged.before \in PastTopicCheck \cup {None, "off_topic"}
  BY <1>0 DEF Judgements
<1>2. None \notin PastTopicCheck /\ "off_topic" \notin PastTopicCheck /\ "skipped" \in PastTopicCheck /\ "skipped" # None
      /\ {"request", "social"} \subseteq PastTopicCheck /\ None # "off_topic"
  BY DEF PastTopicCheck, None
<1>3. ASSUME S0', S1', S2', S3', S4', S5' PROVE TopicInv'
  BY <1>3, Zenon DEF TopicInv
<1> HIDE DEF AsksNow
<1>4. ASSUME UNCHANGED vars PROVE TopicInv'
  BY <1>0, <1>3, <1>4, Zenon DEF vars, AsksNow, Quiet, _alice_just_asked
<1>5. ASSUME Hears PROVE TopicInv'
  <2>1. judged'.before = judged.now /\ judged'.now = None /\ S0'
    BY <1>1, <1>5 DEF Hears, Judgements
  <2>2. node = "listening" /\ node' = "start" /\ graph' = graph /\ messages' = Append(messages, Human)
    BY <1>5, Zenon DEF Hears
  <2>3. Last(messages').type = "human"
    BY <2>2, LineJoins, Zenon DEF IInv
  <2>4. AsksNow' => judged.now \in PastTopicCheck
    <3> SUFFICES ASSUME judged.now \notin PastTopicCheck PROVE ~AsksNow'
      OBVIOUS
    <3>1. CASE judged.now = "off_topic"
      BY <1>0, <2>2, <3>1, Zenon DEF AsksNow, _alice_just_asked
    <3>2. CASE judged.now = None
      <4>1. ~graph.pending_confirmation /\ Quiet(messages)
        BY <1>0, <2>2, <3>2, Zenon
      <4>2. PreviousTurn(messages') = {}
        BY <2>2, <4>1, QuietAsksNothing, Zenon DEF IInv
      <4> QED BY <2>2, <4>1, <4>2, Zenon DEF AsksNow, _alice_just_asked
    <3> QED BY <1>1, <3>1, <3>2, Zenon
  <2> QED BY <1>2, <1>3, <2>1, <2>2, <2>3, <2>4, Zenon DEF Quiet
<1>6. ASSUME route_start PROVE TopicInv'
  <2>0. node = "start" /\ UNCHANGED <<messages, graph>>
    BY <1>6, Zenon DEF route_start
  <2>1. CASE AsksNow
    <3>1. judged' = [judged EXCEPT !.now = "skipped"] /\ node' = "respond"
      BY <1>6, <2>1, Zenon DEF route_start, AsksNow
    <3>2. judged'.now = "skipped" /\ judged'.before = judged.before /\ S0'
      BY <1>0, <3>1 DEF Judgements, PastTopicCheck
    <3> QED BY <1>0, <1>2, <1>3, <2>0, <2>1, <3>1, <3>2, Zenon
  <2>2. CASE ~AsksNow
    <3>1. judged' = judged /\ node' = "classify_topic"
      BY <1>6, <2>2, Zenon DEF route_start, AsksNow
    <3> QED BY <1>0, <1>2, <1>3, <2>0, <2>2, <3>1, Zenon DEF AsksNow, Quiet
  <2> QED BY <2>1, <2>2
<1>7. ASSUME classify_topic \/ FallBackToClassifier PROVE TopicInv'
  <2>1. PICK kind \in {"request", "social", "off_topic"} :
              /\ judged' = [judged EXCEPT !.now = kind]
              /\ node' \in {"social", "respond", "decline"} /\ (kind = "off_topic" <=> node' = "decline")
              /\ node = "classify_topic" /\ (graph'.on_topic <=> kind # "off_topic")
              /\ graph'.pending_confirmation = graph.pending_confirmation
    BY <1>7, Judging, Zenon
  <2>2. judged'.now = kind /\ S0'
    BY <1>0, <2>1 DEF Judgements, PastTopicCheck
  <2>3. ~graph.pending_confirmation
    BY <1>0, <2>1, Zenon
  <2>4. S1' /\ S2' /\ S3' /\ S5'
    BY <1>2, <2>1, <2>2, Zenon
  <2>5. S4'
    BY <2>1, <2>2, <2>3, Zenon
  <2> QED BY <1>3, <2>2, <2>4, <2>5, Zenon
<1>8. ASSUME Replied PROVE TopicInv'
  <2>1. UNCHANGED judged /\ node = "replying" /\ node' \in {"speaking", "tools"}
    BY <1>8, Zenon DEF Replied, tools_condition
  <2> QED BY <1>0, <1>3, <2>1, Zenon
<1>9. ASSUME social_reply \/ decline_topic PROVE TopicInv'
  <2>1. UNCHANGED <<judged, graph>> /\ node \in {"social", "decline"} /\ node' = "speaking"
    BY <1>9, Zenon DEF social_reply, decline_topic
  <2> QED BY <1>0, <1>3, <2>1, Zenon
<1>10. ASSUME ToolNode PROVE TopicInv'
  <2>1. UNCHANGED <<judged, graph>> /\ node = "tools" /\ node' = "respond"
    BY <1>10, Zenon DEF ToolNode
  <2> QED BY <1>0, <1>3, <2>1, Zenon
<1>11. ASSUME respond PROVE TopicInv'
  <2>1. UNCHANGED <<judged, graph>> /\ node = "respond" /\ node' = "replying"
    BY <1>11, Zenon DEF respond
  <2> QED BY <1>0, <1>3, <2>1, Zenon
<1>12. ASSUME HostRefuses \/ TurnFails \/ TooManySteps \/ Speaks \/ _announce_failure \/ ListeningFails
       PROVE  TopicInv'
  <2>1. /\ UNCHANGED <<judged, graph, messages>> /\ node # "start" /\ node' \in {"listening", "failing", "stopped"}
    BY <1>12, Zenon
    DEF HostRefuses, Unpaired, TurnFails, CanFail, TooManySteps, Speaks, _announce_failure, ListeningFails
  <2> QED BY <1>0, <1>3, <2>1, Zenon DEF Quiet
<1> QED
  BY <1>4, <1>5, <1>6, <1>7, <1>8, <1>9, <1>10, <1>11, <1>12, Zenon DEF Next, HearsNothing, _run_turn

(* What a host refuses is a call that the window still shows.              *)
LEMMA SomeCallIsUnanswered ==
    ASSUME IInv, HostRefuses
    PROVE  \E turns \in {HISTORY_TURNS, CLASSIFY_HISTORY_TURNS}, p \in Unanswered(messages) :
              Cardinality(HumansAfter(messages, p)) + 1 <= turns
<1>1. Thread(messages)
  BY Zenon DEF IInv
<1>2. messages # <<>>
  BY Zenon DEF HostRefuses, Unpaired, IInv, NodeInv
<1>3. CASE node = "replying" /\ Unanswered(prompt.window) # {}
  <2>1. prompt.window = Sent
    BY <1>3, Zenon DEF IInv, NodeInv
  <2>2. IsWindow(Sent, messages, HISTORY_TURNS)
    BY <1>1, <1>2, WindowIs, WindowAssumption, Zenon DEF Sent
  <2> QED BY <1>1, <1>3, <2>1, <2>2, WhatIsSentIsWellFormed, WindowAssumption, Zenon
<1>4. CASE Unanswered(_windowed_history(messages, CLASSIFY_HISTORY_TURNS, 1)) # {}
  <2>1. IsWindow(_windowed_history(messages, CLASSIFY_HISTORY_TURNS, 1), messages, CLASSIFY_HISTORY_TURNS)
    <3>1. 1 \in Nat \ {0}
      OBVIOUS
    <3> QED BY <1>1, <1>2, <3>1, WindowIs, WindowAssumption, Zenon
  <2> QED BY <1>1, <1>4, <2>1, WhatIsSentIsWellFormed, WindowAssumption, Zenon
<1> QED BY <1>3, <1>4, Zenon DEF HostRefuses, Unpaired

LEMMA RefusedKept ==
    ASSUME IInv, [Next]_vars
    PROVE  RefusedInv'
<1> DEFINE After(ms, i) == Cardinality(HumansAfter(ms, i))
           Bounded == rejected \in Nat /\ (rejected < HISTORY_TURNS \/ rejected < CLASSIFY_HISTORY_TURNS)
           Ended == node \in {"listening", "failing", "stopped"}
           Forgets(i) == IF Ended THEN rejected <= After(messages, i)
                         ELSE rejected < After(messages, i) \/ (node = "tools" /\ i = Len(messages))
<1>0. Bounded /\ \A i \in Unanswered(messages) : Forgets(i)
  BY Zenon DEF IInv, RefusedInv
<1>1. ASSUME Bounded', \A i \in Unanswered(messages') : Forgets(i)' PROVE RefusedInv'
  BY <1>1, Zenon DEF RefusedInv
<1>2. Thread(messages) /\ messages \in Seq(Message)
  BY Zenon DEF IInv, Thread
<1>3. \A i : After(messages, i) \in Nat
  BY <1>2, Humans
<1>4. ASSUME UNCHANGED vars PROVE RefusedInv'
  BY <1>0, <1>1, <1>4, Zenon DEF vars, HumansAfter, HumanPositions, Unanswered
<1>5. ASSUME NEW i \in Unanswered(messages), ~Ended, node # "tools" PROVE rejected < After(messages, i)
  BY <1>0, <1>5, Zenon
<1>6. ASSUME Hears PROVE RefusedInv'
  <2>1. /\ node = "listening" /\ node' = "start" /\ messages' = Append(messages, Human) /\ rejected' = rejected
    BY <1>6, Zenon DEF Hears
  <2>2. ASSUME NEW i \in Unanswered(messages') PROVE rejected' < After(messages', i)
    <3>1. i \in Unanswered(messages) /\ After(messages', i) = After(messages, i) + 1
      BY <1>2, <2>1, LineJoins, Zenon
    <3>2. rejected <= After(messages, i)
      BY <1>0, <2>1, <3>1, Zenon
    <3>3. After(messages, i) \in Nat /\ rejected \in Nat
      BY <1>0, <1>3, Zenon
    <3>4. ASSUME NEW a \in Nat, NEW r \in Nat, r <= a PROVE r < a + 1
      BY <3>4
    <3> HIDE DEF After
    <3> QED BY <2>1, <3>1, <3>2, <3>3, <3>4, Zenon
  <2> QED BY <1>0, <1>1, <2>1, <2>2, Zenon
<1>7. ASSUME ToolNode PROVE RefusedInv'
  <2>1. node = "tools" /\ node' = "respond" /\ rejected' = rejected
    BY <1>7, Zenon DEF ToolNode
  <2>2. ASSUME NEW i \in Unanswered(messages')
        PROVE  i \in Unanswered(messages) /\ i # Len(messages) /\ After(messages', i) = After(messages, i)
    BY <1>2, <1>7, ToolsAnswer, ResultsJoin, SameHumans, Zenon
  <2> QED BY <1>0, <1>1, <2>1, <2>2, Zenon
<1>8. ASSUME Replied \/ social_reply \/ decline_topic PROVE RefusedInv'
  <2>1. PICK m \in Message : m.type = "ai" /\ messages' = Append(messages, m) /\ node' = tools_condition(m)
    BY <1>8, AnswerAdds
  <2>2. ~Ended /\ node # "tools" /\ rejected' = rejected
    BY <1>8, Zenon DEF Replied, social_reply, decline_topic
  <2>3. messages # <<>>
    BY <2>2, Zenon DEF IInv, NodeInv
  <2>4. ASSUME NEW i \in Unanswered(messages')
        PROVE  /\ After(messages', i) = After(messages, i)
               /\ i \in Unanswered(messages) \/ (i = Len(messages') /\ m.calls # <<>>)
    <3>1. GoesOn(messages, messages') /\ (i \in Unanswered(messages) \/ (i = Len(messages') /\ m.calls # <<>>))
      BY <1>2, <2>1, <2>3, AnswerJoins, Zenon
    <3> QED BY <1>2, <3>1, SameHumans, Zenon
  <2>5. node' \in {"speaking", "tools"} /\ (m.calls # <<>> => node' = "tools")
    BY <2>1, Zenon DEF tools_condition
  <2> QED BY <1>0, <1>1, <1>5, <2>2, <2>4, <2>5, Zenon
<1>9. ASSUME HostRefuses PROVE RefusedInv'
  <2>1. /\ ~Ended /\ node # "tools" /\ node' = "failing" /\ messages' = messages /\ rejected' = rejected + 1
    BY <1>9, Zenon DEF HostRefuses, Unpaired
  <2>3. PICK turns \in {HISTORY_TURNS, CLASSIFY_HISTORY_TURNS}, p \in Unanswered(messages) :
           After(messages, p) + 1 <= turns
    BY <1>9, SomeCallIsUnanswered, Zenon
  <2>4. ASSUME NEW r \in Nat, NEW a \in Nat, r < a PROVE r + 1 <= a /\ r + 1 \in Nat
    BY <2>4
  <2>5. ASSUME NEW r \in Nat, NEW a \in Nat, NEW t \in Nat, r < a, a + 1 <= t PROVE r + 1 < t
    BY <2>5
  <2>6. rejected \in Nat /\ rejected < After(messages, p) /\ turns \in Nat
    BY <1>0, <1>5, <2>1, WindowAssumption, Zenon
  <2> HIDE DEF After
  <2>7. rejected' < turns /\ rejected' \in Nat
    BY <1>3, <2>1, <2>3, <2>4, <2>5, <2>6, Zenon
  <2>8. Bounded'
    BY <2>3, <2>7, Zenon
  <2>9. ASSUME NEW i \in Unanswered(messages) PROVE rejected' <= After(messages, i)
    BY <1>3, <1>5, <2>1, <2>4, <2>6, Zenon
  <2> QED BY <1>1, <2>1, <2>8, <2>9, Zenon DEF After
<1>10. ASSUME TurnFails \/ TooManySteps \/ Speaks PROVE RefusedInv'
  <2>1. node' \in {"failing", "listening", "stopped"} /\ messages' = messages /\ rejected' = 0
    BY <1>10, Zenon DEF TurnFails, TooManySteps, Speaks
  <2>2. Bounded'
    BY <2>1, WindowAssumption
  <2>3. ASSUME NEW a \in Nat PROVE 0 <= a
    OBVIOUS
  <2> QED BY <1>1, <1>3, <2>1, <2>2, <2>3, Zenon
<1>11. ASSUME _announce_failure \/ ListeningFails PROVE RefusedInv'
  <2>1. Ended /\ node' \in {"listening", "stopped"} /\ messages' = messages /\ rejected' = rejected
    BY <1>11, Zenon DEF _announce_failure, ListeningFails
  <2> QED BY <1>0, <1>1, <2>1, Zenon
<1>12. ASSUME route_start \/ respond PROVE RefusedInv'
  <2>1. /\ ~Ended /\ node # "tools" /\ node' \notin {"listening", "failing", "stopped"} /\ messages' = messages /\ rejected' = rejected
    BY <1>12, Zenon DEF route_start, respond
  <2> QED BY <1>0, <1>1, <1>5, <2>1, Zenon
<1>13. ASSUME classify_topic \/ FallBackToClassifier PROVE RefusedInv'
  <2>1. /\ ~Ended /\ node # "tools" /\ node' \notin {"listening", "failing", "stopped"} /\ messages' = messages /\ rejected' = rejected
    BY <1>13, Judging, Zenon
  <2> QED BY <1>0, <1>1, <1>5, <2>1, Zenon
<1> QED
  BY <1>4, <1>6, <1>7, <1>8, <1>9, <1>10, <1>11, <1>12, <1>13, Zenon DEF Next, HearsNothing, _run_turn

LEMMA GraphKept ==
    ASSUME IInv, [Next]_vars
    PROVE  GraphInv'
<1> DEFINE LastTools == groups_of_tools(LastTurnsTools(messages))
           T0 == graph \in GraphState
           T1 == /\ -1 <= graph.active_runs_turn /\ graph.active_runs_turn <= pilot_turn
                 /\ graph.active_runs <= pilot_turn
                 /\ -1 <= graph.tool_groups_turn /\ graph.tool_groups_turn <= pilot_turn
           T2 == graph.active_runs_turn = pilot_turn => graph.active_runs \in {0, pilot_turn}
           T3 == graph.tool_groups_turn = pilot_turn =>
                    /\ judged.now \in {"request", "social", "off_topic"}
                    /\ graph.tool_groups # {None} => LastTools \subseteq graph.tool_groups
<1>0. T0 /\ T1 /\ T2 /\ T3 /\ PromptIsOfThisTurn
  BY Zenon DEF IInv, GraphInv
<1>1. ASSUME T0', T1', T2', T3', PromptIsOfThisTurn' PROVE GraphInv'
  BY <1>1, Zenon DEF GraphInv
<1>2. Thread(messages) /\ messages \in Seq(Message)
  BY Zenon DEF IInv, Thread
<1>3. pilot_turn \in Nat
  BY <1>2, Humans DEF pilot_turn
<1>4. graph.active_runs_turn \in Int /\ graph.tool_groups_turn \in Int /\ graph.active_runs \in Nat
  BY <1>0 DEF GraphState
<1> HIDE DEF LastTools
<1>5. ASSUME UNCHANGED messages PROVE pilot_turn' = pilot_turn /\ LastTools' = LastTools
  BY <1>5, Zenon DEF pilot_turn, LastTools
<1>6. ASSUME GoesOn(messages, messages') PROVE pilot_turn' = pilot_turn /\ LastTools' = LastTools
  BY <1>2, <1>6, SameHumans, Zenon DEF pilot_turn, LastTools
<1>7. ASSUME UNCHANGED <<graph, judged>>, pilot_turn' = pilot_turn, LastTools' = LastTools, node' # "replying"
      PROVE  GraphInv'
  BY <1>0, <1>1, <1>7, Zenon DEF PromptIsOfThisTurn
<1>8. ASSUME UNCHANGED vars PROVE GraphInv'
  BY <1>0, <1>1, <1>5, <1>8, Zenon DEF vars, PromptIsOfThisTurn, pilot_turn, LastTools
<1>9. ASSUME Hears PROVE GraphInv'
  <2>1. graph' = graph /\ node' = "start" /\ messages' = Append(messages, Human)
    BY <1>9, Zenon DEF Hears
  <2>2. pilot_turn' = pilot_turn + 1
    BY <1>2, <2>1, LineJoins, Zenon DEF pilot_turn
  <2>3. ASSUME NEW x \in Int, NEW n \in Nat, x <= n PROVE x <= n + 1 /\ x # n + 1
    BY <2>3
  <2>4. T1' /\ T2' /\ T3'
    <3>1. graph.active_runs \in Int
      BY <1>4
    <3> QED BY <1>0, <1>3, <1>4, <2>1, <2>2, <2>3, <3>1, Zenon
  <2>5. PromptIsOfThisTurn'
    BY <2>1, Zenon DEF PromptIsOfThisTurn
  <2> QED BY <1>0, <1>1, <2>1, <2>4, <2>5, Zenon
<1>10. ASSUME route_start PROVE GraphInv'
  <2>1. UNCHANGED <<graph, messages, prompt>> /\ node = "start" /\ node' # "replying"
    BY <1>10, Zenon DEF route_start
  <2>2. judged.now = None
    BY <2>1, Zenon DEF IInv, TopicInv
  <2>3. graph.tool_groups_turn # pilot_turn
    <3>1. None \notin {"request", "social", "off_topic"}
      BY DEF None
    <3> QED BY <1>0, <2>2, <3>1, Zenon
  <2> QED BY <1>0, <1>1, <1>5, <2>1, <2>3, Zenon DEF PromptIsOfThisTurn
<1>11. ASSUME classify_topic \/ FallBackToClassifier PROVE GraphInv'
  <2>1. PICK kind \in {"request", "social", "off_topic"}, runs \in {0, pilot_turn} :
           /\ judged' = [judged EXCEPT !.now = kind]
           /\ node' \in {"social", "respond", "decline"} /\ UNCHANGED messages /\ node = "classify_topic"
           /\ graph'.active_runs = runs /\ graph'.active_runs_turn = pilot_turn
           /\ \/ /\ graph'.tool_groups_turn = pilot_turn
                 /\ \E groups \in SUBSET (Groups \cup {None}) :
                       graph'.tool_groups = _with_last_turns_groups(groups, messages)
              \/ graph'.tool_groups_turn = graph.tool_groups_turn /\ graph'.tool_groups = graph.tool_groups
    BY <1>11, Judging, Zenon
  <2>2. pilot_turn' = pilot_turn /\ LastTools' = LastTools
    BY <1>5, <2>1, Zenon
  <2>3. judged'.now = kind /\ judged.now = None
    <3>1. judged \in Judgements /\ judged.now = None
      BY <2>1, Zenon DEF IInv, TopicInv
    <3> QED BY <2>1, <3>1 DEF Judgements
  <2>4. graph.tool_groups_turn # pilot_turn
    <3>1. None \notin {"request", "social", "off_topic"}
      BY DEF None
    <3> QED BY <1>0, <2>3, <3>1, Zenon
  <2>5. /\ graph'.tool_groups_turn = pilot_turn /\ graph'.tool_groups \in SUBSET (Groups \cup {None})
        /\ graph'.tool_groups # {None} => LastTools \subseteq graph'.tool_groups
     \/ /\ graph'.tool_groups_turn = graph.tool_groups_turn /\ graph'.tool_groups = graph.tool_groups
    <3>1. LastTools \subseteq Groups
      BY Zenon DEF LastTools, groups_of_tools
    <3>2. ASSUME NEW groups \in SUBSET (Groups \cup {None})
          PROVE  /\ _with_last_turns_groups(groups, messages) \in SUBSET (Groups \cup {None})
                 /\ _with_last_turns_groups(groups, messages) # {None} =>
                       LastTools \subseteq _with_last_turns_groups(groups, messages)
      <4>1. CASE groups = {None}
        BY <4>1, Zenon DEF _with_last_turns_groups
      <4>2. CASE groups # {None}
        BY <3>1, <4>2, Zenon DEF _with_last_turns_groups, LastTools
      <4> QED BY <4>1, <4>2
    <3> QED BY <2>1, <3>2, Zenon
  <2>6. T0'
    <3>1. graph'.active_runs \in Nat /\ graph'.active_runs_turn \in Int
      BY <1>3, <2>1
    <3>2. graph'.tool_groups_turn \in Int /\ graph'.tool_groups \in SUBSET (Groups \cup {None})
      <4>1. graph.tool_groups \in SUBSET (Groups \cup {None})
        BY <1>0 DEF GraphState
      <4>2. pilot_turn \in Int
        BY <1>3
      <4> QED BY <1>4, <2>5, <4>1, <4>2, Zenon
    <3>3. IsGraph(graph')
      BY <1>11, Judging, Zenon
    <3> QED BY <3>1, <3>2, <3>3 DEF GraphState, IsGraph
  <2>7. T1'
    <3>1. -1 <= pilot_turn /\ pilot_turn <= pilot_turn /\ graph'.active_runs <= pilot_turn
      BY <1>3, <2>1
    <3> QED BY <1>0, <2>1, <2>2, <2>5, <3>1, Zenon
  <2>8. T2' /\ T3'
    BY <2>1, <2>2, <2>3, <2>4, <2>5, Zenon
  <2>9. PromptIsOfThisTurn'
    BY <2>1, Zenon DEF PromptIsOfThisTurn
  <2> QED BY <1>1, <2>6, <2>7, <2>8, <2>9, Zenon
<1>12. ASSUME respond PROVE GraphInv'
  <2>1. PICK runs \in IF graph.active_runs_turn = pilot_turn THEN {graph.active_runs} ELSE _active_runs_note :
          prompt' = [window |-> _windowed_history(messages, HISTORY_TURNS, HISTORY_FULL_TOOL_RESULT_TURNS),
                     runs |-> runs,
                     groups |-> IF graph.tool_groups_turn = pilot_turn THEN graph.tool_groups ELSE {None}]
    BY <1>12, Zenon DEF respond
  <2>2. UNCHANGED <<graph, judged, messages>> /\ node = "respond"
    BY <1>12, Zenon DEF respond
  <2>3. pilot_turn' = pilot_turn /\ LastTools' = LastTools
    BY <1>5, <2>2, Zenon
  <2>4. prompt'.runs = runs /\ prompt'.groups = IF graph.tool_groups_turn = pilot_turn THEN graph.tool_groups ELSE {None}
    BY <2>1
  <2>5. runs \in {0, pilot_turn}
    BY <1>0, <2>1, Zenon DEF _active_runs_note
  <2>6. judged.now # "off_topic"
    BY <2>2, Zenon DEF IInv, TopicInv
  <2>7. prompt'.groups # {None} => judged.now \in {"request", "social"} /\ LastTools \subseteq prompt'.groups
    BY <1>0, <2>4, <2>6, Zenon
  <2>8. PromptIsOfThisTurn'
    BY <2>2, <2>3, <2>4, <2>5, <2>7, Zenon DEF PromptIsOfThisTurn, LastTools
  <2> QED BY <1>0, <1>1, <2>2, <2>3, <2>8, Zenon
<1>13. ASSUME Replied PROVE GraphInv'
  <2>1. node = "replying" /\ node' \in {"speaking", "tools"} /\ UNCHANGED judged
    BY <1>13, Zenon DEF Replied, tools_condition
  <2>2. GoesOn(messages, messages')
    <3>1. messages # <<>>
      BY <2>1, Zenon DEF IInv, NodeInv
    <3> QED BY <1>2, <1>13, <3>1, AnswerAdds, AnswerJoins, Zenon
  <2>3. pilot_turn' = pilot_turn /\ LastTools' = LastTools
    BY <1>6, <2>2, Zenon
  <2>4. prompt.runs \in {0, pilot_turn}
    BY <1>0, <2>1, Zenon DEF PromptIsOfThisTurn
  <2>5. prompt.runs \in Nat /\ prompt.runs <= pilot_turn /\ -1 <= pilot_turn /\ pilot_turn <= pilot_turn /\ pilot_turn \in Int
    BY <1>3, <2>4
  <2>6. /\ graph'.active_runs = prompt.runs /\ graph'.active_runs_turn = pilot_turn
        /\ graph'.tool_groups = graph.tool_groups /\ graph'.tool_groups_turn = graph.tool_groups_turn
    BY <1>13, Replying
  <2>7. T0'
    <3>1. graph.tool_groups \in SUBSET (Groups \cup {None})
      BY <1>0 DEF GraphState
    <3> QED BY <1>4, <1>13, <2>5, <3>1, Replying DEF GraphState
  <2>8. T1' /\ T2' /\ T3'
    BY <1>0, <2>1, <2>3, <2>4, <2>5, <2>6, Zenon
  <2>9. PromptIsOfThisTurn'
    BY <2>1, Zenon DEF PromptIsOfThisTurn
  <2> QED BY <1>1, <2>7, <2>8, <2>9, Zenon
<1>14. ASSUME social_reply \/ decline_topic PROVE GraphInv'
  <2>1. UNCHANGED <<graph, judged>> /\ node \in {"social", "decline"} /\ node' = "speaking"
    BY <1>14, Zenon DEF social_reply, decline_topic
  <2>2. GoesOn(messages, messages')
    <3>1. messages # <<>>
      BY <2>1, Zenon DEF IInv, NodeInv
    <3> QED BY <1>2, <1>14, <3>1, AnswerAdds, AnswerJoins, Zenon
  <2> QED BY <1>6, <1>7, <2>1, <2>2, Zenon
<1>15. ASSUME ToolNode PROVE GraphInv'
  <2>1. UNCHANGED <<graph, judged>> /\ node' = "respond"
    BY <1>15, Zenon DEF ToolNode
  <2>2. GoesOn(messages, messages')
    BY <1>2, <1>15, ToolsAnswer, ResultsJoin, Zenon
  <2> QED BY <1>6, <1>7, <2>1, <2>2, Zenon
<1>16. ASSUME HostRefuses \/ TurnFails \/ TooManySteps \/ Speaks \/ _announce_failure \/ ListeningFails
       PROVE  GraphInv'
  <2>1. /\ UNCHANGED <<judged, graph, messages>> /\ node' # "replying"
    BY <1>16, Zenon DEF HostRefuses, TurnFails, TooManySteps, Speaks, _announce_failure, ListeningFails
  <2> QED BY <1>5, <1>7, <2>1, Zenon
<1> QED
  BY <1>8, <1>9, <1>10, <1>11, <1>12, <1>13, <1>14, <1>15, <1>16, Zenon DEF Next, HearsNothing, _run_turn

LEMMA Begins == Init => IInv
<1> SUFFICES ASSUME Init PROVE IInv
  OBVIOUS
<1>1. messages = <<>> /\ Thread(messages) /\ Unanswered(messages) = {} /\ pilot_turn = 0
  BY NoLines, Zenon DEF Init, pilot_turn
<1>2. NodeInv
  BY WindowAssumption DEF Init, NodeInv
<1>3. TopicInv
  <2>1. judged \in Judgements /\ judged.now = None /\ judged.before = None
    BY DEF Init, Judgements
  <2>2. None # "skipped" /\ None # "off_topic"
    BY DEF None
  <2>3. ~graph.pending_confirmation /\ node = "listening"
    BY DEF Init
  <2> QED BY <1>1, <2>1, <2>2, <2>3, Zenon DEF TopicInv, Quiet
<1>4. graph \in GraphState /\ graph.active_runs_turn = -1 /\ graph.tool_groups_turn = -1 /\ graph.active_runs = 0
  BY DEF Init, GraphState
<1>5. GraphInv
  <2>1. PromptIsOfThisTurn
    BY Zenon DEF Init, PromptIsOfThisTurn
  <2> QED BY <1>1, <1>4, <2>1 DEF GraphInv
<1>6. RefusedInv
  BY <1>1, WindowAssumption DEF Init, RefusedInv
<1> QED BY <1>1, <1>2, <1>3, <1>5, <1>6, Zenon DEF IInv

LEMMA Stays == IInv /\ [Next]_vars => IInv'
<1> SUFFICES ASSUME IInv, [Next]_vars PROVE IInv'
  OBVIOUS
<1> QED BY ThreadKept, NodeKept, TopicKept, GraphKept, RefusedKept, Zenon DEF IInv

LEMMA SessionInvariant == Spec => []IInv
BY Begins, Stays, PTL DEF Spec

-----------------------------------------------------------------------------
(* Whatever the model is sent is well formed and of this turn: the window  *)
(* cuts the thread at a line of the pilot's, and what is kept of the turns *)
(* before is marked with the turn it is of.                                *)
THEOREM TheModelIsToldTheTruth == Spec => []PromptIsSound
<1>1. IInv => PromptIsSound
  <2> SUFFICES ASSUME IInv PROVE PromptIsSound
    OBVIOUS
  <2>1. WellFormed(prompt.window)
    <3>1. CASE node = "replying"
      <4>1. prompt.window = Sent /\ messages # <<>> /\ Thread(messages)
        BY <3>1, Zenon DEF IInv, NodeInv
      <4>2. IsWindow(Sent, messages, HISTORY_TURNS)
        BY <4>1, WindowIs, WindowAssumption, Zenon DEF Sent
      <4> QED BY <4>1, <4>2, WhatIsSentIsWellFormed, WindowAssumption, Zenon
    <3>2. CASE node # "replying"
      <4>1. prompt.window = <<>>
        <5>1. prompt = NoPrompt
          BY <3>2, Zenon DEF IInv, NodeInv
        <5> QED BY <5>1 DEF NoPrompt
      <4> QED BY <4>1 DEF WellFormed
    <3> QED BY <3>1, <3>2
  <2>2. PromptIsWellFormed
    BY <2>1, Zenon DEF WellFormed, PromptIsWellFormed
  <2>3. PromptIsOfThisTurn
    BY Zenon DEF IInv, GraphInv
  <2> QED BY <2>2, <2>3, Zenon DEF PromptIsSound
<1> QED BY <1>1, SessionInvariant, PTL

(* The topic check is skipped only after a turn that had passed it: a turn *)
(* that failed before it was judged has asked nothing, and a declined one  *)
(* asks in vain.                                                           *)
THEOREM OnlyATopicIsContinued == Spec => []SkipFollowsTopic
<1>1. IInv => SkipFollowsTopic
  BY Zenon DEF IInv, TopicInv, SkipFollowsTopic, PastTopicCheck
<1> QED BY <1>1, SessionInvariant, PTL

(* A call without its result makes hosted models refuse fewer turns in a   *)
(* row than the window has, since each of them began after the call.       *)
THEOREM NoCallBreaksTheSession == Spec => []BrokenCallIsForgotten
<1>1. IInv => BrokenCallIsForgotten
  BY Zenon DEF IInv, RefusedInv, BrokenCallIsForgotten
<1> QED BY <1>1, SessionInvariant, PTL


-----------------------------------------------------------------------------
(* The types.                                                              *)

CountInv ==
    /\ pilot_turn <= Turns /\ rejected <= pilot_turn
    /\ recorded \in BOOLEAN /\ heard \in {None, "reply", "silence", "failure"}

LEMMA CountKept ==
    ASSUME IInv, CountInv, [Next]_vars
    PROVE  CountInv'
<1>0. /\ pilot_turn <= Turns /\ rejected <= pilot_turn
      /\ recorded \in BOOLEAN /\ heard \in {None, "reply", "silence", "failure"}
  BY DEF CountInv
<1>1. /\ Thread(messages) /\ messages \in Seq(Message) /\ pilot_turn \in Nat /\ rejected \in Nat
      /\ Turns \in Nat
  BY Humans, WindowAssumption DEF IInv, Thread, RefusedInv, pilot_turn
<1>2. pilot_turn' \in Nat /\ pilot_turn' <= Turns /\ rejected' <= pilot_turn' /\ pilot_turn' >= pilot_turn
  <2>1. CASE UNCHANGED messages /\ (UNCHANGED rejected \/ rejected' = 0)
    <3>1. pilot_turn' = pilot_turn
      BY <2>1, Zenon DEF pilot_turn
    <3> QED BY <1>0, <1>1, <2>1, <3>1
  <2>2. CASE Hears
    <3>1. pilot_turn' = pilot_turn + 1
      BY <1>1, <2>2, LineJoins, Zenon DEF Hears, pilot_turn
    <3>2. pilot_turn < Turns /\ rejected' = rejected
      BY <2>2, Zenon DEF Hears
    <3> QED BY <1>0, <1>1, <3>1, <3>2
  <2>3. CASE Replied \/ social_reply \/ decline_topic \/ ToolNode
    <3>1. GoesOn(messages, messages')
      <4>1. messages # <<>>
        BY <2>3, Zenon DEF IInv, NodeInv, Replied, social_reply, decline_topic, ToolNode
      <4> QED BY <1>1, <2>3, <4>1, AnswerAdds, AnswerJoins, ToolsAnswer, ResultsJoin, Zenon
    <3>2. pilot_turn' = pilot_turn
      BY <1>1, <3>1, SameHumans, Zenon DEF pilot_turn
    <3>3. rejected' = rejected
      BY <2>3, Zenon DEF Replied, social_reply, decline_topic, ToolNode
    <3> QED BY <1>0, <1>1, <3>2, <3>3
  <2>4. CASE HostRefuses
    <3>1. /\ node \in {"replying", "classify_topic"} /\ messages' = messages /\ rejected' = rejected + 1
      BY <2>4, Zenon DEF HostRefuses, Unpaired
    <3>2. \E p \in Unanswered(messages) : TRUE
      BY <2>4, SomeCallIsUnanswered
    <3>3. PICK p \in Unanswered(messages) : rejected < Cardinality(HumansAfter(messages, p))
      BY <3>1, <3>2, Zenon DEF IInv, RefusedInv
    <3>4. Cardinality(HumansAfter(messages, p)) <= pilot_turn
      <4>1. HumansAfter(messages, p) \subseteq HumanPositions(messages) /\ IsFiniteSet(HumanPositions(messages))
        <5>1. HumanPositions(messages) \subseteq DOMAIN messages
          BY <1>1, Humans
        <5> QED BY <1>1, <5>1, Positions DEF HumansAfter
      <4> QED BY <4>1, FS_Subset DEF pilot_turn
    <3>5. Cardinality(HumansAfter(messages, p)) \in Nat /\ pilot_turn' = pilot_turn
      BY <1>1, <3>1, Humans, Zenon DEF pilot_turn
    <3> QED BY <1>0, <1>1, <3>1, <3>3, <3>4, <3>5
  <2> QED
    BY <2>1, <2>2, <2>3, <2>4, Judging, Zenon
    DEF Next, vars, HearsNothing, ListeningFails, _run_turn, route_start, respond, TurnFails, TooManySteps, Speaks, _announce_failure
<1>3. recorded' \in BOOLEAN
  <2>1. CASE ToolNode \/ TurnFails \/ Hears
    BY <1>0, <2>1, Zenon DEF ToolNode, TurnFails, Hears
  <2> QED
    BY <1>0, <2>1, Judging, Zenon
    DEF Next, vars, HearsNothing, ListeningFails, _run_turn, route_start, respond, Replied, HostRefuses, social_reply, decline_topic,
        TooManySteps, Speaks, _announce_failure
<1>4. heard' \in {None, "reply", "silence", "failure"}
  BY <1>0, Judging, Zenon
  DEF Next, vars, HearsNothing, ListeningFails, Hears, _run_turn, route_start, respond, Replied, HostRefuses, ToolNode, social_reply,
      decline_topic, TurnFails, TooManySteps, Speaks, _announce_failure
<1> QED BY <1>2, <1>3, <1>4, Zenon DEF CountInv

(* Every variable of the session keeps its type, and no counter passes the *)
(* number of the pilot's turns.                                            *)
THEOREM SessionTypesHold == Spec => []TypeOK
<1>1. Init => CountInv
  <2> SUFFICES ASSUME Init PROVE CountInv
    OBVIOUS
  <2>1. pilot_turn = 0
    BY NoLines, Zenon DEF Init, pilot_turn
  <2>2. recorded = FALSE /\ heard = None /\ rejected = 0
    BY Zenon DEF Init
  <2>3. pilot_turn <= Turns /\ rejected <= pilot_turn
    BY <2>1, <2>2, WindowAssumption
  <2> QED BY <2>2, <2>3, Zenon DEF CountInv
<1>2. IInv /\ IInv' /\ CountInv /\ [Next]_vars => CountInv'
  BY CountKept
<1>3. IInv /\ CountInv => TypeOK
  <2> SUFFICES ASSUME IInv, CountInv PROVE TypeOK
    OBVIOUS
  <2>0. Thread(messages) /\ messages \in Seq(Message) /\ pilot_turn \in Nat /\ Turns \in Nat
    BY Humans, WindowAssumption DEF IInv, Thread, pilot_turn
  <2>1. \A i \in DOMAIN messages :
           messages[i] \in [type : {"human", "ai", "tool"}, calls : Seq(Tools),
                            text : {"line", "empty", "asks", "again", "page"}]
    <3>1. \A i \in DOMAIN messages : messages[i] \in Message
      BY <2>0
    <3> QED BY <3>1, Zenon DEF Message, Texts
  <2>2. graph \in [on_topic : BOOLEAN, social : BOOLEAN, pending_confirmation : BOOLEAN,
                   active_runs : 0..Turns,
                   active_runs_turn : -1..Turns, tool_groups : SUBSET (Groups \cup {None}),
                   tool_groups_turn : -1..Turns]
    <3>1. graph \in GraphState
      BY DEF IInv, GraphInv
    <3>2. /\ graph.active_runs \in Nat /\ graph.active_runs <= pilot_turn /\ pilot_turn <= Turns
          /\ graph.active_runs_turn \in Int /\ -1 <= graph.active_runs_turn /\ graph.active_runs_turn <= pilot_turn
          /\ graph.tool_groups_turn \in Int /\ -1 <= graph.tool_groups_turn /\ graph.tool_groups_turn <= pilot_turn
      BY <3>1 DEF IInv, GraphInv, CountInv, GraphState
    <3>3. graph.active_runs \in 0..Turns /\ graph.active_runs_turn \in -1..Turns /\ graph.tool_groups_turn \in -1..Turns
      BY <2>0, <3>2
    <3> QED BY <3>1, <3>3 DEF GraphState
  <2>3. node \in {"listening", "start", "classify_topic", "respond", "replying", "tools",
                  "social", "decline", "speaking", "failing", "stopped"} /\ steps \in 0..RecursionLimit
    BY WindowAssumption DEF IInv, NodeInv
  <2>4. judged \in LET j == {None, "skipped", "request", "social", "off_topic"} IN  [before : j, now : j]
    BY DEF IInv, TopicInv, Judgements, PastTopicCheck
  <2>5. rejected \in 0..Turns
    BY <2>0 DEF CountInv, IInv, RefusedInv
  <2>6. recorded \in BOOLEAN /\ heard \in {None, "reply", "silence", "failure"}
    BY Zenon DEF CountInv
  <2> QED BY <2>1, <2>2, <2>3, <2>4, <2>5, <2>6, Zenon DEF TypeOK
<1> QED BY <1>1, <1>2, <1>3, SessionInvariant, PTL DEF Spec
=============================================================================
