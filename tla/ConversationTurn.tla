-------------------------- MODULE ConversationTurn --------------------------
(***************************************************************************)
(* One pilot's voice session: the push-to-talk loop of voice/__init__.py   *)
(* around the conversation graph of graph.py. The graph keeps its state    *)
(* (State, the messages included) from turn to turn: a turn that fails     *)
(* leaves in it what the nodes before the failure had written. What the    *)
(* models, the tools and the speech service answer is chosen freely, and   *)
(* so is the call that fails.                                              *)
(*                                                                         *)
(* A message is its type, the tools it calls or the tool it answers for,   *)
(* and what the code looks at in its text: whether it is empty, asks       *)
(* something, or is too long to be spoken.                                 *)
(***************************************************************************)
EXTENDS Integers, Sequences, SequencesExt, FiniteSets

CONSTANTS
    HISTORY_TURNS,                   \* pilot turns a reply model is sent
    HISTORY_FULL_TOOL_RESULT_TURNS,  \* those whose tool results it is sent whole
    CLASSIFY_HISTORY_TURNS,          \* pilot turns the classifier is sent
    RecursionLimit,                  \* nodes LangGraph runs in one turn
    ToolCalls,                       \* the tool calls one answer may make, in their order
    LikelyGroups,                    \* the sets of tool groups Tev1 may find likely
    Turns                            \* bound: pilot turns of a session

ASSUME WindowAssumption ==
    /\ HISTORY_TURNS \in Nat \ {0}
    /\ HISTORY_FULL_TOOL_RESULT_TURNS \in Nat \ {0}
    /\ CLASSIFY_HISTORY_TURNS \in Nat \ {0}
    /\ RecursionLimit \in Nat \ {0} /\ Turns \in Nat \ {0}

None == "none"
CONFIRMATION_PRONE_TOOLS == {"mark_cargo_sold"}
Tools == CONFIRMATION_PRONE_TOOLS \cup {"best_route"}
TOOL_GROUPS == [trade_run |-> {"mark_cargo_sold"}, routes |-> {"best_route"}, timers |-> {}]
Groups == DOMAIN TOOL_GROUPS

ASSUME AnswersAssumption == ToolCalls \subseteq Seq(Tools) /\ LikelyGroups \subseteq SUBSET Groups

VARIABLES
    messages,       \* State.messages, the whole thread
    graph,          \* the other fields of State
    node,           \* the node that runs, or where the loop around the graph is
    steps,          \* nodes run in this turn
    prompt,         \* what the reply model was sent, while its answer is awaited
    recorded,       \* a tool of this turn has changed the ledger
    judged,         \* how this turn's utterance and the one before got past the topic check
    rejected,       \* turns in a row a hosted model refused
    heard           \* what the pilot heard at the end of the last turn

vars == <<messages, graph, node, steps, prompt, recorded, judged, rejected, heard>>

Human == [type |-> "human", calls |-> <<>>, text |-> "line"]
Says(text) == [type |-> "ai", calls |-> <<>>, text |-> text]
Calls(calls) == [type |-> "ai", calls |-> calls, text |-> "empty"]
Result(tool, text) == [type |-> "tool", calls |-> <<tool>>, text |-> text]
\* "asks" has a question mark in it, "page" is more than 200 characters
Asking == {"asks", "again"}

(*------------------------------ the history ------------------------------*)

HumanPositions(ms) == {i \in DOMAIN ms : ms[i].type = "human"}
pilot_turn == Cardinality(HumanPositions(messages))
\* Position of the n-th human message from the end
FromTheEnd(ms, n) == CHOOSE i \in HumanPositions(ms) :
                        Cardinality({j \in HumanPositions(ms) : j >= i}) = n
\* Mutant: counts messages where it should count the pilot's turns.
LastMessages(ms, turns) == IF Len(ms) > 2 * turns THEN Len(ms) - 2 * turns + 1 ELSE 1
\* Mutant: keeps one turn too many.
OneTurnMore(ms, turns) ==
    IF Cardinality(HumanPositions(ms)) > turns + 1 THEN FromTheEnd(ms, turns + 1) ELSE 1
WindowStart(ms, turns) ==
    IF Cardinality(HumanPositions(ms)) > turns THEN FromTheEnd(ms, turns) ELSE 1
KeepResultsFrom(ms, full) ==
    IF Cardinality(HumanPositions(ms)) >= full THEN FromTheEnd(ms, full) ELSE 1
_windowed_history(ms, turns, full) ==
    LET Sent(i) == IF ms[i].type = "tool" /\ i < KeepResultsFrom(ms, full)
                     THEN [ms[i] EXCEPT !.text = "omitted"] ELSE ms[i]
        first == WindowStart(ms, turns)
    IN  [k \in 1..(Len(ms) - first + 1) |-> Sent(first + k - 1)]

\* What was said and done in the turn before the last human message
PreviousTurn(ms) ==
    {i \in DOMAIN ms : ms[i].type # "human" /\ Cardinality({j \in HumanPositions(ms) : j > i}) = 1}
ThisTurn(ms) == {i \in DOMAIN ms : \A j \in HumanPositions(ms) : j <= i}

\* Hosted APIs refuse a history in which a tool call goes without its result.
Unanswered(ms) == {i \in DOMAIN ms : /\ ms[i].type = "ai" /\ ms[i].calls # <<>>
                                     /\ i = Len(ms) \/ ms[i + 1].type # "tool"}

_just_ran_confirmation_prone_tool(ms) ==
    /\ Last(ms).type = "tool"
    /\ LET ai == {i \in DOMAIN ms : ms[i].type = "ai"}
           last == CHOOSE i \in ai : \A j \in ai : j <= i
       IN  ToSet(ms[last].calls) \cap CONFIRMATION_PRONE_TOOLS # {}

\* Mutant: takes the question of a decline for one of ALICE's own.
AskedAnything(ms, last_turn_on_topic) ==
    \E i \in PreviousTurn(ms) : ms[i].text \in Asking
_alice_just_asked(ms, last_turn_on_topic) ==
    /\ last_turn_on_topic
    /\ \E i \in PreviousTurn(ms) : ms[i].text \in Asking

(*--------------------------- the topic decision --------------------------*)

\* Confidence in tenths; an answer below its floor counts as a request.
apply_floors(choice, confidence) ==
    IF \/ choice = "social" /\ confidence < 6
       \/ choice = "off_topic" /\ confidence < 8
      THEN "request" ELSE choice

\* From the groups Tev1 finds likely to those that are bound, or None for all
chosen_groups(likely) ==
    IF likely = {} THEN {None}
    ELSE likely \cup {"timers"} \cup (IF "trade_run" \in likely THEN {"routes"} ELSE {})

groups_of_tools(used) == {g \in Groups : TOOL_GROUPS[g] \cap used # {}}
LastTurnsTools(ms) ==
    UNION {ToSet(ms[i].calls) : i \in {k \in PreviousTurn(ms) : ms[k].type = "ai"}}
_with_last_turns_groups(groups, ms) ==
    IF groups = {None} THEN groups ELSE groups \cup groups_of_tools(LastTurnsTools(ms))

\* topic_client.decide: an answer, or None when Tev1 cannot be had in time
Decisions == {[kind |-> apply_floors(c, p), tool_groups |-> chosen_groups(g)] :
                c \in {"request", "social", "off_topic"}, p \in {5, 7, 9},
                g \in LikelyGroups}

(*------------------------------- the reply -------------------------------*)

\* What a model may answer; "written" is a call spelled out as text.
Answers == {Says(t) : t \in {"line", "asks", "empty"}} \cup {Calls(c) : c \in ToolCalls}
               \cup {[type |-> "ai", calls |-> c, text |-> "written"] : c \in ToolCalls}
recover_tool_call(answer) == IF answer.text = "written" THEN Calls(answer.calls) ELSE answer
is_empty(answer) == answer.calls = <<>> /\ answer.text = "empty"

\* The last result of this turn if it is short, else "Say that again?"
fallback_line(ms) ==
    LET results == {i \in ThisTurn(ms) : ms[i].type = "tool"}
        last == CHOOSE i \in results : \A j \in results : j <= i
    IN  IF results # {} /\ ms[last].text # "page" THEN Says(ms[last].text) ELSE Says("again")

\* The reply of the first answer, or of the retry after an empty one
_reply(ms) ==
    LET once == {recover_tool_call(a) : a \in Answers}
    IN  {a \in once : ~is_empty(a)} \cup {fallback_line(ms)}

(*------------------------------- the turn --------------------------------*)

NoPrompt == [window |-> <<>>, runs |-> 0, groups |-> {None}]
NodeRuns == steps < RecursionLimit /\ steps' = steps + 1

Init ==
    /\ messages = <<>>
    /\ graph = [on_topic |-> TRUE, social |-> FALSE, pending_confirmation |-> FALSE,
                active_runs |-> 0, active_runs_turn |-> -1,
                tool_groups |-> {None}, tool_groups_turn |-> -1]
    /\ node = "listening" /\ steps = 0 /\ prompt = NoPrompt
    /\ recorded = FALSE /\ judged = [before |-> None, now |-> None]
    /\ rejected = 0 /\ heard = None

\* A capture without words: the loop listens again.
HearsNothing == node = "listening" /\ UNCHANGED vars

\* The recording or Whisper raises, where nothing catches it: the loop is over.
ListeningFails ==
    /\ node = "listening" /\ node' = "stopped"
    /\ UNCHANGED <<messages, graph, steps, prompt, recorded, judged, rejected, heard>>

Hears ==
    /\ node = "listening" /\ pilot_turn < Turns
    /\ messages' = Append(messages, Human)
    /\ node' = "start" /\ steps' = 0 /\ recorded' = FALSE
    /\ judged' = [before |-> judged.now, now |-> None] /\ heard' = None
    /\ UNCHANGED <<graph, prompt, rejected>>

\* An answer to ALICE's own question or readback goes past the topic check.
route_start ==
    /\ node = "start"
    /\ IF graph.pending_confirmation \/ _alice_just_asked(messages, graph.on_topic)
         THEN node' = "respond" /\ judged' = [judged EXCEPT !.now = "skipped"]
         ELSE node' = "classify_topic" /\ UNCHANGED judged
    /\ UNCHANGED <<messages, graph, steps, prompt, recorded, rejected, heard>>

\* The note of the runs is the number of the turn it was read in, 0 for none.
_active_runs_note == {0, pilot_turn}

route_topic(on_topic, social) ==
    IF social THEN "social" ELSE IF on_topic THEN "respond" ELSE "decline"

Judged(kind, groups) ==
    /\ \E runs \in _active_runs_note :
         graph' = [graph EXCEPT !.on_topic = kind # "off_topic", !.social = kind = "social",
                                !.active_runs = runs, !.active_runs_turn = pilot_turn,
                                !.tool_groups = groups.set, !.tool_groups_turn = groups.turn]
    /\ judged' = [judged EXCEPT !.now = kind]
    /\ node' = route_topic(kind # "off_topic", kind = "social")
    /\ UNCHANGED <<messages, prompt, recorded, rejected, heard>>

\* Tev1 decides.
classify_topic ==
    /\ node = "classify_topic" /\ NodeRuns
    /\ \E d \in Decisions :
         Judged(d.kind, [set |-> _with_last_turns_groups(d.tool_groups, messages),
                         turn |-> pilot_turn])

\* Tev1 cannot be had: the chat model decides on or off topic, and not on tools.
FallBackToClassifier ==
    /\ node = "classify_topic" /\ NodeRuns
    /\ \E kind \in {"request", "off_topic"} :
         Judged(kind, [set |-> graph.tool_groups, turn |-> graph.tool_groups_turn])

\* respond up to its await: what the model is sent
respond ==
    /\ node = "respond" /\ NodeRuns
    /\ \E runs \in IF graph.active_runs_turn = pilot_turn THEN {graph.active_runs}
                     ELSE _active_runs_note :
         prompt' = [window |-> _windowed_history(messages, HISTORY_TURNS,
                                                 HISTORY_FULL_TOOL_RESULT_TURNS),
                    runs |-> runs,
                    groups |-> IF graph.tool_groups_turn = pilot_turn
                                 THEN graph.tool_groups ELSE {None}]
    /\ node' = "replying"
    /\ UNCHANGED <<messages, graph, recorded, judged, rejected, heard>>

\* ... and after it. The leg just recorded is looked up again next to the reply; that
\* can fail the turn (TurnFails), and what it finds nothing reads.
tools_condition(reply) == IF reply.calls = <<>> THEN "speaking" ELSE "tools"
Replied ==
    /\ node = "replying"
    /\ LET pending == _just_ran_confirmation_prone_tool(messages)
       IN  \E reply \in _reply(messages) :
             /\ messages' = Append(messages, reply)
             /\ graph' = [graph EXCEPT !.pending_confirmation = pending,
                                       !.active_runs = prompt.runs,
                                       !.active_runs_turn = pilot_turn]
             /\ node' = tools_condition(reply)
    /\ prompt' = NoPrompt
    /\ UNCHANGED <<steps, recorded, judged, rejected, heard>>

\* A hosted model refuses a call without its result: the turn fails.
Unpaired ==
    \/ node = "replying" /\ Unanswered(prompt.window) # {}
    \/ /\ node = "classify_topic"
       /\ Unanswered(_windowed_history(messages, CLASSIFY_HISTORY_TURNS, 1)) # {}
HostRefuses ==
    /\ Unpaired
    /\ node' = "failing" /\ prompt' = NoPrompt /\ rejected' = rejected + 1
    /\ UNCHANGED <<messages, graph, steps, recorded, judged, heard>>

\* What a tool may return; a sale is recorded only by a result that says so.
Outcomes(tool) ==
    IF tool \in CONFIRMATION_PRONE_TOOLS
      THEN {[text |-> "line", records |-> TRUE], [text |-> "asks", records |-> FALSE]}
      ELSE {[text |-> "page", records |-> FALSE]}

\* All calls of the answer, their results in the order of the calls
ToolNode ==
    /\ node = "tools" /\ NodeRuns
    /\ LET calls == Last(messages).calls
       IN  \E outcome \in [DOMAIN calls -> UNION {Outcomes(t) : t \in Tools}] :
             /\ \A k \in DOMAIN calls : outcome[k] \in Outcomes(calls[k])
             /\ messages' = messages \o [k \in DOMAIN calls |-> Result(calls[k], outcome[k].text)]
             /\ recorded' = (recorded \/ \E k \in DOMAIN calls : outcome[k].records)
    /\ node' = "respond"
    /\ UNCHANGED <<graph, prompt, judged, rejected, heard>>

\* Never fails: a late or an empty line is "Copy."
social_reply ==
    /\ node = "social" /\ NodeRuns
    /\ \E text \in {"line", "asks"} : messages' = Append(messages, Says(text))
    /\ node' = "speaking"
    /\ UNCHANGED <<graph, prompt, recorded, judged, rejected, heard>>

decline_topic ==
    /\ node = "decline" /\ NodeRuns
    /\ \E text \in {"line", "asks"} : messages' = Append(messages, Says(text))
    /\ node' = "speaking"
    /\ UNCHANGED <<graph, prompt, recorded, judged, rejected, heard>>

\* The call of a node, of a tool or of the speech service fails. What the other
\* calls of a tools node have recorded stays recorded, without a result.
CanFail == {"classify_topic", "replying", "tools", "decline", "speaking"}
TurnFails ==
    /\ node \in CanFail
    /\ recorded' \in {recorded, \/ recorded
                                \/ /\ node = "tools"
                                   /\ ToSet(Last(messages).calls) \cap CONFIRMATION_PRONE_TOOLS # {}}
    /\ node' = "failing" /\ prompt' = NoPrompt /\ rejected' = 0
    /\ UNCHANGED <<messages, graph, steps, judged, heard>>

\* LangGraph gives up on a turn that runs too many nodes.
TooManySteps ==
    /\ node \in {"respond", "tools"} /\ steps = RecursionLimit
    /\ node' = "failing" /\ rejected' = 0
    /\ UNCHANGED <<messages, graph, steps, prompt, recorded, judged, heard>>

\* The reply is played, or there is no voice this turn and nothing to play.  The
\* voice is made in the turn (TurnFails) and played after it, where an output
\* device that cannot be opened, or audio that is none, ends the loop.
Speaks ==
    /\ node = "speaking" /\ rejected' = 0
    /\ \/ heard' \in {"reply", "silence"} /\ node' = "listening"
       \/ heard' = "silence" /\ node' = "stopped"
    /\ UNCHANGED <<messages, graph, steps, prompt, recorded, judged>>

\* Mutant: a failure while announcing a failure ends the loop.
AnnouncementRaises ==
    /\ node = "failing" /\ heard' = "failure" /\ node' \in {"listening", "stopped"}
    /\ UNCHANGED <<messages, graph, steps, prompt, recorded, judged, rejected>>
\* Never raises: the chirp, and the spoken line if the speech service works
_announce_failure ==
    /\ node = "failing"
    /\ heard' = "failure" /\ node' = "listening"
    /\ UNCHANGED <<messages, graph, steps, prompt, recorded, judged, rejected>>

_run_turn ==
    \/ route_start \/ classify_topic \/ FallBackToClassifier \/ respond \/ Replied
    \/ HostRefuses \/ ToolNode \/ social_reply \/ decline_topic \/ TurnFails
    \/ TooManySteps \/ Speaks \/ _announce_failure

Next == HearsNothing \/ Hears \/ ListeningFails \/ _run_turn

\* Every call ends in an answer, an error or a timeout; the pilot need not speak.
Spec == Init /\ [][Next]_vars /\ WF_vars(_run_turn)

(*------------------------------ properties -------------------------------*)

\* What each variable of the session and of the graph's state may hold.
TypeOK ==
    /\ \A i \in DOMAIN messages :
         messages[i] \in [type : {"human", "ai", "tool"}, calls : Seq(Tools),
                          text : {"line", "empty", "asks", "again", "page"}]
    /\ graph \in [on_topic : BOOLEAN, social : BOOLEAN, pending_confirmation : BOOLEAN,
                  active_runs : 0..Turns,
                  active_runs_turn : -1..Turns, tool_groups : SUBSET (Groups \cup {None}),
                  tool_groups_turn : -1..Turns]
    /\ node \in {"listening", "start", "classify_topic", "respond", "replying", "tools",
                 "social", "decline", "speaking", "failing", "stopped"}
    /\ steps \in 0..RecursionLimit /\ recorded \in BOOLEAN
    /\ judged \in LET j == {None, "skipped", "request", "social", "off_topic"}
                   IN  [before : j, now : j]
    /\ rejected \in 0..Turns /\ heard \in {None, "reply", "silence", "failure"}

\* What the reply model is sent begins with a pilot's message, has the call of
\* every tool result in front of it, and has this turn's own results whole
\* (_windowed_history), however the turns before it ended.
PromptIsWellFormed ==
    LET w == prompt.window
    IN  /\ w # <<>> => w[1].type = "human"
        /\ \A i \in DOMAIN w : w[i].type = "tool" =>
             /\ \E j \in 1..(i - 1) :
                  /\ w[j].type = "ai" /\ ToSet(w[i].calls) \subseteq ToSet(w[j].calls)
                  /\ \A k \in (j + 1)..i : w[k].type = "tool"
             /\ i \in ThisTurn(w) => w[i].text # "omitted"

\* The runs the model is told of are those of this very turn, and tools are kept
\* from it only by a decision on this turn, which leaves it the tools it used in
\* the turn before (respond, _with_last_turns_groups).
PromptIsOfThisTurn ==
    node = "replying" =>
      /\ prompt.runs \in {0, pilot_turn}
      /\ prompt.groups # {None} =>
           /\ judged.now \in {"request", "social"}
           /\ groups_of_tools(LastTurnsTools(messages)) \subseteq prompt.groups

\* Whatever the model is sent is well formed, and of this turn of the pilot.
PromptIsSound == PromptIsWellFormed /\ PromptIsOfThisTurn

\* The topic check is skipped only after a turn that had passed it or had skipped
\* it, never after one that was off topic or failed before it was judged, whatever
\* questions the decline asked (_alice_just_asked).
SkipFollowsTopic ==
    judged.now = "skipped" => judged.before \in {"request", "social", "skipped"}

\* A tool call that never got its result makes hosted models refuse what follows,
\* but only until the window has left its turn behind: fewer turns than the window
\* has are refused in a row (HISTORY_TURNS).
BrokenCallIsForgotten == rejected < HISTORY_TURNS \/ rejected < CLASSIFY_HISTORY_TURNS

\* Every turn ends, and one that failed ends with the loop listening again, even
\* if its failure cannot be announced (_announce_failure).  The loop ends in two
\* places only: a reply that cannot be played, and a failing listen_once.
FailedTurnIsNeverLast ==
    /\ []<>(node \in {"listening", "stopped"})
    /\ [][node = "failing" => node' = "listening"]_vars

\* "One broken turn used to end the voice loop for the rest of the session. Now
\* [...] ALICE listens again." (voice/__init__.py:126): so whatever a turn does.
AlwaysListensAgain == []<>(node = "listening")

\* What the spoken line of a failed turn says: the request did not go through.
FailureMeansNothingRecorded == heard = "failure" /\ node = "listening" => ~recorded
=============================================================================
