------------------------------ MODULE Prompts -------------------------------
(***************************************************************************)
(* ALICE's prompts on the server (app/server/prompt_service.py): loaded    *)
(* before the first request, refreshed every few minutes, one after the    *)
(* other, and put into the requests of pilots in between.                  *)
(*                                                                         *)
(* A text is a release of the Hub, or the committed snapshot.              *)
(***************************************************************************)
EXTENDS Naturals, Sequences, SequencesExt

CONSTANTS
    PROMPT_NAMES,   \* a sequence: refresh goes through it in order
    Releases        \* how often the texts of the Hub change

ASSUME ReleasesAssumption == Releases \in Nat \ {0}
ASSUME PromptNamesAssumption == PROMPT_NAMES \in Seq(ToSet(PROMPT_NAMES))

Snapshot == 0

VARIABLES
    hub,            \* the Hub's release
    hub_enabled,    \* LANGSMITH_API_KEY is set
    snapshot_good,  \* the image holds a snapshot that can be read
    messages,       \* store.messages: the loaded prompts, by release
    refreshing,     \* the names this refresh has still to load
    pulled,         \* the text _pull_from_hub has brought back
    serving         \* "starting", "serving", or "failed": lifespan raised

promptVars == <<hub, hub_enabled, snapshot_good, messages, refreshing, pulled, serving>>

Loaded(name) == name \in DOMAIN messages
Nothing == Releases + 1

PromptsInit ==
    /\ hub = 1 /\ hub_enabled \in BOOLEAN /\ snapshot_good \in BOOLEAN
    /\ messages = [n \in {} |-> Snapshot]
    /\ refreshing = PROMPT_NAMES /\ pulled = Nothing
    /\ serving = "starting"

HubMoves ==
    /\ hub < Releases
    /\ hub' = hub + 1
    /\ UNCHANGED <<hub_enabled, snapshot_good, messages, refreshing, pulled, serving>>

Store(name, text) ==
    messages' = [n \in DOMAIN messages \cup {name} |-> IF n = name THEN text ELSE messages[n]]

(* The pull runs in a thread: the Hub may move on before its answer comes. *)
Pulls ==
    /\ refreshing # <<>> /\ hub_enabled /\ pulled = Nothing
    /\ pulled' = hub
    /\ UNCHANGED <<hub, hub_enabled, snapshot_good, messages, refreshing, serving>>

LoadsFromHub ==
    /\ pulled # Nothing
    /\ Store(Head(refreshing), pulled)
    /\ refreshing' = Tail(refreshing) /\ pulled' = Nothing
    /\ UNCHANGED <<hub, hub_enabled, snapshot_good, serving>>

(* mutant: without the look at what is loaded already                      *)
BackToSnapshot(name) == IF snapshot_good THEN Store(name, Snapshot) ELSE UNCHANGED messages

Keeps(name) == IF Loaded(name) THEN UNCHANGED messages ELSE Store(name, Snapshot)

(* The next prompt is one the Hub is not asked for, or did not answer for. *)
Unanswered ==
    /\ refreshing # <<>>
    /\ hub_enabled => pulled # Nothing

(* No Hub, or one that does not answer: what is loaded stays, else the     *)
(* snapshot, which raises when it cannot be read.                          *)
WithoutHub ==
    /\ Unanswered
    /\ Loaded(Head(refreshing)) \/ snapshot_good
    /\ Keeps(Head(refreshing))
    /\ refreshing' = Tail(refreshing) /\ pulled' = Nothing
    /\ UNCHANGED <<hub, hub_enabled, snapshot_good, serving>>

(* The first refresh is the lifespan's: without it the server does not     *)
(* come up.  A later one is only logged.                                   *)
Raises ==
    /\ Unanswered
    /\ ~Loaded(Head(refreshing)) /\ ~snapshot_good
    /\ refreshing' = <<>> /\ pulled' = Nothing
    /\ serving' = IF serving = "starting" THEN "failed" ELSE serving
    /\ UNCHANGED <<hub, hub_enabled, snapshot_good, messages>>

FirstRefreshDone == serving = "starting" /\ refreshing = <<>>

Serves ==
    /\ FirstRefreshDone
    /\ serving' = "serving"
    /\ UNCHANGED <<hub, hub_enabled, snapshot_good, messages, refreshing, pulled>>

refresh_forever ==
    /\ serving = "serving" /\ refreshing = <<>>
    /\ refreshing' = PROMPT_NAMES
    /\ UNCHANGED <<hub, hub_enabled, snapshot_good, messages, pulled, serving>>

PromptsNext == HubMoves \/ Pulls \/ LoadsFromHub \/ WithoutHub \/ Raises \/ Serves \/ refresh_forever

PromptsSpec == PromptsInit /\ [][PromptsNext]_promptVars

(***************************************************************************)
(* Properties                                                              *)
(***************************************************************************)
PromptsTypeOK ==
    /\ hub \in 1 .. Releases /\ {hub_enabled, snapshot_good} \subseteq BOOLEAN
    /\ messages \in UNION {[S -> 0 .. Releases] : S \in SUBSET ToSet(PROMPT_NAMES)}
    /\ IsSuffix(refreshing, PROMPT_NAMES) /\ pulled \in 1 .. Nothing
    /\ serving \in {"starting", "serving", "failed"}

(* A placeholder that reaches the gateway is one it can expand             *)
(* (main.py:24): while the server serves, every prompt is loaded.          *)
EveryPlaceholderExpands == serving = "serving" => DOMAIN messages = ToSet(PROMPT_NAMES)

(* A refresh never takes a prompt away, and never puts an older text in    *)
(* the place of a newer: an outage of the Hub leaves what was loaded       *)
(* (prompt_service.py:99).                                                 *)
PromptsStay ==
    [][\A n \in DOMAIN messages : n \in DOMAIN messages' /\ messages'[n] >= messages[n]]_messages
=============================================================================
