---------------------------- MODULE VoiceClient ----------------------------
(***************************************************************************)
(* The pilot's end of the voice: push-to-talk recording                    *)
(* (voice/voice_input.py), the sticks its button may be on (hotas.py), the *)
(* timers (voice/timer_tool.py) and the speaker they all play through      *)
(* (voice/audio_output.py, voice/earcons.py).                              *)
(*                                                                         *)
(* Five kinds of thread touch this state: the voice loop, the keyboard's   *)
(* listener, the SDL thread of the sticks, and a thread per timer; the     *)
(* audio device plays and fails on its own.  What a turn of the            *)
(* conversation does is in ConversationTurn; here it may call the timer    *)
(* tools, and ends in a reply.                                             *)
(***************************************************************************)
EXTENDS Integers, Sequences, FiniteSets, Functions

CONSTANTS
    Sticks,          \* identical sticks: one GUID
    Labels,          \* labels of timers
    MAX_PRESSES,     \* bounds: presses of buttons, (un)pluggings, timers started
    MAX_PLUGS,
    MAX_TIMERS

ASSUME BoundsAssumption ==
    /\ IsFiniteSet(Sticks)
    /\ {MAX_PRESSES, MAX_PLUGS, MAX_TIMERS} \subseteq Nat

Keyboard == "keyboard"
KeyboardKey == -1
Nobody == "nobody"
NoLabel == "no label"

VARIABLES
    ptt,             \* the button: KeyboardKey, or the ordinal of a stick among its twins
    held,            \* the devices on which that button is down
    devices,         \* JoystickWatcher._run: the ordinal of each connected stick
    _pressed, _released,
    loop,            \* where the voice loop is
    capture,         \* frames: was the button down, of each kind of chunk; since, why: see Beginning
    mic,             \* is there a microphone
    stream,          \* the input stream: "none", "opened", "live", or "stale"
    playing,         \* what the speaker plays: Nobody, "chirp", "reply", or "timer"
    timers,          \* _timers: label -> the timer that holds it
    threads,         \* of each timer started: its label, and where its thread is
    outcome,         \* of each timer: "running", or how the pilot ended it
    matched,         \* the label that cancel_timer has found and not yet removed
    presses, plugs
buttons == <<ptt, held, devices, _pressed, _released, presses>>
audio == <<mic, stream, playing>>
timing == <<timers, threads, outcome, matched>>
vars == <<buttons, loop, capture, audio, timing, plugs>>

NoCapture == [frames |-> {}, since |-> 0, why |-> "a press"]
Init ==
    /\ ptt \in {KeyboardKey} \cup 0 .. Cardinality(Sticks) - 1
    /\ held = {} /\ devices = [s \in {} |-> 0] /\ presses = 0
    /\ _pressed = FALSE /\ _released = FALSE
    /\ loop = "clearing" /\ capture = NoCapture
    /\ mic = TRUE /\ stream = "none" /\ playing = Nobody
    /\ timers = [l \in {} |-> 0] /\ threads = <<>> /\ outcome = <<>> /\ matched = NoLabel
    /\ plugs = 0
-----------------------------------------------------------------------------
(* The buttons.  Each event reaches the listener that compares it with the *)
(* configured key; _on_press, _on_release and _on_joy set a flag.          *)

Bound(d) == IF d = Keyboard THEN ptt = KeyboardKey ELSE d \in DOMAIN devices /\ devices[d] = ptt
KeyDown == \E d \in held : Bound(d)

Press(d) ==
    /\ presses < MAX_PRESSES /\ d \notin held
    /\ d = Keyboard \/ d \in DOMAIN devices
    /\ Bound(d)
    /\ presses' = presses + 1
    /\ held' = held \cup {d}
    /\ _pressed' = TRUE
    /\ UNCHANGED <<ptt, devices, _released, loop, capture, audio, timing, plugs>>

(* a key that is held sends its press again and again; a stick's button does not *)
Repeats ==
    /\ Keyboard \in held /\ ~_pressed
    /\ _pressed' = TRUE
    /\ UNCHANGED <<ptt, held, devices, _released, presses, loop, capture, audio, timing, plugs>>

(* a release counts only for a recording that has begun *)
OnlyOfARecording(d) ==
    /\ d \in held
    /\ held' = held \ {d}
    /\ _released' = (_released \/ loop = "recording")
    /\ UNCHANGED <<ptt, devices, _pressed, presses, loop, capture, audio, timing, plugs>>

Release(d) ==
    /\ d \in held
    /\ held' = held \ {d}
    /\ _released' = TRUE
    /\ UNCHANGED <<ptt, devices, _pressed, presses, loop, capture, audio, timing, plugs>>

(* the ordinal of a stick is the number of its twins that are connected *)
Connect(s) ==
    /\ plugs < MAX_PLUGS /\ s \notin DOMAIN devices
    /\ plugs' = plugs + 1
    /\ devices' = [t \in DOMAIN devices \cup {s} |-> IF t = s THEN Cardinality(DOMAIN devices) ELSE devices[t]]
    /\ UNCHANGED <<ptt, held, _pressed, _released, presses, loop, capture, audio, timing>>

(* SDL lifts the buttons of a stick before it reports it gone *)
Disconnect(s) ==
    /\ s \in DOMAIN devices \ held
    /\ devices' = Restrict(devices, DOMAIN devices \ {s})
    /\ UNCHANGED <<ptt, held, _pressed, _released, presses, loop, capture, audio, timing, plugs>>
-----------------------------------------------------------------------------
(* record_until_release *)

Moves(from, to) == loop = from /\ loop' = to
Plays(x) == playing' = x               \* sd.play stops whatever is playing

ClearsPressed ==
    /\ Moves("clearing", "cleared pressed")
    /\ _pressed' = FALSE
    /\ capture' = NoCapture
    /\ UNCHANGED <<ptt, held, devices, _released, presses, audio, timing, plugs>>

(* for the properties: what the button was doing while the flags were cleared, *)
(* and how many presses there were before the one the recording may be of      *)
Beginning == [capture EXCEPT !.why = IF KeyDown /\ ~_pressed THEN "held over"
                                     ELSE IF _pressed /\ ~KeyDown THEN "tapped between" ELSE @,
                             !.since = IF _pressed THEN presses - Cardinality(held) ELSE presses]
PressedAgain == presses > capture.since + 1

(* the stale release of the last press is never cleared *)
KeepsReleased ==
    /\ Moves("cleared pressed", "opening")
    /\ capture' = Beginning
    /\ UNCHANGED <<buttons, audio, timing, plugs>>

ClearsReleased ==
    /\ Moves("cleared pressed", "opening")
    /\ _released' = FALSE
    /\ capture' = Beginning
    /\ UNCHANGED <<ptt, held, devices, _pressed, presses, audio, timing, plugs>>

(* no microphone: the exception leaves run(), and the launcher is told (on_fatal) *)
Opens ==
    /\ loop = "opening"
    /\ loop' = IF mic THEN "waiting" ELSE "stopped"
    /\ stream' = IF mic THEN "opened" ELSE "none"
    /\ UNCHANGED <<buttons, capture, mic, playing, timing, plugs>>

Wakes == Moves("waiting", "starting") /\ _pressed /\ UNCHANGED <<buttons, capture, audio, timing, plugs>>

(* a stream that does not start is the end of it *)
StartsOnce ==
    /\ loop = "starting"
    /\ loop' = IF stream = "opened" THEN "recording" ELSE "stopped"
    /\ stream' = IF stream = "opened" THEN "live" ELSE "none"
    /\ IF stream = "opened" THEN Plays("chirp") ELSE UNCHANGED playing
    /\ UNCHANGED <<buttons, capture, mic, timing, plugs>>

(* the device went away while idle: reopen once *)
Starts ==
    /\ loop = "starting"
    /\ IF stream = "opened" \/ mic
       THEN loop' = "recording" /\ stream' = "live" /\ Plays("chirp")
       ELSE loop' = "stopped" /\ stream' = "none" /\ UNCHANGED playing
    /\ UNCHANGED <<buttons, capture, mic, timing, plugs>>

Reads ==
    /\ loop = "recording" /\ ~_released
    /\ IF stream = "live"
       THEN capture' = [capture EXCEPT !.frames = @ \cup {KeyDown}] /\ UNCHANGED <<loop, stream>>
       ELSE loop' = "stopped" /\ stream' = "none" /\ UNCHANGED capture
    /\ UNCHANGED <<buttons, mic, playing, timing, plugs>>

Stops ==
    /\ Moves("recording", "transcribing") /\ _released
    /\ stream' = "none"
    /\ Plays("chirp")
    /\ UNCHANGED <<buttons, capture, mic, timing, plugs>>

(* transcribe: nothing, or too short, or too quiet, or no words *)
HearsNothing == Moves("transcribing", "clearing") /\ UNCHANGED <<buttons, capture, audio, timing, plugs>>
HearsWords ==
    /\ Moves("transcribing", "turn") /\ capture.frames # {}
    /\ UNCHANGED <<buttons, capture, audio, timing, plugs>>

(* the speech model raises: listen_once is outside the try of run(), and its exception ends the loop *)
WhisperFails ==
    /\ Moves("transcribing", "stopped") /\ capture.frames # {}
    /\ UNCHANGED <<buttons, capture, audio, timing, plugs>>

Replies ==
    /\ Moves("turn", "speaking")
    /\ Plays("reply")
    /\ UNCHANGED <<buttons, capture, mic, stream, timing, plugs>>
NoVoice == Moves("turn", "clearing") /\ UNCHANGED <<buttons, capture, audio, timing, plugs>>

(* the reply cannot be decoded or played, and what played may have been stopped for it: *)
(* play_audio is outside the try as well                                                *)
PlaybackFails ==
    /\ Moves("turn", "stopped")
    /\ playing' \in {playing, Nobody}
    /\ UNCHANGED <<buttons, capture, mic, stream, timing, plugs>>

(* sd.wait: until the last thing that was played, whoever played it, is over *)
Spoken == Moves("speaking", "clearing") /\ playing = Nobody /\ UNCHANGED <<buttons, capture, audio, timing, plugs>>

PlaybackEnds ==
    /\ playing # Nobody
    /\ Plays(Nobody)
    /\ UNCHANGED <<buttons, loop, capture, mic, stream, timing, plugs>>

(* the microphone goes, and every stream on it; or it is back *)
MicChanges ==
    /\ plugs < MAX_PLUGS
    /\ plugs' = plugs + 1
    /\ mic' = ~mic
    /\ stream' = IF stream = "none" THEN "none" ELSE "stale"
    /\ UNCHANGED <<buttons, loop, capture, playing, timing>>
-----------------------------------------------------------------------------
(* timer_tool: the tools, called by a turn, and a thread per timer *)

Step(id) == threads[id].step
LabelOf(id) == threads[id].label
To(id, step) == threads' = [threads EXCEPT ![id].step = step]
Without(l) == timers' = Restrict(timers, DOMAIN timers \ {l})
Holds(id) == LabelOf(id) \in DOMAIN timers /\ timers[LabelOf(id)] = id

(* A restart takes the label over. The thread of the timer it had may have *)
(* looked at the table already, and is then "overtaken".                   *)
StartTimer(l) ==
    LET id == Len(threads) + 1
        Looked(i) == LabelOf(i) = l /\ Step(i) = "looked"
    IN  /\ loop = "turn" /\ id <= MAX_TIMERS
        /\ timers' = [m \in DOMAIN timers \cup {l} |-> IF m = l THEN id ELSE timers[m]]
        /\ threads' = Append([i \in DOMAIN threads |-> IF Looked(i) THEN [threads[i] EXCEPT !.overtaken = TRUE] ELSE threads[i]],
                             [label |-> l, step |-> "asleep", overtaken |-> FALSE])
        /\ outcome' = Append([i \in DOMAIN outcome |-> IF LabelOf(i) = l /\ Holds(i) THEN "restarted" ELSE outcome[i]], "running")
        /\ UNCHANGED <<buttons, loop, capture, audio, matched, plugs>>

(* _match_label, then del: the entry may be gone in between, and the tool fails *)
MatchesLabel(l) ==
    /\ Moves("turn", "cancelling") /\ l \in DOMAIN timers
    /\ matched' = l
    /\ UNCHANGED <<buttons, capture, audio, timers, threads, outcome, plugs>>
CancelTimer(l) ==
    /\ Moves("cancelling", "turn") /\ l = matched
    /\ matched' = NoLabel
    /\ IF l \in DOMAIN timers
       THEN Without(l) /\ outcome' = [outcome EXCEPT ![timers[l]] = "cancelled"]
       ELSE UNCHANGED <<timers, outcome>>
    /\ UNCHANGED <<buttons, capture, audio, threads, plugs>>

(* any timer of this label will do *)
LooksAtLabel(id) ==
    /\ Step(id) = "asleep"
    /\ To(id, IF LabelOf(id) \in DOMAIN timers THEN "looked" ELSE "over")
    /\ UNCHANGED <<buttons, loop, capture, audio, timers, outcome, matched, plugs>>

Looks(id) ==
    /\ Step(id) = "asleep"
    /\ To(id, IF Holds(id) THEN "looked" ELSE "over")
    /\ UNCHANGED <<buttons, loop, capture, audio, timers, outcome, matched, plugs>>

(* del _timers[label], whichever timer holds it by now: a KeyError ends the thread *)
Deletes(id) ==
    /\ Step(id) = "looked"
    /\ IF LabelOf(id) \in DOMAIN timers
       THEN To(id, "announcing") /\ Without(LabelOf(id)) ELSE To(id, "over") /\ UNCHANGED timers
    /\ UNCHANGED <<buttons, loop, capture, audio, outcome, matched, plugs>>
Announces(id) ==
    /\ Step(id) = "announcing"
    /\ To(id, "announced")
    /\ Plays("timer")
    /\ UNCHANGED <<buttons, loop, capture, mic, stream, timers, outcome, matched, plugs>>
AnnouncesNothing(id) ==      \* the speech service failed or has no voice
    /\ Step(id) = "announcing"
    /\ To(id, "voiceless")
    /\ UNCHANGED <<buttons, loop, capture, audio, timers, outcome, matched, plugs>>

RecordStep == ClearsPressed \/ ClearsReleased \/ Opens \/ Wakes \/ Starts \/ Reads \/ Stops
TurnStep ==
    \/ HearsNothing \/ HearsWords \/ WhisperFails \/ Replies \/ NoVoice \/ PlaybackFails \/ Spoken
    \/ \E l \in Labels : StartTimer(l) \/ MatchesLabel(l) \/ CancelTimer(l)
TimerStep == \E id \in DOMAIN threads : Looks(id) \/ Deletes(id) \/ Announces(id) \/ AnnouncesNothing(id)
ButtonStep == Repeats \/ (\E d \in Sticks \cup {Keyboard} : Press(d) \/ Release(d)) \/ (\E s \in Sticks : Connect(s) \/ Disconnect(s))
Next == RecordStep \/ TurnStep \/ TimerStep \/ ButtonStep \/ PlaybackEnds \/ MicChanges
Spec == Init /\ [][Next]_vars

(* Threads run, playback ends, a turn ends (ConversationTurn), and a pilot *)
(* does not hold a button for ever.                                        *)
Fairness ==
    /\ WF_vars(RecordStep) /\ WF_vars(HearsNothing \/ HearsWords \/ WhisperFails)
    /\ WF_vars(Replies \/ NoVoice \/ PlaybackFails) /\ WF_vars(Spoken)
    /\ WF_vars(PlaybackEnds) /\ \A l \in Labels : WF_vars(CancelTimer(l))
    /\ \A d \in Sticks \cup {Keyboard} : WF_vars(Release(d))
    /\ \A id \in 1 .. MAX_TIMERS : WF_vars(id \in DOMAIN threads /\ (Looks(id) \/ Deletes(id) \/ Announces(id)))
FairSpec == Spec /\ Fairness
-----------------------------------------------------------------------------
TypeOK ==
    /\ ptt \in {KeyboardKey} \cup 0 .. Cardinality(Sticks) - 1 /\ held \subseteq Sticks \cup {Keyboard}
    /\ DOMAIN devices \subseteq Sticks /\ Range(devices) \subseteq 0 .. Cardinality(Sticks) - 1
    /\ {_pressed, _released, mic} \subseteq BOOLEAN
    /\ loop \in {"clearing", "cleared pressed", "opening", "waiting", "starting", "recording", "transcribing",
                 "turn", "cancelling", "speaking", "stopped"}
    /\ matched \in Labels \cup {NoLabel}
    /\ capture \in [frames : SUBSET BOOLEAN, since : 0 .. presses, why : {"a press", "held over", "tapped between"}]
    /\ stream \in {"none", "opened", "live", "stale"}
    /\ playing \in {Nobody, "chirp", "reply", "timer"}
    /\ DOMAIN timers \subseteq Labels /\ \A l \in DOMAIN timers : LabelOf(timers[l]) = l
    /\ \A id \in DOMAIN threads : Step(id) \in {"asleep", "looked", "announcing", "announced", "voiceless", "over"}
    /\ DOMAIN outcome = DOMAIN threads /\ Range(outcome) \subseteq {"running", "restarted", "cancelled"}

(* "Records while held" (voice_input.py:232).  While the button is down    *)
(* the recording goes on, so an empty one is of a press too short for the  *)
(* microphone; and nothing is recorded with the button up.  What breaks it *)
(* is a button that was held over, or tapped, while the two flags were     *)
(* cleared, and one pressed again before its release was seen, be it the   *)
(* same or that of a twin stick.                                           *)
CaptureIsTheHold ==
    [][ /\ Stops /\ KeyDown => capture.why = "held over" \/ PressedAgain
        /\ Reads /\ FALSE \in capture'.frames => capture.why = "tapped between" ]_vars

(* Before a recording is with the speech model, only the microphone stops  *)
(* voice for good: there is none, or it went away in the middle of the     *)
(* recording (voice_input.py:267).  Later it takes a speech model that     *)
(* raises, or a reply that cannot be played (voice/__init__.py:98, :133);  *)
(* whatever the buttons, the timers and a turn's tools do, it goes on.     *)
DeafOnlyWithoutMic ==
    [][ loop' = "stopped" /\ loop # "stopped" =>
            \/ ~mic
            \/ loop = "recording" /\ stream = "stale"
            \/ loop \in {"transcribing", "turn"} ]_vars

(* Nothing but a timer speaks into a reply: no chirp does, for the loop    *)
(* waits until the reply is over (audio_output.py:23).                     *)
OnlyTimersInterrupt ==
    [][ playing = "reply" /\ playing' # "reply" => playing' = Nobody \/ playing' = "timer" ]_vars

(* A timer is announced if it ran out, and not if the pilot cancelled or   *)
(* restarted it before (timer_tool.py:28), except for one whose label was  *)
(* given to another between its look at the table and its removal.         *)
TimersSpeakTrue ==
    \A id \in DOMAIN threads :
        LET Taken == \E i \in DOMAIN threads : threads[i].overtaken /\ LabelOf(i) = LabelOf(id)
        IN  /\ Step(id) = "announced" => outcome[id] = "running" \/ threads[id].overtaken
            /\ Step(id) = "over" => outcome[id] # "running" \/ Taken

(* A press is answered: whatever is pressed, unplugged or played, the      *)
(* recording it begins ends, and the loop comes to a turn or listens       *)
(* again, unless voice has stopped.  A tap between the two clears alone    *)
(* leaves the microphone open until the next press (voice_input.py:276).   *)
PressIsAnswered ==
    loop = "waiting" /\ _pressed
        ~> loop \in {"turn", "clearing", "stopped"} \/ (loop = "recording" /\ capture.why = "tapped between")

(* hotas.py:18: "<n> tells apart two identical devices": when both are     *)
(* connected, the button is on one of them.                                *)
TwinsAreTold == ptt # KeyboardKey /\ DOMAIN devices = Sticks => \E s \in Sticks : { d \in Sticks : Bound(d) } = {s}
(* timer_tool.py:28: a timer that nobody ended is announced.               *)
RunningTimersFire == \A id \in DOMAIN threads : Step(id) = "over" => outcome[id] # "running"
(* voice/__init__.py:126: "One broken turn used to end the voice loop":    *)
(* what was recorded comes to a turn or to nothing, and never ends it.     *)
TurnsNeverEndVoice == [][ ~(loop \in {"transcribing", "turn"} /\ loop' = "stopped") ]_vars
(* An announcement is heard to its end.                                    *)
HeardToTheEnd == [][ playing = "timer" /\ playing' # playing => playing' = Nobody ]_vars
=============================================================================
