---------------------------- MODULE VoiceProofs -----------------------------
(***************************************************************************)
(* The voice at both ends, for any sticks, labels, presses and timers, and *)
(* any limits: what is recorded is what was held, only the microphone ends *)
(* a recording for good, timers speak when they should; and the server's   *)
(* limiter lets no window of sentences through that is too full.  The      *)
(* voice tools that search, for any catalogue, rows, holds and container   *)
(* sizes: loads are the fullest, and what is offered is the best.          *)
(***************************************************************************)
EXTENDS VoiceClient, Speech, SearchTools, FiniteSetTheorems, WellFoundedInduction, TLAPS

-----------------------------------------------------------------------------
(* The inductive invariants of the client.                                 *)

Devices == Sticks \cup {Keyboard}
Ordinals == 0 .. Cardinality(Sticks) - 1
Listening == {"opening", "waiting", "starting", "recording"}

(* A button is down on the device it was pressed on, and stays bound while *)
(* it is: a stick that is held is not taken away, nor numbered anew.       *)
ButtonInv ==
    /\ ptt \in {KeyboardKey} \cup Ordinals /\ held \subseteq Devices
    /\ DOMAIN devices \subseteq Sticks /\ devices \in [DOMAIN devices -> Ordinals]
    /\ _pressed \in BOOLEAN /\ _released \in BOOLEAN
    /\ presses \in Nat /\ Cardinality(held) <= presses
    /\ \A d \in held : Bound(d)

(* The microphone is open from the press to the release, and a reply is    *)
(* what plays only while the loop waits for its end.                       *)
StreamInv ==
    /\ loop \in {"clearing", "cleared pressed", "transcribing", "turn", "cancelling", "speaking", "stopped"}
                    \cup Listening
    /\ stream \in {"none", "opened", "live", "stale"} /\ mic \in BOOLEAN
    /\ playing \in {Nobody, "chirp", "reply", "timer"}
    /\ loop = "recording" => stream \in {"live", "stale"}
    /\ playing = "reply" => loop = "speaking"

(* What the two flags say of the recording from the moment both are clear: *)
(* a release is of a press of its own, and a press without one is down.    *)
ReleaseIsOfAPress ==
    capture.why # "held over" =>
        /\ presses = capture.since => held = {} /\ ~_released
        /\ presses = capture.since + 1 =>
              /\ \A d, e \in held : d = e
              /\ _released => held = {}
Captures == [frames : SUBSET BOOLEAN, since : Nat, why : {"a press", "held over", "tapped between"}]
PressIsDown ==
    _pressed /\ ~_released /\ capture.why # "tapped between" => held # {}
CaptureInv ==
    /\ capture \in Captures /\ capture.since <= presses
    /\ FALSE \in capture.frames => capture.why = "tapped between"
    /\ loop = "cleared pressed" => capture = NoCapture
    /\ loop \in Listening => ReleaseIsOfAPress /\ PressIsDown
    /\ loop \in {"starting", "recording"} => _pressed

(* Timers.  Taken: an entry of the label was lost to a thread that had     *)
(* looked before it was made.                                              *)
Steps == {"asleep", "looked", "announcing", "announced", "voiceless", "over"}
Timer == [label : Labels, step : Steps, overtaken : BOOLEAN]
Taken(l) == \E i \in DOMAIN threads : threads[i].overtaken /\ LabelOf(i) = l
TimersTyped ==
    /\ threads \in Seq(Timer) /\ outcome \in Seq({"running", "restarted", "cancelled"})
    /\ Len(outcome) = Len(threads)
    /\ DOMAIN timers \subseteq Labels /\ timers = [l \in DOMAIN timers |-> timers[l]]
    /\ matched \in Labels \cup {NoLabel}
(* The table holds timers that nobody ended, by their labels.              *)
TableHoldsRunning ==
    \A l \in DOMAIN timers :
        /\ timers[l] \in DOMAIN threads /\ LabelOf(timers[l]) = l
        /\ Step(timers[l]) \in {"asleep", "looked"} /\ outcome[timers[l]] = "running"
(* A timer that nobody ended has its entry until its thread removes it, or *)
(* an overtaken one does; whoever looked and was not overtaken finds its   *)
(* own entry or none.                                                      *)
EntryIsOwn(id) ==
    /\ Step(id) = "asleep" /\ outcome[id] = "running" => Holds(id) \/ Taken(LabelOf(id))
    /\ Step(id) = "looked" /\ ~threads[id].overtaken =>
          IF LabelOf(id) \in DOMAIN timers THEN timers[LabelOf(id)] = id
                                           ELSE outcome[id] # "running" \/ Taken(LabelOf(id))
    /\ Step(id) \in {"announcing", "announced", "voiceless"} => outcome[id] = "running" \/ threads[id].overtaken
    /\ Step(id) = "over" => outcome[id] # "running" \/ Taken(LabelOf(id))
TimerInv == TimersTyped /\ TableHoldsRunning /\ \A id \in DOMAIN threads : EntryIsOwn(id)

-----------------------------------------------------------------------------
(* The buttons.                                                            *)

LEMMA SticksFinite == IsFiniteSet(Sticks) /\ Cardinality(Sticks) \in Nat
BY BoundsAssumption, FS_CardinalityType

LEMMA HeldFinite ==
    ASSUME NEW S \in SUBSET Devices
    PROVE  IsFiniteSet(S) /\ Cardinality(S) \in Nat
<1>1. IsFiniteSet(Devices)
  BY SticksFinite, FS_AddElement DEF Devices
<1> QED BY <1>1, FS_Subset, FS_CardinalityType

(* The ordinal of a stick that is connected when others are.               *)
LEMMA NextOrdinal ==
    ASSUME NEW D \in SUBSET Sticks, NEW s \in Sticks \ D
    PROVE  Cardinality(D) \in Ordinals
<1>1. IsFiniteSet(D) /\ Cardinality(D) \in Nat
  BY SticksFinite, FS_Subset, FS_CardinalityType
<1>2. Cardinality(D \cup {s}) = Cardinality(D) + 1
  BY <1>1, FS_AddElement
<1>3. D \cup {s} \subseteq Sticks
  OBVIOUS
<1>4. Cardinality(D \cup {s}) <= Cardinality(Sticks)
  BY <1>3, SticksFinite, FS_Subset
<1> QED BY <1>1, <1>2, <1>4, SticksFinite DEF Ordinals

(* What becomes of the buttons' invariant where no button, stick or flag   *)
(* but those of record_until_release is touched.                           *)
LEMMA FlagsKeepButtons ==
    ASSUME ButtonInv, UNCHANGED <<ptt, held, devices, presses>>,
           _pressed' \in BOOLEAN, _released' \in BOOLEAN
    PROVE  ButtonInv'
BY DEF ButtonInv, Bound, Devices, Ordinals

LEMMA PressKeepsButtons ==
    ASSUME ButtonInv, NEW d \in Devices, Press(d)
    PROVE  ButtonInv'
<1> USE DEF ButtonInv, Press
<1>1. IsFiniteSet(held) /\ Cardinality(held) \in Nat
  BY HeldFinite
<1>2. Cardinality(held \cup {d}) = Cardinality(held) + 1
  BY <1>1, FS_AddElement
<1>3. Cardinality(held') <= presses' /\ presses' \in Nat
  BY <1>1, <1>2
<1>4. \A e \in held' : Bound(e)'
  BY DEF Bound
<1> QED BY <1>3, <1>4

LEMMA ReleaseKeepsButtons ==
    ASSUME ButtonInv, NEW d \in Devices, Release(d)
    PROVE  ButtonInv'
<1> USE DEF ButtonInv, Release
<1>1. IsFiniteSet(held) /\ Cardinality(held) \in Nat
  BY HeldFinite
<1>2. Cardinality(held \ {d}) = Cardinality(held) - 1
  BY <1>1, FS_RemoveElement
<1>3. Cardinality(held') <= presses'
  BY <1>1, <1>2
<1>4. \A e \in held' : Bound(e)'
  BY DEF Bound
<1> QED BY <1>3, <1>4

LEMMA SticksKeepButtons ==
    ASSUME ButtonInv, NEW s \in Sticks, Connect(s) \/ Disconnect(s)
    PROVE  ButtonInv'
<1> USE DEF ButtonInv
<1>1. CASE Connect(s)
  <2>1. Cardinality(DOMAIN devices) \in Ordinals
    BY <1>1, NextOrdinal DEF Connect
  <2>2. DOMAIN devices' \subseteq Sticks /\ devices' \in [DOMAIN devices' -> Ordinals]
    BY <1>1, <2>1 DEF Connect
  <2>3. \A e \in held' : Bound(e)'
    BY <1>1 DEF Connect, Bound
  <2> QED BY <1>1, <2>2, <2>3 DEF Connect
<1>2. CASE Disconnect(s)
  <2>1. DOMAIN devices' \subseteq Sticks /\ devices' \in [DOMAIN devices' -> Ordinals]
    BY <1>2 DEF Disconnect, Restrict
  <2>2. \A e \in held' : Bound(e)'
    BY <1>2 DEF Disconnect, Restrict, Bound
  <2> QED BY <1>2, <2>1, <2>2 DEF Disconnect
<1> QED BY <1>1, <1>2

LEMMA ButtonStart == ASSUME Init PROVE ButtonInv
<1>1. Cardinality(held) = 0
  BY FS_EmptySet DEF Init
<1>2. DOMAIN devices = {} /\ devices \in [DOMAIN devices -> Ordinals]
  BY DEF Init
<1>3. /\ ptt \in {KeyboardKey} \cup Ordinals /\ held = {} /\ presses = 0
      /\ _pressed = FALSE /\ _released = FALSE
  BY DEF Init, Ordinals
<1>4. held \subseteq Devices BY <1>3
<1>5. Cardinality(held) <= presses BY <1>1, <1>3
<1>6. \A d \in held : Bound(d) BY <1>3
<1>7. DOMAIN devices \subseteq Sticks BY <1>2
<1>8. _pressed \in BOOLEAN /\ _released \in BOOLEAN BY <1>3
<1>9. presses \in Nat BY <1>3
<1> QED BY <1>2, <1>3, <1>4, <1>5, <1>6, <1>7, <1>8, <1>9, Zenon DEF ButtonInv

LEMMA ButtonNext == ASSUME ButtonInv, [Next]_vars PROVE ButtonInv'
<1> DEFINE Flags == /\ UNCHANGED <<ptt, held, devices, presses>>
                    /\ _pressed' \in BOOLEAN /\ _released' \in BOOLEAN
<1>0. Flags => ButtonInv'
  BY FlagsKeepButtons
<1>00. UNCHANGED buttons => Flags
  BY DEF buttons, ButtonInv
<1>1. CASE RecordStep
  <2>1. CASE ClearsPressed \/ ClearsReleased
    BY <2>1, <1>0 DEF ClearsPressed, ClearsReleased, ButtonInv
  <2>2. CASE Opens \/ Wakes \/ Starts \/ Reads \/ Stops
    BY <2>2, <1>0, <1>00 DEF Opens, Wakes, Starts, Reads, Stops
  <2> QED BY <1>1, <2>1, <2>2 DEF RecordStep
<1>2. CASE TurnStep
  BY <1>2, <1>0, <1>00 DEF TurnStep, HearsNothing, HearsWords, WhisperFails, Replies, NoVoice, PlaybackFails, Spoken,
                           StartTimer, MatchesLabel, CancelTimer
<1>3. CASE TimerStep
  BY <1>3, <1>0, <1>00 DEF TimerStep, Looks, Deletes, Announces, AnnouncesNothing
<1>4. CASE ButtonStep
  BY <1>4, <1>0, PressKeepsButtons, ReleaseKeepsButtons, SticksKeepButtons DEF ButtonStep, Repeats, Devices, ButtonInv
<1>5. CASE PlaybackEnds \/ MicChanges \/ UNCHANGED vars
  BY <1>5, <1>0, <1>00 DEF PlaybackEnds, MicChanges, vars
<1> QED BY <1>1, <1>2, <1>3, <1>4, <1>5 DEF Next

-----------------------------------------------------------------------------
(* The streams.                                                            *)

LEMMA StreamNext == ASSUME StreamInv, [Next]_vars PROVE StreamInv'
<1> USE DEF StreamInv, Listening
<1>1. CASE RecordStep
  BY <1>1 DEF RecordStep, ClearsPressed, ClearsReleased, Opens, Wakes, Starts, Reads, Stops, Moves, Plays, Nobody, audio
<1>2. CASE TurnStep
  BY <1>2 DEF TurnStep, HearsNothing, HearsWords, WhisperFails, Replies, NoVoice, PlaybackFails, Spoken,
              StartTimer, MatchesLabel, CancelTimer, Moves, Plays, Nobody, audio
<1>3. CASE TimerStep
  BY <1>3 DEF TimerStep, Looks, Deletes, Announces, AnnouncesNothing, Plays, Nobody, audio
<1>4. CASE ButtonStep
  BY <1>4 DEF ButtonStep, Repeats, Press, Release, Connect, Disconnect, audio
<1>5. CASE PlaybackEnds \/ MicChanges \/ UNCHANGED vars
  BY <1>5 DEF PlaybackEnds, MicChanges, vars, Plays, Nobody, audio
<1> QED BY <1>1, <1>2, <1>3, <1>4, <1>5 DEF Next

LEMMA StreamInvariance == Spec => []StreamInv
<1>1. Init => StreamInv
  BY DEF Init, StreamInv, Listening, Nobody
<1> QED BY <1>1, StreamNext, PTL DEF Spec

(* Before a recording is with the speech model, only the microphone stops  *)
(* voice for good: there is none, or it went away in the middle of the     *)
(* recording (voice_input.py's record_until_release).  Later only a speech *)
(* model that raises does, or a reply that cannot be played                *)
(* (voice/__init__.py's run).                                              *)
THEOREM OnlyMicSilences == Spec => DeafOnlyWithoutMic
<1> DEFINE Deaf == loop' = "stopped" /\ loop # "stopped" =>
                      \/ ~mic
                      \/ loop = "recording" /\ stream = "stale"
                      \/ loop \in {"transcribing", "turn"}
<1>1. ASSUME StreamInv, [Next]_vars PROVE Deaf
  <2> USE DEF StreamInv
  <2>1. CASE RecordStep
    <3>1. CASE Starts
      BY <1>1, <3>1 DEF Starts
    <3>2. CASE Opens \/ Reads
      BY <1>1, <3>2 DEF Opens, Reads
    <3>3. CASE ClearsPressed \/ ClearsReleased \/ Wakes \/ Stops
      BY <3>3 DEF ClearsPressed, ClearsReleased, Wakes, Stops, Moves
    <3> QED BY <2>1, <3>1, <3>2, <3>3 DEF RecordStep
  <2>2. CASE TurnStep
    BY <2>2 DEF TurnStep, HearsNothing, HearsWords, WhisperFails, Replies, NoVoice, PlaybackFails, Spoken,
                StartTimer, MatchesLabel, CancelTimer, Moves
  <2>3. CASE TimerStep
    BY <2>3 DEF TimerStep, Looks, Deletes, Announces, AnnouncesNothing
  <2>4. CASE ButtonStep
    BY <2>4 DEF ButtonStep, Repeats, Press, Release, Connect, Disconnect
  <2>5. CASE PlaybackEnds \/ MicChanges \/ UNCHANGED vars
    BY <2>5 DEF PlaybackEnds, MicChanges, vars
  <2> QED BY <1>1, <2>1, <2>2, <2>3, <2>4, <2>5 DEF Next
<1>2. StreamInv /\ [Next]_vars => [Deaf]_vars
  BY <1>1
<1> QED BY <1>2, StreamInvariance, PTL DEF Spec, DeafOnlyWithoutMic

(* No chirp cuts a reply: the loop waits until the reply is over, or a     *)
(* timer has taken its place (audio_output.py's play_audio).               *)
THEOREM RepliesAreNotChirpedOver == Spec => OnlyTimersInterrupt
<1> DEFINE Cut == playing = "reply" /\ playing' # "reply" => playing' = Nobody \/ playing' = "timer"
<1>1. ASSUME StreamInv, [Next]_vars PROVE Cut
  <2> USE DEF StreamInv
  <2>1. CASE RecordStep
    <3>1. CASE Starts
      BY <1>1, <3>1 DEF Starts, Plays
    <3>2. CASE Opens \/ Reads
      BY <3>2 DEF Opens, Reads
    <3>3. CASE ClearsPressed \/ ClearsReleased \/ Wakes \/ Stops
      BY <1>1, <3>3 DEF ClearsPressed, ClearsReleased, Wakes, Stops, Moves, Plays, audio
    <3> QED BY <2>1, <3>1, <3>2, <3>3 DEF RecordStep
  <2>2. CASE TurnStep
    BY <2>2 DEF TurnStep, HearsNothing, HearsWords, WhisperFails, Replies, NoVoice, PlaybackFails, Spoken,
                StartTimer, MatchesLabel, CancelTimer, Moves, Plays, audio
  <2>3. CASE TimerStep
    BY <2>3 DEF TimerStep, Looks, Deletes, Announces, AnnouncesNothing, Plays, audio
  <2>4. CASE ButtonStep
    BY <2>4 DEF ButtonStep, Repeats, Press, Release, Connect, Disconnect, audio
  <2>5. CASE PlaybackEnds \/ MicChanges \/ UNCHANGED vars
    BY <2>5 DEF PlaybackEnds, MicChanges, vars, Plays, audio
  <2> QED BY <1>1, <2>1, <2>2, <2>3, <2>4, <2>5 DEF Next
<1>2. StreamInv /\ [Next]_vars => [Cut]_vars
  BY <1>1
<1> QED BY <1>2, StreamInvariance, PTL DEF Spec, OnlyTimersInterrupt

-----------------------------------------------------------------------------
(* The recording.                                                          *)

(* What one device more or less makes of a set of at most one.             *)
LEMMA SinceFits ==
    ASSUME ButtonInv, capture = NoCapture, ClearsReleased
    PROVE  /\ capture' \in Captures /\ capture'.since <= presses
           /\ capture'.frames = {}
           /\ capture'.why # "held over" =>
                 /\ presses = capture'.since => held = {}
                 /\ presses = capture'.since + 1 => \A d, e \in held : d = e
           /\ _pressed /\ capture'.why # "tapped between" => held # {}
<1> DEFINE n == Cardinality(held)
<1> USE DEF ButtonInv
<1>1. n \in Nat /\ n <= presses /\ IsFiniteSet(held) /\ presses \in Nat
  BY HeldFinite
<1>2. n = 0 <=> held = {}
  BY <1>1, FS_EmptySet
<1>3. n = 1 => \A d, e \in held : d = e
  <2> SUFFICES ASSUME n = 1 PROVE \E x : held = {x}
    OBVIOUS
  <2> QED BY <1>1, FS_Singleton
<1>4. KeyDown <=> held # {}
  BY DEF KeyDown
<1>5. /\ capture'.frames = {}
      /\ capture'.since = (IF _pressed THEN presses - n ELSE presses)
      /\ capture'.why = (IF KeyDown /\ ~_pressed THEN "held over"
                         ELSE IF _pressed /\ ~KeyDown THEN "tapped between" ELSE "a press")
      /\ capture' = [frames |-> capture'.frames, since |-> capture'.since, why |-> capture'.why]
  BY DEF ClearsReleased, Beginning, NoCapture
<1>6. capture'.since \in Nat /\ capture'.since <= presses
  <2>1. capture'.since = presses - n \/ capture'.since = presses
    BY <1>5, Zenon
  <2> QED BY <1>1, <2>1
<1>7. capture'.why \in {"a press", "held over", "tapped between"}
  BY <1>5
<1> HIDE DEF ButtonInv, n
<1>8. capture' \in Captures
  <2>1. capture' = [frames |-> {}, since |-> capture'.since, why |-> capture'.why]
    BY <1>5, Zenon
  <2>2. \A k \in Nat, w \in {"a press", "held over", "tapped between"} :
            [frames |-> {}, since |-> k, why |-> w] \in Captures
    BY DEF Captures
  <2> QED BY <1>6, <1>7, <2>1, <2>2, Zenon
<1>9. ASSUME capture'.why # "held over"
      PROVE  /\ presses = capture'.since => held = {}
             /\ presses = capture'.since + 1 => \A d, e \in held : d = e
  <2>1. CASE _pressed
    <3>1. capture'.since = presses - n
      BY <1>5, <2>1, Zenon
    <3>2. (presses = capture'.since => n = 0) /\ (presses = capture'.since + 1 => n = 1)
      BY <1>1, <3>1
    <3> QED BY <1>2, <1>3, <3>2, Zenon
  <2>2. CASE ~_pressed
    <3>1. capture'.since = presses /\ ~KeyDown
      BY <1>5, <1>9, <2>2, Zenon
    <3>2. presses # capture'.since + 1
      BY <1>1, <3>1
    <3> QED BY <1>4, <3>1, <3>2, Zenon
  <2> QED BY <2>1, <2>2
<1>10. _pressed /\ capture'.why # "tapped between" => held # {}
  BY <1>4, <1>5
<1> QED BY <1>5, <1>6, <1>8, <1>9, <1>10, Zenon

LEMMA ButtonsKeepCapture ==
    ASSUME ButtonInv, CaptureInv, ButtonStep
    PROVE  CaptureInv'
<1>1. UNCHANGED <<capture, loop>>
  BY DEF ButtonStep, Repeats, Press, Release, Connect, Disconnect
<1>2. presses \in Nat /\ capture \in Captures /\ capture.since \in Nat /\ capture.since <= presses
  BY DEF ButtonInv, CaptureInv, Captures
<1>3. ASSUME capture'.since <= presses', _pressed => _pressed',
             ReleaseIsOfAPress => ReleaseIsOfAPress', PressIsDown => PressIsDown'
      PROVE  CaptureInv'
  BY <1>1, <1>3, Zenon DEF CaptureInv
<1>4. ASSUME NEW d \in Devices, Press(d) PROVE CaptureInv'
  <2>0. presses' = presses + 1
    BY <1>4 DEF Press
  <2>1. presses' = presses + 1 /\ held' = held \cup {d} /\ UNCHANGED _released
    BY <1>4 DEF Press
  <2>2. _pressed'
    BY <1>4 DEF Press
  <2>3. capture'.since <= presses' /\ presses' # capture.since
    BY <1>1, <1>2, <2>1
  <2>4. ASSUME ReleaseIsOfAPress PROVE ReleaseIsOfAPress'
    <3>1. ASSUME capture.why # "held over", presses' = capture.since + 1
          PROVE  (\A e, f \in held' : e = f) /\ ~_released'
      <4>1. presses = capture.since
        <5>1. presses + 1 = capture.since + 1
          BY <2>0, <3>1, Zenon
        <5> QED BY <1>2, <5>1
      <4>2. held = {} /\ ~_released
        BY <2>4, <3>1, <4>1, Zenon DEF ReleaseIsOfAPress
      <4> QED BY <2>1, <4>2, Zenon
    <3> QED BY <1>1, <2>3, <3>1, Zenon DEF ReleaseIsOfAPress
  <2>5. PressIsDown'
    BY <2>1, Zenon DEF PressIsDown
  <2> QED BY <1>3, <2>2, <2>3, <2>4, <2>5
<1>5. ASSUME NEW d \in Devices, Release(d) PROVE CaptureInv'
  <2>1. d \in held /\ held' = held \ {d} /\ UNCHANGED <<_pressed, presses>>
    BY <1>5 DEF Release
  <2>2. _released'
    BY <1>5 DEF Release
  <2>3. ASSUME ReleaseIsOfAPress PROVE ReleaseIsOfAPress'
    <3>1. presses = capture.since => held # {}
      BY <2>1
    <3>2. (\A e, f \in held : e = f) => held' = {}
      BY <2>1
    <3> QED BY <1>1, <2>1, <2>3, <3>1, <3>2, Zenon DEF ReleaseIsOfAPress
  <2>4. PressIsDown'
    BY <2>2, Zenon DEF PressIsDown
  <2> QED BY <1>1, <1>2, <1>3, <2>1, <2>3, <2>4
<1>6. CASE Repeats
  <2>1. UNCHANGED <<presses, held, _released>> /\ held # {} /\ _pressed'
    BY <1>6 DEF Repeats
  <2>2. ReleaseIsOfAPress => ReleaseIsOfAPress'
    BY <1>1, <2>1, Zenon DEF ReleaseIsOfAPress
  <2>3. PressIsDown'
    BY <2>1, Zenon DEF PressIsDown
  <2> QED BY <1>1, <1>2, <1>3, <2>1, <2>2, <2>3
<1>7. ASSUME NEW s \in Sticks, Connect(s) \/ Disconnect(s) PROVE CaptureInv'
  <2>1. UNCHANGED <<presses, held, _pressed, _released>>
    BY <1>7 DEF Connect, Disconnect
  <2>2. (ReleaseIsOfAPress => ReleaseIsOfAPress') /\ (PressIsDown => PressIsDown')
    BY <1>1, <2>1, Zenon DEF ReleaseIsOfAPress, PressIsDown
  <2> QED BY <1>1, <1>2, <1>3, <2>1, <2>2
<1> QED BY <1>4, <1>5, <1>6, <1>7 DEF ButtonStep, Devices

LEMMA NothingSince == \A n \in Nat : NoCapture.since <= n
BY DEF NoCapture

LEMMA RecordingKeepsCapture ==
    ASSUME ButtonInv, CaptureInv, RecordStep
    PROVE  CaptureInv'
<1> USE DEF CaptureInv, ReleaseIsOfAPress, PressIsDown, Listening
<1>1. CASE ClearsPressed
  <2>1. loop' = "cleared pressed" /\ capture' = NoCapture /\ UNCHANGED presses /\ presses \in Nat
    BY <1>1 DEF ClearsPressed, Moves, ButtonInv
  <2>2. /\ NoCapture \in Captures /\ NoCapture.since = 0 /\ FALSE \notin NoCapture.frames
    BY DEF NoCapture, Captures
  <2> HIDE DEF Listening
  <2>3. loop' \notin Listening \cup {"starting", "recording"}
    BY <2>1 DEF Listening
  <2>4. NoCapture.since <= presses'
    <3>1. presses' \in Nat
      BY <2>1, Zenon
    <3> QED BY <3>1, NothingSince, Zenon
  <2> QED BY <2>1, <2>2, <2>3, <2>4, Zenon DEF CaptureInv
<1>2. CASE ClearsReleased
  <2>1. /\ loop = "cleared pressed" /\ loop' = "opening" /\ _released' = FALSE
        /\ UNCHANGED <<presses, held, _pressed>>
    BY <1>2 DEF ClearsReleased, Moves
  <2> HIDE DEF Listening
  <2>2. capture = NoCapture
    BY <2>1
  <2> QED BY <1>2, <2>1, <2>2, SinceFits
<1>3. CASE Reads
  <2>1. UNCHANGED <<presses, held, _pressed, _released>> /\ loop = "recording" /\ ~_released
    BY <1>3 DEF Reads, buttons
  <2>2. CASE stream = "live"
    <3>1. loop' = loop /\ capture' = [capture EXCEPT !.frames = @ \cup {KeyDown}] /\ KeyDown \in BOOLEAN
      BY <1>3, <2>2 DEF Reads, KeyDown
    <3>2. capture.why # "tapped between" => KeyDown
      BY <2>1 DEF ButtonInv, KeyDown
    <3>3. /\ capture'.frames = capture.frames \cup {KeyDown}
          /\ capture'.since = capture.since /\ capture'.why = capture.why
          /\ capture' \in Captures /\ capture'.since <= presses
      BY <3>1 DEF Captures
    <3> HIDE DEF KeyDown
    <3>4. FALSE \in capture'.frames => capture'.why = "tapped between"
      BY <3>2, <3>3
    <3> QED BY <2>1, <3>1, <3>3, <3>4
  <2>3. CASE stream # "live"
    <3>1. loop' = "stopped" /\ UNCHANGED capture
      BY <1>3, <2>3 DEF Reads
    <3> QED BY <2>1, <3>1
  <2> QED BY <2>2, <2>3
<1>4. CASE Opens
  <2>1. UNCHANGED <<presses, held, _pressed, _released, capture>> /\ loop = "opening" /\ loop' \in {"waiting", "stopped"}
    BY <1>4 DEF Opens, buttons
  <2> QED BY <2>1
<1>5. CASE Wakes
  <2>1. UNCHANGED <<presses, held, _pressed, _released, capture>> /\ loop = "waiting" /\ loop' = "starting" /\ _pressed
    BY <1>5 DEF Wakes, Moves, buttons
  <2> QED BY <2>1
<1>6. CASE Starts
  <2>1. UNCHANGED <<presses, held, _pressed, _released, capture>> /\ loop = "starting" /\ loop' \in {"recording", "stopped"}
    BY <1>6 DEF Starts, buttons
  <2> QED BY <2>1
<1>7. CASE Stops
  <2>1. UNCHANGED <<presses, held, _pressed, _released, capture>> /\ loop' = "transcribing"
    BY <1>7 DEF Stops, Moves, buttons
  <2> QED BY <2>1
<1> QED BY <1>1, <1>2, <1>3, <1>4, <1>5, <1>6, <1>7 DEF RecordStep

LEMMA CaptureNext == ASSUME ButtonInv, CaptureInv, [Next]_vars PROVE CaptureInv'
<1> DEFINE Same == UNCHANGED <<presses, held, _pressed, _released, capture>>
<1>0. ASSUME Same, loop' \notin Listening \cup {"cleared pressed"} PROVE CaptureInv'
  <2>1. loop' \notin {"starting", "recording"}
    BY <1>0 DEF Listening
  <2> QED BY <1>0, <2>1, Zenon DEF CaptureInv, ReleaseIsOfAPress, PressIsDown
<1>00. ASSUME Same, loop' = loop PROVE CaptureInv'
  BY <1>00, Zenon DEF CaptureInv, ReleaseIsOfAPress, PressIsDown
<1>1. CASE RecordStep
  BY <1>1, RecordingKeepsCapture
<1>2. CASE TurnStep
  <2>1. Same
    BY <1>2 DEF TurnStep, HearsNothing, HearsWords, WhisperFails, Replies, NoVoice, PlaybackFails, Spoken,
                StartTimer, MatchesLabel, CancelTimer, buttons
  <2>2. loop' = loop \/ loop' \notin Listening \cup {"cleared pressed"}
    BY <1>2 DEF TurnStep, HearsNothing, HearsWords, WhisperFails, Replies, NoVoice, PlaybackFails, Spoken,
                StartTimer, MatchesLabel, CancelTimer, Moves, Listening
  <2> QED BY <2>1, <2>2, <1>0, <1>00
<1>3. CASE TimerStep
  BY <1>3, <1>00 DEF TimerStep, Looks, Deletes, Announces, AnnouncesNothing, buttons
<1>4. CASE ButtonStep
  BY <1>4, ButtonsKeepCapture
<1>5. CASE PlaybackEnds \/ MicChanges \/ UNCHANGED vars
  BY <1>5, <1>00 DEF PlaybackEnds, MicChanges, vars, buttons
<1> QED BY <1>1, <1>2, <1>3, <1>4, <1>5 DEF Next

LEMMA RecordingInvariance == Spec => [](ButtonInv /\ CaptureInv)
<1>1. Init => ButtonInv /\ CaptureInv
  <2> SUFFICES ASSUME Init PROVE CaptureInv
    BY ButtonStart
  <2>1. loop = "clearing" /\ capture = NoCapture /\ presses = 0
    BY DEF Init
  <2>2. /\ NoCapture \in Captures /\ NoCapture.since = 0 /\ FALSE \notin NoCapture.frames
    BY DEF NoCapture, Captures
  <2>3. loop \notin Listening \cup {"cleared pressed", "starting", "recording"}
    BY <2>1 DEF Listening
  <2>4. capture.since <= presses
    BY <2>1, <2>2
  <2> QED BY <2>1, <2>2, <2>3, <2>4, Zenon DEF CaptureInv
<1>2. ButtonInv /\ CaptureInv /\ [Next]_vars => (ButtonInv /\ CaptureInv)'
  BY ButtonNext, CaptureNext
<1> QED BY <1>1, <1>2, PTL DEF Spec

(* "Records while held" (voice_input.py's record_until_release): while the *)
(* button is down the recording goes on, and nothing is recorded with the  *)
(* button up, but for one that was held over or tapped while the two flags *)
(* were cleared, or pressed again before its release was seen.             *)
THEOREM RecordsWhatIsHeld == Spec => CaptureIsTheHold
<1> DEFINE Holding == /\ Stops /\ KeyDown => capture.why = "held over" \/ PressedAgain
                      /\ Reads /\ FALSE \in capture'.frames => capture.why = "tapped between"
<1>1. ASSUME ButtonInv, CaptureInv, CaptureInv' PROVE Holding
  <2>1. ASSUME Stops, KeyDown, capture.why # "held over" PROVE PressedAgain
    <3>1. loop \in Listening /\ _released /\ held # {}
      BY <2>1 DEF Stops, Moves, Listening, KeyDown
    <3>2. ReleaseIsOfAPress
      BY <1>1, <3>1 DEF CaptureInv
    <3>3. presses # capture.since /\ presses # capture.since + 1
      BY <2>1, <3>1, <3>2 DEF ReleaseIsOfAPress
    <3>4. presses \in Nat /\ capture.since \in Nat /\ capture.since <= presses
      BY <1>1 DEF ButtonInv, CaptureInv, Captures
    <3> QED BY <3>3, <3>4 DEF PressedAgain
  <2>2. ASSUME Reads, FALSE \in capture'.frames PROVE capture.why = "tapped between"
    <3>1. capture'.why = "tapped between"
      BY <1>1, <2>2 DEF CaptureInv
    <3>2. capture'.why = capture.why
      <4>1. capture \in Captures
        BY <1>1 DEF CaptureInv
      <4> QED BY <2>2, <4>1 DEF Reads, Captures
    <3> QED BY <3>1, <3>2
  <2> QED BY <2>1, <2>2
<1>2. ButtonInv /\ CaptureInv /\ (ButtonInv /\ CaptureInv)' /\ [Next]_vars => [Holding]_vars
  BY <1>1
<1> QED BY <1>2, RecordingInvariance, PTL DEF Spec, CaptureIsTheHold

-----------------------------------------------------------------------------
(* The timers.                                                             *)

LEMMA TimerFields ==
    ASSUME TimerInv
    PROVE  /\ DOMAIN threads = 1 .. Len(threads) /\ Len(threads) \in Nat /\ DOMAIN outcome = DOMAIN threads
           /\ \A i \in DOMAIN threads :
                 /\ threads[i] \in Timer /\ LabelOf(i) \in Labels /\ Step(i) \in Steps
                 /\ threads[i].overtaken \in BOOLEAN
                 /\ outcome[i] \in {"running", "restarted", "cancelled"}
<1>1. threads \in Seq(Timer) /\ outcome \in Seq({"running", "restarted", "cancelled"}) /\ Len(outcome) = Len(threads)
  BY DEF TimerInv, TimersTyped
<1>2. DOMAIN threads = 1 .. Len(threads) /\ Len(threads) \in Nat /\ DOMAIN threads = DOMAIN outcome
  BY <1>1
<1>3. \A i \in DOMAIN threads : threads[i] \in Timer /\ outcome[i] \in {"running", "restarted", "cancelled"}
  BY <1>1, <1>2
<1> QED BY <1>2, <1>3 DEF Timer, LabelOf, Step

(* A thread goes on: nothing but its step is another.                      *)
LEMMA ThreadGoesOn ==
    ASSUME TimerInv, NEW id \in DOMAIN threads, NEW to \in Steps, To(id, to)
    PROVE  /\ threads' \in Seq(Timer) /\ Len(threads') = Len(threads) /\ DOMAIN threads' = DOMAIN threads
           /\ \A i \in DOMAIN threads :
                 /\ threads'[i].label = threads[i].label /\ threads'[i].overtaken = threads[i].overtaken
                 /\ threads'[i].step = IF i = id THEN to ELSE threads[i].step
           /\ \A l : Taken(l)' <=> Taken(l)
<1>1. threads \in Seq(Timer)
  BY DEF TimerInv, TimersTyped
<1> DEFINE new == [threads[id] EXCEPT !.step = to]
<1>2. threads[id] \in Timer
  BY <1>1
<1>3. new \in Timer /\ new.label = threads[id].label /\ new.step = to /\ new.overtaken = threads[id].overtaken
  BY <1>2 DEF Timer
<1>4. threads' = [threads EXCEPT ![id] = new]
  BY DEF To
<1> HIDE DEF new
<1>5. threads' \in Seq(Timer) /\ Len(threads') = Len(threads) /\ DOMAIN threads' = DOMAIN threads
  BY <1>1, <1>3, <1>4
<1>6. \A i \in DOMAIN threads : threads'[i] = IF i = id THEN new ELSE threads[i]
  BY <1>1, <1>4
<1>7. \A i \in DOMAIN threads :
         /\ threads'[i].label = threads[i].label /\ threads'[i].overtaken = threads[i].overtaken
         /\ threads'[i].step = IF i = id THEN to ELSE threads[i].step
  BY <1>3, <1>6, Zenon
<1>8. \A l : Taken(l)' <=> Taken(l)
  BY <1>5, <1>7, Zenon DEF Taken, LabelOf
<1> QED BY <1>5, <1>7, <1>8

(* What is true of a timer stays true while its thread, its label's entry  *)
(* and its end are the same, and whoever was overtaken still is.           *)
LEMMA EntryStays ==
    ASSUME NEW i, EntryIsOwn(i), NEW l, l = threads[i].label,
           threads'[i].label = threads[i].label, threads'[i].step = threads[i].step,
           threads'[i].overtaken = threads[i].overtaken, outcome'[i] = outcome[i],
           l \in DOMAIN timers' <=> l \in DOMAIN timers,
           l \in DOMAIN timers => timers'[l] = timers[l],
           Taken(l) => Taken(l)'
    PROVE  EntryIsOwn(i)'
BY Zenon DEF EntryIsOwn, Step, LabelOf, Holds, Taken

(* The two, of the state after a step.                                     *)
LEMMA TableAfter ==
    ASSUME \A l \in DOMAIN timers' : \A i : i = timers'[l] =>
               i \in DOMAIN threads' /\ threads'[i].label = l /\ threads'[i].step \in {"asleep", "looked"} /\ outcome'[i] = "running"
    PROVE  TableHoldsRunning'
BY Zenon DEF TableHoldsRunning, LabelOf, Step

LEMMA EntryAfter ==
    ASSUME NEW i, NEW l, threads'[i].label = l,
           threads'[i].step = "asleep" /\ outcome'[i] = "running" => (l \in DOMAIN timers' /\ timers'[l] = i) \/ Taken(l)',
           threads'[i].step = "looked" /\ ~threads'[i].overtaken =>
               IF l \in DOMAIN timers' THEN timers'[l] = i ELSE outcome'[i] # "running" \/ Taken(l)',
           threads'[i].step \in {"announcing", "announced", "voiceless"} => outcome'[i] = "running" \/ threads'[i].overtaken,
           threads'[i].step = "over" => outcome'[i] # "running" \/ Taken(l)'
    PROVE  EntryIsOwn(i)'
BY Zenon DEF EntryIsOwn, Step, LabelOf, Holds, Taken

(* A step that leaves the timers alone.                                    *)
LEMMA TimersUntouched ==
    ASSUME TimerInv, UNCHANGED <<timers, threads, outcome>>, matched' \in Labels \cup {NoLabel}
    PROVE  TimerInv'
<1>1. TimersTyped'
  BY DEF TimerInv, TimersTyped
<1>2. TableHoldsRunning'
  BY Zenon DEF TimerInv, TableHoldsRunning, LabelOf, Step
<1>3. \A id \in DOMAIN threads' : EntryIsOwn(id)'
  BY Zenon DEF TimerInv, EntryIsOwn, LabelOf, Step, Holds, Taken
<1> QED BY <1>1, <1>2, <1>3 DEF TimerInv

(* A thread looks at the table.                                            *)
LEMMA LooksKeeps ==
    ASSUME TimerInv, NEW id \in DOMAIN threads, Looks(id)
    PROVE  TimerInv'
<1> DEFINE to == IF Holds(id) THEN "looked" ELSE "over"
<1>1. To(id, to) /\ to \in Steps /\ Step(id) = "asleep" /\ UNCHANGED <<timers, outcome, matched>>
  BY DEF Looks, Steps
<1>0. (Holds(id) => to = "looked") /\ (~Holds(id) => to = "over")
  OBVIOUS
<1> HIDE DEF to
<1>2. /\ threads' \in Seq(Timer) /\ Len(threads') = Len(threads) /\ DOMAIN threads' = DOMAIN threads
      /\ \A i \in DOMAIN threads :
            /\ threads'[i].label = threads[i].label /\ threads'[i].overtaken = threads[i].overtaken
            /\ threads'[i].step = IF i = id THEN to ELSE threads[i].step
      /\ \A l : Taken(l)' <=> Taken(l)
  BY <1>1, ThreadGoesOn
<1>3. TimersTyped'
  BY <1>1, <1>2 DEF TimerInv, TimersTyped
<1>4. TableHoldsRunning /\ \A i \in DOMAIN threads : EntryIsOwn(i)
  BY DEF TimerInv
<1>5. TableHoldsRunning'
  <2>1. \A l \in DOMAIN timers : timers[l] = id => Holds(id)
    BY <1>4 DEF TableHoldsRunning, Holds
  <2>2. ASSUME NEW l \in DOMAIN timers', NEW i, i = timers'[l]
        PROVE  i \in DOMAIN threads' /\ threads'[i].label = l /\ threads'[i].step \in {"asleep", "looked"} /\ outcome'[i] = "running"
    <3>0. l \in DOMAIN timers /\ i = timers[l] /\ UNCHANGED outcome
      BY <1>1, <2>2
    <3>1. i \in DOMAIN threads /\ threads[i].label = l /\ threads[i].step \in {"asleep", "looked"} /\ outcome[i] = "running"
      BY <1>4, <3>0, Zenon DEF TableHoldsRunning, LabelOf, Step
    <3>2. i = id => to = "looked"
      BY <1>0, <2>1, <3>0
    <3>3. threads'[i].label = threads[i].label /\ threads'[i].step = IF i = id THEN to ELSE threads[i].step
      BY <1>2, <3>1, Zenon
    <3> QED BY <1>2, <3>0, <3>1, <3>2, <3>3
  <2> QED BY <2>2, TableAfter, Zenon
<1>6. ASSUME NEW i \in DOMAIN threads PROVE EntryIsOwn(i)'
  <2>0. /\ threads'[i].label = threads[i].label /\ threads'[i].overtaken = threads[i].overtaken
        /\ threads'[i].step = IF i = id THEN to ELSE threads[i].step
        /\ EntryIsOwn(i)
    BY <1>2, <1>4, Zenon
  <2>2. CASE i # id
    BY <1>1, <1>2, <2>0, <2>2, EntryStays
  <2>3. CASE i = id /\ Holds(id)
    <3>1. threads'[i].step = "looked" /\ threads[i].label \in DOMAIN timers /\ timers[threads[i].label] = i
      BY <1>0, <2>0, <2>3, Zenon DEF Holds, LabelOf
    <3> QED BY <1>1, <2>0, <3>1 DEF EntryIsOwn, Step, LabelOf
  <2>4. CASE i = id /\ ~Holds(id)
    <3>1. threads'[i].step = "over" /\ threads[i].step = "asleep"
      BY <1>0, <1>1, <2>0, <2>4, Zenon DEF Step
    <3>2. outcome[i] # "running" \/ Taken(threads[i].label)
      BY <2>0, <2>4, <3>1, Zenon DEF EntryIsOwn, Step, LabelOf
    <3>3. outcome'[i] # "running" \/ Taken(threads[i].label)'
      BY <1>1, <1>2, <2>0, <3>2, Zenon
    <3>4. outcome'[i] # "running" \/ Taken(LabelOf(i))'
      BY <2>0, <3>3, Zenon DEF LabelOf, Taken
    <3> QED BY <3>1, <3>4 DEF EntryIsOwn, Step
  <2> QED BY <2>2, <2>3, <2>4
<1> QED BY <1>2, <1>3, <1>4, <1>5, <1>6, Zenon DEF TimerInv

(* A timer that nobody held back is announced, or finds no voice.          *)
LEMMA AnnouncesKeeps ==
    ASSUME TimerInv, NEW id \in DOMAIN threads, Announces(id) \/ AnnouncesNothing(id)
    PROVE  TimerInv'
<1>1. PICK to \in {"announced", "voiceless"} : To(id, to)
  BY DEF Announces, AnnouncesNothing
<1>2. to \in Steps /\ threads[id].step = "announcing" /\ UNCHANGED <<timers, outcome, matched>>
  BY DEF Announces, AnnouncesNothing, Steps, Step
<1>3. /\ threads' \in Seq(Timer) /\ Len(threads') = Len(threads) /\ DOMAIN threads' = DOMAIN threads
      /\ \A i \in DOMAIN threads :
            /\ threads'[i].label = threads[i].label /\ threads'[i].overtaken = threads[i].overtaken
            /\ threads'[i].step = IF i = id THEN to ELSE threads[i].step
      /\ \A l : Taken(l)' <=> Taken(l)
  BY <1>1, <1>2, ThreadGoesOn
<1>4. TableHoldsRunning /\ \A i \in DOMAIN threads : EntryIsOwn(i)
  BY DEF TimerInv
<1>5. TimersTyped'
  BY <1>2, <1>3 DEF TimerInv, TimersTyped
<1>6. TableHoldsRunning'
  <2>1. ASSUME NEW l \in DOMAIN timers', NEW i, i = timers'[l]
        PROVE  i \in DOMAIN threads' /\ threads'[i].label = l /\ threads'[i].step \in {"asleep", "looked"} /\ outcome'[i] = "running"
    <3>0. l \in DOMAIN timers /\ i = timers[l] /\ UNCHANGED outcome
      BY <1>2, <2>1
    <3>1. i \in DOMAIN threads /\ threads[i].label = l /\ threads[i].step \in {"asleep", "looked"} /\ outcome[i] = "running"
      BY <1>4, <3>0, Zenon DEF TableHoldsRunning, LabelOf, Step
    <3>2. i # id
      BY <1>2, <3>1
    <3> QED BY <1>3, <3>0, <3>1, <3>2
  <2> QED BY <2>1, TableAfter, Zenon
<1>7. ASSUME NEW i \in DOMAIN threads PROVE EntryIsOwn(i)'
  <2>1. /\ threads'[i].label = threads[i].label /\ threads'[i].overtaken = threads[i].overtaken
        /\ threads'[i].step = IF i = id THEN to ELSE threads[i].step
        /\ EntryIsOwn(i)
    BY <1>3, <1>4, Zenon
  <2>2. CASE i # id
    BY <1>2, <1>3, <2>1, <2>2, EntryStays
  <2>3. CASE i = id
    <3>1. threads'[i].step \in {"announced", "voiceless"} /\ (outcome[i] = "running" \/ threads[i].overtaken)
      BY <1>2, <2>1, <2>3 DEF EntryIsOwn, Step
    <3> QED BY <1>2, <2>1, <3>1 DEF EntryIsOwn, Step
  <2> QED BY <2>2, <2>3
<1> QED BY <1>3, <1>4, <1>5, <1>6, <1>7, Zenon DEF TimerInv

(* The table after a removal of a label.                                   *)
LEMMA WithoutLabel ==
    ASSUME NEW l, Without(l)
    PROVE  /\ DOMAIN timers' = DOMAIN timers \ {l}
           /\ timers' = [m \in DOMAIN timers' |-> timers'[m]]
           /\ \A m \in DOMAIN timers' : timers'[m] = timers[m]
BY DEF Without, Restrict

(* A thread that finds its label gone fails.                               *)
LEMMA FailsKeeps ==
    ASSUME TimerInv, NEW id \in DOMAIN threads, Deletes(id), LabelOf(id) \notin DOMAIN timers
    PROVE  TimerInv'
<1>1. /\ To(id, "over") /\ "over" \in Steps /\ threads[id].step = "looked"
      /\ UNCHANGED <<timers, outcome, matched>>
  BY DEF Deletes, Steps, Step
<1>2. /\ threads' \in Seq(Timer) /\ Len(threads') = Len(threads) /\ DOMAIN threads' = DOMAIN threads
      /\ \A i \in DOMAIN threads :
            /\ threads'[i].label = threads[i].label /\ threads'[i].overtaken = threads[i].overtaken
            /\ threads'[i].step = IF i = id THEN "over" ELSE threads[i].step
      /\ \A l : Taken(l)' <=> Taken(l)
  BY <1>1, ThreadGoesOn
<1>3. TableHoldsRunning /\ \A i \in DOMAIN threads : EntryIsOwn(i)
  BY DEF TimerInv
<1>4. TimersTyped'
  BY <1>1, <1>2 DEF TimerInv, TimersTyped
<1>5. TableHoldsRunning'
  <2>1. ASSUME NEW l \in DOMAIN timers', NEW i, i = timers'[l]
        PROVE  i \in DOMAIN threads' /\ threads'[i].label = l /\ threads'[i].step \in {"asleep", "looked"} /\ outcome'[i] = "running"
    <3>0. l \in DOMAIN timers /\ i = timers[l] /\ UNCHANGED outcome
      BY <1>1, <2>1
    <3>1. i \in DOMAIN threads /\ threads[i].label = l /\ threads[i].step \in {"asleep", "looked"} /\ outcome[i] = "running"
      BY <1>3, <3>0, Zenon DEF TableHoldsRunning, LabelOf, Step
    <3>2. i # id
      BY <3>0, <3>1, Zenon DEF LabelOf
    <3> QED BY <1>2, <3>0, <3>1, <3>2
  <2> QED BY <2>1, TableAfter, Zenon
<1>6. ASSUME NEW i \in DOMAIN threads PROVE EntryIsOwn(i)'
  <2>1. /\ threads'[i].label = threads[i].label /\ threads'[i].overtaken = threads[i].overtaken
        /\ threads'[i].step = IF i = id THEN "over" ELSE threads[i].step
        /\ EntryIsOwn(i)
    BY <1>2, <1>3, Zenon
  <2>2. CASE i # id
    BY <1>1, <1>2, <2>1, <2>2, EntryStays
  <2>3. CASE i = id
    <3>1. outcome[i] # "running" \/ Taken(threads[i].label)
      BY <1>1, <2>1, <2>3, Zenon DEF EntryIsOwn, Step, LabelOf, Taken
    <3>2. outcome'[i] # "running" \/ Taken(threads[i].label)'
      BY <1>1, <1>2, <3>1, Zenon
    <3> QED BY <2>1, <2>3, <3>2, EntryAfter
  <2> QED BY <2>2, <2>3
<1> QED BY <1>2, <1>3, <1>4, <1>5, <1>6, Zenon DEF TimerInv

(* A thread removes its label's entry, its own or that of the timer that   *)
(* overtook it.                                                            *)
LEMMA RemovesKeeps ==
    ASSUME TimerInv, NEW id \in DOMAIN threads, Deletes(id), NEW l \in DOMAIN timers, l = threads[id].label
    PROVE  TimerInv'
<1>1. /\ To(id, "announcing") /\ "announcing" \in Steps /\ threads[id].step = "looked" /\ l \in DOMAIN timers
      /\ Without(l) /\ UNCHANGED <<outcome, matched>>
  BY DEF Deletes, Steps, Step, LabelOf
<1>2. /\ threads' \in Seq(Timer) /\ Len(threads') = Len(threads) /\ DOMAIN threads' = DOMAIN threads
      /\ \A i \in DOMAIN threads :
            /\ threads'[i].label = threads[i].label /\ threads'[i].overtaken = threads[i].overtaken
            /\ threads'[i].step = IF i = id THEN "announcing" ELSE threads[i].step
      /\ \A m : Taken(m)' <=> Taken(m)
  BY <1>1, ThreadGoesOn
<1>3. /\ DOMAIN timers' = DOMAIN timers \ {l} /\ timers' = [m \in DOMAIN timers' |-> timers'[m]]
      /\ \A m \in DOMAIN timers' : timers'[m] = timers[m]
  BY <1>1, WithoutLabel
<1>4. TableHoldsRunning /\ \A i \in DOMAIN threads : EntryIsOwn(i)
  BY DEF TimerInv
<1>5. TimersTyped'
  BY <1>1, <1>2, <1>3 DEF TimerInv, TimersTyped
<1>6. TableHoldsRunning'
  <2>1. ASSUME NEW m \in DOMAIN timers', NEW i, i = timers'[m]
        PROVE  i \in DOMAIN threads' /\ threads'[i].label = m /\ threads'[i].step \in {"asleep", "looked"} /\ outcome'[i] = "running"
    <3>0. m \in DOMAIN timers /\ m # l /\ i = timers[m]
      BY <1>3, <2>1
    <3>1. i \in DOMAIN threads /\ threads[i].label = m /\ threads[i].step \in {"asleep", "looked"} /\ outcome[i] = "running"
      BY <1>4, <3>0, Zenon DEF TableHoldsRunning, LabelOf, Step
    <3>2. i # id
      BY <3>0, <3>1
    <3> QED BY <1>1, <1>2, <3>1, <3>2
  <2> QED BY <2>1, TableAfter, Zenon
<1>7. timers[l] # id => threads[id].overtaken
  BY <1>1, <1>4, Zenon DEF EntryIsOwn, Step, LabelOf
<1>8. timers[l] # id => Taken(l)
  BY <1>7, Zenon DEF Taken, LabelOf
<1>9. ASSUME NEW i \in DOMAIN threads PROVE EntryIsOwn(i)'
  <2>1. /\ threads'[i].label = threads[i].label /\ threads'[i].overtaken = threads[i].overtaken
        /\ threads'[i].step = IF i = id THEN "announcing" ELSE threads[i].step
        /\ EntryIsOwn(i)
    BY <1>2, <1>4, Zenon
  <2>2. CASE threads[i].label # l
    <3>1. i # id
      BY <2>2
    <3>2. /\ threads[i].label \in DOMAIN timers' <=> threads[i].label \in DOMAIN timers
          /\ threads[i].label \in DOMAIN timers => timers'[threads[i].label] = timers[threads[i].label]
      BY <1>3, <2>2
    <3> QED BY <1>1, <1>2, <2>1, <3>1, <3>2, EntryStays
  <2>3. CASE i = id
    <3>1. outcome[i] = "running" \/ threads[i].overtaken
      BY <1>1, <1>4, <1>7, <2>3, Zenon DEF TableHoldsRunning
    <3> QED BY <1>1, <2>1, <2>3, <3>1 DEF EntryIsOwn, Step
  <2>4. CASE i # id /\ threads[i].label = l
    <3>1. threads'[i].step = threads[i].step /\ LabelOf(i)' = l /\ LabelOf(i) = l /\ l \notin DOMAIN timers'
      BY <1>3, <2>1, <2>4, Zenon DEF LabelOf
    <3>2. Taken(l)' <=> Taken(l)
      BY <1>2, Zenon
    <3>3. timers[l] = i => Taken(l)
      BY <1>8, <2>4, Zenon
    <3>4. threads[i].step = "asleep" /\ outcome[i] = "running" => Taken(l)
      BY <2>1, <3>1, <3>3, Zenon DEF EntryIsOwn, Step, Holds
    <3>5. threads[i].step = "looked" /\ ~threads[i].overtaken => Taken(l)
      BY <1>1, <2>1, <3>1, <3>3, Zenon DEF EntryIsOwn, Step
    <3>6. threads[i].step \in {"announcing", "announced", "voiceless"} => outcome[i] = "running" \/ threads[i].overtaken
      BY <2>1, Zenon DEF EntryIsOwn, Step
    <3>7. threads[i].step = "over" => outcome[i] # "running" \/ Taken(l)
      BY <2>1, <3>1, Zenon DEF EntryIsOwn, Step
    <3>8. threads'[i].label = l /\ threads'[i].overtaken = threads[i].overtaken /\ outcome'[i] = outcome[i]
      BY <1>1, <2>1, <2>4, Zenon
    <3> QED BY <3>1, <3>2, <3>4, <3>5, <3>6, <3>7, <3>8, EntryAfter
  <2> QED BY <2>2, <2>3, <2>4
<1> QED BY <1>2, <1>4, <1>5, <1>6, <1>9, Zenon DEF TimerInv

(* The pilot cancels the timer of a label.                                 *)
LEMMA CancelsKeeps ==
    ASSUME TimerInv, NEW l, CancelTimer(l)
    PROVE  TimerInv'
<1>1. UNCHANGED threads /\ matched' = NoLabel
  BY DEF CancelTimer
<1>2. CASE l \notin DOMAIN timers
  BY <1>1, <1>2, TimersUntouched DEF CancelTimer
<1>3. CASE l \in DOMAIN timers
  <2> PICK x : x = timers[l]
    OBVIOUS
  <2>1. Without(l) /\ outcome' = [outcome EXCEPT ![x] = "cancelled"]
    BY <1>3 DEF CancelTimer
  <2>2. /\ DOMAIN timers' = DOMAIN timers \ {l} /\ timers' = [m \in DOMAIN timers' |-> timers'[m]]
        /\ \A m \in DOMAIN timers' : timers'[m] = timers[m]
    BY <2>1, WithoutLabel
  <2>3. TableHoldsRunning /\ \A i \in DOMAIN threads : EntryIsOwn(i)
    BY DEF TimerInv
  <2>4. x \in DOMAIN threads /\ threads[x].label = l /\ threads[x].step \in {"asleep", "looked"}
    BY <1>3, <2>3, Zenon DEF TableHoldsRunning, LabelOf, Step
  <2>5. /\ outcome' \in Seq({"running", "restarted", "cancelled"}) /\ Len(outcome') = Len(outcome)
        /\ \A i \in DOMAIN threads : outcome'[i] = IF i = x THEN "cancelled" ELSE outcome[i]
    <3>1. outcome \in Seq({"running", "restarted", "cancelled"}) /\ Len(outcome) = Len(threads)
      BY DEF TimerInv, TimersTyped
    <3> QED BY <2>1, <2>4, <3>1, TimerFields
  <2>6. TimersTyped'
    BY <1>1, <2>2, <2>5 DEF TimerInv, TimersTyped
  <2>7. TableHoldsRunning'
    <3>1. ASSUME NEW m \in DOMAIN timers', NEW i, i = timers'[m]
          PROVE  i \in DOMAIN threads' /\ threads'[i].label = m /\ threads'[i].step \in {"asleep", "looked"} /\ outcome'[i] = "running"
      <4>1. m \in DOMAIN timers /\ m # l /\ i = timers[m]
        BY <2>2, <3>1
      <4>2. i \in DOMAIN threads /\ threads[i].label = m /\ threads[i].step \in {"asleep", "looked"} /\ outcome[i] = "running"
        BY <2>3, <4>1, Zenon DEF TableHoldsRunning, LabelOf, Step
      <4> QED BY <1>1, <2>4, <2>5, <4>1, <4>2
    <3> QED BY <3>1, TableAfter, Zenon
  <2>8. \A m : Taken(m)' <=> Taken(m)
    BY <1>1, Zenon DEF Taken, LabelOf
  <2>9. ASSUME NEW i \in DOMAIN threads PROVE EntryIsOwn(i)'
    <3>0. EntryIsOwn(i)
      BY <2>3
    <3>1. CASE threads[i].label # l
      <4>1. i # x
        BY <2>4, <3>1
      <4>2. outcome'[i] = outcome[i]
        BY <2>5, <4>1
      <4>3. /\ threads[i].label \in DOMAIN timers' <=> threads[i].label \in DOMAIN timers
            /\ threads[i].label \in DOMAIN timers => timers'[threads[i].label] = timers[threads[i].label]
        BY <2>2, <3>1
      <4> QED BY <1>1, <2>8, <3>0, <4>2, <4>3, EntryStays
    <3>2. CASE i = x
      <4>1. outcome'[i] = "cancelled" /\ threads'[i].label = l /\ threads'[i].step \in {"asleep", "looked"} /\ l \notin DOMAIN timers'
        BY <1>1, <2>2, <2>4, <2>5, <3>2
      <4> QED BY <4>1, EntryAfter
    <3>3. CASE i # x /\ threads[i].label = l
      <4>1. threads'[i] = threads[i] /\ outcome'[i] = outcome[i] /\ timers[l] # i /\ l \notin DOMAIN timers' /\ LabelOf(i) = l
        BY <1>1, <2>2, <2>5, <3>3 DEF LabelOf
      <4>2. threads[i].step = "asleep" /\ outcome[i] = "running" => Taken(l)
        BY <3>0, <4>1, Zenon DEF EntryIsOwn, Step, Holds
      <4>3. ~(threads[i].step = "looked" /\ ~threads[i].overtaken)
        BY <1>3, <3>0, <4>1, Zenon DEF EntryIsOwn, Step
      <4>4. threads[i].step \in {"announcing", "announced", "voiceless"} => outcome[i] = "running" \/ threads[i].overtaken
        BY <3>0, Zenon DEF EntryIsOwn, Step
      <4>5. threads[i].step = "over" => outcome[i] # "running" \/ Taken(l)
        BY <3>0, <4>1, Zenon DEF EntryIsOwn, Step
      <4>6. Taken(l)' <=> Taken(l)
        BY <2>8
      <4> QED BY <3>3, <4>1, <4>2, <4>3, <4>4, <4>5, <4>6, EntryAfter
    <3> QED BY <3>1, <3>2, <3>3
  <2> QED BY <1>1, <2>3, <2>6, <2>7, <2>9, Zenon DEF TimerInv
<1> QED BY <1>2, <1>3

(* What a start makes of the threads and of the ends of the timers.        *)
Started(l, n) ==
    /\ threads' \in Seq(Timer) /\ outcome' \in Seq({"running", "restarted", "cancelled"})
    /\ Len(threads') = n /\ Len(outcome') = n
    /\ DOMAIN threads' = DOMAIN threads \cup {n} /\ n \notin DOMAIN threads
    /\ threads'[n].label = l /\ threads'[n].step = "asleep" /\ threads'[n].overtaken = FALSE
    /\ outcome'[n] = "running"
    /\ \A i \in DOMAIN threads :
          /\ threads'[i].label = threads[i].label /\ threads'[i].step = threads[i].step
          /\ threads[i].label = l /\ threads[i].step = "looked" => threads'[i].overtaken
          /\ ~(threads[i].label = l /\ threads[i].step = "looked") => threads'[i] = threads[i]
          /\ threads[i].overtaken => threads'[i].overtaken
          /\ outcome'[i] = IF threads[i].label = l /\ l \in DOMAIN timers /\ timers[l] = i
                           THEN "restarted" ELSE outcome[i]

LEMMA StartFields ==
    ASSUME TimerInv, NEW l \in Labels, StartTimer(l), NEW n, n = Len(threads) + 1
    PROVE  Started(l, n)
<1> DEFINE Looked(i) == LabelOf(i) = l /\ Step(i) = "looked"
           T == [i \in DOMAIN threads |-> IF Looked(i) THEN [threads[i] EXCEPT !.overtaken = TRUE] ELSE threads[i]]
           O == [i \in DOMAIN outcome |-> IF LabelOf(i) = l /\ Holds(i) THEN "restarted" ELSE outcome[i]]
           t == [label |-> l, step |-> "asleep", overtaken |-> FALSE]
<1>1. threads' = Append(T, t) /\ outcome' = Append(O, "running")
  BY DEF StartTimer
<1>2. /\ threads \in Seq(Timer) /\ outcome \in Seq({"running", "restarted", "cancelled"}) /\ Len(outcome) = Len(threads)
      /\ Len(threads) \in Nat /\ DOMAIN threads = 1 .. Len(threads) /\ DOMAIN outcome = DOMAIN threads
      /\ \A i \in DOMAIN threads : threads[i] \in Timer /\ outcome[i] \in {"running", "restarted", "cancelled"}
  BY TimerFields DEF TimerInv, TimersTyped
<1>3. t \in Timer /\ t.label = l /\ t.step = "asleep" /\ t.overtaken = FALSE
  BY DEF Timer, Steps
<1>4. \A i \in DOMAIN threads :
         /\ T[i] \in Timer /\ T[i].label = threads[i].label /\ T[i].step = threads[i].step
         /\ Looked(i) => T[i].overtaken
         /\ ~Looked(i) => T[i] = threads[i]
         /\ threads[i].overtaken => T[i].overtaken
  BY <1>2 DEF Timer
<1>5. \A i \in DOMAIN threads :
         /\ O[i] \in {"running", "restarted", "cancelled"}
         /\ O[i] = IF threads[i].label = l /\ l \in DOMAIN timers /\ timers[l] = i THEN "restarted" ELSE outcome[i]
  BY <1>2 DEF LabelOf, Holds
<1>6. /\ T = [i \in 1 .. Len(threads) |-> T[i]] /\ O = [i \in 1 .. Len(threads) |-> O[i]]
  BY <1>2
<1>7. \A i \in DOMAIN threads : Looked(i) <=> threads[i].label = l /\ threads[i].step = "looked"
  BY DEF LabelOf, Step
<1> HIDE DEF Looked, T, O, t
<1>8. T \in Seq(Timer) /\ Len(T) = Len(threads) /\ O \in Seq({"running", "restarted", "cancelled"}) /\ Len(O) = Len(threads)
  BY <1>2, <1>4, <1>5, <1>6
<1>9. /\ threads' \in Seq(Timer) /\ Len(threads') = n /\ threads'[n] = t
      /\ \A i \in DOMAIN threads : threads'[i] = T[i]
      /\ DOMAIN threads' = DOMAIN threads \cup {n} /\ n \notin DOMAIN threads
  BY <1>1, <1>2, <1>3, <1>8
<1>10. /\ outcome' \in Seq({"running", "restarted", "cancelled"}) /\ Len(outcome') = n /\ outcome'[n] = "running"
       /\ \A i \in DOMAIN threads : outcome'[i] = O[i]
  BY <1>1, <1>2, <1>8
<1>11. threads'[n].label = l /\ threads'[n].step = "asleep" /\ threads'[n].overtaken = FALSE
  BY <1>3, <1>9
<1>12. \A i \in DOMAIN threads :
          /\ threads'[i].label = threads[i].label /\ threads'[i].step = threads[i].step
          /\ threads[i].label = l /\ threads[i].step = "looked" => threads'[i].overtaken
          /\ ~(threads[i].label = l /\ threads[i].step = "looked") => threads'[i] = threads[i]
          /\ threads[i].overtaken => threads'[i].overtaken
  BY <1>4, <1>7, <1>9, Zenon
<1>13. \A i \in DOMAIN threads :
          outcome'[i] = IF threads[i].label = l /\ l \in DOMAIN timers /\ timers[l] = i THEN "restarted" ELSE outcome[i]
  BY <1>5, <1>10, Zenon
<1> QED BY <1>9, <1>10, <1>11, <1>12, <1>13, Zenon DEF Started

(* The pilot starts a timer, and takes its label over.                     *)
LEMMA StartsKeeps ==
    ASSUME TimerInv, NEW l \in Labels, StartTimer(l)
    PROVE  TimerInv'
<1> PICK n : n = Len(threads) + 1
  OBVIOUS
<1>0. Started(l, n)
  BY StartFields, Zenon
<1>1. /\ threads' \in Seq(Timer) /\ outcome' \in Seq({"running", "restarted", "cancelled"})
      /\ Len(threads') = n /\ Len(outcome') = n
      /\ DOMAIN threads' = DOMAIN threads \cup {n} /\ n \notin DOMAIN threads
      /\ threads'[n].label = l /\ threads'[n].step = "asleep" /\ threads'[n].overtaken = FALSE
      /\ outcome'[n] = "running"
      /\ \A i \in DOMAIN threads :
            /\ threads'[i].label = threads[i].label /\ threads'[i].step = threads[i].step
            /\ threads[i].label = l /\ threads[i].step = "looked" => threads'[i].overtaken
            /\ ~(threads[i].label = l /\ threads[i].step = "looked") => threads'[i] = threads[i]
            /\ threads[i].overtaken => threads'[i].overtaken
            /\ outcome'[i] = IF threads[i].label = l /\ l \in DOMAIN timers /\ timers[l] = i
                             THEN "restarted" ELSE outcome[i]
  BY <1>0, Zenon DEF Started
<1>2. /\ DOMAIN timers' = DOMAIN timers \cup {l} /\ timers' = [m \in DOMAIN timers' |-> timers'[m]]
      /\ timers'[l] = n /\ \A m \in DOMAIN timers' : m # l => timers'[m] = timers[m]
      /\ UNCHANGED matched
  BY DEF StartTimer
<1>3. TableHoldsRunning /\ \A i \in DOMAIN threads : EntryIsOwn(i)
  BY DEF TimerInv
<1>4. TimersTyped'
  BY <1>1, <1>2 DEF TimerInv, TimersTyped
<1>5. TableHoldsRunning'
  <2>1. ASSUME NEW m \in DOMAIN timers', NEW i, i = timers'[m]
        PROVE  i \in DOMAIN threads' /\ threads'[i].label = m /\ threads'[i].step \in {"asleep", "looked"} /\ outcome'[i] = "running"
    <3>1. CASE m = l
      BY <1>1, <1>2, <2>1, <3>1
    <3>2. CASE m # l
      <4>1. m \in DOMAIN timers /\ i = timers[m]
        BY <1>2, <2>1, <3>2
      <4>2. i \in DOMAIN threads /\ threads[i].label = m /\ threads[i].step \in {"asleep", "looked"} /\ outcome[i] = "running"
        BY <1>3, <4>1, Zenon DEF TableHoldsRunning, LabelOf, Step
      <4> QED BY <1>1, <3>2, <4>2
    <3> QED BY <3>1, <3>2
  <2> QED BY <2>1, TableAfter, Zenon
<1>6. \A m : Taken(m) => Taken(m)'
  <2> SUFFICES ASSUME NEW m, NEW i \in DOMAIN threads, threads[i].overtaken, threads[i].label = m
               PROVE  Taken(m)'
    BY Zenon DEF Taken, LabelOf
  <2>1. i \in DOMAIN threads' /\ threads'[i].overtaken /\ threads'[i].label = m
    BY <1>1, Zenon
  <2> QED BY <2>1, Zenon DEF Taken, LabelOf
<1>7. ASSUME NEW i \in DOMAIN threads PROVE EntryIsOwn(i)'
  <2>0. EntryIsOwn(i) /\ threads'[i].label = threads[i].label /\ threads'[i].step = threads[i].step
    BY <1>1, <1>3, Zenon
  <2>1. CASE threads[i].label # l
    <3>1. threads'[i] = threads[i] /\ outcome'[i] = outcome[i]
      BY <1>1, <2>1, Zenon
    <3>2. /\ threads[i].label \in DOMAIN timers' <=> threads[i].label \in DOMAIN timers
          /\ threads[i].label \in DOMAIN timers => timers'[threads[i].label] = timers[threads[i].label]
      BY <1>2, <2>1
    <3> QED BY <1>6, <2>0, <3>1, <3>2, EntryStays
  <2>2. CASE threads[i].label = l
    <3>0. LabelOf(i) = l
      BY <2>2 DEF LabelOf
    <3>1. /\ l \in DOMAIN timers /\ timers[l] = i => outcome'[i] = "restarted"
          /\ ~(l \in DOMAIN timers /\ timers[l] = i) => outcome'[i] = outcome[i]
          /\ Taken(l) => Taken(l)'
      BY <1>1, <1>6, <2>2, Zenon
    <3>2. threads[i].step = "asleep" /\ outcome'[i] = "running" => Taken(l)'
      BY <2>0, <3>0, <3>1 DEF EntryIsOwn, Step, Holds
    <3>3. threads[i].step = "looked" => threads'[i].overtaken
      BY <1>1, <2>2, Zenon
    <3>4. l \in DOMAIN timers /\ timers[l] = i => threads[i].step \in {"asleep", "looked"}
      BY <1>3, Zenon DEF TableHoldsRunning, Step
    <3>5. threads[i].step \in {"announcing", "announced", "voiceless"} => outcome'[i] = "running" \/ threads'[i].overtaken
      <4>1. threads[i].step \in {"announcing", "announced", "voiceless"} => outcome[i] = "running" \/ threads[i].overtaken
        BY <2>0, Zenon DEF EntryIsOwn, Step
      <4>2. threads[i].step \in {"announcing", "announced", "voiceless"} => threads[i].step \notin {"asleep", "looked"}
        OBVIOUS
      <4>3. threads[i].overtaken => threads'[i].overtaken
        BY <1>1, Zenon
      <4> QED BY <3>1, <3>4, <4>1, <4>2, <4>3, Zenon
    <3>6. threads[i].step = "over" => outcome'[i] # "running" \/ Taken(l)'
      <4>1. threads[i].step = "over" => outcome[i] # "running" \/ Taken(l)
        BY <2>0, <3>0, Zenon DEF EntryIsOwn, Step
      <4>2. threads[i].step = "over" => threads[i].step \notin {"asleep", "looked"}
        OBVIOUS
      <4> QED BY <3>1, <3>4, <4>1, <4>2, Zenon
    <3>7. threads'[i].label = l /\ threads'[i].step = threads[i].step
      BY <2>0, <2>2, Zenon
    <3> QED BY <3>2, <3>3, <3>5, <3>6, <3>7, EntryAfter
  <2> QED BY <2>1, <2>2
<1>8. EntryIsOwn(n)'
  <2>1. l \in DOMAIN timers' /\ timers'[l] = n
    BY <1>2
  <2> QED BY <1>1, <2>1, EntryAfter
<1> QED BY <1>1, <1>4, <1>5, <1>7, <1>8 DEF TimerInv

LEMMA TimerNext == ASSUME TimerInv, [Next]_vars PROVE TimerInv'
<1>0. matched \in Labels \cup {NoLabel}
  BY DEF TimerInv, TimersTyped
<1>00. UNCHANGED timing => TimerInv'
  BY <1>0, TimersUntouched DEF timing
<1>1. CASE RecordStep
  BY <1>1, <1>00 DEF RecordStep, ClearsPressed, ClearsReleased, Opens, Wakes, Starts, Reads, Stops, timing
<1>2. CASE TurnStep
  <2>1. CASE HearsNothing \/ HearsWords \/ WhisperFails \/ Replies \/ NoVoice \/ PlaybackFails \/ Spoken
    BY <2>1, <1>00 DEF HearsNothing, HearsWords, WhisperFails, Replies, NoVoice, PlaybackFails, Spoken
  <2>2. ASSUME NEW l \in Labels, MatchesLabel(l) PROVE TimerInv'
    BY <2>2, TimersUntouched DEF MatchesLabel
  <2> QED BY <1>2, <2>1, <2>2, StartsKeeps, CancelsKeeps DEF TurnStep
<1>3. CASE TimerStep
  <2>1. ASSUME NEW id \in DOMAIN threads, Deletes(id) PROVE TimerInv'
    <3>1. CASE LabelOf(id) \in DOMAIN timers
      BY <2>1, <3>1, RemovesKeeps DEF LabelOf
    <3> QED BY <2>1, <3>1, FailsKeeps
  <2> QED BY <1>3, <2>1, LooksKeeps, AnnouncesKeeps DEF TimerStep
<1>4. CASE ButtonStep
  BY <1>4, <1>00 DEF ButtonStep, Repeats, Press, Release, Connect, Disconnect
<1>5. CASE PlaybackEnds \/ MicChanges \/ UNCHANGED vars
  BY <1>5, <1>00 DEF PlaybackEnds, MicChanges, vars
<1> QED BY <1>1, <1>2, <1>3, <1>4, <1>5 DEF Next

LEMMA TimerInvariance == Spec => []TimerInv
<1>1. Init => TimerInv
  <2> SUFFICES ASSUME Init PROVE TimerInv
    OBVIOUS
  <2>1. threads = <<>> /\ outcome = <<>> /\ DOMAIN timers = {} /\ timers = [l \in {} |-> 0] /\ matched = NoLabel
    BY DEF Init
  <2>2. TimersTyped
    BY <2>1 DEF TimersTyped
  <2> QED BY <2>1, <2>2 DEF TimerInv, TableHoldsRunning
<1> QED BY <1>1, TimerNext, PTL DEF Spec

(* A timer is announced if it ran out, and not if the pilot cancelled or   *)
(* restarted it before (timer_tool.py's _notify_when_done), except for one *)
(* whose label was given to another between its look at the table and its  *)
(* removal; and one that ends unannounced was ended by the pilot, or lost  *)
(* its entry to one of those.                                              *)
THEOREM TimersTellTheTruth == Spec => []TimersSpeakTrue
<1>1. TimerInv => TimersSpeakTrue
  BY DEF TimerInv, TimersSpeakTrue, EntryIsOwn, Taken
<1> QED BY <1>1, TimerInvariance, PTL

(* The client's variables keep their types.                                *)
THEOREM VoiceTypesHold == Spec => []TypeOK
<1>1. ASSUME ButtonInv, StreamInv, CaptureInv, TimerInv PROVE TypeOK
  <2>1. ptt \in {KeyboardKey} \cup 0 .. Cardinality(Sticks) - 1 /\ held \subseteq Sticks \cup {Keyboard}
    BY <1>1, Zenon DEF ButtonInv, Ordinals, Devices
  <2>2. DOMAIN devices \subseteq Sticks /\ Range(devices) \subseteq 0 .. Cardinality(Sticks) - 1
    BY <1>1, Zenon DEF ButtonInv, Ordinals, Range
  <2>3. {_pressed, _released, mic} \subseteq BOOLEAN
    BY <1>1, Zenon DEF ButtonInv, StreamInv
  <2>4. loop \in {"clearing", "cleared pressed", "opening", "waiting", "starting", "recording", "transcribing",
                  "turn", "cancelling", "speaking", "stopped"}
    BY <1>1 DEF StreamInv, Listening
  <2>5. capture \in [frames : SUBSET BOOLEAN, since : 0 .. presses, why : {"a press", "held over", "tapped between"}]
    <3>1. capture \in Captures /\ capture.since <= presses /\ presses \in Nat
      BY <1>1 DEF CaptureInv, ButtonInv
    <3>2. capture.since \in Nat
      BY <3>1, Zenon DEF Captures
    <3>3. \A m, n \in Nat : m <= n => m \in 0 .. n
      OBVIOUS
    <3>4. capture.since \in 0 .. presses
      BY <3>1, <3>2, <3>3, Zenon
    <3>5. /\ capture.frames \in SUBSET BOOLEAN /\ capture.why \in {"a press", "held over", "tapped between"}
          /\ capture = [frames |-> capture.frames, since |-> capture.since, why |-> capture.why]
      BY <3>1, Zenon DEF Captures
    <3> QED BY <3>4, <3>5, Zenon
  <2>6. stream \in {"none", "opened", "live", "stale"} /\ playing \in {Nobody, "chirp", "reply", "timer"}
    BY <1>1, Zenon DEF StreamInv
  <2>7. /\ matched \in Labels \cup {NoLabel}
        /\ DOMAIN timers \subseteq Labels /\ \A l \in DOMAIN timers : LabelOf(timers[l]) = l
    BY <1>1, Zenon DEF TimerInv, TimersTyped, TableHoldsRunning
  <2>8. \A id \in DOMAIN threads : Step(id) \in {"asleep", "looked", "announcing", "announced", "voiceless", "over"}
    BY <1>1, TimerFields, Zenon DEF Steps
  <2>9. DOMAIN outcome = DOMAIN threads /\ Range(outcome) \subseteq {"running", "restarted", "cancelled"}
    BY <1>1, TimerFields, Zenon DEF Range
  <2> QED BY <2>1, <2>2, <2>3, <2>4, <2>5, <2>6, <2>7, <2>8, <2>9, Zenon DEF TypeOK
<1>2. ButtonInv /\ CaptureInv /\ StreamInv /\ TimerInv => TypeOK
  BY <1>1
<1> QED BY <1>2, RecordingInvariance, StreamInvariance, TimerInvariance, PTL

-----------------------------------------------------------------------------
(* The voice of the server.                                                *)

(* An engine that is asked later knows who has failed before it, and only  *)
(* a server that has ElevenLabs asks it.                                   *)
CallsRemember ==
    /\ call = [s \in Sentences |-> call[s]] /\ configured \in BOOLEAN
    /\ \A s \in Sentences :
          /\ "at" \in DOMAIN call[s]
          /\ At(s, "elevenlabs") => configured
          /\ At(s, "refused") => call[s].failed # {} /\ (~configured => "heket" \in call[s].failed)

(* Whatever the box, the clock and the other sentences do, nobody is told  *)
(* that there is no voice before an engine has failed this very sentence,  *)
(* and heket has where it is the only one (tts_service.py's speak).        *)
THEOREM RefusedAfterTrying == SpeechSpec => []RefusedOnlyAfterTrying
<1>1. SpeechInit => CallsRemember
  <2>1. Idle.at = "idle" /\ "at" \in DOMAIN Idle
    BY DEF Idle
  <2> QED BY <2>1 DEF SpeechInit, CallsRemember, At
<1>2. CallsRemember /\ [SpeechNext]_speechVars => CallsRemember'
  <2> SUFFICES ASSUME CallsRemember, [SpeechNext]_speechVars PROVE CallsRemember'
    OBVIOUS
  <2>1. ASSUME NEW s \in Sentences, NEW to, Goes(s, to), UNCHANGED configured,
               "at" \in DOMAIN to, to.at = "elevenlabs" => configured,
               to.at = "refused" => /\ to.failed # {}
                                    /\ ~configured => "heket" \in to.failed
        PROVE  CallsRemember'
    BY <2>1 DEF CallsRemember, At, Goes
  <2>2. CASE UNCHANGED <<configured, call>>
    BY <2>2 DEF CallsRemember, At
  <2>3. Idle.at = "idle" /\ "at" \in DOMAIN Idle
    BY DEF Idle
  <2> DEFINE heket == [at |-> "heket", left |-> HEKET_TIMEOUT, failed |-> {}]
             eleven(failed) == [at |-> "elevenlabs", left |-> ELEVENLABS_TIMEOUT, failed |-> failed]
             refused(failed) == [at |-> "refused", left |-> 0, failed |-> failed]
  <2>4. /\ heket.at = "heket" /\ \A f : eleven(f).at = "elevenlabs"
        /\ "at" \in DOMAIN heket /\ \A f : "at" \in DOMAIN eleven(f) /\ "at" \in DOMAIN refused(f)
        /\ \A f : refused(f).at = "refused" /\ refused(f).failed = f
    OBVIOUS
  <2>5. /\ \A s : AsksHeket(s) <=> Goes(s, heket)
        /\ \A s, f : AsksElevenLabs(s, f) <=> Goes(s, eleven(f))
        /\ \A s, f : Refuses(s, f) <=> Goes(s, refused(f))
    BY Zenon DEF AsksHeket, AsksElevenLabs, Refuses
  <2> HIDE DEF heket, eleven, refused
  <2>6. ASSUME NEW s \in Sentences, Post(s) \/ TooSoon(s) PROVE CallsRemember'
    <3>1. CASE UNCHANGED <<configured, call>>
      BY <2>2, <3>1
    <3>2. CASE Speaks(s) /\ UNCHANGED configured
      <4>1. CASE AsksHeket(s)
        BY <2>1, <2>4, <2>5, <3>2, <4>1
      <4>2. CASE configured /\ AsksElevenLabs(s, {})
        BY <2>1, <2>4, <2>5, <3>2, <4>2
      <4> QED BY <3>2, <4>1, <4>2 DEF Speaks
    <3> QED BY <2>6, <3>1, <3>2 DEF Post, TooSoon
  <2>7. ASSUME NEW s \in Sentences, Ends(s) PROVE CallsRemember'
    <3>1. CASE HeketSpeaks(s) \/ Hears503(s)
      BY <2>1, <2>3, <3>1 DEF HeketSpeaks, Hears503
    <3>2. CASE HeketRejects(s)
      BY <2>1, <2>4, <2>5, <3>2 DEF HeketRejects
    <3>3. CASE Heket5xx(s)
      <4> DEFINE to == [call[s] EXCEPT !.at = "recording", !.left = 0]
      <4>1. Goes(s, to) /\ UNCHANGED configured
        BY <3>3 DEF Heket5xx
      <4>2. to.at = "recording" /\ "at" \in DOMAIN to
        <5>1. "at" \in DOMAIN call[s]
          BY DEF CallsRemember
        <5> QED BY <5>1
      <4> HIDE DEF to
      <4> QED BY <2>1, <4>1, <4>2
    <3>4. CASE HeketFails(s)
      BY <2>1, <2>4, <2>5, <3>4 DEF HeketFails
    <3>5. CASE ElevenLabsAnswers(s)
      <4>1. configured /\ UNCHANGED configured
        BY <3>5 DEF ElevenLabsAnswers, CallsRemember
      <4>2. CASE Goes(s, Idle)
        BY <2>1, <2>3, <4>1, <4>2
      <4>3. CASE Refuses(s, call[s].failed \cup {"elevenlabs"})
        BY <2>1, <2>4, <2>5, <4>1, <4>3
      <4> QED BY <3>5, <4>2, <4>3 DEF ElevenLabsAnswers
    <3> QED BY <2>7, <3>1, <3>2, <3>3, <3>4, <3>5 DEF Ends
  <2>8. CASE Tick
    <3>1. UNCHANGED configured /\ call' = [s \in Sentences |->
             IF Waiting(s) THEN [call[s] EXCEPT !.left = @ - 1] ELSE call[s]]
      BY <2>8 DEF Tick
    <3>2. ASSUME NEW s \in Sentences
          PROVE  /\ call'[s].at = call[s].at /\ "at" \in DOMAIN call'[s]
                 /\ (At(s, "refused") => call'[s] = call[s])
      <4>1. CASE Waiting(s)
        <5>1. call'[s] = [call[s] EXCEPT !.left = @ - 1]
          BY <3>1, <4>1
        <5>2. "at" \in DOMAIN call[s]
          BY DEF CallsRemember
        <5>3. call'[s].at = call[s].at /\ "at" \in DOMAIN call'[s]
          BY <5>1, <5>2
        <5> QED BY <4>1, <5>3 DEF Waiting, At
      <4>2. CASE ~Waiting(s)
        BY <3>1, <4>2 DEF CallsRemember
      <4> QED BY <4>1, <4>2
    <3>3. call' = [s \in Sentences |-> call'[s]]
      BY <3>1
    <3> QED BY <3>1, <3>2, <3>3 DEF CallsRemember, At
  <2>9. CASE HeketTurns \/ _roll_over \/ UNCHANGED speechVars
    BY <2>2, <2>9 DEF HeketTurns, _roll_over, speechVars
  <2> QED BY <2>6, <2>7, <2>8, <2>9 DEF SpeechNext
<1>3. CallsRemember => RefusedOnlyAfterTrying
  BY DEF CallsRemember, RefusedOnlyAfterTrying
<1> QED BY <1>1, <1>2, <1>3, PTL DEF SpeechSpec

(* The limiter's deque is in the order of the requests, and holds those    *)
(* that are counted: of the last a + 1 ticks, the last admitted[a] of it.  *)
WindowInv ==
    /\ events \in Seq(0 .. WINDOW) /\ admitted \in [0 .. WINDOW - 1 -> Nat]
    /\ \A a \in 0 .. WINDOW - 1 :
          /\ admitted[a] <= Len(events) /\ admitted[a] <= MaxEvents
          /\ \A i \in 1 .. Len(events) : events[i] <= a <=> i > Len(events) - admitted[a]

(* Counting from the left and from the right.                              *)
LEMMA Suffix ==
    ASSUME NEW S, NEW s \in Seq(S), NEW k \in Nat, NEW m \in Nat, k + m = Len(s)
    PROVE  /\ SubSeq(s, 1 + k, Len(s)) \in Seq(S) /\ Len(SubSeq(s, 1 + k, Len(s))) = m
           /\ \A j \in 1 .. m : SubSeq(s, 1 + k, Len(s))[j] = s[k + j]
<1>1. Len(s) \in Nat /\ 1 + k \in 1 .. Len(s) + 1 /\ Len(s) - (1 + k) + 1 = m
  OBVIOUS
<1>2. SubSeq(s, 1 + k, Len(s)) = [i \in 1 .. m |-> s[1 + k + i - 1]]
  BY <1>1
<1>3. \A j \in 1 .. m : k + j \in 1 .. Len(s) /\ 1 + k + j - 1 = k + j
  BY <1>1
<1> QED BY <1>2, <1>3

LEMMA FromTheRight ==
    ASSUME NEW k \in Nat, NEW m \in Nat, NEW j \in 1 .. m, NEW c \in Nat
    PROVE  k + j \in 1 .. k + m /\ (k + j > k + m - c <=> j > m - c)
OBVIOUS

(* What has been popped is what is too old, and what is left is what was   *)
(* admitted within the window.                                             *)
LEMMA RecentIsCounted ==
    ASSUME WindowInv
    PROVE  \E m \in Nat :
              /\ m <= MaxEvents /\ Recent \in Seq(0 .. WINDOW) /\ Len(Recent) = m
              /\ \A a \in 0 .. WINDOW - 1 :
                    /\ admitted[a] <= m
                    /\ \A j \in 1 .. m : Recent[j] <= a <=> j > m - admitted[a]
<1>0. /\ events \in Seq(0 .. WINDOW) /\ Len(events) \in Nat /\ WINDOW \in Nat /\ WINDOW - 1 \in 0 .. WINDOW - 1
      /\ \A i \in 1 .. Len(events) : events[i] \in Nat
  BY LimiterAssumption DEF WindowInv
<1>1. \A a \in 0 .. WINDOW - 1 :
         /\ admitted[a] \in Nat /\ admitted[a] <= Len(events) /\ admitted[a] <= MaxEvents
         /\ \A i \in 1 .. Len(events) : events[i] <= a <=> i > Len(events) - admitted[a]
  BY DEF WindowInv
<1>2. PICK k \in Nat, m \in Nat : k + m = Len(events) /\ m = admitted[WINDOW - 1]
  <2>1. Len(events) - admitted[WINDOW - 1] \in Nat
    BY <1>0, <1>1
  <2>2. Len(events) - admitted[WINDOW - 1] + admitted[WINDOW - 1] = Len(events) /\ admitted[WINDOW - 1] \in Nat
    BY <1>0, <1>1
  <2> QED BY <2>1, <2>2, Zenon
<1>3. ASSUME NEW i \in 1 .. k + m PROVE events[i] < WINDOW <=> i > k
  <2>1. events[i] <= WINDOW - 1 <=> i > Len(events) - m
    BY <1>0, <1>1, <1>2
  <2>2. Len(events) - m = k
    BY <1>0, <1>2
  <2>3. i \in 1 .. Len(events)
    BY <1>2
  <2>4. events[i] \in Nat
    BY <1>0, <2>3
  <2>5. events[i] <= WINDOW - 1 <=> events[i] < WINDOW
    BY <1>0, <2>4
  <2> QED BY <2>1, <2>2, <2>5, Zenon
<1> DEFINE TooOld == { n \in 0 .. Len(events) : /\ \A i \in 1 .. n : events[i] >= WINDOW
                                                /\ n < Len(events) => events[n + 1] < WINDOW }
<1>8. Recent = SubSeq(events, 1 + (CHOOSE n \in TooOld : TRUE), Len(events))
  BY DEF Recent
<1>4. Recent = SubSeq(events, 1 + k, Len(events))
  <2> DEFINE P(n) == /\ \A i \in 1 .. n : events[i] >= WINDOW
                     /\ n < Len(events) => events[n + 1] < WINDOW
  <2>0. \A n : n \in TooOld <=> n \in 0 .. Len(events) /\ P(n)
    BY Zenon
  <2>1. P(k)
    <3>1. ASSUME NEW i \in 1 .. k PROVE events[i] >= WINDOW
      <4>1. i \in 1 .. k + m /\ ~(i > k)
        OBVIOUS
      <4> QED BY <1>0, <1>2, <1>3, <4>1
    <3>2. ASSUME k < k + m PROVE events[k + 1] < WINDOW
      <4>1. k + 1 \in 1 .. k + m /\ k + 1 > k
        BY <3>2
      <4> QED BY <1>3, <4>1
    <3> QED BY <1>2, <3>1, <3>2
  <2>2. ASSUME NEW n \in 0 .. Len(events), P(n) PROVE n = k
    <3>1. ASSUME n < k PROVE FALSE
      <4>1. n + 1 \in 1 .. k + m /\ ~(n + 1 > k) /\ n < k + m
        BY <1>2, <3>1
      <4> QED BY <1>2, <1>3, <2>2, <4>1
    <3>2. ASSUME n > k PROVE FALSE
      <4>1. k + 1 \in 1 .. n /\ k + 1 \in 1 .. k + m /\ k + 1 > k
        BY <1>2, <3>2
      <4>2. events[k + 1] >= WINDOW /\ events[k + 1] < WINDOW
        BY <1>3, <2>2, <4>1
      <4> QED BY <1>0, <1>2, <4>1, <4>2
    <3> QED BY <3>1, <3>2
  <2> HIDE DEF P, TooOld
  <2>00. k \in 0 .. Len(events)
    BY <1>2
  <2>3. k \in TooOld /\ \A n \in TooOld : n = k
    BY <2>0, <2>00, <2>1, <2>2, Zenon
  <2>4. (CHOOSE n \in TooOld : TRUE) = k
    BY <2>3
  <2> QED BY <1>8, <2>4
<1>5. Recent \in Seq(0 .. WINDOW) /\ Len(Recent) = m /\ \A j \in 1 .. m : Recent[j] = events[k + j]
  <2>1. k + m = Len(events)
    BY <1>2
  <2> QED BY <1>0, <1>4, <2>1, Suffix
<1>6. ASSUME NEW a \in 0 .. WINDOW - 1
      PROVE  admitted[a] <= m /\ \A j \in 1 .. m : Recent[j] <= a <=> j > m - admitted[a]
  <2>1. PICK c \in Nat : c = admitted[a] /\ c <= k + m
    BY <1>1, <1>2
  <2>2. \A i \in 1 .. k + m : events[i] <= a <=> i > k + m - c
    BY <1>1, <1>2, <2>1
  <2>3. c <= m
    <3> SUFFICES ASSUME c > m PROVE FALSE
      OBVIOUS
    <3>1. k \in 1 .. k + m /\ k > k + m - c
      BY <2>1
    <3>2. events[k] <= a /\ ~(events[k] < WINDOW)
      BY <1>3, <2>2, <3>1
    <3>3. events[k] \in Nat
      BY <1>0, <1>2, <3>1
    <3> QED BY <1>0, <3>2, <3>3
  <2>4. ASSUME NEW j \in 1 .. m PROVE Recent[j] <= a <=> j > m - c
    <3>1. k + j \in 1 .. k + m /\ (k + j > k + m - c <=> j > m - c)
      BY FromTheRight
    <3> QED BY <1>5, <2>2, <3>1
  <2> QED BY <2>1, <2>3, <2>4
<1>7. m <= MaxEvents
  BY <1>0, <1>1, <1>2
<1> QED BY <1>5, <1>6, <1>7

LEMMA PostKeepsWindow ==
    ASSUME WindowInv, NEW s \in Sentences, Post(s)
    PROVE  WindowInv'
<1>1. PICK m \in Nat :
         /\ Recent \in Seq(0 .. WINDOW) /\ Len(Recent) = m
         /\ \A a \in 0 .. WINDOW - 1 :
               /\ admitted[a] <= m
               /\ \A j \in 1 .. m : Recent[j] <= a <=> j > m - admitted[a]
  BY RecentIsCounted
<1>2. m < MaxEvents /\ events' = Append(Recent, 0) /\ admitted' = [a \in DOMAIN admitted |-> admitted[a] + 1]
  BY <1>1 DEF Post
<1>3. admitted \in [0 .. WINDOW - 1 -> Nat] /\ WINDOW \in Nat /\ MaxEvents \in Nat
  BY LimiterAssumption DEF WindowInv
<1>4. /\ admitted' \in [0 .. WINDOW - 1 -> Nat] /\ \A a \in 0 .. WINDOW - 1 : admitted'[a] = admitted[a] + 1
  BY <1>2, <1>3
<1>5. /\ events' \in Seq(0 .. WINDOW) /\ Len(events') = m + 1 /\ events'[m + 1] = 0
      /\ \A j \in 1 .. m : events'[j] = Recent[j]
  BY <1>1, <1>2, <1>3
<1>6. ASSUME NEW a \in 0 .. WINDOW - 1
      PROVE  /\ admitted'[a] <= Len(events') /\ admitted'[a] <= MaxEvents
             /\ \A i \in 1 .. Len(events') : events'[i] <= a <=> i > Len(events') - admitted'[a]
  <2>1. PICK c \in Nat : c = admitted[a] /\ c <= m /\ admitted'[a] = c + 1
    BY <1>1, <1>3, <1>4
  <2>2. ASSUME NEW i \in 1 .. m + 1 PROVE events'[i] <= a <=> i > m - c
    <3>1. CASE i = m + 1
      BY <1>5, <3>1
    <3>2. CASE i \in 1 .. m
      BY <1>1, <1>5, <2>1, <3>2
    <3> QED BY <3>1, <3>2
  <2>3. admitted'[a] <= m + 1 /\ admitted'[a] <= MaxEvents /\ m + 1 - admitted'[a] = m - c
    BY <1>2, <1>3, <2>1
  <2>4. ASSUME NEW i \in 1 .. Len(events') PROVE events'[i] <= a <=> i > Len(events') - admitted'[a]
    <3>1. i \in 1 .. m + 1
      BY <1>5
    <3>2. events'[i] <= a <=> i > m - c
      BY <2>2, <3>1
    <3>3. Len(events') - admitted'[a] = m - c
      <4>1. Len(events') = m + 1 /\ admitted'[a] = c + 1
        BY <1>5, <2>1, Zenon
      <4>2. m + 1 - (c + 1) = m - c
        OBVIOUS
      <4> QED BY <4>1, <4>2
    <3> QED BY <3>2, <3>3, Zenon
  <2>5. admitted'[a] <= Len(events') /\ admitted'[a] <= MaxEvents
    BY <1>5, <2>3
  <2> QED BY <2>4, <2>5, Zenon
<1> QED BY <1>4, <1>5, <1>6 DEF WindowInv

LEMMA TickKeepsWindow ==
    ASSUME WindowInv, Tick
    PROVE  WindowInv'
<1>1. /\ events' = [i \in DOMAIN events |-> IF events[i] < WINDOW THEN events[i] + 1 ELSE WINDOW]
      /\ admitted' = [a \in 0 .. WINDOW - 1 |-> IF a = 0 THEN 0 ELSE admitted[a - 1]]
  BY DEF Tick
<1>2. /\ events \in Seq(0 .. WINDOW) /\ WINDOW \in Nat /\ WINDOW # 0 /\ MaxEvents \in Nat
      /\ DOMAIN events = 1 .. Len(events) /\ Len(events) \in Nat
      /\ \A i \in 1 .. Len(events) : events[i] \in 0 .. WINDOW
      /\ \A a \in 0 .. WINDOW - 1 : admitted[a] \in Nat
  BY LimiterAssumption DEF WindowInv
<1>3. /\ events' \in Seq(0 .. WINDOW) /\ Len(events') = Len(events)
      /\ \A i \in 1 .. Len(events) : events'[i] = IF events[i] < WINDOW THEN events[i] + 1 ELSE WINDOW
  BY <1>1, <1>2
<1>4. /\ admitted' \in [0 .. WINDOW - 1 -> Nat]
      /\ \A a \in 0 .. WINDOW - 1 : admitted'[a] = IF a = 0 THEN 0 ELSE admitted[a - 1]
  BY <1>1, <1>2
<1>5. ASSUME NEW a \in 0 .. WINDOW - 1
      PROVE  /\ admitted'[a] <= Len(events) /\ admitted'[a] <= MaxEvents
             /\ \A i \in 1 .. Len(events) : events'[i] <= a <=> i > Len(events) - admitted'[a]
  <2>1. CASE a = 0
    <3>1. admitted'[a] = 0
      BY <1>4, <2>1
    <3>2. \A i \in 1 .. Len(events) : ~(events'[i] <= a) /\ ~(i > Len(events) - 0)
      BY <1>2, <1>3, <2>1
    <3> QED BY <1>2, <3>1, <3>2
  <2>2. CASE a # 0
    <3>1. a - 1 \in 0 .. WINDOW - 1 /\ admitted'[a] = admitted[a - 1]
      BY <1>2, <1>4, <2>2
    <3>2. /\ admitted[a - 1] <= Len(events) /\ admitted[a - 1] <= MaxEvents
          /\ \A i \in 1 .. Len(events) : events[i] <= a - 1 <=> i > Len(events) - admitted[a - 1]
      BY <3>1 DEF WindowInv
    <3>3. \A i \in 1 .. Len(events) : events'[i] <= a <=> events[i] <= a - 1
      BY <1>2, <1>3, <3>1
    <3> QED BY <3>1, <3>2, <3>3
  <2> QED BY <2>1, <2>2
<1> QED BY <1>3, <1>4, <1>5 DEF WindowInv

(* A pilot gets at most MaxEvents sentences through in any sliding window, *)
(* wherever it begins (limits.py's RateLimiter).                           *)
THEOREM NoWindowIsTooFull == SpeechSpec => []WindowHolds
<1>1. SpeechInit => WindowInv
  BY LimiterAssumption DEF SpeechInit, WindowInv
<1>2. WindowInv /\ [SpeechNext]_speechVars => WindowInv'
  <2> SUFFICES ASSUME WindowInv, [SpeechNext]_speechVars PROVE WindowInv'
    OBVIOUS
  <2>0. CASE UNCHANGED <<events, admitted>>
    BY <2>0 DEF WindowInv
  <2>1. ASSUME NEW s \in Sentences, TooSoon(s) PROVE WindowInv'
    <3>1. UNCHANGED admitted /\ events' = Recent
      BY <2>1 DEF TooSoon
    <3>2. PICK m \in Nat :
             /\ Recent \in Seq(0 .. WINDOW) /\ Len(Recent) = m
             /\ \A a \in 0 .. WINDOW - 1 :
                   /\ admitted[a] <= m
                   /\ \A j \in 1 .. m : Recent[j] <= a <=> j > m - admitted[a]
      BY RecentIsCounted
    <3> QED BY <3>1, <3>2 DEF WindowInv
  <2>2. ASSUME NEW s \in Sentences, Ends(s) PROVE WindowInv'
    BY <2>0, <2>2 DEF Ends, HeketSpeaks, HeketRejects, Heket5xx, HeketFails, ElevenLabsAnswers, Hears503
  <2>3. CASE HeketTurns \/ _roll_over \/ UNCHANGED speechVars
    BY <2>0, <2>3 DEF HeketTurns, _roll_over, speechVars
  <2> QED BY <2>1, <2>2, <2>3, PostKeepsWindow, TickKeepsWindow DEF SpeechNext
<1>3. WindowInv => WindowHolds
  BY DEF WindowInv, WindowHolds
<1> QED BY <1>1, <1>2, <1>3, PTL DEF SpeechSpec
-----------------------------------------------------------------------------
(* The voice tools that search: packing, ranking, and the searches.        *)
(*--------------------------- numbers and maxima --------------------------*)

(* Of the numbers up to n that have a property, one is the last.           *)
LEMMA OneIsLast ==
    ASSUME NEW n \in Nat, NEW S \in SUBSET Nat, S # {}, \A i \in S : i <= n
    PROVE  \E m \in S : \A j \in S : j <= m
<1> DEFINE FromEnd == {k \in Nat : n - k \in S}
<1>1. FromEnd \in SUBSET Nat /\ FromEnd # {}
  <2>1. PICK i \in S : TRUE
    OBVIOUS
  <2>2. n - i \in Nat /\ n - (n - i) = i
    BY <2>1
  <2> QED BY <2>1, <2>2
<1>2. \E k \in FromEnd : \A l \in FromEnd : ~ (<<l, k>> \in OpToRel(<, Nat))
  BY <1>1, NatLessThanWellFounded, WFMin
<1>3. PICK k \in FromEnd : \A l \in FromEnd : ~ (l < k)
  BY <1>1, <1>2 DEF OpToRel
<1>4. ASSUME NEW j \in S PROVE j <= n - k
  <2>1. n - j \in Nat /\ n - (n - j) = j
    OBVIOUS
  <2>2. ~ (n - j < k)
    BY <1>3, <2>1
  <2> QED BY <2>1, <2>2
<1> QED BY <1>3, <1>4

(* ... and one is the first: what holds of n when it holds of all before   *)
(* it holds of every number.                                               *)
LEMMA OneIsFirst ==
    ASSUME NEW S \in SUBSET Nat, S # {}
    PROVE  \E n \in S : \A k \in Nat : k < n => k \notin S
<1>1. \E n \in S : \A l \in S : ~ (<<l, n>> \in OpToRel(<, Nat))
  BY NatLessThanWellFounded, WFMin
<1> QED BY <1>1 DEF OpToRel

LEMMA MaxIsMax ==
    ASSUME NEW n \in Nat, NEW S \in SUBSET Nat, S # {}, \A i \in S : i <= n
    PROVE  Max(S) \in S /\ \A j \in S : j <= Max(S)
<1>1. \E m \in S : \A j \in S : m >= j
  BY OneIsLast
<1>2. Max(S) \in S /\ \A j \in S : Max(S) >= j
  BY <1>1, Zenon DEF Max
<1>3. ASSUME NEW j \in S PROVE j <= Max(S)
  <2>1. Max(S) \in Nat /\ Max(S) >= j
    BY <1>2
  <2> QED BY <2>1
<1> QED BY <1>2, <1>3

LEMMA MaxIs ==
    ASSUME NEW S \in SUBSET Nat, NEW m \in S, \A j \in S : j <= m
    PROVE  Max(S) = m
<1>1. Max(S) \in S /\ m <= Max(S)
  BY MaxIsMax
<1>2. Max(S) \in Nat /\ m \in Nat /\ Max(S) <= m
  BY <1>1
<1> QED BY <1>1, <1>2

(*----------------------------- the fullest load --------------------------*)

BestAt(best, sizes, t) ==
    IF t = 0 THEN 0
    ELSE Max({best[t - 1]} \cup { best[t - s] + s : s \in { x \in sizes : x <= t } })
IsBestLoads(best, capacity, sizes) == best = [t \in 0 .. capacity |-> BestAt(best, sizes, t)]

(* The recursion has a solution.                                           *)
LEMMA BestLoadsExist ==
    ASSUME NEW sizes \in SUBSET (Nat \ {0}), NEW capacity \in Nat
    PROVE  \E best : IsBestLoads(best, capacity, sizes)
<1> DEFINE Unsolved == {c \in Nat : ~ \E best : IsBestLoads(best, c, sizes)}
<1> SUFFICES ASSUME Unsolved # {} PROVE FALSE
  OBVIOUS
<1>1. PICK c \in Unsolved : \A k \in Nat : k < c => k \notin Unsolved
  BY OneIsFirst
<1>2. c # 0
  <2>1. IsBestLoads([t \in 0 .. 0 |-> 0], 0, sizes)
    BY DEF IsBestLoads, BestAt
  <2> QED BY <1>1, <2>1
<1>3. PICK f : IsBestLoads(f, c - 1, sizes)
  BY <1>1, <1>2
<1> DEFINE g == [t \in 0 .. c |-> IF t = c THEN BestAt(f, sizes, c) ELSE f[t]]
<1>4. ASSUME NEW t \in 0 .. c PROVE BestAt(g, sizes, t) = BestAt(f, sizes, t)
  <2>1. CASE t = 0
    BY <2>1 DEF BestAt
  <2>2. CASE t # 0
    <3>1. ASSUME NEW u \in 0 .. (c - 1) PROVE g[u] = f[u]
      BY <1>1
    <3>2. g[t - 1] = f[t - 1]
      BY <1>1, <2>2, <3>1
    <3>3. ASSUME NEW s \in sizes, s <= t PROVE g[t - s] = f[t - s]
      <4>1. t - s \in 0 .. (c - 1)
        BY <1>1, <3>3
      <4> QED BY <3>1, <4>1
    <3> HIDE DEF g
    <3>4. { g[t - s] + s : s \in { x \in sizes : x <= t } } = { f[t - s] + s : s \in { x \in sizes : x <= t } }
      BY <3>3
    <3> QED BY <3>2, <3>4, Zenon DEF BestAt
  <2> QED BY <2>1, <2>2
<1>5. ASSUME NEW t \in 0 .. c PROVE g[t] = BestAt(g, sizes, t)
  <2>1. CASE t = c
    BY <1>4, <2>1
  <2>2. CASE t # c
    <3>1. t \in 0 .. (c - 1)
      BY <1>1, <2>2
    <3>2. f[t] = BestAt(f, sizes, t)
      BY <1>3, <3>1 DEF IsBestLoads
    <3> QED BY <1>4, <2>2, <3>2
  <2> QED BY <2>1, <2>2
<1>6. IsBestLoads(g, c, sizes)
  <2>1. g = [t \in 0 .. c |-> g[t]]
    OBVIOUS
  <2> HIDE DEF g
  <2> QED BY <1>5, <2>1, Zenon DEF IsBestLoads
<1> QED BY <1>1, <1>6

LEMMA BestLoads ==
    ASSUME NEW sizes \in SUBSET (Nat \ {0}), NEW capacity \in Nat
    PROVE  /\ Best(capacity, sizes) = [t \in 0 .. capacity |-> Best(capacity, sizes)[t]]
           /\ \A t \in 0 .. capacity : Best(capacity, sizes)[t] = BestAt(Best(capacity, sizes), sizes, t)
<1>1. Best(capacity, sizes) = CHOOSE best : IsBestLoads(best, capacity, sizes)
  BY Zenon DEF Best, IsBestLoads, BestAt
<1>2. IsBestLoads(Best(capacity, sizes), capacity, sizes)
  BY <1>1, BestLoadsExist, Zenon
<1> QED BY <1>2 DEF IsBestLoads

(* What the recursion's values are: never more than the room, and never    *)
(* less than with one box fewer or one more; and each is reached.          *)
LEMMA BestIsNatural ==
    ASSUME NEW sizes \in SUBSET (Nat \ {0}), NEW capacity \in Nat, NEW t \in 0 .. capacity
    PROVE  Best(capacity, sizes)[t] \in 0 .. t
<1> DEFINE b == Best(capacity, sizes)
           Wrong == {k \in 0 .. capacity : b[k] \notin 0 .. k}
<1> SUFFICES ASSUME Wrong # {} PROVE FALSE
  OBVIOUS
<1>1. PICK n \in Wrong : \A k \in Nat : k < n => k \notin Wrong
  <2>1. Wrong \in SUBSET Nat
    <3> HIDE DEF b
    <3> QED OBVIOUS
  <2> HIDE DEF Wrong
  <2> QED BY <2>1, OneIsFirst
<1>2. b[n] = BestAt(b, sizes, n)
  BY <1>1, BestLoads
<1> HIDE DEF b
<1>3. n # 0
  BY <1>1, <1>2 DEF BestAt
<1>4. ASSUME NEW k \in 0 .. (n - 1) PROVE b[k] \in 0 .. k
  BY <1>1, <1>4
<1> DEFINE S == {b[n - 1]} \cup { b[n - s] + s : s \in { x \in sizes : x <= n } }
<1>5. b[n] = Max(S)
  BY <1>2, <1>3, Zenon DEF BestAt
<1>6. ASSUME NEW i \in S PROVE i \in 0 .. n
  <2>1. CASE i = b[n - 1]
    <3>1. n - 1 \in 0 .. (n - 1) /\ b[n - 1] \in 0 .. (n - 1)
      BY <1>1, <1>3, <1>4
    <3> QED BY <2>1, <3>1, <1>1
  <2>2. ASSUME NEW s \in sizes, s <= n, i = b[n - s] + s PROVE i \in 0 .. n
    <3>0. n \in Nat /\ s \in Nat /\ s # 0
      <4>1. n \in Nat
        OBVIOUS
      <4> HIDE DEF Wrong, S
      <4>2. s \in Nat /\ s # 0
        OBVIOUS
      <4> QED BY <4>1, <4>2
    <3>1. n - s \in 0 .. (n - 1)
      BY <2>2, <3>0
    <3>2. b[n - s] \in 0 .. (n - s)
      BY <1>4, <3>1
    <3> QED BY <2>2, <3>2, <1>1
  <2> QED BY <2>1, <2>2
<1>7. S \in SUBSET Nat /\ S # {} /\ \A i \in S : i <= n
  BY <1>6
<1>8. Max(S) \in S
  <2>1. n \in Nat
    BY <1>1
  <2> HIDE DEF S
  <2> QED BY <2>1, <1>7, MaxIsMax
<1> QED BY <1>1, <1>5, <1>6, <1>8

LEMMA BestGrows ==
    ASSUME NEW sizes \in SUBSET (Nat \ {0}), NEW capacity \in Nat, NEW t \in 1 .. capacity
    PROVE  LET b == Best(capacity, sizes) IN
           /\ b[t - 1] <= b[t]
           /\ \A s \in sizes : s <= t => b[t - s] + s <= b[t]
           /\ b[t] = b[t - 1] \/ \E s \in sizes : s <= t /\ b[t] = b[t - s] + s
<1> DEFINE b == Best(capacity, sizes)
           S == {b[t - 1]} \cup { b[t - s] + s : s \in { x \in sizes : x <= t } }
<1>1. b[t] = BestAt(b, sizes, t)
  <2>1. t \in 0 .. capacity
    OBVIOUS
  <2> QED BY <2>1, BestLoads, Zenon
<1>2. \A k \in 0 .. capacity : b[k] \in 0 .. k
  BY BestIsNatural
<1> HIDE DEF b
<1>3. b[t] = Max(S)
  <2>1. t # 0
    OBVIOUS
  <2> QED BY <1>1, <2>1, Zenon DEF BestAt
<1>4. ASSUME NEW i \in S PROVE i \in 0 .. t
  <2>1. CASE i = b[t - 1]
    <3>1. t - 1 \in 0 .. capacity
      OBVIOUS
    <3>2. b[t - 1] \in 0 .. (t - 1)
      BY <1>2, <3>1
    <3> QED BY <2>1, <3>2
  <2>2. ASSUME NEW s \in sizes, s <= t, i = b[t - s] + s PROVE i \in 0 .. t
    <3>1. t - s \in 0 .. capacity
      BY <2>2
    <3>2. b[t - s] \in 0 .. (t - s)
      BY <1>2, <3>1
    <3> QED BY <2>2, <3>2
  <2> QED BY <2>1, <2>2
<1>5. S \in SUBSET Nat /\ S # {} /\ \A i \in S : i <= t
  BY <1>4
<1>6. b[t] \in S /\ \A i \in S : i <= b[t]
  <2>1. t \in Nat
    OBVIOUS
  <2> HIDE DEF S
  <2>2. Max(S) \in S /\ \A i \in S : i <= Max(S)
    BY <2>1, <1>5, MaxIsMax
  <2> QED BY <1>3, <2>2
<1>7. b[t - 1] \in S /\ \A s \in sizes : s <= t => b[t - s] + s \in S
  OBVIOUS
<1>8. b[t - 1] <= b[t] /\ \A s \in sizes : s <= t => b[t - s] + s <= b[t]
  BY <1>6, <1>7, Zenon
<1>9. b[t] = b[t - 1] \/ \E s \in sizes : s <= t /\ b[t] = b[t - s] + s
  BY <1>6
<1> QED BY <1>8, <1>9 DEF b

(*------------------------------ sums of boxes ----------------------------*)

(* The fold adds the elements of a set one after the other, in an order    *)
(* that is the same for every weight.                                      *)
AnyOf(T) == CHOOSE x \in T : TRUE
Adds(sum, f, F) == sum = [T \in F |-> IF T = {} THEN 0 ELSE f[AnyOf(T)] + sum[T \ {AnyOf(T)}]]

LEMMA TheSumIs ==
    ASSUME NEW f, NEW S
    PROVE  MapThenFoldSet(+, 0, LAMBDA i : f[i], LAMBDA T : CHOOSE x \in T : TRUE, S)
             = (CHOOSE sum : Adds(sum, f, SUBSET S))[S]
BY Zenon DEF MapThenFoldSet, Adds, AnyOf

LEMMA SumExists ==
    ASSUME NEW f, NEW S, IsFiniteSet(S)
    PROVE  \E sum : Adds(sum, f, SUBSET S)
<1> DEFINE UpTo(c) == {T \in SUBSET S : Cardinality(T) <= c}
           Unsolved == {c \in Nat : ~ \E sum : Adds(sum, f, UpTo(c))}
<1>1. \A T \in SUBSET S : IsFiniteSet(T) /\ Cardinality(T) \in Nat /\ Cardinality(T) <= Cardinality(S)
  BY FS_Subset, FS_CardinalityType
<1>2. Cardinality(S) \in Nat /\ UpTo(Cardinality(S)) = SUBSET S
  BY <1>1, FS_CardinalityType
<1>3. ASSUME NEW T \in SUBSET S, T # {}
      PROVE  /\ AnyOf(T) \in T /\ T \ {AnyOf(T)} \in SUBSET S
             /\ Cardinality(T \ {AnyOf(T)}) = Cardinality(T) - 1
  <2>1. AnyOf(T) \in T
    BY <1>3, Zenon DEF AnyOf
  <2> QED BY <1>1, <2>1, FS_RemoveElement
<1> SUFFICES ASSUME Unsolved # {} PROVE FALSE
  BY <1>2
<1>4. PICK c \in Unsolved : \A k \in Nat : k < c => k \notin Unsolved
  <2>1. Unsolved \in SUBSET Nat
    OBVIOUS
  <2> HIDE DEF Unsolved
  <2> QED BY <2>1, OneIsFirst
<1>5. c # 0
  <2>1. UpTo(0) = {{}}
    BY <1>1, FS_EmptySet
  <2>2. Adds([T \in UpTo(0) |-> 0], f, UpTo(0))
    BY <2>1 DEF Adds
  <2> QED BY <1>4, <2>2
<1>6. PICK h : Adds(h, f, UpTo(c - 1))
  <2>1. c - 1 \in Nat /\ c - 1 < c
    BY <1>4, <1>5
  <2> QED BY <1>4, <2>1
<1> DEFINE At0(g, T) == IF T = {} THEN 0 ELSE f[AnyOf(T)] + g[T \ {AnyOf(T)}]
           g0 == [T \in UpTo(c) |-> IF T \in UpTo(c - 1) THEN h[T] ELSE At0(h, T)]
<1>7. c \in Nat /\ UpTo(c - 1) \subseteq UpTo(c)
  BY <1>1, <1>4
<1>8. ASSUME NEW T \in UpTo(c) PROVE At0(g0, T) = At0(h, T)
  <2>1. CASE T = {}
    BY <2>1
  <2>2. CASE T # {}
    <3>1. T \ {AnyOf(T)} \in UpTo(c - 1)
      BY <1>1, <1>3, <1>7, <2>2
    <3>2. g0[T \ {AnyOf(T)}] = h[T \ {AnyOf(T)}]
      BY <3>1, <1>7
    <3> HIDE DEF g0
    <3> QED BY <3>2, <2>2
  <2> QED BY <2>1, <2>2
<1>9. ASSUME NEW T \in UpTo(c) PROVE g0[T] = At0(g0, T)
  <2>1. CASE T \in UpTo(c - 1)
    <3>1. h[T] = At0(h, T)
      BY <1>6, <2>1 DEF Adds
    <3>2. g0[T] = h[T]
      BY <2>1
    <3> HIDE DEF g0, At0
    <3> QED BY <1>8, <3>1, <3>2
  <2>2. CASE T \notin UpTo(c - 1)
    <3>1. g0[T] = At0(h, T)
      BY <2>2
    <3> HIDE DEF g0, At0
    <3> QED BY <1>8, <3>1
  <2> QED BY <2>1, <2>2
<1>10. Adds(g0, f, UpTo(c))
  <2>1. g0 = [T \in UpTo(c) |-> g0[T]]
    OBVIOUS
  <2> HIDE DEF g0
  <2> QED BY <1>9, <2>1 DEF Adds
<1> QED BY <1>4, <1>10

(* ... so a sum is one that adds up. *)
AddsUp(sum, f, S) ==
    \A T \in SUBSET S : sum[T] = IF T = {} THEN 0 ELSE f[AnyOf(T)] + sum[T \ {AnyOf(T)}]
Sum(f, S) == MapThenFoldSet(+, 0, LAMBDA i : f[i], LAMBDA T : CHOOSE x \in T : TRUE, S)
LEMMA SumAdds ==
    ASSUME NEW f, NEW S, IsFiniteSet(S)
    PROVE  \E sum : Sum(f, S) = sum[S] /\ AddsUp(sum, f, S)
<1> DEFINE sum == CHOOSE s : Adds(s, f, SUBSET S)
<1>1. Adds(sum, f, SUBSET S)
  BY SumExists, Zenon
<1>2. Sum(f, S) = sum[S]
  BY TheSumIs, Zenon DEF Sum
<1> HIDE DEF sum
<1>3. AddsUp(sum, f, S)
  BY <1>1 DEF Adds, AddsUp
<1> QED BY <1>2, <1>3, Zenon

(* Of sets that fail, one has no smaller one that fails. *)
LEMMA OneIsSmallest ==
    ASSUME NEW S, IsFiniteSet(S), NEW Bad \in SUBSET (SUBSET S), Bad # {}
    PROVE  \E T \in Bad : \A x \in T : T \ {x} \notin Bad
<1>1. \A T \in SUBSET S : IsFiniteSet(T) /\ Cardinality(T) \in Nat
  BY FS_Subset, FS_CardinalityType
<1> DEFINE Sizes == {Cardinality(T) : T \in Bad}
<1>2. Sizes \in SUBSET Nat /\ Sizes # {}
  BY <1>1
<1>3. PICK n \in Sizes : \A k \in Nat : k < n => k \notin Sizes
  <2> HIDE DEF Sizes
  <2> QED BY <1>2, OneIsFirst
<1>4. PICK T \in Bad : n = Cardinality(T)
  BY <1>3
<1>5. ASSUME NEW x \in T, T \ {x} \in Bad PROVE FALSE
  <2>1. Cardinality(T \ {x}) = n - 1
    BY <1>1, <1>4, FS_RemoveElement
  <2>2. n \in Nat /\ n - 1 \in Nat
    BY <1>1, <1>4, <1>5, <2>1
  <2>3. Cardinality(T \ {x}) \in Sizes
    BY <1>5
  <2> HIDE DEF Sizes
  <2> QED BY <1>3, <2>1, <2>2, <2>3
<1> QED BY <1>4, <1>5

LEMMA SumIsNatural ==
    ASSUME NEW S, IsFiniteSet(S), NEW f \in [S -> Nat]
    PROVE  /\ Sum(f, S) \in Nat
           /\ (\A x \in S : f[x] = 0) => Sum(f, S) = 0
<1>1. PICK sum : Sum(f, S) = sum[S] /\ AddsUp(sum, f, S)
  BY SumAdds, Zenon
<1> DEFINE Good(T) == sum[T] \in Nat /\ ((\A x \in S : f[x] = 0) => sum[T] = 0)
           Bad == {T \in SUBSET S : ~Good(T)}
<1>2. Bad = {}
  <2> SUFFICES ASSUME Bad # {} PROVE FALSE
    OBVIOUS
  <2>1. PICK T \in Bad : \A x \in T : T \ {x} \notin Bad
    <3>1. Bad \in SUBSET (SUBSET S)
      OBVIOUS
    <3> HIDE DEF Bad
    <3> QED BY <3>1, OneIsSmallest, Zenon
  <2>2. T # {}
    <3>1. {} \in SUBSET S
      OBVIOUS
    <3>2. sum[{}] = 0
      BY <1>1, <3>1, Zenon DEF AddsUp
    <3>3. Good({})
      BY <3>2
    <3> QED BY <2>1, <3>3
  <2>3. AnyOf(T) \in T /\ AnyOf(T) \in S
    <3>1. AnyOf(T) \in T
      BY <2>2, Zenon DEF AnyOf
    <3> QED BY <2>1, <3>1
  <2>4. Good(T \ {AnyOf(T)})
    BY <2>1, <2>3
  <2>5. sum[T] = f[AnyOf(T)] + sum[T \ {AnyOf(T)}]
    BY <1>1, <2>1, <2>2 DEF AddsUp
  <2>6. f[AnyOf(T)] \in Nat
    BY <2>3
  <2> QED BY <2>1, <2>3, <2>4, <2>5, <2>6
<1>3. Good(S)
  BY <1>2
<1> QED BY <1>1, <1>3

(* Changing one weight changes the sum by as much. *)
LEMMA SumShifts ==
    ASSUME NEW S, IsFiniteSet(S), NEW f \in [S -> Nat], NEW g \in [S -> Nat], NEW e \in S, NEW d \in Int,
           g[e] = f[e] + d, \A x \in S \ {e} : g[x] = f[x]
    PROVE  Sum(g, S) = Sum(f, S) + d
<1>1. PICK sum : Sum(f, S) = sum[S] /\ AddsUp(sum, f, S)
  BY SumAdds, Zenon
<1>2. PICK tum : Sum(g, S) = tum[S] /\ AddsUp(tum, g, S)
  BY SumAdds, Zenon
<1> DEFINE Good(T) == sum[T] \in Int /\ tum[T] = sum[T] + (IF e \in T THEN d ELSE 0)
           Bad == {T \in SUBSET S : ~Good(T)}
<1>3. Bad = {}
  <2> SUFFICES ASSUME Bad # {} PROVE FALSE
    OBVIOUS
  <2>1. PICK T \in Bad : \A x \in T : T \ {x} \notin Bad
    <3>1. Bad \in SUBSET (SUBSET S)
      OBVIOUS
    <3> HIDE DEF Bad
    <3> QED BY <3>1, OneIsSmallest, Zenon
  <2>2. T # {}
    <3>1. {} \in SUBSET S
      OBVIOUS
    <3>2. sum[{}] = 0 /\ tum[{}] = 0
      BY <1>1, <1>2, <3>1, Zenon DEF AddsUp
    <3> QED BY <2>1, <3>2
  <2>3. PICK x \in T : x = AnyOf(T)
    BY <2>2, Zenon DEF AnyOf
  <2>4. Good(T \ {x}) /\ x \in S
    BY <2>1, <2>3
  <2>5. sum[T] = f[x] + sum[T \ {x}] /\ tum[T] = g[x] + tum[T \ {x}]
    BY <1>1, <1>2, <2>1, <2>2, <2>3 DEF AddsUp
  <2>6. f[x] \in Nat /\ g[x] \in Nat
    BY <2>4
  <2>7. CASE x = e
    <3>1. tum[T \ {x}] = sum[T \ {x}] /\ e \in T
      BY <2>3, <2>4, <2>7
    <3>2. Good(T)
      BY <2>4, <2>5, <2>6, <2>7, <3>1
    <3> QED BY <2>1, <3>2
  <2>8. CASE x # e
    <3>1. g[x] = f[x] /\ (e \in T <=> e \in T \ {x})
      BY <2>4, <2>8
    <3>2. Good(T)
      BY <2>4, <2>5, <2>6, <3>1
    <3> QED BY <2>1, <3>2
  <2> QED BY <2>7, <2>8
<1>4. Good(S)
  BY <1>3
<1> QED BY <1>1, <1>2, <1>4

(*--------------------------- the boxes of a load -------------------------*)

IsSizes(sizes) == sizes \in SUBSET (Nat \ {0}) /\ IsFiniteSet(sizes)

LEMMA ScuIsASum ==
    ASSUME NEW sizes, NEW mix \in [sizes -> Nat]
    PROVE  ScuOf(mix) = Sum([s \in sizes |-> mix[s] * s], sizes)
<1>1. DOMAIN mix = sizes
  OBVIOUS
<1> DEFINE weighed == [s \in DOMAIN mix |-> mix[s] * [x \in DOMAIN mix |-> x][s]]
<1>2. ScuOf(mix) = MapThenFoldSet(+, 0, LAMBDA i : weighed[i], LAMBDA S : CHOOSE x \in S : TRUE, DOMAIN weighed)
  BY Zenon DEF ScuOf, SumOf, FoldFunction, FoldFunctionOnSet
<1>3. weighed = [s \in sizes |-> mix[s] * s] /\ DOMAIN weighed = sizes
  BY <1>1
<1> HIDE DEF weighed
<1>4. ScuOf(mix) = Sum(weighed, DOMAIN weighed)
  BY <1>2, Zenon DEF Sum
<1> QED BY <1>3, <1>4

LEMMA ScuOfMixes ==
    ASSUME NEW sizes, IsSizes(sizes), NEW mix \in [sizes -> Nat]
    PROVE  /\ ScuOf(mix) \in Nat
           /\ (\A s \in sizes : mix[s] = 0) => ScuOf(mix) = 0
<1> DEFINE w == [s \in sizes |-> mix[s] * s]
<1>1. w \in [sizes -> Nat] /\ ((\A s \in sizes : mix[s] = 0) => \A s \in sizes : w[s] = 0)
  BY DEF IsSizes
<1> HIDE DEF w
<1>2. Sum(w, sizes) \in Nat /\ ((\A s \in sizes : w[s] = 0) => Sum(w, sizes) = 0)
  BY <1>1, SumIsNatural, Zenon DEF IsSizes
<1>3. ScuOf(mix) = Sum(w, sizes)
  BY ScuIsASum DEF w
<1> QED BY <1>1, <1>2, <1>3

(* One box more or one less is its size more or less. *)
LEMMA ABoxMoreOrLess ==
    ASSUME NEW sizes, IsSizes(sizes), NEW mix \in [sizes -> Nat], NEW s \in sizes,
           NEW k \in Int, mix[s] + k \in Nat
    PROVE  ScuOf([mix EXCEPT ![s] = @ + k]) = ScuOf(mix) + k * s
<1> DEFINE other == [mix EXCEPT ![s] = @ + k]
           f == [x \in sizes |-> mix[x] * x]
           g == [x \in sizes |-> other[x] * x]
<1>1. other \in [sizes -> Nat] /\ other[s] = mix[s] + k /\ \A x \in sizes \ {s} : other[x] = mix[x]
  OBVIOUS
<1>2. s \in Nat /\ mix[s] \in Nat /\ k * s \in Int
  BY DEF IsSizes
<1>3. g[s] = f[s] + k * s
  <2>1. g[s] = (mix[s] + k) * s /\ f[s] = mix[s] * s
    BY <1>1
  <2> QED BY <1>2, <2>1
<1>4. \A x \in sizes \ {s} : g[x] = f[x]
  BY <1>1
<1>5. f \in [sizes -> Nat] /\ g \in [sizes -> Nat]
  BY <1>1 DEF IsSizes
<1>6. ScuOf(mix) = Sum(f, sizes) /\ ScuOf(other) = Sum(g, sizes)
  <2> HIDE DEF other
  <2> QED BY <1>1, ScuIsASum
<1>7. Sum(g, sizes) = Sum(f, sizes) + k * s
  <2> HIDE DEF f, g
  <2>1. PICK d \in Int : d = k * s
    BY <1>2
  <2>2. g[s] = f[s] + d /\ IsFiniteSet(sizes)
    BY <1>3, <2>1 DEF IsSizes
  <2>3. Sum(g, sizes) = Sum(f, sizes) + d
    BY <1>4, <1>5, <2>2, SumShifts
  <2> QED BY <2>1, <2>3
<1> QED BY <1>6, <1>7

(* No way of filling t SCU is fuller than the recursion's value ... *)
LEMMA NothingIsFuller ==
    ASSUME NEW sizes, IsSizes(sizes), NEW capacity \in Nat, NEW t \in 0 .. capacity,
           NEW mix \in [sizes -> Nat], ScuOf(mix) <= t
    PROVE  ScuOf(mix) <= Best(capacity, sizes)[t]
<1> DEFINE b == Best(capacity, sizes)
           Good(n) == \A m \in [sizes -> Nat] : ScuOf(m) <= n => ScuOf(m) <= b[n]
           Bad == {n \in 0 .. capacity : ~Good(n)}
<1>1. \A n \in 0 .. capacity : b[n] \in 0 .. n
  BY BestIsNatural DEF IsSizes
<1>2. \A n \in 1 .. capacity : b[n - 1] <= b[n] /\ \A s \in sizes : s <= n => b[n - s] + s <= b[n]
  BY BestGrows DEF IsSizes
<1> HIDE DEF b
<1>3. Bad = {}
  <2> SUFFICES ASSUME Bad # {} PROVE FALSE
    OBVIOUS
  <2>1. PICK n \in Bad : \A k \in Nat : k < n => k \notin Bad
    <3>1. Bad \in SUBSET Nat
      OBVIOUS
    <3> HIDE DEF Bad
    <3> QED BY <3>1, OneIsFirst
  <2>2. PICK m \in [sizes -> Nat] : ScuOf(m) <= n /\ ~(ScuOf(m) <= b[n])
    BY <2>1
  <2>3. ScuOf(m) \in Nat /\ n \in Nat /\ b[n] \in Nat
    BY <1>1, <2>1, ScuOfMixes
  <2>4. n # 0
    BY <2>2, <2>3
  <2>5. n \in 1 .. capacity /\ n - 1 \in 0 .. capacity
    BY <2>1, <2>4
  <2>6. CASE ScuOf(m) <= n - 1
    <3>1. Good(n - 1)
      BY <2>1, <2>5
    <3>2. ScuOf(m) <= b[n - 1] /\ b[n - 1] \in Nat /\ b[n - 1] <= b[n]
      BY <1>1, <1>2, <2>5, <2>6, <3>1
    <3> QED BY <2>2, <2>3, <3>2
  <2>7. CASE ScuOf(m) = n
    <3>1. PICK s \in sizes : m[s] # 0
      BY <2>4, <2>7, ScuOfMixes
    <3>2. s \in Nat \ {0} /\ m[s] \in Nat
      BY DEF IsSizes
    <3> DEFINE less == [m EXCEPT ![s] = @ + (-1)]
    <3>3. less \in [sizes -> Nat]
      BY <3>1, <3>2
    <3>4. ScuOf(less) = ScuOf(m) + (-1) * s
      <4>1. m[s] + (-1) \in Nat /\ -1 \in Int
        BY <3>1, <3>2
      <4> QED BY <4>1, ABoxMoreOrLess
    <3>5. ScuOf(less) \in Nat
      BY <3>3, ScuOfMixes
    <3> HIDE DEF less
    <3>6. ScuOf(less) = n - s /\ n - s \in 0 .. capacity /\ n - s < n /\ s <= n
      BY <2>5, <2>7, <3>2, <3>4, <3>5
    <3>7. Good(n - s)
      BY <2>1, <3>5, <3>6
    <3>8. n - s <= b[n - s] /\ b[n - s] \in Nat
      BY <1>1, <3>3, <3>5, <3>6, <3>7
    <3>9. b[n - s] + s <= b[n]
      BY <1>2, <2>5, <3>6
    <3> QED BY <2>2, <2>3, <2>7, <3>2, <3>8, <3>9
  <2> QED BY <2>2, <2>3, <2>6, <2>7
<1>4. Good(t)
  BY <1>3
<1> QED BY <1>4 DEF b

(* ... and one is as full. *)
LEMMA SomeMixIsAsFull ==
    ASSUME NEW sizes, IsSizes(sizes), NEW capacity \in Nat, NEW t \in 0 .. capacity
    PROVE  \E mix \in [sizes -> 0 .. t] : ScuOf(mix) = Best(capacity, sizes)[t]
<1> DEFINE b == Best(capacity, sizes)
           Good(n) == \E mix \in [sizes -> 0 .. n] : ScuOf(mix) = b[n]
           Bad == {n \in 0 .. capacity : ~Good(n)}
<1>1. \A n \in 0 .. capacity : b[n] \in 0 .. n
  BY BestIsNatural DEF IsSizes
<1>2. \A n \in 1 .. capacity : b[n] = b[n - 1] \/ \E s \in sizes : s <= n /\ b[n] = b[n - s] + s
  BY BestGrows DEF IsSizes
<1> HIDE DEF b
<1>3. Bad = {}
  <2> SUFFICES ASSUME Bad # {} PROVE FALSE
    OBVIOUS
  <2>1. PICK n \in Bad : \A k \in Nat : k < n => k \notin Bad
    <3>1. Bad \in SUBSET Nat
      OBVIOUS
    <3> HIDE DEF Bad
    <3> QED BY <3>1, OneIsFirst
  <2>2. CASE n = 0
    <3> DEFINE none == [s \in sizes |-> 0]
    <3>1. none \in [sizes -> 0 .. 0] /\ none \in [sizes -> Nat] /\ \A s \in sizes : none[s] = 0
      OBVIOUS
    <3> HIDE DEF none
    <3>2. ScuOf(none) = 0 /\ b[0] = 0
      BY <1>1, <2>1, <2>2, <3>1, ScuOfMixes
    <3> QED BY <2>1, <2>2, <3>1, <3>2
  <2>3. CASE n # 0
    <3>1. n \in 1 .. capacity /\ n - 1 \in 0 .. capacity
      BY <2>1, <2>3
    <3>2. CASE b[n] = b[n - 1]
      <4>1. PICK mix \in [sizes -> 0 .. (n - 1)] : ScuOf(mix) = b[n - 1]
        BY <2>1, <3>1
      <4>2. mix \in [sizes -> 0 .. n]
        BY <3>1
      <4> QED BY <2>1, <3>2, <4>1, <4>2
    <3>3. ASSUME NEW s \in sizes, s <= n, b[n] = b[n - s] + s PROVE FALSE
      <4>1. s \in Nat \ {0}
        BY DEF IsSizes
      <4>2. n - s \in 0 .. capacity /\ n - s < n
        BY <3>1, <3>3, <4>1
      <4>3. PICK mix \in [sizes -> 0 .. (n - s)] : ScuOf(mix) = b[n - s]
        BY <2>1, <4>2
      <4> DEFINE more == [mix EXCEPT ![s] = @ + 1]
      <4>4. mix \in [sizes -> Nat] /\ mix[s] \in Nat
        OBVIOUS
      <4>5. more \in [sizes -> 0 .. n]
        BY <3>1, <4>1, <4>2
      <4>6. ScuOf(more) = ScuOf(mix) + 1 * s
        <5>1. mix[s] + 1 \in Nat /\ 1 \in Int
          BY <4>4
        <5> QED BY <4>4, <5>1, ABoxMoreOrLess
      <4> HIDE DEF more
      <4>7. ScuOf(more) = b[n]
        BY <3>3, <4>1, <4>3, <4>6
      <4> QED BY <2>1, <4>5, <4>7
    <3> QED BY <1>2, <3>1, <3>2, <3>3
  <2> QED BY <2>2, <2>3
<1>4. Good(t)
  BY <1>3
<1> QED BY <1>4 DEF b

(*------------------------- what the code promises ------------------------*)

LEMMA BestIsFullest ==
    ASSUME NEW sizes, IsSizes(sizes), NEW capacity \in Nat
    PROVE  Fullest(capacity, sizes) = Best(capacity, sizes)[capacity]
<1> DEFINE n == Best(capacity, sizes)[capacity]
           Loads == { ScuOf(mix) : mix \in Fills(capacity, sizes) }
<1>1. capacity \in 0 .. capacity
  OBVIOUS
<1>2. n \in 0 .. capacity
  BY <1>1, BestIsNatural, Zenon DEF IsSizes
<1>3. ASSUME NEW mix \in Fills(capacity, sizes)
      PROVE  ScuOf(mix) \in Nat /\ ScuOf(mix) <= n
  <2>1. mix \in [sizes -> 0 .. capacity] /\ ScuOf(mix) <= capacity
    BY Zenon DEF Fills
  <2>2. mix \in [sizes -> Nat]
    BY <2>1
  <2> QED BY <1>1, <2>1, <2>2, ScuOfMixes, NothingIsFuller
<1>4. PICK mix \in [sizes -> 0 .. capacity] : ScuOf(mix) = n
  BY <1>1, SomeMixIsAsFull, Zenon
<1> HIDE DEF n
<1>5. mix \in Fills(capacity, sizes)
  <2>1. ScuOf(mix) <= capacity
    BY <1>2, <1>4
  <2> QED BY <1>4, <2>1, Zenon DEF Fills
<1>6. n \in Loads
  BY <1>4, <1>5, Zenon
<1>7. Loads \in SUBSET Nat /\ \A j \in Loads : j <= n
  BY <1>3
<1> HIDE DEF Loads
<1>8. Max(Loads) = n
  BY <1>6, <1>7, MaxIs
<1> QED BY <1>8 DEF n, Loads, Fullest

(* Nothing goes into no room, or into boxes of no size. *)
LEMMA NothingGoesIn ==
    ASSUME NEW sizes, IsSizes(sizes), NEW capacity \in Nat, sizes = {} \/ capacity = 0
    PROVE  Best(capacity, sizes)[capacity] = 0
<1>1. capacity \in 0 .. capacity
  OBVIOUS
<1>2. PICK mix \in [sizes -> 0 .. capacity] : ScuOf(mix) = Best(capacity, sizes)[capacity]
  BY <1>1, SomeMixIsAsFull, Zenon
<1>3. mix \in [sizes -> Nat] /\ \A s \in sizes : mix[s] = 0
  BY <1>2
<1> QED BY <1>2, <1>3, ScuOfMixes

(* The packing fills the room as well as any mix of boxes does.            *)
THEOREM PackableIsFullest ==
    ASSUME NEW sizes, IsSizes(sizes), NEW capacity \in Nat
    PROVE  max_packable_scu(capacity, sizes) = Fullest(capacity, sizes)
<1>1. CASE sizes = {} \/ capacity <= 0
  <2>1. sizes = {} \/ capacity = 0
    BY <1>1
  <2>2. Fullest(capacity, sizes) = 0
    BY <2>1, NothingGoesIn, BestIsFullest
  <2> QED BY <1>1, <2>2 DEF max_packable_scu
<1>2. CASE ~(sizes = {} \/ capacity <= 0)
  BY <1>2, BestIsFullest DEF max_packable_scu
<1> QED BY <1>1, <1>2

(* The walk down from t, box by box. *)
Walk(mix, best, sizes, t) ==
    IF t = 0 THEN [s \in sizes |-> 0]
    ELSE IF LastBox(best, sizes, t) = {} THEN mix[t - 1]
    ELSE LET box == Max(LastBox(best, sizes, t)) IN [mix[t - box] EXCEPT ![box] = @ + 1]
Walks(mix, capacity, best, sizes) == mix = [t \in 0 .. capacity |-> Walk(mix, best, sizes, t)]

LEMMA TheMixIs ==
    ASSUME NEW sizes, NEW capacity, ~(sizes = {} \/ capacity <= 0)
    PROVE  best_container_mix(capacity, sizes)
             = (CHOOSE mix : Walks(mix, capacity, Best(capacity, sizes), sizes))[capacity]
BY Zenon DEF best_container_mix, Walks, Walk

(* The box added last fits, and what it leaves room for is as full. *)
LEMMA TheLastBox ==
    ASSUME NEW sizes, IsSizes(sizes), NEW capacity \in Nat, NEW t \in 1 .. capacity,
           LastBox(Best(capacity, sizes), sizes, t) # {}
    PROVE  LET box == Max(LastBox(Best(capacity, sizes), sizes, t)) IN
           /\ box \in sizes /\ box <= t
           /\ Best(capacity, sizes)[t - box] + box = Best(capacity, sizes)[t]
<1> DEFINE b == Best(capacity, sizes)
           good == { s \in sizes : s <= t /\ b[t - s] + s = b[t] }
<1> HIDE DEF b
<1>1. good # {} /\ LastBox(b, sizes, t) = {Max(good)}
  BY Zenon DEF LastBox, b
<1>2. good \in SUBSET Nat /\ \A i \in good : i <= t
  BY DEF IsSizes
<1>3. t \in Nat
  OBVIOUS
<1>4. Max(good) \in good
  <2> HIDE DEF good
  <2> QED BY <1>1, <1>2, <1>3, MaxIsMax
<1>5. Max({Max(good)}) = Max(good)
  <2> HIDE DEF good
  <2>1. Max(good) \in Nat
    BY <1>2, <1>4
  <2> QED BY <2>1, MaxIs
<1>6. Max(LastBox(b, sizes, t)) \in good
  <2> HIDE DEF good
  <2> QED BY <1>1, <1>4, <1>5
<1> QED BY <1>6, Zenon DEF b

LEMMA NoLastBox ==
    ASSUME NEW sizes, IsSizes(sizes), NEW capacity \in Nat, NEW t \in 1 .. capacity,
           LastBox(Best(capacity, sizes), sizes, t) = {}
    PROVE  Best(capacity, sizes)[t - 1] = Best(capacity, sizes)[t]
<1> DEFINE b == Best(capacity, sizes)
<1>1. b[t] = b[t - 1] \/ \E s \in sizes : s <= t /\ b[t] = b[t - s] + s
  BY BestGrows, Zenon DEF IsSizes
<1>2. \A s \in sizes : ~(s <= t /\ b[t - s] + s = b[t])
  BY Zenon DEF LastBox
<1> QED BY <1>1, <1>2, Zenon

LEMMA WalkExists ==
    ASSUME NEW sizes, IsSizes(sizes), NEW capacity \in Nat
    PROVE  \E mix : Walks(mix, capacity, Best(capacity, sizes), sizes)
<1> DEFINE b == Best(capacity, sizes)
           Unsolved == {c \in 0 .. capacity : ~ \E mix : Walks(mix, c, b, sizes)}
<1>1. ASSUME NEW t \in 1 .. capacity, LastBox(b, sizes, t) # {}
      PROVE  t - Max(LastBox(b, sizes, t)) \in 0 .. (t - 1)
  <2>1. PICK box \in sizes : box = Max(LastBox(b, sizes, t)) /\ box <= t
    BY <1>1, TheLastBox, Zenon
  <2> QED BY <2>1 DEF IsSizes
<1> HIDE DEF b
<1> SUFFICES ASSUME Unsolved # {} PROVE FALSE
  BY DEF b
<1>2. PICK c \in Unsolved : \A k \in Nat : k < c => k \notin Unsolved
  <2>1. Unsolved \in SUBSET Nat
    OBVIOUS
  <2> HIDE DEF Unsolved
  <2> QED BY <2>1, OneIsFirst
<1>3. c # 0
  <2>1. Walks([t \in 0 .. 0 |-> [s \in sizes |-> 0]], 0, b, sizes)
    BY DEF Walks, Walk
  <2> QED BY <1>2, <2>1
<1>4. PICK f : Walks(f, c - 1, b, sizes)
  BY <1>2, <1>3
<1> DEFINE g == [t \in 0 .. c |-> IF t = c THEN Walk(f, b, sizes, c) ELSE f[t]]
<1>5. ASSUME NEW t \in 0 .. c PROVE Walk(g, b, sizes, t) = Walk(f, b, sizes, t)
  <2>1. ASSUME NEW u \in 0 .. (c - 1) PROVE g[u] = f[u]
    BY <1>2
  <2> HIDE DEF g
  <2>2. CASE t = 0
    BY <2>2, Zenon DEF Walk
  <2>3. CASE t # 0 /\ LastBox(b, sizes, t) = {}
    <3>1. t - 1 \in 0 .. (c - 1)
      BY <1>2, <2>3
    <3> QED BY <2>1, <2>3, <3>1, Zenon DEF Walk
  <2>4. CASE t # 0 /\ LastBox(b, sizes, t) # {}
    <3>1. t \in 1 .. capacity
      BY <1>2, <2>4
    <3>2. t - Max(LastBox(b, sizes, t)) \in 0 .. (t - 1)
      BY <1>1, <2>4, <3>1
    <3>3. t - Max(LastBox(b, sizes, t)) \in 0 .. (c - 1)
      BY <1>2, <3>2
    <3>4. g[t - Max(LastBox(b, sizes, t))] = f[t - Max(LastBox(b, sizes, t))]
      BY <2>1, <3>3
    <3> QED BY <2>4, <3>4, Zenon DEF Walk
  <2> QED BY <2>2, <2>3, <2>4
<1>6. ASSUME NEW t \in 0 .. c PROVE g[t] = Walk(g, b, sizes, t)
  <2>1. CASE t = c
    <3>1. g[t] = Walk(f, b, sizes, t)
      BY <2>1
    <3> HIDE DEF g
    <3> QED BY <1>5, <3>1
  <2>2. CASE t # c
    <3>1. t \in 0 .. (c - 1) /\ g[t] = f[t]
      BY <1>2, <2>2
    <3> HIDE DEF g
    <3>2. f[t] = Walk(f, b, sizes, t)
      BY <1>4, <3>1 DEF Walks
    <3> QED BY <1>5, <3>1, <3>2
  <2> QED BY <2>1, <2>2
<1>7. Walks(g, c, b, sizes)
  <2>1. g = [t \in 0 .. c |-> g[t]]
    OBVIOUS
  <2> HIDE DEF g
  <2> QED BY <1>6, <2>1, Zenon DEF Walks
<1> QED BY <1>2, <1>7

(* The boxes of the walk add up to the fullest load.                       *)
THEOREM MixAddsUp ==
    ASSUME NEW sizes, IsSizes(sizes), NEW capacity \in Nat
    PROVE  /\ best_container_mix(capacity, sizes) \in [sizes -> Nat]
           /\ ScuOf(best_container_mix(capacity, sizes)) = Fullest(capacity, sizes)
<1> DEFINE b == Best(capacity, sizes)
           none == [s \in sizes |-> 0]
<1>1. none \in [sizes -> Nat] /\ ScuOf(none) = 0
  <2>1. none \in [sizes -> Nat] /\ \A s \in sizes : none[s] = 0
    OBVIOUS
  <2> HIDE DEF none
  <2> QED BY <2>1, ScuOfMixes
<1>2. CASE sizes = {} \/ capacity <= 0
  <2>1. best_container_mix(capacity, sizes) = none
    BY <1>2, Zenon DEF best_container_mix
  <2>2. sizes = {} \/ capacity = 0
    BY <1>2
  <2> HIDE DEF none
  <2> QED BY <1>1, <2>1, <2>2, NothingGoesIn, BestIsFullest
<1>3. CASE ~(sizes = {} \/ capacity <= 0)
  <2> DEFINE mix == CHOOSE m : Walks(m, capacity, b, sizes)
  <2>1. Walks(mix, capacity, b, sizes) /\ best_container_mix(capacity, sizes) = mix[capacity]
    BY <1>3, WalkExists, TheMixIs, Zenon
  <2> HIDE DEF mix
  <2>2. \A n \in 0 .. capacity : mix[n] = Walk(mix, b, sizes, n)
    <3> HIDE DEF b
    <3> QED BY <2>1 DEF Walks
  <2> DEFINE Good(n) == mix[n] \in [sizes -> Nat] /\ ScuOf(mix[n]) = b[n]
             Bad == {n \in 0 .. capacity : ~Good(n)}
  <2>3. \A n \in 0 .. capacity : b[n] \in 0 .. n
    BY BestIsNatural, Zenon DEF IsSizes
  <2>4. Bad = {}
    <3> SUFFICES ASSUME Bad # {} PROVE FALSE
      OBVIOUS
    <3>1. PICK n \in Bad : \A k \in Nat : k < n => k \notin Bad
      <4>1. Bad \in SUBSET Nat
        <5> HIDE DEF b
        <5> QED OBVIOUS
      <4> HIDE DEF Bad
      <4> QED BY <4>1, OneIsFirst
    <3>2. n \in 0 .. capacity /\ ~Good(n)
      BY <3>1, Zenon
    <3>3. ASSUME NEW k \in 0 .. capacity, k < n PROVE Good(k)
      <4>1. k \in Nat /\ k \notin Bad
        <5>1. k \in Nat
          OBVIOUS
        <5> QED BY <3>1, <3>3, <5>1, Zenon
      <4> QED BY <4>1, Zenon
    <3>4. CASE n = 0
      <4>1. mix[n] = none
        BY <2>2, <3>2, <3>4, Zenon DEF Walk
      <4>2. b[n] = 0
        <5> HIDE DEF b
        <5> QED BY <2>3, <3>2, <3>4
      <4> QED BY <1>1, <3>2, <4>1, <4>2, Zenon
    <3>5. CASE n # 0
      <4>1. n \in 1 .. capacity /\ n - 1 \in 0 .. capacity /\ n - 1 < n
        <5> HIDE DEF b, Good
        <5> QED BY <3>2, <3>5
      <4>2. CASE LastBox(b, sizes, n) = {}
        <5>1. mix[n] = mix[n - 1]
          BY <2>2, <3>2, <3>5, <4>2, Zenon DEF Walk
        <5>2. b[n - 1] = b[n]
          BY <4>1, <4>2, NoLastBox, Zenon
        <5>3. Good(n - 1)
          BY <3>3, <4>1, Zenon
        <5> QED BY <3>2, <5>1, <5>2, <5>3, Zenon
      <4>3. CASE LastBox(b, sizes, n) # {}
        <5>1. PICK s \in sizes : s = Max(LastBox(b, sizes, n)) /\ s <= n /\ b[n - s] + s = b[n]
          BY <4>1, <4>3, TheLastBox, Zenon
        <5>2. mix[n] = [mix[n - s] EXCEPT ![s] = @ + 1]
          BY <2>2, <3>2, <3>5, <4>3, <5>1, Zenon DEF Walk
        <5>3. s \in Nat \ {0} /\ n - s \in 0 .. capacity /\ n - s < n
          <6>1. s \in Nat \ {0}
            BY DEF IsSizes
          <6> HIDE DEF b, Good
          <6> QED BY <4>1, <5>1, <6>1
        <5>4. Good(n - s)
          BY <3>3, <5>3, Zenon
        <5>5. PICK m \in [sizes -> Nat] : m = mix[n - s] /\ ScuOf(m) = b[n - s]
          BY <5>4, Zenon
        <5>6. m[s] \in Nat /\ m[s] + 1 \in Nat /\ 1 \in Int
          BY <5>5
        <5>7. ScuOf([m EXCEPT ![s] = @ + 1]) = ScuOf(m) + 1 * s
          BY <5>6, ABoxMoreOrLess
        <5>8. [m EXCEPT ![s] = @ + 1] \in [sizes -> Nat]
          BY <5>6
        <5>9. ScuOf([m EXCEPT ![s] = @ + 1]) = b[n]
          <6>1. 1 * s = s
            BY <5>3
          <6> QED BY <5>1, <5>5, <5>7, <6>1, Zenon
        <5>10. mix[n] = [m EXCEPT ![s] = @ + 1]
          BY <5>2, <5>5, Zenon
        <5> QED BY <3>2, <5>8, <5>9, <5>10, Zenon
      <4> QED BY <4>2, <4>3, Zenon
    <3> QED BY <3>4, <3>5, Zenon
  <2>5. Good(capacity)
    <3>1. capacity \in 0 .. capacity
      OBVIOUS
    <3> QED BY <2>4, <3>1, Zenon
  <2> QED BY <2>1, <2>5, BestIsFullest, Zenon
<1> QED BY <1>2, <1>3

(* A full load, planned again on its own, is the same load. *)
LEMMA FullStaysFull ==
    ASSUME NEW sizes, IsSizes(sizes), NEW capacity \in Nat
    PROVE  LET scu == Fullest(capacity, sizes) IN
           scu \in 0 .. capacity /\ Fullest(scu, sizes) = scu
<1>1. PICK scu \in 0 .. capacity : scu = Best(capacity, sizes)[capacity]
  <2>1. capacity \in 0 .. capacity
    OBVIOUS
  <2> QED BY <2>1, BestIsNatural, Zenon DEF IsSizes
<1>2. PICK mix \in [sizes -> 0 .. capacity] : ScuOf(mix) = scu
  <2>1. capacity \in 0 .. capacity
    OBVIOUS
  <2> QED BY <1>1, <2>1, SomeMixIsAsFull, Zenon
<1>3. mix \in [sizes -> Nat] /\ scu \in 0 .. scu /\ scu \in Nat /\ ScuOf(mix) <= scu
  BY <1>2
<1>4. scu <= Best(scu, sizes)[scu]
  BY <1>2, <1>3, NothingIsFuller
<1>5. Best(scu, sizes)[scu] \in 0 .. scu
  BY <1>3, BestIsNatural DEF IsSizes
<1>6. Best(scu, sizes)[scu] = scu
  BY <1>3, <1>4, <1>5
<1> QED BY <1>1, <1>3, <1>6, BestIsFullest

(*-------------------------- folds over sequences -------------------------*)

(* A fold whose step keeps to a set of values, written as a function: it   *)
(* takes the elements one after the other.                                 *)
Folds(iter, base, step, seq, F) ==
    iter = [T \in F |-> IF T = {} THEN base ELSE step[<<iter[T \ {Max(T)}], seq[Max(T)]>>]]

LEMMA LastOfInterval ==
    ASSUME NEW n \in Nat, NEW T \in SUBSET (1 .. n), T # {}
    PROVE  Max(T) \in T
<1>1. T \in SUBSET Nat /\ \A i \in T : i <= n
  OBVIOUS
<1> QED BY <1>1, MaxIsMax

LEMMA FoldExists ==
    ASSUME NEW V, NEW X, NEW base \in V, NEW step \in [V \X X -> V], NEW seq \in Seq(X)
    PROVE  \E iter : /\ Folds(iter, base, step, seq, SUBSET DOMAIN seq)
                     /\ iter \in [SUBSET DOMAIN seq -> V]
<1> DEFINE n == Len(seq)
           S == 1 .. n
           UpTo(c) == {T \in SUBSET S : Cardinality(T) <= c}
           Solved(c) == \E iter : Folds(iter, base, step, seq, UpTo(c)) /\ iter \in [UpTo(c) -> V]
           Unsolved == {c \in Nat : ~ Solved(c)}
<1>1. n \in Nat /\ DOMAIN seq = S /\ \A i \in S : seq[i] \in X
  OBVIOUS
<1> HIDE DEF n
<1>2. IsFiniteSet(S)
  BY <1>1, FS_Interval
<1>3. \A T \in SUBSET S : IsFiniteSet(T) /\ Cardinality(T) \in Nat /\ Cardinality(T) <= Cardinality(S)
  BY <1>2, FS_Subset, FS_CardinalityType
<1>4. Cardinality(S) \in Nat /\ UpTo(Cardinality(S)) = SUBSET S
  BY <1>2, <1>3, FS_CardinalityType
<1>5. ASSUME NEW T \in SUBSET S, T # {}
      PROVE  /\ Max(T) \in T /\ seq[Max(T)] \in X /\ T \ {Max(T)} \in SUBSET S
             /\ Cardinality(T \ {Max(T)}) = Cardinality(T) - 1
  <2>1. Max(T) \in T
    BY <1>1, <1>5, LastOfInterval
  <2>2. IsFiniteSet(T)
    BY <1>3
  <2>3. Cardinality(T \ {Max(T)}) = Cardinality(T) - 1
    BY <2>1, <2>2, FS_RemoveElement
  <2> QED BY <1>1, <2>1, <2>3
<1> SUFFICES ASSUME Unsolved # {} PROVE FALSE
  <2>1. CASE Unsolved = {}
    <3>1. Solved(Cardinality(S))
      <4> HIDE DEF Solved
      <4> QED BY <1>4, <2>1
    <3> QED BY <1>1, <1>4, <3>1, Zenon
  <2> QED BY <2>1, Zenon
<1>6. PICK c \in Unsolved : \A k \in Nat : k < c => k \notin Unsolved
  <2>1. Unsolved \in SUBSET Nat
    OBVIOUS
  <2> HIDE DEF Unsolved
  <2> QED BY <2>1, OneIsFirst
<1>7. c # 0
  <2>1. UpTo(0) = {{}}
    BY <1>3, FS_EmptySet
  <2>2. Folds([T \in UpTo(0) |-> base], base, step, seq, UpTo(0)) /\ [T \in UpTo(0) |-> base] \in [UpTo(0) -> V]
    BY <2>1 DEF Folds
  <2>3. Solved(0)
    BY <2>2, Zenon
  <2> QED BY <1>6, <2>3
<1>8. PICK h : Folds(h, base, step, seq, UpTo(c - 1)) /\ h \in [UpTo(c - 1) -> V]
  <2>1. c - 1 \in Nat /\ c - 1 < c
    BY <1>6, <1>7
  <2> QED BY <1>6, <2>1
<1> DEFINE Value(g, T) == IF T = {} THEN base ELSE step[<<g[T \ {Max(T)}], seq[Max(T)]>>]
           g0 == [T \in UpTo(c) |-> IF T \in UpTo(c - 1) THEN h[T] ELSE Value(h, T)]
<1>9. c \in Nat /\ UpTo(c - 1) \subseteq UpTo(c)
  BY <1>3, <1>6
<1>10. ASSUME NEW T \in UpTo(c), T # {} PROVE T \ {Max(T)} \in UpTo(c - 1)
  BY <1>3, <1>5, <1>9, <1>10
<1>11. ASSUME NEW T \in UpTo(c) PROVE Value(g0, T) = Value(h, T)
  <2>1. CASE T = {}
    BY <2>1
  <2>2. CASE T # {}
    <3>1. T \ {Max(T)} \in UpTo(c - 1)
      BY <1>10, <2>2
    <3>2. g0[T \ {Max(T)}] = h[T \ {Max(T)}]
      BY <3>1, <1>9
    <3> HIDE DEF g0
    <3> QED BY <3>2, <2>2
  <2> QED BY <2>1, <2>2
<1>12. ASSUME NEW T \in UpTo(c) PROVE g0[T] = Value(g0, T)
  <2>1. CASE T \in UpTo(c - 1)
    <3>1. h[T] = Value(h, T)
      BY <1>8, <2>1 DEF Folds
    <3>2. g0[T] = h[T]
      BY <2>1
    <3> HIDE DEF g0, Value
    <3> QED BY <1>11, <3>1, <3>2
  <2>2. CASE T \notin UpTo(c - 1)
    <3>1. g0[T] = Value(h, T)
      BY <2>2
    <3> HIDE DEF g0, Value
    <3> QED BY <1>11, <3>1
  <2> QED BY <2>1, <2>2
<1>13. ASSUME NEW T \in UpTo(c) PROVE Value(h, T) \in V
  <2>1. CASE T = {}
    BY <2>1
  <2>2. CASE T # {}
    <3>1. T \ {Max(T)} \in UpTo(c - 1) /\ seq[Max(T)] \in X
      <4>1. T \in SUBSET S
        OBVIOUS
      <4> QED BY <1>5, <1>10, <2>2, <4>1
    <3>2. h[T \ {Max(T)}] \in V
      BY <1>8, <3>1
    <3> QED BY <2>2, <3>1, <3>2
  <2> QED BY <2>1, <2>2
<1>14. g0 \in [UpTo(c) -> V]
  BY <1>8, <1>13
<1>15. Folds(g0, base, step, seq, UpTo(c))
  <2>1. g0 = [T \in UpTo(c) |-> g0[T]]
    OBVIOUS
  <2> HIDE DEF g0
  <2> QED BY <1>12, <2>1 DEF Folds
<1> QED BY <1>6, <1>14, <1>15

(* What it has made of the first k elements. *)
Made(made, base, step, seq) ==
    made[0] = base /\ \A k \in 1 .. Len(seq) : made[k] = step[<<made[k - 1], seq[k]>>]

IsFold(V, X, base, step, seq, iter) ==
    /\ base \in V /\ step \in [V \X X -> V] /\ seq \in Seq(X)
    /\ Folds(iter, base, step, seq, SUBSET DOMAIN seq)
LEMMA FoldGoesLeftToRight ==
    ASSUME NEW V, NEW X, NEW base, NEW step, NEW seq, NEW iter, IsFold(V, X, base, step, seq, iter)
    PROVE  \E made \in [0 .. Len(seq) -> V] :
             Made(made, base, step, seq) /\ made[Len(seq)] = iter[DOMAIN seq]
<1> USE DEF IsFold
<1> DEFINE n == Len(seq)
           made == [k \in 0 .. n |-> iter[1 .. k]]
<1>1. n \in Nat /\ DOMAIN seq = 1 .. n /\ \A i \in 1 .. n : seq[i] \in X
  OBVIOUS
<1> HIDE DEF n
<1>2. \A T \in SUBSET (1 .. n) : iter[T] = IF T = {} THEN base ELSE step[<<iter[T \ {Max(T)}], seq[Max(T)]>>]
  BY <1>1 DEF Folds
<1>3. made[0] = base
  <2>1. 1 .. 0 = {} /\ {} \in SUBSET (1 .. n) /\ 0 \in 0 .. n
    BY <1>1
  <2>2. made[0] = iter[1 .. 0] /\ iter[{}] = base
    BY <1>2, <2>1, Zenon
  <2> QED BY <2>1, <2>2
<1>4. ASSUME NEW k \in 1 .. n PROVE made[k] = step[<<made[k - 1], seq[k]>>]
  <2>0. k \in 1 .. k
    BY <1>1
  <2>1. 1 .. k \in SUBSET (1 .. n) /\ 1 .. k # {} /\ k \in 1 .. k
    BY <1>1, <2>0
  <2>2. Max(1 .. k) = k
    <3>1. 1 .. k \in SUBSET Nat /\ \A j \in 1 .. k : j <= k
      OBVIOUS
    <3> QED BY <2>1, <3>1, MaxIs
  <2>3. (1 .. k) \ {k} = 1 .. (k - 1)
    OBVIOUS
  <2>4. iter[1 .. k] = step[<<iter[1 .. (k - 1)], seq[k]>>]
    BY <1>2, <2>1, <2>2, <2>3
  <2>5. k \in 0 .. n /\ k - 1 \in 0 .. n
    BY <1>1
  <2> QED BY <2>4, <2>5
<1>5. \A k \in 0 .. n : made[k] \in V
  <2> DEFINE Bad == {k \in 0 .. n : made[k] \notin V}
  <2> HIDE DEF made
  <2> SUFFICES ASSUME Bad # {} PROVE FALSE
    OBVIOUS
  <2>1. PICK k \in Bad : \A j \in Nat : j < k => j \notin Bad
    <3>1. Bad \in SUBSET Nat
      OBVIOUS
    <3> HIDE DEF Bad
    <3> QED BY <3>1, OneIsFirst
  <2>2. k # 0
    BY <1>3, <2>1
  <2>3. k \in 1 .. n /\ k - 1 \in 0 .. n /\ k - 1 < k /\ k - 1 \in Nat
    BY <1>1, <2>1, <2>2
  <2>4. made[k - 1] \in V
    BY <2>1, <2>3
  <2>5. made[k] = step[<<made[k - 1], seq[k]>>] /\ seq[k] \in X
    BY <1>1, <1>4, <2>3
  <2>6. made[k] \in V
    BY <2>4, <2>5
  <2> QED BY <2>1, <2>6
<1>6. made \in [0 .. n -> V]
  <2>1. made = [k \in 0 .. n |-> made[k]]
    OBVIOUS
  <2> HIDE DEF made
  <2> QED BY <1>5, <2>1
<1>7. made[n] = iter[DOMAIN seq]
  BY <1>1
<1>8. Made(made, base, step, seq)
  <2> HIDE DEF made
  <2> QED BY <1>3, <1>4 DEF Made, n
<1> HIDE DEF made
<1> QED BY <1>6, <1>7, <1>8 DEF n

(* Only keeps the elements of S, in their order.                           *)
OnlyStep(X, S) == [p \in Seq(X) \X X |-> IF p[2] \in S THEN Append(p[1], p[2]) ELSE p[1]]

Keeps(kept, X, S, seq) ==
    /\ kept \in [0 .. Len(seq) -> Seq(X)]
    /\ Only(seq, S) = kept[Len(seq)]
    /\ kept[0] = <<>>
    /\ \A k \in 1 .. Len(seq) : kept[k] = IF seq[k] \in S THEN Append(kept[k - 1], seq[k]) ELSE kept[k - 1]
LEMMA OnlyIsAFold ==
    ASSUME NEW X, NEW S, NEW seq \in Seq(X)
    PROVE  \E kept : Keeps(kept, X, S, seq)
<1> DEFINE step == OnlyStep(X, S)
           IsIter(iter) == iter = [T \in SUBSET DOMAIN seq |->
               IF T = {} THEN <<>>
               ELSE IF seq[Max(T)] \in S THEN Append(iter[T \ {Max(T)}], seq[Max(T)]) ELSE iter[T \ {Max(T)}]]
           it == CHOOSE iter : IsIter(iter)
<1>1. Only(seq, S) = it[DOMAIN seq]
  BY Zenon DEF Only, FoldLeft, MapThenFoldSet
<1>2. step \in [Seq(X) \X X -> Seq(X)] /\ <<>> \in Seq(X)
  BY DEF OnlyStep
<1>3. \A s \in Seq(X), x \in X : step[<<s, x>>] = IF x \in S THEN Append(s, x) ELSE s
  BY DEF OnlyStep
<1> HIDE DEF step
<1>4. \A T \in SUBSET DOMAIN seq : T # {} => seq[Max(T)] \in X
  <2>1. Len(seq) \in Nat /\ DOMAIN seq = 1 .. Len(seq) /\ \A i \in DOMAIN seq : seq[i] \in X
    OBVIOUS
  <2> QED BY <2>1, LastOfInterval
<1>5. PICK iter \in [SUBSET DOMAIN seq -> Seq(X)] : Folds(iter, <<>>, step, seq, SUBSET DOMAIN seq)
  BY <1>2, FoldExists
<1>6. IsIter(iter)
  <2>1. ASSUME NEW T \in SUBSET DOMAIN seq
        PROVE iter[T] = IF T = {} THEN <<>>
               ELSE IF seq[Max(T)] \in S THEN Append(iter[T \ {Max(T)}], seq[Max(T)]) ELSE iter[T \ {Max(T)}]
    <3>1. iter[T] = IF T = {} THEN <<>> ELSE step[<<iter[T \ {Max(T)}], seq[Max(T)]>>]
      BY <1>5 DEF Folds
    <3>2. iter[T \ {Max(T)}] \in Seq(X)
      OBVIOUS
    <3> QED BY <1>3, <1>4, <3>1, <3>2
  <2> QED BY <2>1
<1>7. IsIter(it)
  BY <1>6, Zenon
<1> HIDE DEF it
<1>8. ASSUME NEW T \in SUBSET DOMAIN seq PROVE it[T] \in Seq(X)
  <2> DEFINE Bad == {U \in SUBSET DOMAIN seq : it[U] \notin Seq(X)}
  <2>1. CASE Bad = {}
    BY <2>1
  <2>2. CASE Bad # {}
    <3>1. IsFiniteSet(DOMAIN seq)
      BY FS_Interval
    <3>2. PICK U \in Bad : \A x \in U : U \ {x} \notin Bad
      <4>1. Bad \in SUBSET (SUBSET DOMAIN seq)
        OBVIOUS
      <4> HIDE DEF Bad
      <4> QED BY <2>2, <3>1, <4>1, OneIsSmallest
    <3>3. U # {}
      BY <1>2, <1>7, <3>2
    <3>4. Max(U) \in U
      <4>1. Len(seq) \in Nat /\ DOMAIN seq = 1 .. Len(seq)
        OBVIOUS
      <4> QED BY <3>2, <3>3, <4>1, LastOfInterval
    <3>5. it[U \ {Max(U)}] \in Seq(X)
      BY <3>2, <3>4
    <3>6. seq[Max(U)] \in X
      BY <1>4, <3>2, <3>3
    <3>7. it[U] = IF seq[Max(U)] \in S THEN Append(it[U \ {Max(U)}], seq[Max(U)]) ELSE it[U \ {Max(U)}]
      BY <1>7, <3>2, <3>3
    <3>8. it[U] \in Seq(X)
      BY <3>5, <3>6, <3>7
    <3> QED BY <3>2, <3>8
  <2> QED BY <2>1, <2>2
<1>9. Folds(it, <<>>, step, seq, SUBSET DOMAIN seq)
  <2>1. ASSUME NEW T \in SUBSET DOMAIN seq
        PROVE it[T] = IF T = {} THEN <<>> ELSE step[<<it[T \ {Max(T)}], seq[Max(T)]>>]
    <3>1. it[T \ {Max(T)}] \in Seq(X)
      BY <1>8
    <3> QED BY <1>3, <1>4, <1>7, <3>1
  <2>2. it = [T \in SUBSET DOMAIN seq |-> it[T]]
    BY <1>7
  <2> QED BY <2>1, <2>2 DEF Folds
<1>10. PICK made \in [0 .. Len(seq) -> Seq(X)] :
           Made(made, <<>>, step, seq) /\ made[Len(seq)] = it[DOMAIN seq]
  <2>1. IsFold(Seq(X), X, <<>>, step, seq, it)
    BY <1>2, <1>9 DEF IsFold
  <2> QED BY <2>1, FoldGoesLeftToRight
<1>11. made[0] = <<>>
  BY <1>10 DEF Made
<1>12. ASSUME NEW k \in 1 .. Len(seq)
       PROVE  made[k] = IF seq[k] \in S THEN Append(made[k - 1], seq[k]) ELSE made[k - 1]
  <2>1. made[k - 1] \in Seq(X) /\ seq[k] \in X
    OBVIOUS
  <2> QED BY <1>3, <1>10, <2>1 DEF Made
<1>13. Keeps(made, X, S, seq)
  BY <1>1, <1>10, <1>11, <1>12 DEF Keeps
<1> QED BY <1>13

LEMMA LastOfFinite ==
    ASSUME NEW T \in SUBSET Nat, IsFiniteSet(T), T # {}
    PROVE  \E m \in T : \A j \in T : j <= m
<1> DEFINE HasLast(U) == U # {} => \E m \in U : \A j \in U : j <= m
           Bad == {U \in SUBSET T : ~HasLast(U)}
<1>1. Bad = {}
  <2> SUFFICES ASSUME Bad # {} PROVE FALSE
    OBVIOUS
  <2>1. PICK U \in Bad : \A x \in U : U \ {x} \notin Bad
    <3>1. Bad \in SUBSET (SUBSET T)
      OBVIOUS
    <3> HIDE DEF Bad
    <3> QED BY <3>1, OneIsSmallest
  <2>2. PICK x \in U : TRUE
    BY <2>1
  <2>3. U \ {x} \in SUBSET T /\ U \in SUBSET Nat /\ x \in Nat
    BY <2>1
  <2>4. HasLast(U \ {x})
    BY <2>1, <2>3
  <2>5. CASE U \ {x} = {}
    <3>1. \A j \in U : j <= x
      BY <2>3, <2>5
    <3>2. HasLast(U)
      BY <3>1
    <3> QED BY <2>1, <3>2
  <2>6. CASE U \ {x} # {}
    <3>1. PICK m \in U \ {x} : \A j \in U \ {x} : j <= m
      BY <2>4, <2>6
    <3>2. m \in Nat /\ m \in U
      BY <2>3
    <3>3. CASE x <= m
      <4>1. \A j \in U : j <= m
        BY <3>1, <3>3
      <4>2. HasLast(U)
        BY <3>2, <4>1
      <4> QED BY <2>1, <4>2
    <3>4. CASE m <= x
      <4>1. ASSUME NEW j \in U PROVE j <= x
        <5>1. j \in Nat
          BY <2>3
        <5> QED BY <2>3, <3>1, <3>2, <3>4, <5>1
      <4>2. HasLast(U)
        BY <4>1
      <4> QED BY <2>1, <4>2
    <3> QED BY <2>3, <3>2, <3>3, <3>4
  <2> QED BY <2>5, <2>6
<1>2. HasLast(T)
  BY <1>1
<1> QED BY <1>2

LEMMA OnlyKeepsThose ==
    ASSUME NEW X, NEW S, NEW seq \in Seq(X)
    PROVE  Only(seq, S) \in Seq(X \cap S)
<1> DEFINE n == Len(seq)
<1>0. PICK made : Keeps(made, X, S, seq)
  BY OnlyIsAFold, Zenon
<1>1. /\ made \in [0 .. n -> Seq(X)]
      /\ Only(seq, S) = made[n] /\ made[0] = <<>>
      /\ \A k \in 1 .. n : made[k] = IF seq[k] \in S THEN Append(made[k - 1], seq[k]) ELSE made[k - 1]
  BY <1>0, Zenon DEF Keeps
<1>2. n \in Nat /\ \A k \in 1 .. n : seq[k] \in X
  OBVIOUS
<1> HIDE DEF n
<1> DEFINE Bad == {k \in 0 .. n : made[k] \notin Seq(X \cap S)}
<1>3. Bad = {}
  <2> SUFFICES ASSUME Bad # {} PROVE FALSE
    OBVIOUS
  <2>1. PICK k \in Bad : \A j \in Nat : j < k => j \notin Bad
    <3>1. Bad \in SUBSET Nat
      OBVIOUS
    <3> HIDE DEF Bad
    <3> QED BY <3>1, OneIsFirst
  <2>2. k # 0
    BY <1>1, <2>1
  <2>3. k \in 1 .. n /\ k - 1 \in 0 .. n /\ k - 1 < k /\ k - 1 \in Nat
    BY <1>2, <2>1, <2>2
  <2>4. made[k - 1] \in Seq(X \cap S) /\ seq[k] \in X
    BY <1>2, <2>1, <2>3
  <2>5. made[k] \in Seq(X \cap S)
    <3>1. made[k] = IF seq[k] \in S THEN Append(made[k - 1], seq[k]) ELSE made[k - 1]
      BY <1>1, <2>3
    <3>2. CASE seq[k] \in S
      <4>1. seq[k] \in X \cap S
        BY <2>4, <3>2
      <4> QED BY <2>4, <3>1, <3>2, <4>1
    <3>3. CASE seq[k] \notin S
      BY <2>4, <3>1, <3>3
    <3> QED BY <3>2, <3>3
  <2> QED BY <2>1, <2>5
<1>4. n \in 0 .. n
  BY <1>2
<1> QED BY <1>1, <1>3, <1>4

(* When all are to be kept none is lost, and when none is left none was to *)
(* be kept.                                                                *)
LEMMA OnlyCounts ==
    ASSUME NEW X, NEW S, NEW seq \in Seq(X)
    PROVE  /\ (\A k \in 1 .. Len(seq) : seq[k] \in S) => Len(Only(seq, S)) = Len(seq)
           /\ Only(seq, S) = <<>> => \A k \in 1 .. Len(seq) : seq[k] \notin S
<1> DEFINE n == Len(seq)
<1>0. PICK made : Keeps(made, X, S, seq)
  BY OnlyIsAFold, Zenon
<1>1. /\ made \in [0 .. n -> Seq(X)]
      /\ Only(seq, S) = made[n] /\ made[0] = <<>>
      /\ \A k \in 1 .. n : made[k] = IF seq[k] \in S THEN Append(made[k - 1], seq[k]) ELSE made[k - 1]
  BY <1>0, Zenon DEF Keeps
<1>2. n \in Nat /\ (\A k \in 1 .. n : seq[k] \in X) /\ n \in 0 .. n /\ \A k \in 0 .. n : Len(made[k]) \in Nat
  BY <1>1
<1> HIDE DEF n
<1> DEFINE Kept(k) == /\ (\A j \in 1 .. k : seq[j] \in S) => Len(made[k]) = k
                      /\ Len(made[k]) = 0 => \A j \in 1 .. k : seq[j] \notin S
           Bad == {k \in 0 .. n : ~Kept(k)}
<1>3. Bad = {}
  <2> SUFFICES ASSUME Bad # {} PROVE FALSE
    OBVIOUS
  <2>1. PICK k \in Bad : \A j \in Nat : j < k => j \notin Bad
    <3>1. Bad \in SUBSET Nat
      OBVIOUS
    <3> HIDE DEF Bad
    <3> QED BY <3>1, OneIsFirst
  <2>2. k # 0
    <3>1. Kept(0)
      BY <1>1
    <3> QED BY <2>1, <3>1
  <2>3. k \in 1 .. n /\ k - 1 \in 0 .. n /\ k - 1 < k /\ k - 1 \in Nat
    BY <1>2, <2>1, <2>2
  <2>4. Kept(k - 1)
    BY <2>1, <2>3
  <2>5. made[k - 1] \in Seq(X) /\ seq[k] \in X
    BY <1>1, <1>2, <2>3
  <2>6. \A j \in 1 .. k : j = k \/ j \in 1 .. (k - 1)
    BY <2>3
  <2>7. k \in 1 .. k /\ \A j \in 1 .. (k - 1) : j \in 1 .. k
    BY <2>3
  <2>8. CASE seq[k] \in S
    <3>1. Len(made[k]) = Len(made[k - 1]) + 1
      <4>1. made[k] = Append(made[k - 1], seq[k])
        BY <1>1, <2>3, <2>8, Zenon
      <4>2. Len(Append(made[k - 1], seq[k])) = Len(made[k - 1]) + 1
        BY <2>5
      <4> QED BY <4>1, <4>2
    <3>2. Len(made[k]) # 0
      BY <2>5, <3>1
    <3>3. (\A j \in 1 .. k : seq[j] \in S) => Len(made[k]) = k
      BY <2>3, <2>4, <2>7, <3>1
    <3>4. Kept(k)
      BY <3>2, <3>3
    <3> QED BY <2>1, <3>4
  <2>9. CASE seq[k] \notin S
    <3>1. made[k] = made[k - 1]
      BY <1>1, <2>3, <2>9
    <3>2. Kept(k)
      BY <2>4, <2>6, <2>7, <2>9, <3>1
    <3> QED BY <2>1, <3>2
  <2> QED BY <2>8, <2>9
<1>4. Kept(n)
  BY <1>2, <1>3
<1> QED BY <1>1, <1>4 DEF n

(*------------------------ flattening and ordering ------------------------*)

Flattens(f, seqs, n) == f = [i \in 1 .. n |-> IF i = 1 THEN seqs[i] ELSE f[i - 1] \o seqs[i]]

LEMMA FlattenExists ==
    ASSUME NEW seqs, NEW n \in Nat
    PROVE  \E f : Flattens(f, seqs, n)
<1> DEFINE Unsolved == {c \in Nat : ~ \E f : Flattens(f, seqs, c)}
<1> SUFFICES ASSUME Unsolved # {} PROVE FALSE
  OBVIOUS
<1>1. PICK c \in Unsolved : \A k \in Nat : k < c => k \notin Unsolved
  BY OneIsFirst
<1>2. c # 0
  <2>1. Flattens([i \in 1 .. 0 |-> 0], seqs, 0)
    BY DEF Flattens
  <2> QED BY <1>1, <2>1
<1>3. PICK f : Flattens(f, seqs, c - 1)
  BY <1>1, <1>2
<1>4. \A i \in 1 .. (c - 1) : f[i] = IF i = 1 THEN seqs[i] ELSE f[i - 1] \o seqs[i]
  BY <1>3 DEF Flattens
<1> DEFINE g == [i \in 1 .. c |-> IF i < c THEN f[i] ELSE IF i = 1 THEN seqs[i] ELSE f[i - 1] \o seqs[i]]
<1>5. ASSUME NEW i \in 1 .. c PROVE g[i] = IF i = 1 THEN seqs[i] ELSE g[i - 1] \o seqs[i]
  <2>1. CASE i = 1
    BY <1>1, <1>4, <2>1
  <2>2. CASE i # 1
    <3>1. i - 1 \in 1 .. c /\ i - 1 < c /\ (i < c => i \in 1 .. (c - 1))
      BY <1>1, <2>2
    <3>2. g[i - 1] = f[i - 1]
      BY <3>1
    <3>3. g[i] = f[i - 1] \o seqs[i]
      BY <1>1, <1>4, <2>2, <3>1
    <3> HIDE DEF g
    <3> QED BY <2>2, <3>2, <3>3
  <2> QED BY <2>1, <2>2
<1>6. Flattens(g, seqs, c)
  <2>1. g = [i \in 1 .. c |-> g[i]]
    OBVIOUS
  <2> HIDE DEF g
  <2> QED BY <1>5, <2>1 DEF Flattens
<1> QED BY <1>1, <1>6

LEMMA FlattenIsASequence ==
    ASSUME NEW X, NEW seqs \in Seq(Seq(X))
    PROVE  FlattenSeq(seqs) \in Seq(X)
<1> DEFINE n == Len(seqs)
           f == CHOOSE g : Flattens(g, seqs, n)
<1>1. n \in Nat /\ \A i \in 1 .. n : seqs[i] \in Seq(X)
  OBVIOUS
<1>2. CASE n = 0
  <2>1. FlattenSeq(seqs) = seqs
    BY <1>2, Zenon DEF FlattenSeq
  <2>2. seqs = <<>>
    BY <1>2
  <2> QED BY <2>1, <2>2
<1>3. CASE n # 0
  <2>1. FlattenSeq(seqs) = f[n]
    BY <1>3, Zenon DEF FlattenSeq, Flattens
  <2> HIDE DEF n
  <2>2. Flattens(f, seqs, n)
    BY <1>1, FlattenExists, Zenon
  <2> HIDE DEF f
  <2>3. \A i \in 1 .. n : f[i] = IF i = 1 THEN seqs[i] ELSE f[i - 1] \o seqs[i]
    BY <2>2 DEF Flattens
  <2> DEFINE Bad == {k \in 1 .. n : f[k] \notin Seq(X)}
  <2>4. Bad = {}
    <3> SUFFICES ASSUME Bad # {} PROVE FALSE
      OBVIOUS
    <3>1. PICK k \in Bad : \A j \in Nat : j < k => j \notin Bad
      <4>1. Bad \in SUBSET Nat
        OBVIOUS
      <4> HIDE DEF Bad
      <4> QED BY <4>1, OneIsFirst
    <3>2. CASE k = 1
      BY <1>1, <2>3, <3>1, <3>2
    <3>3. CASE k # 1
      <4>1. k - 1 \in 1 .. n /\ k - 1 < k /\ k - 1 \in Nat
        BY <1>1, <3>1, <3>3
      <4>2. f[k - 1] \in Seq(X) /\ seqs[k] \in Seq(X)
        BY <1>1, <3>1, <4>1
      <4>3. f[k] = f[k - 1] \o seqs[k]
        BY <2>3, <3>1, <3>3
      <4>4. f[k] \in Seq(X)
        BY <4>2, <4>3
      <4> QED BY <3>1, <4>4
    <3> QED BY <3>2, <3>3
  <2>5. n \in 1 .. n
    BY <1>1, <1>3
  <2> QED BY <2>1, <2>4, <2>5
<1> QED BY <1>2, <1>3

LEMMA SetToSeqIsASequence ==
    ASSUME NEW S, IsFiniteSet(S)
    PROVE  SetToSeq(S) \in Seq(S)
<1>1. PICK n \in Nat : ExistsBijection(1 .. n, S)
  BY FS_NatBijection
<1>2. Cardinality(S) = n
  BY <1>1, FS_CountingElements
<1>3. PICK f \in Bijection(1 .. n, S) : TRUE
  BY <1>1 DEF ExistsBijection
<1>4. f \in [1 .. n -> S] /\ IsInjective(f)
  BY <1>3 DEF Bijection, Injection, IsInjective
<1>5. SetToSeq(S) \in [1 .. n -> S]
  BY <1>2, <1>4, Zenon DEF SetToSeq
<1> QED BY <1>5

(* The i-th of the entries is there. *)
LEMMA SomeIsTheNext ==
    ASSUME NEW S \in SUBSET Nat, IsFiniteSet(S), NEW i \in 1 .. Cardinality(S)
    PROVE  \E e \in S : Cardinality({ d \in S : d <= e }) = i
<1> DEFINE Ranks(T) == \A k \in 1 .. Cardinality(T) : \E e \in T : Cardinality({ d \in T : d <= e }) = k
           Bad == {T \in SUBSET S : ~Ranks(T)}
<1>1. \A T \in SUBSET S : IsFiniteSet(T) /\ Cardinality(T) \in Nat
  BY FS_Subset, FS_CardinalityType
<1>2. Bad = {}
  <2> SUFFICES ASSUME Bad # {} PROVE FALSE
    OBVIOUS
  <2>1. PICK T \in Bad : \A x \in T : T \ {x} \notin Bad
    <3>1. Bad \in SUBSET (SUBSET S)
      OBVIOUS
    <3> HIDE DEF Bad
    <3> QED BY <3>1, OneIsSmallest
  <2>2. PICK k \in 1 .. Cardinality(T) : \A e \in T : Cardinality({ d \in T : d <= e }) # k
    BY <2>1
  <2>3. IsFiniteSet(T) /\ Cardinality(T) \in Nat /\ T \in SUBSET Nat
    BY <1>1, <2>1
  <2>4. T # {}
    BY <2>2, FS_EmptySet
  <2>5. PICK m \in T : \A j \in T : j <= m
    BY <2>3, <2>4, LastOfFinite
  <2>6. CASE k = Cardinality(T)
    <3>1. { d \in T : d <= m } = T
      BY <2>5
    <3> QED BY <2>2, <2>6, <3>1
  <2>7. CASE k # Cardinality(T)
    <3>1. Cardinality(T \ {m}) = Cardinality(T) - 1
      BY <2>3, FS_RemoveElement
    <3>2. k \in 1 .. Cardinality(T \ {m})
      BY <2>2, <2>3, <2>7, <3>1
    <3>3. Ranks(T \ {m})
      BY <2>1
    <3>4. PICK e \in T \ {m} : Cardinality({ d \in T \ {m} : d <= e }) = k
      BY <3>2, <3>3
    <3>5. { d \in T \ {m} : d <= e } = { d \in T : d <= e }
      <4>1. e \in Nat /\ m \in Nat /\ e <= m /\ e # m
        BY <2>3, <2>5
      <4>2. ~(m <= e)
        BY <4>1
      <4> QED BY <4>2
    <3> QED BY <2>2, <3>4, <3>5
  <2> QED BY <2>6, <2>7
<1>3. Ranks(S)
  BY <1>2
<1> QED BY <1>3

LEMMA InOrderIsASequence ==
    ASSUME NEW S \in SUBSET Nat, IsFiniteSet(S)
    PROVE  InOrder(S) \in Seq(S)
<1>1. Cardinality(S) \in Nat
  BY FS_CardinalityType
<1>2. \A i \in 1 .. Cardinality(S) : InOrder(S)[i] \in S
  BY SomeIsTheNext DEF InOrder
<1>3. InOrder(S) \in [1 .. Cardinality(S) -> S]
  BY <1>2 DEF InOrder
<1> QED BY <1>1, <1>3

(*----------------------------- names and ships ---------------------------*)

LEMMA EntriesAreNumbers == Entries \in SUBSET Nat /\ Nothing \notin Entries /\ IsFiniteSet(Entries)
<1>1. Len(Catalogue) \in Nat /\ Entries = 1 .. Len(Catalogue)
  BY CatalogueAssumption DEF Entries
<1> QED BY <1>1, FS_Interval DEF Nothing

LEMMA FirstIsThere ==
    ASSUME NEW S \in SUBSET Nat, S # {}
    PROVE  First(S) \in S
<1>1. PICK n \in S : \A k \in Nat : k < n => k \notin S
  BY OneIsFirst
<1>2. \A y \in S : n <= y
  BY <1>1
<1>3. \E x \in S : \A y \in S : x <= y
  BY <1>2
<1> QED BY <1>3, Zenon DEF First, Min

(* A name means an entry of the pool, or nothing.                          *)
LEMMA FoundIsOfThePool ==
    ASSUME NEW h, NEW pool \in SUBSET Entries
    PROVE  resolve_or_hedge(h, pool).found \in pool \cup {Nothing}
<1> DEFINE exact == _exact_name_matches(h, pool)
           winners == _top_matches(h, pool)
           contained == _contained_matches(h, pool)
           targets == Misheard(h, pool)
           sounds_like == _phonetic_match(h, pool)
<1>1. ASSUME NEW S \in SUBSET pool, S # {} PROVE First(S) \in pool
  BY <1>1, FirstIsThere, EntriesAreNumbers
<1>2. exact \subseteq pool /\ winners \subseteq pool /\ contained \subseteq pool /\ targets \subseteq pool
  BY DEF _exact_name_matches, _top_matches, _contained_matches, Misheard
<1>3. sounds_like \subseteq pool
  BY DEF _phonetic_match
<1>4. \A S : Cardinality(S) = 1 => S # {}
  BY FS_EmptySet
<1>5. resolve_or_hedge(h, pool) \in {Found(First(S)) : S \in (SUBSET pool) \ {{}}} \cup {Hedge(S) : S \in SUBSET pool}
  <2> HIDE DEF exact, winners, contained, targets, sounds_like
  <2>1. CASE exact # {}
    <3>1. resolve_or_hedge(h, pool) = Found(First(exact))
      BY <2>1 DEF resolve_or_hedge, exact
    <3> QED BY <1>2, <2>1, <3>1
  <2>2. CASE exact = {} /\ Cardinality(winners) = 1 /\ BestScore(h, pool) >= LOW_CONFIDENCE_MAX
    <3>1. resolve_or_hedge(h, pool) = Found(First(winners))
      BY <2>2 DEF resolve_or_hedge, exact, winners
    <3> QED BY <1>2, <1>4, <2>2, <3>1
  <2>3. CASE exact = {} /\ ~(Cardinality(winners) = 1 /\ BestScore(h, pool) >= LOW_CONFIDENCE_MAX)
    <3>1. resolve_or_hedge(h, pool) =
               IF Cardinality(contained) = 1 THEN Found(First(contained))
               ELSE IF contained # {} THEN Hedge(contained)
               ELSE IF targets # {} THEN Found(First(targets))
               ELSE IF sounds_like # {} THEN Found(First(sounds_like))
               ELSE IF Cardinality(winners) > 1 THEN Hedge(winners) ELSE Unknown
      BY <2>3 DEF resolve_or_hedge, exact, winners, contained, targets, sounds_like
    <3> QED BY <1>2, <1>3, <1>4, <3>1 DEF Unknown
  <2> QED BY <2>1, <2>2, <2>3
<1>6. CASE \E S \in (SUBSET pool) \ {{}} : resolve_or_hedge(h, pool) = Found(First(S))
  BY <1>1, <1>6 DEF Found
<1>7. CASE \E S \in SUBSET pool : resolve_or_hedge(h, pool) = Hedge(S)
  BY <1>7 DEF Hedge
<1> QED BY <1>5, <1>6, <1>7

(* The ship of a search has a hold.                                        *)
LEMMA HaulersHaul ==
    ASSUME NEW h, resolve_cargo_ship(h).found # Nothing
    PROVE  /\ resolve_cargo_ship(h).found \in cargo_capable_vehicles
           /\ Get(resolve_cargo_ship(h).found, "scu") \in Nat \ {0}
<1>1. cargo_capable_vehicles \in SUBSET Entries
  BY DEF cargo_capable_vehicles, OfKind
<1>2. resolve_or_hedge(h, cargo_capable_vehicles).found \in cargo_capable_vehicles \cup {Nothing}
  BY <1>1, FoundIsOfThePool
<1>3. resolve_cargo_ship(h).found \in {resolve_or_hedge(h, cargo_capable_vehicles).found, Nothing}
  BY DEF resolve_cargo_ship, Unknown, Hedge
<1>4. resolve_cargo_ship(h).found \in cargo_capable_vehicles
  BY <1>2, <1>3
<1>5. \A e \in cargo_capable_vehicles : Get(e, "scu") \in Nat \ {0}
  BY CatalogueAssumption DEF cargo_capable_vehicles, Get
<1> QED BY <1>4, <1>5

(*------------------------------ travel times -----------------------------*)

LEMMA ClipIsNatural ==
    ASSUME NEW n \in Int
    PROVE  Clip(n) \in Nat /\ Abs(n) \in Nat
BY DEF Clip, Abs

IsTrip(trip) ==
    /\ trip \in [qt : Int, approach : Int, jumps : Int, seconds : Int, partial : BOOLEAN]

LEMMA TripsAddUp ==
    ASSUME NEW trip, IsTrip(trip), NEW distance \in Int
    PROVE  IsTrip(add_jump(trip, distance)) /\ IsTrip(add_approach(trip, distance))
<1>1. Clip(distance) \in Nat
  BY ClipIsNatural
<1>2. ApproachSlowness * Clip(distance) \in Int /\ SpoolTime \in Int
  BY <1>1, TravelAssumption
<1>3. /\ trip.qt + Clip(distance) \in Int /\ trip.jumps + 1 \in Int /\ trip.approach + Clip(distance) \in Int
      /\ trip.seconds + Clip(distance) + SpoolTime \in Int
      /\ trip.seconds + ApproachSlowness * Clip(distance) \in Int
  BY <1>1, <1>2 DEF IsTrip
<1>4. IsTrip(add_jump(trip, distance))
  BY <1>3, Zenon DEF IsTrip, add_jump
<1>5. IsTrip(add_approach(trip, distance))
  BY <1>3, Zenon DEF IsTrip, add_approach
<1> QED BY <1>4, <1>5

LEMMA HopsAddUp ==
    ASSUME NEW trip, IsTrip(trip), NEW distance \in Int, NEW radius \in Int
    PROVE  IsTrip(add_hop(trip, distance, radius))
<1>1. distance - radius \in Int
  OBVIOUS
<1>2. IsTrip(add_jump(trip, distance)) /\ IsTrip(add_approach(trip, distance)) /\ IsTrip(add_jump(trip, distance - radius))
  BY <1>1, TripsAddUp
<1>3. IsTrip(add_approach(add_jump(trip, distance - radius), radius))
  BY <1>2, TripsAddUp
<1> QED BY <1>2, <1>3, Zenon DEF add_hop

LEMMA NoTripIsOne == IsTrip(NoTrip)
BY DEF IsTrip, NoTrip

(* A location that is resolved has a position. *)
LEMMA ResolvedIsKnown ==
    ASSUME NEW t, _resolve_location(t) # {}
    PROVE  (CHOOSE n \in _resolve_location(t) : TRUE) \in DOMAIN Position
<1> DEFINE names == _location_lookup_candidates(t)
           known == Only(names, DOMAIN Position)
           X == {names[1], names[2], names[3], names[4]}
<1>1. names \in Seq(X)
  BY DEF _location_lookup_candidates
<1>2. known \in Seq(X \cap DOMAIN Position)
  <2> HIDE DEF names, X
  <2> QED BY <1>1, OnlyKeepsThose
<1> HIDE DEF names, X
<1>3. known # <<>> /\ _resolve_location(t) = {known[1]}
  BY Zenon DEF _resolve_location, names
<1>4. known[1] \in DOMAIN Position
  <2> HIDE DEF known
  <2> QED BY <1>2, <1>3
<1> QED BY <1>3, <1>4

LEMMA DistancesAreNumbers ==
    ASSUME NEW a \in DOMAIN Position, NEW b \in DOMAIN Position
    PROVE  Between(a, b) \in Int /\ ArrivalRadius[b] \in Int /\ Position[a] \in Int
<1>1. Position[a] \in Int /\ Position[b] \in Int /\ Position[a] - Position[b] \in Int /\ ArrivalRadius[b] \in Int
  BY TravelAssumption
<1> QED BY <1>1, ClipIsNatural DEF Between

(* An estimate is one trip, or none. *)
LEMMA CrossingIsATrip ==
    ASSUME NEW o, NEW d
    PROVE  _estimate_cross_system(o, d) = {}
             \/ \E trip : IsTrip(trip) /\ _estimate_cross_system(o, d) = {trip}
<1> DEFINE systems == <<Get(o, "system"), Get(d, "system")>>
           back == <<systems[2], systems[1]>>
           from == CHOOSE n \in _resolve_location(o) : TRUE
           to == CHOOSE n \in _resolve_location(d) : TRUE
           gate == Gateway[systems]
           byGate == add_approach(add_jump(NoTrip, Between(from, gate.at) - ArrivalRadius[gate.at]),
                                  ArrivalRadius[gate.at] + Abs(Position[gate.at] - gate.point))
           byPoint == add_jump(NoTrip, Abs(Position[from] - JumpPoint[systems]))
           leaving == IF systems \in DOMAIN Gateway THEN byGate ELSE byPoint
           whole == add_hop(leaving, Abs(JumpPoint[back] - Position[to]), ArrivalRadius[to])
           lost == \/ {} \in {_resolve_location(o), _resolve_location(d)}
                   \/ systems \notin DOMAIN Gateway \cup DOMAIN JumpPoint \/ back \notin DOMAIN JumpPoint
<1>1. CASE lost
  BY <1>1, Zenon DEF _estimate_cross_system, NoEstimate
<1>2. CASE ~lost
  <2>1. from \in DOMAIN Position /\ to \in DOMAIN Position
    BY <1>2, ResolvedIsKnown
  <2>2. systems \in DOMAIN Gateway \cup DOMAIN JumpPoint /\ back \in DOMAIN JumpPoint
    BY <1>2, Zenon
  <2>3. _estimate_cross_system(o, d) = {[whole EXCEPT !.partial = TRUE]}
    BY <1>2, Zenon DEF _estimate_cross_system, Trips
  <2> HIDE DEF systems, back, from, to, lost
  <2>4. IsTrip(leaving)
    <3>1. CASE systems \in DOMAIN Gateway
      <4>1. gate.at \in DOMAIN Position /\ gate.point \in Int
        BY <3>1, TravelAssumption
      <4> HIDE DEF gate
      <4>2. Between(from, gate.at) \in Int /\ ArrivalRadius[gate.at] \in Int /\ Position[gate.at] \in Int
        BY <2>1, <4>1, DistancesAreNumbers
      <4>3. Position[gate.at] - gate.point \in Int
        BY <4>1, <4>2
      <4>4. Abs(Position[gate.at] - gate.point) \in Nat
        BY <4>3, ClipIsNatural
      <4>5. /\ Between(from, gate.at) - ArrivalRadius[gate.at] \in Int
            /\ ArrivalRadius[gate.at] + Abs(Position[gate.at] - gate.point) \in Int
        BY <4>2, <4>4
      <4>6. IsTrip(byGate)
        BY <4>5, NoTripIsOne, TripsAddUp
      <4> QED BY <3>1, <4>6, Zenon
    <3>2. CASE systems \notin DOMAIN Gateway
      <4>1. Position[from] - JumpPoint[systems] \in Int
        BY <2>1, <2>2, <3>2, TravelAssumption
      <4>2. Abs(Position[from] - JumpPoint[systems]) \in Int
        BY <4>1, ClipIsNatural
      <4>3. IsTrip(byPoint)
        BY <4>2, NoTripIsOne, TripsAddUp
      <4> QED BY <3>2, <4>3, Zenon
    <3> QED BY <3>1, <3>2
  <2> HIDE DEF leaving
  <2>5. Abs(JumpPoint[back] - Position[to]) \in Int /\ ArrivalRadius[to] \in Int
    <3>1. JumpPoint[back] - Position[to] \in Int /\ ArrivalRadius[to] \in Int
      BY <2>1, <2>2, TravelAssumption
    <3> QED BY <3>1, ClipIsNatural
  <2>6. IsTrip(whole)
    BY <2>4, <2>5, HopsAddUp
  <2> HIDE DEF whole
  <2>7. IsTrip([whole EXCEPT !.partial = TRUE])
    BY <2>6 DEF IsTrip
  <2> QED BY <2>3, <2>7, Zenon
<1> QED BY <1>1, <1>2

LEMMA EstimateIsATrip ==
    ASSUME NEW o, NEW d
    PROVE  estimate_trip(o, d) = {} \/ \E trip : IsTrip(trip) /\ estimate_trip(o, d) = {trip}
<1> DEFINE located == {} \notin {_resolve_location(o), _resolve_location(d)}
           from == CHOOSE n \in _resolve_location(o) : TRUE
           to == CHOOSE n \in _resolve_location(d) : TRUE
           orbits == <<Get(o, "orbit"), Get(d, "orbit")>>
           there == is_same_physical_location(o, d)
<1>1. CASE Get(o, "system") # Get(d, "system")
  <2>1. estimate_trip(o, d) = _estimate_cross_system(o, d)
    BY <1>1 DEF estimate_trip
  <2> QED BY <2>1, CrossingIsATrip
<1>2. CASE Get(o, "system") = Get(d, "system") /\ there
  <2>1. estimate_trip(o, d) = {add_jump(NoTrip, 0)}
    BY <1>2 DEF estimate_trip, Trips
  <2>2. IsTrip(add_jump(NoTrip, 0))
    BY NoTripIsOne, TripsAddUp
  <2> QED BY <2>1, <2>2, Zenon
<1>3. CASE Get(o, "system") = Get(d, "system") /\ ~there
  <2>1. estimate_trip(o, d) =
               IF located THEN Trips(add_hop(NoTrip, Between(from, to), ArrivalRadius[to]))
               ELSE IF is_same_orbit_different_place(o, d) \/ orbits \notin DOMAIN OrbitDistance THEN NoEstimate
               ELSE Trips(add_hop(NoTrip, OrbitDistance[orbits], 0))
    BY <1>3 DEF estimate_trip
  <2>2. CASE located
    <3>1. from \in DOMAIN Position /\ to \in DOMAIN Position
      BY <2>2, ResolvedIsKnown
    <3>2. Between(from, to) \in Int /\ ArrivalRadius[to] \in Int
      BY <3>1, DistancesAreNumbers, Zenon
    <3>3. IsTrip(add_hop(NoTrip, Between(from, to), ArrivalRadius[to]))
      BY <3>2, NoTripIsOne, HopsAddUp, Zenon
    <3>4. estimate_trip(o, d) = {add_hop(NoTrip, Between(from, to), ArrivalRadius[to])}
      BY <2>1, <2>2, Zenon DEF Trips
    <3> QED BY <3>3, <3>4, Zenon
  <2>3. CASE ~located /\ (is_same_orbit_different_place(o, d) \/ orbits \notin DOMAIN OrbitDistance)
    BY <2>1, <2>3, Zenon DEF NoEstimate
  <2>4. CASE ~located /\ ~(is_same_orbit_different_place(o, d) \/ orbits \notin DOMAIN OrbitDistance)
    <3>1. OrbitDistance[orbits] \in Int /\ 0 \in Int
      BY <2>4, TravelAssumption
    <3>2. IsTrip(add_hop(NoTrip, OrbitDistance[orbits], 0))
      BY <3>1, NoTripIsOne, HopsAddUp, Zenon
    <3>3. estimate_trip(o, d) = {add_hop(NoTrip, OrbitDistance[orbits], 0)}
      BY <2>1, <2>4, Zenon DEF Trips
    <3> QED BY <3>2, <3>3, Zenon
  <2> QED BY <2>2, <2>3, <2>4, Zenon
<1> QED BY <1>1, <1>2, <1>3, Zenon

LEMMA TimesAreNumbers ==
    ASSUME NEW route, NEW h
    PROVE  estimate_travel_time(route, h) = {} \/ \E s \in Int : estimate_travel_time(route, h) = {s}
<1> DEFINE ship == resolve_or_hedge(h, OfKind("ship")).found
           trips == estimate_trip(route.origin, route.destination)
<1>1. CASE ship = Nothing
  BY <1>1, Zenon DEF estimate_travel_time
<1>2. CASE ship # Nothing
  <2>1. OfKind("ship") \in SUBSET Entries
    BY DEF OfKind
  <2>2. ship \in OfKind("ship")
    BY <1>2, <2>1, FoundIsOfThePool
  <2> HIDE DEF ship
  <2>3. Speed(ship) \in Int
    BY <2>2, WorldsAssumption, Zenon
  <2>4. estimate_travel_time(route, h) = { trip.seconds * Speed(ship) : trip \in trips }
    BY <1>2, Zenon DEF estimate_travel_time, ship
  <2>5. trips = {} \/ \E trip : IsTrip(trip) /\ trips = {trip}
    BY EstimateIsATrip, Zenon
  <2> HIDE DEF trips
  <2>6. CASE trips = {}
    BY <2>4, <2>6
  <2>7. ASSUME NEW trip, IsTrip(trip), trips = {trip}
        PROVE  \E s \in Int : estimate_travel_time(route, h) = {s}
    <3>1. trip.seconds * Speed(ship) \in Int
      <4>1. trip.seconds \in Int
        BY <2>7 DEF IsTrip
      <4> QED BY <2>3, <4>1
    <3>2. estimate_travel_time(route, h) = {trip.seconds * Speed(ship)}
      BY <2>4, <2>7, Zenon
    <3> QED BY <3>1, <3>2, Zenon
  <2> QED BY <2>5, <2>6, <2>7
<1> QED BY <1>1, <1>2

(*------------------------- a candidate and its load ----------------------*)

LEMMA TheSmaller ==
    ASSUME NEW a \in Int, NEW b \in Int
    PROVE  Min({a, b}) = IF a <= b THEN a ELSE b
<1>1. \E x \in {a, b} : \A y \in {a, b} : x <= y
  OBVIOUS
<1>2. Min({a, b}) \in {a, b} /\ \A y \in {a, b} : Min({a, b}) <= y
  BY <1>1, Zenon DEF Min
<1> QED BY <1>2

LEMMA TheSmallest ==
    ASSUME NEW a \in Int, NEW b \in Int, NEW c \in Int
    PROVE  Min({a, b, c}) = Min({Min({a, b}), c})
<1>1. \E x \in {a, b, c} : \A y \in {a, b, c} : x <= y
  OBVIOUS
<1>2. Min({a, b, c}) \in {a, b, c} /\ \A y \in {a, b, c} : Min({a, b, c}) <= y
  BY <1>1, Zenon DEF Min
<1>3. Min({a, b}) = (IF a <= b THEN a ELSE b) /\ Min({a, b}) \in Int
  BY TheSmaller
<1>4. Min({Min({a, b}), c}) = IF Min({a, b}) <= c THEN Min({a, b}) ELSE c
  BY <1>3, TheSmaller
<1> QED BY <1>2, <1>3, <1>4

IsRoute(r) == r \in Routes /\ IsFiniteSet(r.sizes_origin)

LEMMA CommonSizes ==
    ASSUME NEW r, IsRoute(r)
    PROVE  IsSizes(usable_container_sizes(r.sizes_origin, r.sizes_destination))
<1>1. r.sizes_origin \in SUBSET (Nat \ {0}) /\ IsFiniteSet(r.sizes_origin)
  BY DEF IsRoute, Routes
<1>2. usable_container_sizes(r.sizes_origin, r.sizes_destination) \in SUBSET r.sizes_origin
  BY DEF usable_container_sizes
<1> QED BY <1>1, <1>2, FS_Subset DEF IsSizes

(* A load is a number, and the fullest of the room there is.               *)
Room(r, hold) == Min({r.scu_origin, r.scu_destination, hold})

LEMMA LoadIsOfTheRoom ==
    ASSUME NEW r, IsRoute(r), NEW hold \in Nat \ {0}
    PROVE  LET sizes == usable_container_sizes(r.sizes_origin, r.sizes_destination) IN
           /\ reachable_scu(r, hold) \in Int
           /\ sizes # {} /\ reachable_scu(r, hold) > 0 =>
                /\ Room(r, hold) \in Nat
                /\ reachable_scu(r, hold) = Fullest(Room(r, hold), sizes)
<1> DEFINE sizes == usable_container_sizes(r.sizes_origin, r.sizes_destination)
           stock == Min({r.scu_origin, r.scu_destination})
           room == Room(r, hold)
<1>1. r.scu_origin \in Int /\ r.scu_destination \in Int /\ hold \in Int /\ hold > 0
  BY DEF IsRoute, Routes
<1>2. stock \in Int
  BY <1>1, TheSmaller
<1>3. room = Min({stock, hold})
  BY <1>1, TheSmallest DEF Room
<1>4. room \in Int
  BY <1>1, <1>2, <1>3, TheSmaller
<1>5. IsSizes(sizes)
  BY CommonSizes
<1>6. reachable_scu(r, hold) = IF sizes = {} THEN room ELSE max_packable_scu(room, sizes)
  <2> HIDE DEF room
  <2> QED BY <1>1, <1>3, Zenon DEF reachable_scu
<1> HIDE DEF sizes, room, stock
<1>7. CASE sizes = {}
  BY <1>4, <1>6, <1>7 DEF sizes
<1>8. CASE sizes # {} /\ room <= 0
  <2>1. reachable_scu(r, hold) = 0
    BY <1>6, <1>8 DEF max_packable_scu
  <2> QED BY <2>1
<1>9. CASE sizes # {} /\ ~(room <= 0)
  <2>1. room \in Nat
    BY <1>4, <1>9
  <2>2. reachable_scu(r, hold) = Fullest(room, sizes)
    BY <1>5, <1>6, <1>9, <2>1, PackableIsFullest
  <2>3. Fullest(room, sizes) \in Nat
    BY <1>5, <2>1, FullStaysFull
  <2> QED BY <2>1, <2>2, <2>3 DEF sizes, room
<1> QED BY <1>4, <1>7, <1>8, <1>9

LEMMA UnloadingTakesANumber ==
    ASSUME NEW sizes, IsSizes(sizes), NEW mix \in [sizes -> Nat]
    PROVE  estimate_transfer_time(mix) \in Int
<1> DEFINE Modifier(s) == IF s \in DOMAIN DEFAULT_SIZE_MODIFIERS THEN DEFAULT_SIZE_MODIFIERS[s] ELSE 100
           weight == [s \in DOMAIN mix |-> DEFAULT_SECONDS_PER_CRATE * Modifier(s)]
           w == [s \in DOMAIN mix |-> mix[s] * weight[s]]
<1>1. DOMAIN mix = sizes /\ \A s \in sizes : mix[s] \in Nat
  OBVIOUS
<1>2. \A s \in DOMAIN DEFAULT_SIZE_MODIFIERS : DEFAULT_SIZE_MODIFIERS[s] \in Nat
  BY DEF DEFAULT_SIZE_MODIFIERS
<1>3. \A s \in sizes : Modifier(s) \in Nat
  BY <1>2
<1> HIDE DEF Modifier
<1>4. \A s \in sizes : weight[s] \in Nat
  BY <1>1, <1>3 DEF DEFAULT_SECONDS_PER_CRATE
<1>5. estimate_transfer_time(mix) = MapThenFoldSet(+, 0, LAMBDA i : w[i], LAMBDA S : CHOOSE x \in S : TRUE, DOMAIN w)
  BY Zenon DEF estimate_transfer_time, SumOf, FoldFunction, FoldFunctionOnSet, Modifier
<1> HIDE DEF weight
<1>6. w \in [sizes -> Nat]
  BY <1>1, <1>4
<1> HIDE DEF w
<1>7. estimate_transfer_time(mix) = Sum(w, sizes)
  <2>1. DOMAIN w = sizes
    BY <1>6
  <2>2. estimate_transfer_time(mix) = Sum(w, DOMAIN w)
    BY <1>5, Zenon DEF Sum
  <2> QED BY <2>1, <2>2
<1>8. Sum(w, sizes) \in Nat
  BY <1>6, SumIsNatural DEF IsSizes
<1> QED BY <1>7, <1>8

(* What a search keeps of a route. *)
IsCandidate(a, hold) ==
    /\ IsRoute(a.route)
    /\ a.scu = reachable_scu(a.route, hold) /\ a.scu \in Nat \ {0}
    /\ a.profit \in Int
    /\ a.time \in Int /\ a.time > 0

LEMMA ScoredAreCandidates ==
    ASSUME NEW r, IsRoute(r), NEW ask, NEW hold \in Nat \ {0}
    PROVE  /\ IsFiniteSet(Scored(r, ask, hold))
           /\ \A a \in Scored(r, ask, hold) : IsCandidate(a, hold)
<1> DEFINE sizes == usable_container_sizes(r.sizes_origin, r.sizes_destination)
           scu == reachable_scu(r, hold)
           mix == best_container_mix(scu, sizes)
           Time(s) == 2 * estimate_transfer_time(mix) + 100 * s
           A(s) == [route |-> r, scu |-> scu, profit |-> estimated_profit(r, scu), time |-> Time(s)]
           Fit == { s \in estimate_travel_time(r, world.heard.ship) : Qualifies(r, ask) /\ scu > 0 /\ Time(s) > 0 }
<1>1. Scored(r, ask, hold) = { A(s) : s \in Fit }
  BY Zenon DEF Scored
<1>2. scu \in Int
  BY LoadIsOfTheRoom
<1>3. estimate_travel_time(r, world.heard.ship) = {} \/ \E s \in Int : estimate_travel_time(r, world.heard.ship) = {s}
  BY TimesAreNumbers, Zenon
<1>4. Fit = {} \/ \E s \in Int : Fit = {s}
  <2> HIDE DEF Time, scu
  <2> QED BY <1>3
<1>5. CASE Fit = {}
  <2>1. Scored(r, ask, hold) = {}
    <3> HIDE DEF Fit, A
    <3> QED BY <1>1, <1>5
  <2> QED BY <2>1, FS_EmptySet
<1>6. ASSUME NEW s \in Int, Fit = {s}
      PROVE  /\ IsFiniteSet(Scored(r, ask, hold))
             /\ \A a \in Scored(r, ask, hold) : IsCandidate(a, hold)
  <2>1. scu > 0 /\ Time(s) > 0
    BY <1>6, Zenon
  <2>2. Scored(r, ask, hold) = {A(s)}
    <3> HIDE DEF Fit, A
    <3> QED BY <1>1, <1>6
  <2>3. scu \in Nat \ {0}
    <3> HIDE DEF scu
    <3> QED BY <1>2, <2>1
  <2>4. estimate_transfer_time(mix) \in Int
    <3>1. IsSizes(sizes)
      BY CommonSizes
    <3> HIDE DEF sizes, scu
    <3>2. mix \in [sizes -> Nat]
      BY <2>3, <3>1, MixAddsUp
    <3> HIDE DEF mix
    <3> QED BY <3>1, <3>2, UnloadingTakesANumber
  <2>5. Time(s) \in Int
    <3> HIDE DEF mix
    <3> QED BY <2>4
  <2>6. estimated_profit(r, scu) \in Int
    <3>1. r.price_origin \in Int /\ r.price_destination \in Int
      BY DEF IsRoute, Routes
    <3> HIDE DEF scu
    <3>2. r.price_destination - r.price_origin \in Int /\ scu \in Int
      BY <1>2, <3>1
    <3>3. (r.price_destination - r.price_origin) * scu \in Int
      BY <3>2
    <3> QED BY <3>3 DEF estimated_profit
  <2>7. IsCandidate(A(s), hold)
    <3>1. A(s).route = r /\ A(s).scu = scu /\ A(s).profit = estimated_profit(r, scu) /\ A(s).time = Time(s)
      <4> HIDE DEF Time, scu
      <4> QED OBVIOUS
    <3> HIDE DEF A, Time
    <3> QED BY <2>1, <2>3, <2>5, <2>6, <3>1, Zenon DEF IsCandidate
  <2> HIDE DEF A
  <2>8. IsFiniteSet({A(s)})
    BY FS_Singleton, Zenon
  <2>9. \A a \in {A(s)} : IsCandidate(a, hold)
    BY <2>7
  <2> QED BY <2>2, <2>8, <2>9, Zenon
<1> HIDE DEF Fit
<1> QED BY <1>4, <1>5, <1>6, Zenon

AreRows(rows) == rows \in Seq(Routes) /\ \A i \in DOMAIN rows : IsFiniteSet(rows[i].sizes_origin)

LEMMA CandidatesAreCandidates ==
    ASSUME NEW rows, AreRows(rows), NEW ask, NEW hold \in Nat \ {0}
    PROVE  LET cands == Candidates(rows, ask, hold) IN
           \E C : /\ cands \in Seq(C)
                  /\ \A a \in C : IsCandidate(a, hold)
<1> DEFINE C == UNION { Scored(rows[i], ask, hold) : i \in DOMAIN rows }
           each == [i \in DOMAIN rows |-> SetToSeq(Scored(rows[i], ask, hold))]
<1>1. Len(rows) \in Nat /\ DOMAIN rows = 1 .. Len(rows) /\ \A i \in DOMAIN rows : IsRoute(rows[i])
  BY DEF AreRows, IsRoute
<1>2. ASSUME NEW i \in DOMAIN rows
      PROVE  /\ each[i] \in Seq(C)
             /\ \A a \in Scored(rows[i], ask, hold) : IsCandidate(a, hold)
  <2>1. IsRoute(rows[i])
    BY <1>1
  <2>2. IsFiniteSet(Scored(rows[i], ask, hold)) /\ \A a \in Scored(rows[i], ask, hold) : IsCandidate(a, hold)
    BY <2>1, ScoredAreCandidates
  <2>3. SetToSeq(Scored(rows[i], ask, hold)) \in Seq(Scored(rows[i], ask, hold))
    BY <2>2, SetToSeqIsASequence
  <2>4. Scored(rows[i], ask, hold) \subseteq C
    OBVIOUS
  <2>5. SetToSeq(Scored(rows[i], ask, hold)) \in Seq(C)
    <3> HIDE DEF C
    <3> QED BY <2>3, <2>4
  <2> QED BY <2>2, <2>5
<1>3. each \in Seq(Seq(C))
  <2>1. each = [i \in 1 .. Len(rows) |-> each[i]]
    BY <1>1
  <2> HIDE DEF each, C
  <2>2. \A i \in 1 .. Len(rows) : each[i] \in Seq(C)
    BY <1>1, <1>2
  <2> QED BY <1>1, <2>1, <2>2
<1>4. Candidates(rows, ask, hold) \in Seq(C)
  <2>1. Candidates(rows, ask, hold) = FlattenSeq(each)
    BY Zenon DEF Candidates
  <2> HIDE DEF each, C
  <2> QED BY <1>3, <2>1, FlattenIsASequence
<1>5. \A a \in C : IsCandidate(a, hold)
  BY <1>2
<1> QED BY <1>4, <1>5, Zenon

(*------------------------- the best and the next best --------------------*)

(* On either measure one candidate beats another as one number another.    *)
Timed(a) == a.profit \in Int /\ a.time \in Int /\ a.time > 0

LEMMA CrossMultiplied ==
    ASSUME NEW p \in Int, NEW q \in Int, NEW r \in Int,
           NEW x \in Nat \ {0}, NEW y \in Nat \ {0}, NEW z \in Nat \ {0},
           p * y > q * x, q * z > r * y
    PROVE  p * z > r * x
<1>1. (p * y) * z > (q * x) * z
  OBVIOUS
<1>2. (q * z) * x > (r * y) * x
  OBVIOUS
<1>3. (q * x) * z = (q * z) * x
  OBVIOUS
<1>4. (p * y) * z > (r * y) * x
  BY <1>1, <1>2, <1>3
<1>5. (p * y) * z = y * (p * z) /\ (r * y) * x = y * (r * x)
  OBVIOUS
<1>6. y * (p * z) > y * (r * x)
  BY <1>4, <1>5
<1>7. CASE p * z <= r * x
  <2>1. y * (p * z) <= y * (r * x)
    BY <1>7
  <2> QED BY <1>6, <2>1
<1> QED BY <1>7

LEMMA BeatsIsAnOrder ==
    ASSUME NEW a, Timed(a), NEW b, Timed(b), NEW c, Timed(c), NEW rank_by
    PROVE  /\ ~Beats(a, a, rank_by)
           /\ Beats(a, b, rank_by) /\ Beats(b, c, rank_by) => Beats(a, c, rank_by)
<1>1. PICK p \in Int, q \in Int, r \in Int, x \in Int, y \in Int, z \in Int :
        /\ p = a.profit /\ q = b.profit /\ r = c.profit /\ x = a.time /\ y = b.time /\ z = c.time
        /\ x > 0 /\ y > 0 /\ z > 0
  BY Zenon DEF Timed
<1>2. CASE rank_by = "per_hour"
  <2>1. Beats(a, a, rank_by) = (p * x > p * x) /\ Beats(a, b, rank_by) = (p * y > q * x)
    BY <1>1, <1>2, Zenon DEF Beats
  <2>2. Beats(b, c, rank_by) = (q * z > r * y) /\ Beats(a, c, rank_by) = (p * z > r * x)
    BY <1>1, <1>2, Zenon DEF Beats
  <2>3. ~(p * x > p * x)
    <3>1. PICK k \in Int : k = p * x
      BY <1>1
    <3> QED BY <3>1
  <2>4. ASSUME p * y > q * x, q * z > r * y PROVE p * z > r * x
    <3>1. x \in Nat \ {0} /\ y \in Nat \ {0} /\ z \in Nat \ {0}
      BY <1>1
    <3> QED BY <2>4, <3>1, CrossMultiplied
  <2> QED BY <2>1, <2>2, <2>3, <2>4, Zenon
<1>3. CASE rank_by # "per_hour"
  <2>1. Beats(a, a, rank_by) = (p > p) /\ Beats(a, b, rank_by) = (p > q)
    BY <1>1, <1>3, Zenon DEF Beats
  <2>2. Beats(b, c, rank_by) = (q > r) /\ Beats(a, c, rank_by) = (p > r)
    BY <1>1, <1>3, Zenon DEF Beats
  <2>3. ~(p > p) /\ (p > q /\ q > r => p > r)
    BY <1>1
  <2> QED BY <2>1, <2>2, <2>3, Zenon
<1> QED BY <1>2, <1>3

(* The pass over the candidates, as a fold. *)
ConsiderStep(C, rank_by) ==
    [p \in [best : SUBSET C, runner_up : SUBSET C] \X C |-> Consider(p[1], p[2], rank_by)]
Unset == [best |-> {}, runner_up |-> {}]
Passes(kept, C, rank_by, cands) ==
    /\ kept \in [0 .. Len(cands) -> [best : SUBSET C, runner_up : SUBSET C]]
    /\ kept[0] = Unset
    /\ \A k \in 1 .. Len(cands) : kept[k] = Consider(kept[k - 1], cands[k], rank_by)
Pass(rank_by, cands) ==
    FoldLeft(LAMBDA kept, a : Consider(kept, a, rank_by), [best |-> {}, runner_up |-> {}], cands)

LEMMA ConsiderKeepsCandidates ==
    ASSUME NEW C, NEW kept \in [best : SUBSET C, runner_up : SUBSET C], NEW a \in C, NEW rank_by
    PROVE  Consider(kept, a, rank_by) \in [best : SUBSET C, runner_up : SUBSET C]
BY DEF Consider

LEMMA PassIsAFold ==
    ASSUME NEW C, NEW cands \in Seq(C), NEW rank_by
    PROVE  \E kept : Passes(kept, C, rank_by, cands) /\ Pass(rank_by, cands) = kept[Len(cands)]
<1> DEFINE V == [best : SUBSET C, runner_up : SUBSET C]
           step == ConsiderStep(C, rank_by)
           IsIter(iter) == iter = [T \in SUBSET DOMAIN cands |->
               IF T = {} THEN Unset ELSE Consider(iter[T \ {Max(T)}], cands[Max(T)], rank_by)]
           it == CHOOSE iter : IsIter(iter)
<1>1. Pass(rank_by, cands) = it[DOMAIN cands]
  BY Zenon DEF Pass, FoldLeft, MapThenFoldSet, Unset
<1>0. \A s \in V, x \in C : Consider(s, x, rank_by) \in V
  BY ConsiderKeepsCandidates
<1>2. step \in [V \X C -> V] /\ Unset \in V
  <2>1. Unset \in V
    BY DEF Unset
  <2>2. \A p \in V \X C : p[1] \in V /\ p[2] \in C
    OBVIOUS
  <2>3. step = [p \in V \X C |-> Consider(p[1], p[2], rank_by)]
    BY DEF ConsiderStep
  <2> HIDE DEF V, step
  <2>4. step \in [V \X C -> V]
    BY <1>0, <2>2, <2>3
  <2> QED BY <2>1, <2>4
<1>3. \A s \in V, x \in C : step[<<s, x>>] = Consider(s, x, rank_by)
  BY DEF ConsiderStep
<1> HIDE DEF step, V
<1>4. \A T \in SUBSET DOMAIN cands : T # {} => Max(T) \in T /\ cands[Max(T)] \in C
  <2>1. Len(cands) \in Nat /\ DOMAIN cands = 1 .. Len(cands) /\ \A i \in DOMAIN cands : cands[i] \in C
    OBVIOUS
  <2> QED BY <2>1, LastOfInterval
<1>5. PICK iter \in [SUBSET DOMAIN cands -> V] : Folds(iter, Unset, step, cands, SUBSET DOMAIN cands)
  BY <1>2, FoldExists
<1>6. IsIter(iter)
  <2>1. ASSUME NEW T \in SUBSET DOMAIN cands
        PROVE iter[T] = IF T = {} THEN Unset ELSE Consider(iter[T \ {Max(T)}], cands[Max(T)], rank_by)
    <3>1. iter[T] = IF T = {} THEN Unset ELSE step[<<iter[T \ {Max(T)}], cands[Max(T)]>>]
      BY <1>5 DEF Folds
    <3>2. iter[T \ {Max(T)}] \in V
      OBVIOUS
    <3> QED BY <1>3, <1>4, <3>1, <3>2
  <2> QED BY <2>1
<1>7. IsIter(it)
  BY <1>6, Zenon
<1> HIDE DEF it
<1>8. ASSUME NEW T \in SUBSET DOMAIN cands PROVE it[T] \in V
  <2> DEFINE Bad == {U \in SUBSET DOMAIN cands : it[U] \notin V}
  <2>1. CASE Bad = {}
    BY <2>1
  <2>2. CASE Bad # {}
    <3>1. IsFiniteSet(DOMAIN cands)
      BY FS_Interval
    <3>2. PICK U \in Bad : \A x \in U : U \ {x} \notin Bad
      <4>1. Bad \in SUBSET (SUBSET DOMAIN cands)
        OBVIOUS
      <4> HIDE DEF Bad
      <4> QED BY <2>2, <3>1, <4>1, OneIsSmallest
    <3>3. U # {}
      BY <1>2, <1>7, <3>2
    <3>4. Max(U) \in U /\ cands[Max(U)] \in C
      BY <1>4, <3>2, <3>3
    <3>5. it[U \ {Max(U)}] \in V
      BY <3>2, <3>4
    <3>6. it[U] = Consider(it[U \ {Max(U)}], cands[Max(U)], rank_by)
      BY <1>7, <3>2, <3>3
    <3>7. it[U] \in V
      BY <1>0, <3>4, <3>5, <3>6
    <3> QED BY <3>2, <3>7
  <2> QED BY <2>1, <2>2
<1>9. Folds(it, Unset, step, cands, SUBSET DOMAIN cands)
  <2>1. ASSUME NEW T \in SUBSET DOMAIN cands
        PROVE it[T] = IF T = {} THEN Unset ELSE step[<<it[T \ {Max(T)}], cands[Max(T)]>>]
    <3>1. it[T \ {Max(T)}] \in V
      BY <1>8
    <3> QED BY <1>3, <1>4, <1>7, <3>1
  <2>2. it = [T \in SUBSET DOMAIN cands |-> it[T]]
    BY <1>7
  <2> QED BY <2>1, <2>2 DEF Folds
<1>10. PICK made \in [0 .. Len(cands) -> V] :
           Made(made, Unset, step, cands) /\ made[Len(cands)] = it[DOMAIN cands]
  <2>1. IsFold(V, C, Unset, step, cands, it)
    BY <1>2, <1>9 DEF IsFold
  <2> QED BY <2>1, FoldGoesLeftToRight
<1>11. made[0] = Unset
  BY <1>10 DEF Made
<1>12. ASSUME NEW k \in 1 .. Len(cands) PROVE made[k] = Consider(made[k - 1], cands[k], rank_by)
  <2>1. made[k - 1] \in V /\ cands[k] \in C
    OBVIOUS
  <2> QED BY <1>3, <1>10, <2>1 DEF Made
<1>13. Passes(made, C, rank_by, cands) /\ Pass(rank_by, cands) = made[Len(cands)]
  BY <1>1, <1>10, <1>11, <1>12 DEF Passes, V
<1> QED BY <1>13

(* What is kept of the first n candidates: one that none of them beats,    *)
(* and one of the others that none of the others beats.                    *)
Unbeaten(cands, S, i, rank_by) == \A j \in S : ~Beats(cands[j], cands[i], rank_by)
KeptOf(kept, cands, n, rank_by) ==
    IF n = 0 THEN kept.best = {} /\ kept.runner_up = {}
    ELSE \E i \in 1 .. n :
           /\ kept.best = {cands[i]} /\ Unbeaten(cands, 1 .. n, i, rank_by)
           /\ IF n = 1 THEN kept.runner_up = {}
              ELSE \E m \in (1 .. n) \ {i} :
                     kept.runner_up = {cands[m]} /\ Unbeaten(cands, (1 .. n) \ {i}, m, rank_by)

LEMMA ConsiderKeepsTheBest ==
    ASSUME NEW C, \A a \in C : Timed(a), NEW cands \in Seq(C), NEW n \in 1 .. Len(cands), NEW rank_by,
           NEW kept \in [best : SUBSET C, runner_up : SUBSET C], KeptOf(kept, cands, n - 1, rank_by)
    PROVE  KeptOf(Consider(kept, cands[n], rank_by), cands, n, rank_by)
<1> DEFINE a == cands[n]
           Over(i, j) == Beats(cands[i], cands[j], rank_by)
           new == Consider(kept, a, rank_by)
<1>1. n \in Nat /\ n # 0 /\ \A i \in 1 .. n : cands[i] \in C
  OBVIOUS
<1>2. /\ \A i \in 1 .. n : ~Over(i, i)
      /\ \A i, j, k \in 1 .. n : Over(i, j) /\ Over(j, k) => Over(i, k)
  BY <1>1, BeatsIsAnOrder
<1>3. n \in 1 .. n /\ n \notin 1 .. (n - 1) /\ 1 .. n = (1 .. (n - 1)) \cup {n}
  BY <1>1
<1>4. CASE n = 1
  <2>1. kept.best = {} /\ kept.runner_up = {}
    BY <1>4 DEF KeptOf
  <2>2. BeatsAll(a, kept.best, rank_by)
    BY <2>1, Zenon DEF BeatsAll
  <2>3. new.best = {cands[n]} /\ new.runner_up = {}
    BY <2>1, <2>2 DEF Consider
  <2>4. Unbeaten(cands, 1 .. n, n, rank_by)
    BY <1>2, <1>3, <1>4 DEF Unbeaten
  <2> HIDE DEF new
  <2> QED BY <1>1, <1>3, <1>4, <2>3, <2>4, Zenon DEF KeptOf, new
<1>5. CASE n # 1
  <2>0. n - 1 # 0 /\ n - 1 \in Nat
    BY <1>1, <1>5
  <2>1. PICK i \in 1 .. (n - 1) :
           /\ kept.best = {cands[i]} /\ Unbeaten(cands, 1 .. (n - 1), i, rank_by)
           /\ IF n - 1 = 1 THEN kept.runner_up = {}
              ELSE \E m \in (1 .. (n - 1)) \ {i} :
                     kept.runner_up = {cands[m]} /\ Unbeaten(cands, (1 .. (n - 1)) \ {i}, m, rank_by)
    BY <2>0, Zenon DEF KeptOf
  <2>2. i \in 1 .. n /\ i # n
    BY <1>3, <2>1
  <2>3. BeatsAll(a, kept.best, rank_by) <=> Over(n, i)
    BY <2>1, Zenon DEF BeatsAll
  <2>4. CASE Over(n, i)
    <3>1. new = [best |-> {cands[n]}, runner_up |-> {cands[i]}]
      BY <2>1, <2>3, <2>4, Zenon DEF Consider
    <3>2. Unbeaten(cands, 1 .. n, n, rank_by)
      <4>1. ASSUME NEW j \in 1 .. n, Over(j, n) PROVE FALSE
        <5>1. CASE j = n
          BY <1>2, <1>3, <4>1, <5>1
        <5>2. CASE j \in 1 .. (n - 1)
          <6>1. Over(j, i)
            BY <1>2, <1>3, <2>2, <2>4, <4>1
          <6> QED BY <2>1, <5>2, <6>1, Zenon DEF Unbeaten
        <5> QED BY <1>3, <5>1, <5>2
      <4> QED BY <4>1, Zenon DEF Unbeaten
    <3>3. Unbeaten(cands, (1 .. n) \ {n}, i, rank_by)
      <4>1. (1 .. n) \ {n} = 1 .. (n - 1)
        BY <1>3
      <4> QED BY <2>1, <4>1
    <3>4. new.best = {cands[n]} /\ new.runner_up = {cands[i]} /\ i \in (1 .. n) \ {n}
      BY <2>2, <3>1
    <3> HIDE DEF new
    <3> QED BY <1>1, <1>3, <1>5, <3>2, <3>3, <3>4, Zenon DEF KeptOf, new
  <2>5. CASE ~Over(n, i)
    <3>1. Unbeaten(cands, 1 .. n, i, rank_by)
      BY <1>3, <2>1, <2>5, Zenon DEF Unbeaten
    <3>2. new = IF BeatsAll(a, kept.runner_up, rank_by) THEN [kept EXCEPT !.runner_up = {a}] ELSE kept
      BY <2>3, <2>5, Zenon DEF Consider
    <3>3. \E m \in (1 .. n) \ {i} :
             new.runner_up = {cands[m]} /\ Unbeaten(cands, (1 .. n) \ {i}, m, rank_by)
      <4>1. CASE BeatsAll(a, kept.runner_up, rank_by)
        <5>1. Unbeaten(cands, (1 .. n) \ {i}, n, rank_by)
          <6>1. ASSUME NEW j \in (1 .. n) \ {i}, Over(j, n) PROVE FALSE
            <7>1. j # n /\ j \in (1 .. (n - 1)) \ {i}
              BY <1>2, <1>3, <6>1
            <7>2. n - 1 # 1
              <8>1. CASE n - 1 = 1
                <9>1. i = 1 /\ j = 1
                  BY <2>1, <7>1, <8>1
                <9> QED BY <7>1, <9>1
              <8> QED BY <8>1
            <7>3. PICK m \in (1 .. (n - 1)) \ {i} :
                     kept.runner_up = {cands[m]} /\ Unbeaten(cands, (1 .. (n - 1)) \ {i}, m, rank_by)
              BY <2>1, <7>2, Zenon
            <7>4. Over(n, m) /\ m \in 1 .. n
              BY <1>3, <4>1, <7>3, Zenon DEF BeatsAll
            <7>5. Over(j, m)
              BY <1>2, <1>3, <6>1, <7>4
            <7> QED BY <7>1, <7>3, <7>5, Zenon DEF Unbeaten
          <6> QED BY <6>1, Zenon DEF Unbeaten
        <5>2. new.runner_up = {cands[n]}
          <6>1. new = [kept EXCEPT !.runner_up = {a}]
            BY <3>2, <4>1
          <6> HIDE DEF new
          <6> QED BY <6>1
        <5> HIDE DEF new
        <5> QED BY <1>3, <2>2, <5>1, <5>2
      <4>2. CASE ~BeatsAll(a, kept.runner_up, rank_by)
        <5>1. kept.runner_up # {}
          BY <4>2, Zenon DEF BeatsAll
        <5>2. PICK m \in (1 .. (n - 1)) \ {i} :
                 kept.runner_up = {cands[m]} /\ Unbeaten(cands, (1 .. (n - 1)) \ {i}, m, rank_by)
          BY <2>1, <5>1, Zenon
        <5>3. ~Over(n, m)
          BY <4>2, <5>2, Zenon DEF BeatsAll
        <5>4. Unbeaten(cands, (1 .. n) \ {i}, m, rank_by)
          BY <1>3, <5>2, <5>3, Zenon DEF Unbeaten
        <5>5. new.runner_up = {cands[m]}
          BY <3>2, <4>2, <5>2, Zenon
        <5>6. m \in (1 .. n) \ {i}
          BY <1>3, <5>2, Zenon
        <5> HIDE DEF new
        <5> QED BY <5>4, <5>5, <5>6, Zenon
      <4> QED BY <4>1, <4>2, Zenon
    <3>4. new.best = {cands[i]}
      <4>1. CASE new = kept
        <5> HIDE DEF new
        <5> QED BY <2>1, <4>1
      <4>2. CASE new = [kept EXCEPT !.runner_up = {a}]
        <5>1. [kept EXCEPT !.runner_up = {a}].best = kept.best
          OBVIOUS
        <5> HIDE DEF new
        <5> QED BY <2>1, <4>2, <5>1
      <4> QED BY <3>2, <4>1, <4>2, Zenon
    <3> HIDE DEF new
    <3> QED BY <1>1, <1>5, <2>2, <3>1, <3>3, <3>4, Zenon DEF KeptOf, new
  <2> QED BY <2>4, <2>5
<1> QED BY <1>4, <1>5

LEMMA ThePassKeepsTheBest ==
    ASSUME NEW C, \A a \in C : Timed(a), NEW cands \in Seq(C), NEW rank_by
    PROVE  KeptOf(Pass(rank_by, cands), cands, Len(cands), rank_by)
<1>1. PICK kept : Passes(kept, C, rank_by, cands) /\ Pass(rank_by, cands) = kept[Len(cands)]
  BY PassIsAFold, Zenon
<1> DEFINE Bad == {k \in 0 .. Len(cands) : ~KeptOf(kept[k], cands, k, rank_by)}
<1>2. Len(cands) \in Nat /\ Len(cands) \in 0 .. Len(cands)
  OBVIOUS
<1>3. Bad = {}
  <2> SUFFICES ASSUME Bad # {} PROVE FALSE
    OBVIOUS
  <2>1. PICK k \in Bad : \A j \in Nat : j < k => j \notin Bad
    <3>1. Bad \in SUBSET Nat
      OBVIOUS
    <3> HIDE DEF Bad
    <3> QED BY <3>1, OneIsFirst
  <2>2. k # 0
    <3>1. KeptOf(kept[0], cands, 0, rank_by)
      BY <1>1 DEF Passes, Unset, KeptOf
    <3> QED BY <2>1, <3>1
  <2>3. k \in 1 .. Len(cands) /\ k - 1 \in 0 .. Len(cands) /\ k - 1 < k /\ k - 1 \in Nat
    BY <1>2, <2>1, <2>2
  <2>4. KeptOf(kept[k - 1], cands, k - 1, rank_by)
    BY <2>1, <2>3
  <2>7. kept[k - 1] \in [best : SUBSET C, runner_up : SUBSET C]
    BY <1>1, <2>3 DEF Passes
  <2>5. kept[k] = Consider(kept[k - 1], cands[k], rank_by)
    BY <1>1, <2>3, Zenon DEF Passes
  <2>6. KeptOf(Consider(kept[k - 1], cands[k], rank_by), cands, k, rank_by)
    BY <2>3, <2>4, <2>7, ConsiderKeepsTheBest
  <2> QED BY <2>1, <2>5, <2>6
<1> QED BY <1>1, <1>2, <1>3

(*----------------------- the searches of the voice tools -----------------*)

(* A search under way: its ship has a hold, its origins are of this world, *)
(* and when it has nothing to fetch it has every origin already.           *)
Asked(s) ==
    /\ s = [step |-> "fetching", ask |-> s.ask, ship |-> s.ship, origins |-> s.origins, cached |-> s.cached,
            to_fetch |-> s.to_fetch, fetched |-> s.fetched, failed |-> s.failed]
    /\ Get(s.ship, "scu") \in Nat \ {0}
    /\ Len(s.origins) \in Nat
    /\ s.cached \in Seq(DOMAIN world.rows) /\ s.to_fetch \in Seq(DOMAIN world.rows)
    /\ s.fetched \in SUBSET Range(s.to_fetch) /\ IsFiniteSet(s.fetched)
    /\ s.to_fetch = <<>> => Len(s.cached) = Len(s.origins)

(* An offer made: what it holds are candidates for the hold of its ship. *)
Told(r) ==
    /\ Get(r.ship, "scu") \in Nat \ {0}
    /\ r.searched \in Nat
    /\ \A a \in r.best \cup r.runner_up : IsCandidate(a, Get(r.ship, "scu"))

SearchInv ==
    /\ world \in Worlds
    /\ search = NoSearch \/ Asked(search)
    /\ reply.kind = "route" => Told(reply)

(* A region, like a name, means some of the pool it is looked for in.      *)
LEMMA RegionIsOfThePool ==
    ASSUME NEW h, NEW pool
    PROVE  terminals_within(h, pool).terminals \in SUBSET pool
<1>1. \A name : /\ InPlace(name, pool).terminals \in SUBSET pool
                /\ InOrbit(name, pool).terminals \in SUBSET pool
                /\ InSystem(name, pool).terminals \in SUBSET pool
  BY DEF InPlace, InOrbit, InSystem, Region, TerminalsAt
<1>2. NoRegion.terminals \in SUBSET pool
  BY DEF NoRegion, Region
<1> QED BY <1>1, <1>2, Zenon DEF terminals_within

LEMMA OriginsAreTraded ==
    ASSUME NEW h, NEW mode \in {"exact", "near", "within"}
    PROVE  _resolve_origin(h, mode) \in SUBSET trade_terminals
<1>1. trade_terminals \in SUBSET Entries
  BY DEF trade_terminals, Terminals, OfKind
<1>2. resolve_or_hedge(h, trade_terminals).found \in trade_terminals \cup {Nothing}
  BY <1>1, FoundIsOfThePool
<1>3. terminals_within(h, trade_terminals).terminals \in SUBSET trade_terminals
  BY RegionIsOfThePool
<1>4. terminals_near(h, trade_terminals) \in SUBSET trade_terminals
  BY DEF terminals_near
<1>5. CASE mode = "exact"
  <2>1. _resolve_origin(h, mode) =
          IF resolve_or_hedge(h, trade_terminals).found # Nothing
          THEN {resolve_or_hedge(h, trade_terminals).found}
          ELSE terminals_within(h, trade_terminals).terminals
    BY <1>5 DEF _resolve_origin
  <2> QED BY <1>2, <1>3, <2>1
<1>6. CASE mode = "near"
  <2>1. _resolve_origin(h, mode) = terminals_near(h, trade_terminals)
    BY <1>6 DEF _resolve_origin
  <2> QED BY <1>4, <2>1
<1>7. CASE mode = "within"
  <2>1. _resolve_origin(h, mode) = terminals_within(h, trade_terminals).terminals
    BY <1>7 DEF _resolve_origin
  <2> QED BY <1>3, <2>1
<1> QED BY <1>5, <1>6, <1>7

LEMMA RowsAreRoutes ==
    ASSUME world \in Worlds, NEW origins \in Seq(DOMAIN world.rows)
    PROVE  AreRows(RowsOf(origins))
<1> DEFINE X == { r \in Routes : IsFiniteSet(r.sizes_origin) }
           rows == [i \in DOMAIN origins |-> world.rows[origins[i]]]
<1>1. ASSUME NEW o \in DOMAIN world.rows PROVE world.rows[o] \in Seq(X)
  <2>1. world.rows[o] \in Seq(Routes) /\ \A i \in DOMAIN world.rows[o] : IsFiniteSet(world.rows[o][i].sizes_origin)
    BY WorldsAssumption
  <2>2. PICK seq \in Seq(Routes) : seq = world.rows[o]
    BY <2>1
  <2>3. DOMAIN seq = 1 .. Len(seq) /\ Len(seq) \in Nat /\ \A i \in DOMAIN seq : seq[i] \in X
    BY <2>1, <2>2
  <2> HIDE DEF X
  <2>4. seq \in Seq(X)
    BY <2>3
  <2> QED BY <2>2, <2>4
<1>2. rows \in Seq(Seq(X))
  <2> HIDE DEF X
  <2>1. DOMAIN origins = 1 .. Len(origins) /\ Len(origins) \in Nat
        /\ \A i \in DOMAIN origins : world.rows[origins[i]] \in Seq(X)
    BY <1>1
  <2> QED BY <2>1
<1>3. FlattenSeq(rows) \in Seq(X)
  <2> HIDE DEF X, rows
  <2> QED BY <1>2, FlattenIsASequence
<1>4. PICK all \in Seq(X) : all = RowsOf(origins)
  BY <1>3, Zenon DEF RowsOf
<1>5. all \in Seq(Routes) /\ \A i \in DOMAIN all : IsFiniteSet(all[i].sizes_origin)
  OBVIOUS
<1> QED BY <1>4, <1>5 DEF AreRows

LEMMA TheFirstFew ==
    ASSUME NEW X, NEW seq \in Seq(X), NEW m \in Nat, m <= Len(seq)
    PROVE  SubSeq(seq, 1, m) \in Seq(X) /\ Len(SubSeq(seq, 1, m)) = m
OBVIOUS

(* A search that begins has all its origins, unless it has some to fetch.  *)
LEMMA ASearchBegins ==
    ASSUME world \in Worlds, NEW ask, NEW ship, Get(ship, "scu") \in Nat \ {0},
           NEW from \in SUBSET DOMAIN world.rows
    PROVE  Asked(_route_rows_for(ask, ship, from))
<1> DEFINE origins == InOrder(from)
           uncached == Only(origins, Entries \ cached)
           seen == Only(origins, cached)
           to_fetch == LiveFetches(uncached)
           s == _route_rows_for(ask, ship, from)
<1>1. from \in SUBSET Entries /\ from \in SUBSET Nat /\ IsFiniteSet(from)
  <2>1. from \in SUBSET Entries
    BY WorldsAssumption DEF Terminals, OfKind
  <2> QED BY <2>1, EntriesAreNumbers, FS_Subset
<1>2. origins \in Seq(from)
  BY <1>1, InOrderIsASequence
<1>3. seen \in Seq(from \cap cached) /\ uncached \in Seq(from \cap (Entries \ cached))
  <2> HIDE DEF origins
  <2> QED BY <1>2, OnlyKeepsThose
<1>4. seen \in Seq(DOMAIN world.rows) /\ uncached \in Seq(DOMAIN world.rows) /\ Len(origins) \in Nat
  <2>1. PICK a \in Seq(from \cap cached), b \in Seq(from \cap (Entries \ cached)) : a = seen /\ b = uncached
    BY <1>3
  <2>2. a \in Seq(DOMAIN world.rows) /\ b \in Seq(DOMAIN world.rows)
    OBVIOUS
  <2>3. PICK c \in Seq(from) : c = origins
    BY <1>2
  <2>4. Len(c) \in Nat
    OBVIOUS
  <2> HIDE DEF seen, uncached, origins
  <2> QED BY <2>1, <2>2, <2>3, <2>4
<1>5. PICK m \in Nat : /\ m <= Len(uncached) /\ (m = 0 => Len(uncached) = 0)
                       /\ to_fetch = SubSeq(uncached, 1, m)
  <2>1. Len(uncached) \in Nat
    <3> HIDE DEF uncached
    <3> QED BY <1>4
  <2>2. Min({MAX_LIVE_ROUTE_FETCHES, Len(uncached)})
          = IF MAX_LIVE_ROUTE_FETCHES <= Len(uncached) THEN MAX_LIVE_ROUTE_FETCHES ELSE Len(uncached)
    <3> HIDE DEF uncached
    <3> QED BY <2>1, FetchesAssumption, TheSmaller
  <2>3. to_fetch = SubSeq(uncached, 1, Min({MAX_LIVE_ROUTE_FETCHES, Len(uncached)}))
    BY Zenon DEF LiveFetches
  <2> DEFINE n == Min({MAX_LIVE_ROUTE_FETCHES, Len(uncached)})
  <2>4. n \in Nat /\ n <= Len(uncached) /\ (n = 0 => Len(uncached) = 0)
    <3> HIDE DEF uncached
    <3> QED BY <2>1, <2>2, FetchesAssumption
  <2> HIDE DEF n, to_fetch, uncached
  <2> QED BY <2>3, <2>4 DEF n
<1>6. to_fetch \in Seq(DOMAIN world.rows) /\ (to_fetch = <<>> => Len(uncached) = 0)
  <2> HIDE DEF to_fetch, uncached
  <2>1. Len(uncached) \in Nat /\ DOMAIN uncached = 1 .. Len(uncached)
    BY <1>4
  <2>2. SubSeq(uncached, 1, m) \in Seq(DOMAIN world.rows) /\ Len(SubSeq(uncached, 1, m)) = m
    BY <1>4, <1>5, <2>1, TheFirstFew
  <2> QED BY <1>5, <2>2
<1>7. to_fetch = <<>> => Len(seen) = Len(origins)
  <2> SUFFICES ASSUME to_fetch = <<>> PROVE Len(seen) = Len(origins)
    OBVIOUS
  <2>1. Len(uncached) = 0
    BY <1>6
  <2>2. uncached = <<>>
    <3> HIDE DEF uncached
    <3> QED BY <1>4, <2>1
  <2>3. \A k \in 1 .. Len(origins) : origins[k] \notin Entries \ cached
    <3> HIDE DEF origins
    <3> QED BY <1>2, <2>2, OnlyCounts
  <2>4. \A k \in 1 .. Len(origins) : origins[k] \in cached
    <3> HIDE DEF origins
    <3>1. \A k \in 1 .. Len(origins) : origins[k] \in from
      BY <1>2
    <3> QED BY <1>1, <2>3, <3>1
  <2> HIDE DEF origins
  <2> QED BY <1>2, <2>4, OnlyCounts
<1>8. s = [step |-> "fetching", ask |-> ask, ship |-> ship, origins |-> origins, cached |-> seen,
           to_fetch |-> to_fetch, fetched |-> {}, failed |-> {}]
  BY Zenon DEF _route_rows_for
<1>9. {} \in SUBSET Range(to_fetch) /\ IsFiniteSet({})
  BY FS_EmptySet
<1> HIDE DEF origins, uncached, seen, to_fetch, s
<1>10. /\ s.ship = ship /\ s.origins = origins /\ s.cached = seen /\ s.to_fetch = to_fetch
       /\ s.ask = ask /\ s.fetched = {} /\ s.failed = {}
  BY <1>8
<1>11. Asked(s)
  BY <1>4, <1>6, <1>7, <1>8, <1>9, <1>10 DEF Asked
<1> QED BY <1>11 DEF s

LEMMA WhatIsRankedIsRows ==
    ASSUME world \in Worlds, Asked(search)
    PROVE  AreRows(Rows)
<1> DEFINE got == Only(search.to_fetch, search.fetched)
<1>1. PICK a \in Seq(DOMAIN world.rows) : a = search.cached
  BY DEF Asked
<1>2. got \in Seq(DOMAIN world.rows \cap search.fetched)
  BY OnlyKeepsThose DEF Asked
<1>3. PICK b \in Seq(DOMAIN world.rows) : b = got
  <2>1. PICK c \in Seq(DOMAIN world.rows \cap search.fetched) : c = got
    BY <1>2
  <2>2. c \in Seq(DOMAIN world.rows)
    OBVIOUS
  <2> HIDE DEF got
  <2> QED BY <2>1, <2>2
<1>4. a \o b \in Seq(DOMAIN world.rows)
  OBVIOUS
<1>5. Rows = RowsOf(a \o b)
  BY <1>1, <1>3, Zenon DEF Rows
<1> QED BY <1>4, <1>5, RowsAreRoutes

(* How many origins a search saw: a number, more than were cached when one *)
(* was fetched.                                                            *)
LEMMA SearchedIsANumber ==
    ASSUME Asked(search)
    PROVE  /\ Searched \in Nat /\ Len(search.cached) \in Nat
           /\ Searched >= Len(search.cached)
           /\ search.fetched # {} => Searched > Len(search.cached)
           /\ search.fetched = {} => Searched = Len(search.cached)
<1>1. Len(search.cached) \in Nat
  BY DEF Asked
<1>3. IsFiniteSet(search.fetched)
  BY DEF Asked
<1>4. Cardinality(search.fetched) \in Nat /\ (Cardinality(search.fetched) = 0 <=> search.fetched = {})
  BY <1>3, FS_CardinalityType, FS_EmptySet
<1> QED BY <1>1, <1>4 DEF Searched

(* What a report offers: the pass over the candidates of the rows.         *)
Ranked == Candidates(Rows, search.ask, Get(search.ship, "scu"))
Result == find_best_route(Rows, search.ask, Get(search.ship, "scu"))

LEMMA TheResultIsTheBest ==
    ASSUME world \in Worlds, Asked(search)
    PROVE  \E C : /\ Ranked \in Seq(C) /\ \A a \in C : IsCandidate(a, Get(search.ship, "scu"))
                  /\ KeptOf(Result, Ranked, Len(Ranked), search.ask.rank_by)
<1>1. AreRows(Rows) /\ Get(search.ship, "scu") \in Nat \ {0}
  BY WhatIsRankedIsRows DEF Asked
<1>2. PICK C : Ranked \in Seq(C) /\ \A a \in C : IsCandidate(a, Get(search.ship, "scu"))
  BY <1>1, CandidatesAreCandidates, Zenon DEF Ranked
<1>3. \A a \in C : Timed(a)
  BY <1>2 DEF IsCandidate, Timed
<1>4. KeptOf(Pass(search.ask.rank_by, Ranked), Ranked, Len(Ranked), search.ask.rank_by)
  BY <1>2, <1>3, ThePassKeepsTheBest, Zenon
<1>5. Result = Pass(search.ask.rank_by, Ranked)
  BY Zenon DEF Result, Ranked, find_best_route, Pass
<1> QED BY <1>2, <1>4, <1>5, Zenon

LEMMA TheResultIsOfCandidates ==
    ASSUME world \in Worlds, Asked(search)
    PROVE  \A a \in Result.best \cup Result.runner_up : IsCandidate(a, Get(search.ship, "scu"))
<1>1. PICK C : /\ Ranked \in Seq(C) /\ \A a \in C : IsCandidate(a, Get(search.ship, "scu"))
               /\ KeptOf(Result, Ranked, Len(Ranked), search.ask.rank_by)
  BY TheResultIsTheBest, Zenon
<1> DEFINE n == Len(Ranked)
<1>2. n \in Nat /\ \A i \in 1 .. n : Ranked[i] \in C
  BY <1>1
<1> HIDE DEF n
<1>3. CASE n = 0
  <2>1. Result.best = {} /\ Result.runner_up = {}
    BY <1>1, <1>3, Zenon DEF KeptOf, n
  <2> QED BY <2>1
<1>4. CASE n # 0
  <2>1. PICK i \in 1 .. n :
           /\ Result.best = {Ranked[i]}
           /\ IF n = 1 THEN Result.runner_up = {}
              ELSE \E m \in (1 .. n) \ {i} : Result.runner_up = {Ranked[m]}
    BY <1>1, <1>4, Zenon DEF KeptOf, n
  <2>2. Result.runner_up = {} \/ \E m \in 1 .. n : Result.runner_up = {Ranked[m]}
    BY <2>1, Zenon
  <2> QED BY <1>1, <1>2, <2>1, <2>2
<1> QED BY <1>3, <1>4

(* A step that ends a search reports, and reports what the search found.   *)
LEMMA OnlyReportsEnds ==
    ASSUME search = NoSearch \/ Asked(search), SearchNext, Gathered, search' = NoSearch
    PROVE  Reports
<1>0. Asked(search)
  BY DEF Gathered, NoSearch
<1>1. ~MayAsk /\ search # NoSearch
  BY DEF MayAsk, Gathered, NoSearch
<1>2. \A ask : ~BestRoute(ask)
  BY <1>1, Zenon DEF BestRoute
<1>3. \A run : ~TradeAdvisor(run)
  BY <1>1, Zenon DEF TradeAdvisor
<1>4. \A action : ~PriceLookup(action)
  BY <1>1, Zenon DEF PriceLookup
<1>5. \A o : ~Expires(o)
  BY <1>1, Zenon DEF Expires
<1>6. ASSUME NEW o, FetchEnds(o) PROVE FALSE
  <2>1. search' \in {[search EXCEPT !.failed = @ \cup {o}], [search EXCEPT !.fetched = @ \cup {o}]}
    BY <1>6 DEF FetchEnds
  <2>2. search'.step = search.step
    BY <1>0, <2>1 DEF Asked
  <2> QED BY <1>6, <2>2 DEF FetchEnds, NoSearch
<1> QED BY <1>2, <1>3, <1>4, <1>5, <1>6, Zenon DEF SearchNext

LEMMA AReportTells ==
    ASSUME Reports, ~Failed
    PROVE  \E verdict : reply' = Offer(Result, verdict)
BY Zenon DEF Reports, Say, Result

(* What is told comes from the search that ends.                           *)
LEMMA AnOfferIs ==
    ASSUME NEW verdict
    PROVE  LET r == Offer(Result, verdict) IN
           /\ r.kind = "route" /\ r.best = Result.best /\ r.runner_up = Result.runner_up
           /\ r.ship = search.ship /\ r.searched = Searched /\ r.available = Len(search.origins)
BY DEF Offer

(*-------------------------------- the invariant --------------------------*)

LEMMA SearchInitInv ==
    ASSUME SearchInit
    PROVE  SearchInv
BY DEF SearchInit, SearchInv, Silence

(* An offer and a search that nothing touched are still what they were.    *)
LEMMA AsBefore ==
    ASSUME world' = world
    PROVE  /\ search' = search /\ Asked(search) => Asked(search)'
           /\ reply' = reply /\ Told(reply) => Told(reply)'
<1>1. search' = search /\ Asked(search) => Asked(search)'
  BY Zenon DEF Asked, Get
<1>2. reply' = reply /\ Told(reply) => Told(reply)'
  BY Zenon DEF Told, Get, IsCandidate, IsRoute, reachable_scu
<1> QED BY <1>1, <1>2

LEMMA BestRouteInv ==
    ASSUME SearchInv, NEW ask \in world.asks.best_route, BestRoute(ask)
    PROVE  SearchInv'
<1> DEFINE ship == resolve_cargo_ship(world.heard.ship)
           from == _resolve_origin(world.heard.place, ask.mode)
<1>1. world' = world /\ world \in Worlds /\ search = NoSearch
  BY Zenon DEF BestRoute, SearchInv, MayAsk
<1>2. CASE ship.found = Nothing \/ from = {}
  <2>1. search' = search /\ reply'.kind = "hedge"
    BY <1>2 DEF BestRoute, Say
  <2> QED BY <1>1, <2>1 DEF SearchInv
<1>3. CASE ship.found # Nothing /\ from # {}
  <2>1. search' = _route_rows_for(ask, ship.found, from) /\ reply' = reply
    BY <1>3, Zenon DEF BestRoute
  <2>2. Get(ship.found, "scu") \in Nat \ {0}
    BY <1>3, HaulersHaul
  <2>3. from \in SUBSET DOMAIN world.rows
    <3>1. ask.mode \in {"exact", "near", "within"} /\ trade_terminals \subseteq DOMAIN world.rows
      BY <1>1, WorldsAssumption
    <3>2. from \in SUBSET trade_terminals
      BY <3>1, OriginsAreTraded
    <3> HIDE DEF from
    <3> QED BY <3>1, <3>2
  <2>4. Asked(search')
    <3> HIDE DEF ship, from
    <3> QED BY <1>1, <2>1, <2>2, <2>3, ASearchBegins
  <2>5. Asked(search)'
    BY <1>1, <2>4, Zenon DEF Asked, Get
  <2> QED BY <1>1, <2>1, <2>5, AsBefore, Zenon DEF SearchInv
<1> QED BY <1>2, <1>3

LEMMA TradeAdvisorInv ==
    ASSUME SearchInv, NEW run \in world.asks.trade_advisor, TradeAdvisor(run)
    PROVE  SearchInv'
<1> DEFINE ship == resolve_cargo_ship(world.heard.ship)
<1>1. world' = world /\ world \in Worlds /\ search = NoSearch
  BY Zenon DEF TradeAdvisor, SearchInv, MayAsk
<1>2. CASE ship.found = Nothing
  <2>1. search' = search /\ reply'.kind = "hedge"
    BY <1>2 DEF TradeAdvisor, Say
  <2> QED BY <1>1, <2>1 DEF SearchInv
<1>3. CASE ship.found # Nothing
  <2>1. search' = _route_rows_for(AdvisorAsk(run), ship.found, {run.acquisition}) /\ reply' = reply
    BY <1>3, Zenon DEF TradeAdvisor
  <2>2. Get(ship.found, "scu") \in Nat \ {0}
    BY <1>3, HaulersHaul
  <2>3. {run.acquisition} \in SUBSET DOMAIN world.rows
    BY <1>1, WorldsAssumption
  <2>4. Asked(search')
    <3> HIDE DEF ship
    <3> QED BY <1>1, <2>1, <2>2, <2>3, ASearchBegins
  <2>5. Asked(search)'
    BY <1>1, <2>4, Zenon DEF Asked, Get
  <2> QED BY <1>1, <2>1, <2>5, AsBefore, Zenon DEF SearchInv
<1> QED BY <1>2, <1>3

LEMMA FetchEndsInv ==
    ASSUME SearchInv, NEW o, FetchEnds(o)
    PROVE  SearchInv'
<1>1. world' = world /\ reply' = reply /\ world \in Worlds
  BY Zenon DEF FetchEnds, SearchInv
<1>2. Asked(search)
  BY DEF FetchEnds, SearchInv, NoSearch
<1>3. o \in Range(search.to_fetch)
  BY Zenon DEF FetchEnds
<1>4. search' = [search EXCEPT !.failed = @ \cup {o}] \/ search' = [search EXCEPT !.fetched = @ \cup {o}]
  BY DEF FetchEnds
<1>5. /\ search' = [step |-> "fetching", ask |-> search'.ask, ship |-> search'.ship, origins |-> search'.origins,
                    cached |-> search'.cached, to_fetch |-> search'.to_fetch, fetched |-> search'.fetched,
                    failed |-> search'.failed]
      /\ search'.ship = search.ship /\ search'.origins = search.origins
      /\ search'.cached = search.cached /\ search'.to_fetch = search.to_fetch
      /\ search'.fetched \in {search.fetched, search.fetched \cup {o}}
  <2>1. search = [step |-> "fetching", ask |-> search.ask, ship |-> search.ship, origins |-> search.origins,
                  cached |-> search.cached, to_fetch |-> search.to_fetch, fetched |-> search.fetched,
                  failed |-> search.failed]
    BY <1>2 DEF Asked
  <2> QED BY <1>4, <2>1
<1>6. IsFiniteSet(search'.fetched)
  BY <1>2, <1>5, FS_AddElement DEF Asked
<1>7. search'.fetched \in SUBSET Range(search'.to_fetch)
  BY <1>2, <1>3, <1>5 DEF Asked
<1>8. Asked(search)'
  <2>1. /\ Get(search.ship, "scu") \in Nat \ {0}
        /\ Len(search.origins) \in Nat
        /\ search.cached \in Seq(DOMAIN world.rows) /\ search.to_fetch \in Seq(DOMAIN world.rows)
        /\ search.to_fetch = <<>> => Len(search.cached) = Len(search.origins)
    BY <1>2, Zenon DEF Asked
  <2> QED BY <1>1, <1>5, <1>6, <1>7, <2>1, Zenon DEF Asked, Get
<1> QED BY <1>1, <1>8, AsBefore, Zenon DEF SearchInv

LEMMA ReportsInv ==
    ASSUME SearchInv, Reports
    PROVE  SearchInv'
<1>1. world' = world /\ search' = NoSearch /\ world \in Worlds
  BY Zenon DEF Reports, SearchInv
<1>2. Asked(search)
  BY DEF Reports, Gathered, SearchInv, NoSearch
<1>3. CASE Failed
  <2>1. reply'.kind = "error"
    BY <1>3 DEF Reports, Say
  <2> QED BY <1>1, <2>1 DEF SearchInv
<1>4. CASE ~Failed
  <2>1. PICK verdict : reply' = Offer(Result, verdict)
    BY <1>4, AReportTells
  <2>2. /\ reply'.best = Result.best /\ reply'.runner_up = Result.runner_up
        /\ reply'.ship = search.ship /\ reply'.searched = Searched
    BY <2>1, AnOfferIs, Zenon
  <2>3. \A a \in Result.best \cup Result.runner_up : IsCandidate(a, Get(search.ship, "scu"))
    BY <1>1, <1>2, TheResultIsOfCandidates
  <2>4. Searched \in Nat
    BY <1>2, SearchedIsANumber
  <2>5. Get(search.ship, "scu") \in Nat \ {0}
    BY <1>2, Zenon DEF Asked
  <2>6. Told(reply')
    BY <2>2, <2>3, <2>4, <2>5, Zenon DEF Told
  <2>7. Told(reply)'
    BY <2>6, Zenon DEF Told, Get, IsCandidate, IsRoute, reachable_scu
  <2> QED BY <1>1, <2>7, Zenon DEF SearchInv
<1> QED BY <1>3, <1>4

LEMMA SearchNextInv ==
    ASSUME SearchInv, [SearchNext]_searchVars
    PROVE  SearchInv'
<1>1. ASSUME NEW ask \in world.asks.best_route, BestRoute(ask) PROVE SearchInv'
  BY <1>1, BestRouteInv
<1>2. ASSUME NEW run \in world.asks.trade_advisor, TradeAdvisor(run) PROVE SearchInv'
  BY <1>2, TradeAdvisorInv
<1>3. ASSUME NEW o, FetchEnds(o) PROVE SearchInv'
  BY <1>3, FetchEndsInv
<1>4. ASSUME NEW o, Expires(o) PROVE SearchInv'
  <2>1. world' = world /\ search' = search /\ reply' = reply
    BY <1>4, Zenon DEF Expires
  <2> QED BY <2>1, AsBefore, Zenon DEF SearchInv
<1>5. ASSUME Reports PROVE SearchInv'
  BY <1>5, ReportsInv
<1>6. ASSUME NEW action, PriceLookup(action) PROVE SearchInv'
  <2>1. world' = world /\ search' = search /\ reply'.kind = "price"
    BY <1>6 DEF PriceLookup, Say
  <2> QED BY <2>1, AsBefore, Zenon DEF SearchInv
<1>7. ASSUME UNCHANGED searchVars PROVE SearchInv'
  <2>1. world' = world /\ search' = search /\ reply' = reply
    BY <1>7 DEF searchVars
  <2> QED BY <2>1, AsBefore, Zenon DEF SearchInv
<1> QED BY <1>1, <1>2, <1>3, <1>4, <1>5, <1>6, <1>7, Zenon DEF SearchNext

LEMMA SearchesKeepTheInvariant == SearchSpec => []SearchInv
<1>1. SearchInit => SearchInv
  BY SearchInitInv
<1>2. SearchInv /\ [SearchNext]_searchVars => SearchInv'
  BY SearchNextInv
<1> QED BY <1>1, <1>2, PTL DEF SearchSpec

(*------------------------------- the theorems ----------------------------*)

LEMMA CandidatesAreFullest ==
    ASSUME NEW a, NEW hold \in Nat \ {0}, IsCandidate(a, hold),
           NEW sizes, sizes = a.route.sizes_origin \cap a.route.sizes_destination, sizes # {}
    PROVE  /\ a.scu = Fullest(Room(a.route, hold), sizes)
           /\ ScuOf(best_container_mix(a.scu, sizes)) = a.scu
<1>1. sizes = usable_container_sizes(a.route.sizes_origin, a.route.sizes_destination)
  BY Zenon DEF usable_container_sizes
<1>2. IsRoute(a.route) /\ a.scu = reachable_scu(a.route, hold) /\ a.scu > 0 /\ a.scu \in Nat
  BY DEF IsCandidate
<1>3. IsSizes(sizes)
  BY <1>1, <1>2, CommonSizes
<1>4. Room(a.route, hold) \in Nat /\ a.scu = Fullest(Room(a.route, hold), sizes)
  BY <1>1, <1>2, LoadIsOfTheRoom
<1>5. Fullest(a.scu, sizes) = a.scu
  BY <1>3, <1>4, FullStaysFull
<1>6. ScuOf(best_container_mix(a.scu, sizes)) = Fullest(a.scu, sizes)
  BY <1>2, <1>3, MixAddsUp
<1> QED BY <1>4, <1>5, <1>6

(* A load that is offered is the fullest of all the ways to fill what the  *)
(* stock, the demand and the hold leave room for with the boxes both ends  *)
(* handle, and the boxes it is counted in add up to it.                    *)
THEOREM LoadsAreFullest == SearchSpec => []LoadIsFullest
<1>1. SearchInv => LoadIsFullest
  <2> SUFFICES ASSUME SearchInv, reply.kind = "route", NEW a \in reply.best \cup reply.runner_up
               PROVE  LET sizes == a.route.sizes_origin \cap a.route.sizes_destination
                          capacity == Min({a.route.scu_origin, a.route.scu_destination, Get(reply.ship, "scu")})
                      IN  sizes # {} => /\ a.scu = Fullest(capacity, sizes)
                                        /\ ScuOf(best_container_mix(a.scu, sizes)) = a.scu
    BY Zenon DEF LoadIsFullest
  <2>1. Get(reply.ship, "scu") \in Nat \ {0} /\ IsCandidate(a, Get(reply.ship, "scu"))
    BY Zenon DEF SearchInv, Told
  <2> DEFINE sizes == a.route.sizes_origin \cap a.route.sizes_destination
  <2>2. sizes # {} => /\ a.scu = Fullest(Room(a.route, Get(reply.ship, "scu")), sizes)
                      /\ ScuOf(best_container_mix(a.scu, sizes)) = a.scu
    <3> HIDE DEF sizes
    <3> QED BY <2>1, CandidatesAreFullest DEF sizes
  <2> QED BY <2>2, Zenon DEF Room
<1> QED BY <1>1, SearchesKeepTheInvariant, PTL

LEMMA WhatIsKeptIsBest ==
    ASSUME NEW kept, NEW cands, Len(cands) \in Nat, DOMAIN cands = 1 .. Len(cands), NEW rank_by,
           cands = <<>> <=> Len(cands) = 0,
           KeptOf(kept, cands, Len(cands), rank_by)
    PROVE  LET BestBut(i) == { k \in DOMAIN cands \ {i} :
                                \A j \in DOMAIN cands \ {i} : ~Beats(cands[j], cands[k], rank_by) }
           IN  IF cands = <<>> THEN kept.best = {} /\ kept.runner_up = {}
               ELSE \E i \in BestBut(0) :
                      /\ kept.best = {cands[i]}
                      /\ kept.runner_up = {} <=> Len(cands) = 1
                      /\ kept.runner_up \subseteq { cands[k] : k \in BestBut(i) }
<1> DEFINE n == Len(cands)
           BestBut(i) == { k \in DOMAIN cands \ {i} :
                            \A j \in DOMAIN cands \ {i} : ~Beats(cands[j], cands[k], rank_by) }
<1>1. CASE cands = <<>>
  <2>1. kept.best = {} /\ kept.runner_up = {}
    BY <1>1, Zenon DEF KeptOf
  <2> QED BY <1>1, <2>1
<1>2. CASE cands # <<>>
  <2>1. n # 0
    BY <1>2
  <2>2. PICK i \in 1 .. n :
           /\ kept.best = {cands[i]} /\ Unbeaten(cands, 1 .. n, i, rank_by)
           /\ IF n = 1 THEN kept.runner_up = {}
              ELSE \E m \in (1 .. n) \ {i} :
                     kept.runner_up = {cands[m]} /\ Unbeaten(cands, (1 .. n) \ {i}, m, rank_by)
    BY <2>1, Zenon DEF KeptOf
  <2>3. i \in BestBut(0)
    <3>1. DOMAIN cands \ {0} = 1 .. n
      OBVIOUS
    <3> QED BY <2>2, <3>1, Zenon DEF Unbeaten
  <2>4. CASE n = 1
    <3>1. kept.runner_up = {}
      BY <2>2, <2>4, Zenon
    <3>2. kept.runner_up \subseteq { cands[k] : k \in BestBut(i) }
      BY <3>1, Zenon
    <3> HIDE DEF BestBut
    <3> QED BY <1>2, <2>2, <2>3, <2>4, <3>1, <3>2, Zenon DEF BestBut
  <2>5. CASE n # 1
    <3>1. PICK m \in (1 .. n) \ {i} :
                     kept.runner_up = {cands[m]} /\ Unbeaten(cands, (1 .. n) \ {i}, m, rank_by)
      BY <2>2, <2>5, Zenon
    <3>2. m \in BestBut(i)
      BY <3>1, Zenon DEF Unbeaten
    <3>3. kept.runner_up # {} /\ kept.runner_up \subseteq { cands[k] : k \in BestBut(i) }
      BY <3>1, <3>2, Zenon
    <3> HIDE DEF BestBut
    <3> QED BY <1>2, <2>2, <2>3, <2>5, <3>3, Zenon DEF BestBut
  <2> QED BY <2>4, <2>5
<1> QED BY <1>1, <1>2

(* A report offers first the best of all that was searched and may be      *)
(* offered, and next the best of the others.                               *)
THEOREM TheBestComesFirst == SearchSpec => BestIsBest
<1>1. SearchInv /\ [SearchNext]_searchVars =>
        [ LET cands == Candidates(Rows, search.ask, Get(search.ship, "scu"))
              BestBut(i) == { k \in DOMAIN cands \ {i} :
                               \A j \in DOMAIN cands \ {i} : ~Beats(cands[j], cands[k], search.ask.rank_by) }
          IN  Reported =>
                IF cands = <<>> THEN reply'.best = {} /\ reply'.runner_up = {}
                ELSE \E i \in BestBut(0) :
                       /\ reply'.best = {cands[i]}
                       /\ reply'.runner_up = {} <=> Len(cands) = 1
                       /\ reply'.runner_up \subseteq { cands[k] : k \in BestBut(i) } ]_searchVars
  <2> SUFFICES ASSUME SearchInv, SearchNext, Reported
               PROVE  LET BestBut(i) == { k \in DOMAIN Ranked \ {i} :
                               \A j \in DOMAIN Ranked \ {i} : ~Beats(Ranked[j], Ranked[k], search.ask.rank_by) }
                      IN  IF Ranked = <<>> THEN reply'.best = {} /\ reply'.runner_up = {}
                          ELSE \E i \in BestBut(0) :
                                 /\ reply'.best = {Ranked[i]}
                                 /\ reply'.runner_up = {} <=> Len(Ranked) = 1
                                 /\ reply'.runner_up \subseteq { Ranked[k] : k \in BestBut(i) }
    BY Zenon DEF Ranked
  <2>1. Asked(search) /\ world \in Worlds
    BY DEF SearchInv, Reported, Gathered, NoSearch
  <2>2. Reports /\ ~Failed
    BY <2>1, OnlyReportsEnds, Zenon DEF Reported
  <2>3. PICK verdict : reply' = Offer(Result, verdict)
    BY <2>2, AReportTells
  <2>4. reply'.best = Result.best /\ reply'.runner_up = Result.runner_up
    BY <2>3, AnOfferIs, Zenon
  <2>5. PICK C : Ranked \in Seq(C) /\ KeptOf(Result, Ranked, Len(Ranked), search.ask.rank_by)
    BY <2>1, TheResultIsTheBest, Zenon
  <2>6. Len(Ranked) \in Nat /\ DOMAIN Ranked = 1 .. Len(Ranked) /\ (Ranked = <<>> <=> Len(Ranked) = 0)
    BY <2>5
  <2>7. KeptOf(reply', Ranked, Len(Ranked), search.ask.rank_by)
    BY <2>4, <2>5, Zenon DEF KeptOf
  <2> QED BY <2>6, <2>7, WhatIsKeptIsBest, Zenon
<1> QED BY <1>1, SearchesKeepTheInvariant, PTL DEF SearchSpec, BestIsBest

(* Asked again, a search sees more origins than before, or all there are.  *)
THEOREM SearchingAgainWidens == SearchSpec => SearchesWiden
<1>1. SearchInv /\ [SearchNext]_searchVars =>
        [ Reported /\ reply.kind = "route" /\ reply.ask = search.ask
            /\ Len(search.cached) >= reply.searched /\ (search.fetched # {} \/ search.failed = {})
            => reply'.searched > reply.searched \/ reply'.searched = reply'.available ]_searchVars
  <2> SUFFICES ASSUME SearchInv, SearchNext, Reported, reply.kind = "route",
                      Len(search.cached) >= reply.searched, search.fetched # {} \/ search.failed = {}
               PROVE  reply'.searched > reply.searched \/ reply'.searched = reply'.available
    BY Zenon
  <2>1. Asked(search) /\ world \in Worlds
    BY DEF SearchInv, Reported, Gathered, NoSearch
  <2>2. Reports /\ ~Failed /\ Gathered
    BY <2>1, OnlyReportsEnds, Zenon DEF Reported
  <2>3. PICK verdict : reply' = Offer(Result, verdict)
    BY <2>2, AReportTells
  <2>4. reply'.searched = Searched /\ reply'.available = Len(search.origins)
    BY <2>3, AnOfferIs, Zenon
  <2>5. reply.searched \in Nat
    BY Zenon DEF SearchInv, Told
  <2>6. CASE search.fetched # {}
    BY <2>1, <2>4, <2>5, <2>6, SearchedIsANumber
  <2>7. CASE search.fetched = {} /\ search.failed = {}
    <3>1. Range(search.to_fetch) = {}
      BY <2>2, <2>7 DEF Gathered
    <3>2. search.to_fetch = <<>>
      <4>1. PICK seq \in Seq(DOMAIN world.rows) : seq = search.to_fetch
        BY <2>1 DEF Asked
      <4>2. \A i \in DOMAIN seq : seq[i] \in Range(seq)
        BY DEF Range
      <4>3. DOMAIN seq = 1 .. Len(seq) /\ Len(seq) \in Nat
        BY <4>1
      <4>4. Len(seq) = 0
        BY <3>1, <4>1, <4>2, <4>3
      <4> QED BY <4>1, <4>4
    <3>3. Len(search.cached) = Len(search.origins)
      BY <2>1, <3>2, Zenon DEF Asked
    <3> QED BY <2>1, <2>4, <2>7, <3>3, SearchedIsANumber
  <2> QED BY <2>6, <2>7
<1> QED BY <1>1, SearchesKeepTheInvariant, PTL DEF SearchSpec, SearchesWiden

(*----------------- what a name means under another order -----------------*)

(* Two entries of one name each that a pool has both of, or neither.       *)
Twins(a, b, pool) ==
    /\ a \in Entries /\ b \in Entries /\ a # b
    /\ OnlyOneSoNamed(a) /\ OnlyOneSoNamed(b)
    /\ pool \in SUBSET Entries /\ (a \in pool <=> b \in pool)

LEMMA SwapsBack ==
    ASSUME NEW a, NEW b, a # b, NEW x
    PROVE  /\ Swap(Swap(x, a, b), a, b) = x
           /\ x # a /\ x # b => Swap(x, a, b) = x
           /\ Swap(a, a, b) = b /\ Swap(b, a, b) = a
BY Zenon DEF Swap

LEMMA SwapsSets ==
    ASSUME NEW a, NEW b, a # b, NEW S
    PROVE  /\ \A x : x \in SwapIn(S, a, b) <=> Swap(x, a, b) \in S
           /\ SwapIn(S, a, b) = {} <=> S = {}
<1>1. ASSUME NEW x, x \in SwapIn(S, a, b) PROVE Swap(x, a, b) \in S
  <2>1. PICK e \in S : x = Swap(e, a, b)
    BY <1>1, Zenon DEF SwapIn
  <2> QED BY <2>1, SwapsBack
<1>2. ASSUME NEW x, Swap(x, a, b) \in S PROVE x \in SwapIn(S, a, b)
  <2>1. x = Swap(Swap(x, a, b), a, b)
    BY SwapsBack
  <2> QED BY <1>2, <2>1, Zenon DEF SwapIn
<1>3. SwapIn(S, a, b) = {} <=> S = {}
  BY Zenon DEF SwapIn
<1> QED BY <1>1, <1>2, <1>3, Zenon

LEMMA SwapsNeither ==
    ASSUME NEW a, NEW b, NEW S, a \notin S, b \notin S
    PROVE  SwapIn(S, a, b) = S
<1>1. \A x \in S : Swap(x, a, b) = x
  BY Zenon DEF Swap
<1>2. \A x : x \in SwapIn(S, a, b) => x \in S
  BY <1>1, Zenon DEF SwapIn
<1>3. \A x : x \in S => x \in SwapIn(S, a, b)
  BY <1>1, Zenon DEF SwapIn
<1> QED BY <1>2, <1>3, Zenon

LEMMA SwapsAsMany ==
    ASSUME NEW a, NEW b, a # b, NEW S, IsFiniteSet(S)
    PROVE  IsFiniteSet(SwapIn(S, a, b)) /\ Cardinality(SwapIn(S, a, b)) = Cardinality(S)
<1> DEFINE f == [x \in S |-> Swap(x, a, b)]
<1>1. f \in [S -> SwapIn(S, a, b)]
  BY DEF SwapIn
<1>2. \A x, y \in S : f[x] = f[y] => x = y
  BY DEF Swap
<1>3. \A y \in SwapIn(S, a, b) : \E x \in S : f[x] = y
  BY DEF SwapIn
<1>4. f \in Bijection(S, SwapIn(S, a, b))
  <2>1. f \in Injection(S, SwapIn(S, a, b))
    BY <1>1, <1>2 DEF Injection, IsInjective
  <2>2. f \in Surjection(S, SwapIn(S, a, b))
    BY <1>1, <1>3 DEF Surjection
  <2> QED BY <2>1, <2>2 DEF Bijection
<1>5. ExistsBijection(S, SwapIn(S, a, b))
  BY <1>4 DEF ExistsBijection
<1> QED BY <1>5, FS_Bijection

(* The first of a set, when the set has neither or is of one alone.        *)
LEMMA SwapsFirst ==
    ASSUME NEW a \in Nat, NEW b \in Nat, a # b, NEW S \in SUBSET Nat, S # {},
           (a \notin S /\ b \notin S) \/ \E x : S = {x}
    PROVE  First(SwapIn(S, a, b)) = Swap(First(S), a, b)
<1>0. \A x \in Nat : First({x}) = x
  <2> TAKE x \in Nat
  <2>1. {x} \in SUBSET Nat /\ {x} # {}
    OBVIOUS
  <2>2. First({x}) \in {x}
    BY <2>1, FirstIsThere
  <2> QED BY <2>2
<1>1. CASE a \notin S /\ b \notin S
  <2>1. SwapIn(S, a, b) = S
    BY <1>1, SwapsNeither
  <2>2. First(S) \in S
    BY FirstIsThere
  <2>3. Swap(First(S), a, b) = First(S)
    BY <1>1, <2>2, Zenon DEF Swap
  <2> QED BY <2>1, <2>3
<1>2. CASE \E x : S = {x}
  <2>1. PICK x : S = {x}
    BY <1>2
  <2>2. SwapIn(S, a, b) = {Swap(x, a, b)}
    BY <2>1 DEF SwapIn
  <2>3. x \in Nat /\ Swap(x, a, b) \in Nat
    BY <2>1 DEF Swap
  <2> QED BY <1>0, <2>1, <2>2, <2>3
<1> QED BY <1>1, <1>2

(* The entries of a pool that bear a name, once the two are swapped.       *)
LEMMA SwapsNamed ==
    ASSUME NEW a, NEW b, NEW pool, Twins(a, b, pool), NEW n
    PROVE  LET S == { e \in pool : NameOf(e) = n }
               T == { e \in pool : NameOf(e) = Swap(n, NameOf(a), NameOf(b)) }
           IN  /\ T = SwapIn(S, a, b)
               /\ S # {} => First(T) = Swap(First(S), a, b)
<1> DEFINE S == { e \in pool : NameOf(e) = n }
           T == { e \in pool : NameOf(e) = Swap(n, NameOf(a), NameOf(b)) }
<1>1. /\ a # b /\ a \in Nat /\ b \in Nat /\ pool \in SUBSET Entries /\ pool \in SUBSET Nat
      /\ a \in Entries /\ b \in Entries /\ (a \in pool <=> b \in pool)
  BY EntriesAreNumbers DEF Twins
<1>2. \A d \in Entries : (NameOf(d) = NameOf(a) => d = a) /\ (NameOf(d) = NameOf(b) => d = b)
  BY Zenon DEF Twins, OnlyOneSoNamed
<1>3. NameOf(a) # NameOf(b)
  BY <1>1, <1>2
<1>4. ASSUME NEW e \in Entries
      PROVE  NameOf(Swap(e, a, b)) = Swap(NameOf(e), NameOf(a), NameOf(b))
  BY <1>1, <1>2, <1>3, <1>4, Zenon DEF Swap
<1>5. \A e \in pool : Swap(e, a, b) \in pool
  BY <1>1, Zenon DEF Swap
<1>6. \A e \in Entries : NameOf(e) = Swap(n, NameOf(a), NameOf(b)) <=> NameOf(Swap(e, a, b)) = n
  <2> TAKE e \in Entries
  <2>1. NameOf(Swap(e, a, b)) = Swap(NameOf(e), NameOf(a), NameOf(b))
    BY <1>4
  <2> QED BY <1>3, <2>1, SwapsBack
<1>7. T = SwapIn(S, a, b)
  <2>1. ASSUME NEW x PROVE x \in T <=> Swap(x, a, b) \in S
    <3>1. x \in pool <=> Swap(x, a, b) \in pool
      <4>1. Swap(Swap(x, a, b), a, b) = x
        BY <1>1, SwapsBack
      <4> QED BY <1>5, <4>1, Zenon
    <3>2. x \in pool => (NameOf(x) = Swap(n, NameOf(a), NameOf(b)) <=> NameOf(Swap(x, a, b)) = n)
      BY <1>1, <1>6
    <3> QED BY <3>1, <3>2
  <2> HIDE DEF S, T
  <2> QED BY <1>1, <2>1, SwapsSets, Zenon
<1>8. ASSUME S # {} PROVE First(T) = Swap(First(S), a, b)
  <2>1. (a \notin S /\ b \notin S) \/ S = {a} \/ S = {b}
    <3>1. a \in S => S = {a}
      BY <1>1, <1>2
    <3>2. b \in S => S = {b}
      BY <1>1, <1>2
    <3> QED BY <3>1, <3>2
  <2>2. S \in SUBSET Nat
    BY <1>1
  <2> HIDE DEF S, T
  <2> QED BY <1>1, <1>7, <1>8, <2>1, <2>2, SwapsFirst
<1> QED BY <1>7, <1>8

(* What was heard, as the other one.                                       *)
AsTheOther(h, g, a, b) ==
    /\ g.says = Swap(h.says, NameOf(a), NameOf(b))
    /\ g.misheard = Swap(h.misheard, NameOf(a), NameOf(b))
    /\ g.contained = SwapIn(h.contained, a, b)
    /\ \A e \in Entries : g.score[e] = h.score[Swap(e, a, b)]
    /\ \A e \in Entries : g.sound[e] = h.sound[Swap(e, a, b)]

LEMMA HeardAsTheOther ==
    ASSUME NEW h, IsHearing(h), NEW a, NEW b
    PROVE  AsTheOther(h, SwapHeard(h, a, b), a, b)
<1> DEFINE g == SwapHeard(h, a, b)
<1>1. /\ "says" \in DOMAIN h /\ "score" \in DOMAIN h /\ "contained" \in DOMAIN h
      /\ "sound" \in DOMAIN h /\ "misheard" \in DOMAIN h
  BY DEF IsHearing
<1>2. g = [h EXCEPT !.says = Swap(h.says, NameOf(a), NameOf(b)),
                    !.misheard = Swap(h.misheard, NameOf(a), NameOf(b)),
                    !.contained = SwapIn(h.contained, a, b),
                    !.score = [e \in DOMAIN h.score |-> h.score[Swap(e, a, b)]],
                    !.sound = [e \in DOMAIN h.sound |-> h.sound[Swap(e, a, b)]]]
  BY DEF SwapHeard
<1> HIDE DEF g
<1>3. /\ g.says = Swap(h.says, NameOf(a), NameOf(b))
      /\ g.misheard = Swap(h.misheard, NameOf(a), NameOf(b))
      /\ g.contained = SwapIn(h.contained, a, b)
      /\ g.score = [e \in DOMAIN h.score |-> h.score[Swap(e, a, b)]]
      /\ g.sound = [e \in DOMAIN h.sound |-> h.sound[Swap(e, a, b)]]
  BY <1>1, <1>2
<1>4. \A e \in Entries : g.score[e] = h.score[Swap(e, a, b)] /\ g.sound[e] = h.sound[Swap(e, a, b)]
  BY <1>3 DEF IsHearing
<1> QED BY <1>3, <1>4, Zenon DEF AsTheOther, g

(* Each layer of the matcher finds the swapped entries.                    *)
LEMMA PoolsSwap ==
    ASSUME NEW a, NEW b, NEW pool, Twins(a, b, pool)
    PROVE  /\ a # b /\ pool \in SUBSET Entries
           /\ \A x : x \in pool <=> Swap(x, a, b) \in pool
           /\ \A x : x \in Entries <=> Swap(x, a, b) \in Entries
<1>1. /\ a # b /\ pool \in SUBSET Entries /\ a \in Entries /\ b \in Entries /\ (a \in pool <=> b \in pool)
  BY Zenon DEF Twins
<1>2. \A x : x \in pool <=> Swap(x, a, b) \in pool
  BY <1>1, Zenon DEF Swap
<1>3. \A x : x \in Entries <=> Swap(x, a, b) \in Entries
  BY <1>1, Zenon DEF Swap
<1> QED BY <1>1, <1>2, <1>3

LEMMA ContainedSwap ==
    ASSUME NEW a, NEW b, NEW pool, Twins(a, b, pool), NEW h, NEW g, AsTheOther(h, g, a, b)
    PROVE  _contained_matches(g, pool) = SwapIn(_contained_matches(h, pool), a, b)
<1>1. /\ a # b /\ \A x : x \in pool <=> Swap(x, a, b) \in pool
  BY PoolsSwap
<1>2. \A x : x \in g.contained <=> Swap(x, a, b) \in h.contained
  BY <1>1, SwapsSets DEF AsTheOther
<1>3. \A x : x \in _contained_matches(g, pool) <=> Swap(x, a, b) \in _contained_matches(h, pool)
  BY <1>1, <1>2, Zenon DEF _contained_matches
<1>4. \A x : x \in SwapIn(_contained_matches(h, pool), a, b) <=> Swap(x, a, b) \in _contained_matches(h, pool)
  BY <1>1, SwapsSets
<1> QED BY <1>3, <1>4, Zenon

(* Scores are the same scores, of the swapped entries.                     *)
ScoresOf(f, pool) == { f[e] : e \in pool }
OfTheOther(k, f, a, b) == \A e \in Entries : k[e] = f[Swap(e, a, b)]
LEMMA ScoresSwap ==
    ASSUME NEW a, NEW b, NEW pool, Twins(a, b, pool), NEW f, NEW k,
           OfTheOther(k, f, a, b)
    PROVE  ScoresOf(k, pool) = ScoresOf(f, pool)
<1>1. /\ a # b /\ pool \in SUBSET Entries /\ \A x : x \in pool <=> Swap(x, a, b) \in pool
  BY PoolsSwap
<1>0. \A e \in Entries : k[e] = f[Swap(e, a, b)]
  BY Zenon DEF OfTheOther
<1>2. ASSUME NEW e \in pool PROVE k[e] \in { f[d] : d \in pool }
  BY <1>0, <1>1
<1>3. ASSUME NEW e \in pool PROVE f[e] \in { k[d] : d \in pool }
  <2>1. Swap(Swap(e, a, b), a, b) = e /\ Swap(e, a, b) \in pool
    BY <1>1, SwapsBack
  <2>2. k[Swap(e, a, b)] = f[e]
    BY <1>0, <1>1, <2>1
  <2> QED BY <2>1, <2>2
<1> QED BY <1>2, <1>3 DEF ScoresOf

LEMMA PhoneticSwap ==
    ASSUME NEW a, NEW b, NEW pool, Twins(a, b, pool), NEW h, NEW g, AsTheOther(h, g, a, b)
    PROVE  _phonetic_match(g, pool) = SwapIn(_phonetic_match(h, pool), a, b)
<1> DEFINE Loudest(x) == Max({ x.sound[e] : e \in pool } \cup {0})
           Winners(x) == { e \in pool : x.sound[e] >= PHONETIC_MIN /\ x.sound[e] = Loudest(x) }
<1>1. /\ a # b /\ pool \in SUBSET Entries /\ \A x : x \in pool <=> Swap(x, a, b) \in pool
  BY PoolsSwap
<1>2. \A e \in Entries : g.sound[e] = h.sound[Swap(e, a, b)]
  BY Zenon DEF AsTheOther
<1>3. Loudest(g) = Loudest(h)
  <2>1. { g.sound[e] : e \in pool } = { h.sound[e] : e \in pool }
    <3>1. PICK f, k : f = h.sound /\ k = g.sound
      OBVIOUS
    <3>2. OfTheOther(k, f, a, b)
      BY <1>2, <3>1 DEF OfTheOther
    <3>3. ScoresOf(k, pool) = ScoresOf(f, pool)
      BY <3>2, ScoresSwap
    <3> QED BY <3>1, <3>3 DEF ScoresOf
  <2> QED BY <2>1
<1> HIDE DEF Loudest
<1>4. \A x : x \in Winners(g) <=> Swap(x, a, b) \in Winners(h)
  BY <1>1, <1>2, <1>3
<1> HIDE DEF Winners
<1>5. Winners(g) = SwapIn(Winners(h), a, b)
  <2>1. \A x : x \in SwapIn(Winners(h), a, b) <=> Swap(x, a, b) \in Winners(h)
    BY <1>1, SwapsSets
  <2> QED BY <1>4, <2>1, Zenon
<1>6. Cardinality(Winners(g)) = Cardinality(Winners(h))
  <2>1. IsFiniteSet(Winners(h))
    BY <1>1, EntriesAreNumbers, FS_Subset DEF Winners
  <2> QED BY <1>1, <1>5, <2>1, SwapsAsMany
<1>7. \A x : _phonetic_match(x, pool) = IF Cardinality(Winners(x)) = 1 THEN Winners(x) ELSE {}
  BY Zenon DEF _phonetic_match, Winners, Loudest
<1>8. SwapIn({}, a, b) = {}
  BY Zenon DEF SwapIn
<1> QED BY <1>5, <1>6, <1>7, <1>8

LEMMA TopSwap ==
    ASSUME NEW a, NEW b, NEW pool, Twins(a, b, pool), NEW h, NEW g, AsTheOther(h, g, a, b)
    PROVE  /\ BestScore(g, pool) = BestScore(h, pool)
           /\ _top_matches(g, pool) = SwapIn(_top_matches(h, pool), a, b)
<1> DEFINE Best1(x) == { e \in pool : x.score[e] >= score_cutoff /\ x.score[e] = BestScore(x, pool) }
           Leads(S, e) == \A d \in S : NameOf(d) = NameOf(e) => e <= d
           Tops(S) == { e \in S : Leads(S, e) }
<1>1. /\ a # b /\ pool \in SUBSET Entries /\ \A x : x \in pool <=> Swap(x, a, b) \in pool
  BY PoolsSwap
<1>2. \A e \in Entries : g.score[e] = h.score[Swap(e, a, b)]
  BY Zenon DEF AsTheOther
<1>3. BestScore(g, pool) = BestScore(h, pool)
  <2>1. { g.score[e] : e \in pool } = { h.score[e] : e \in pool }
    <3>1. PICK f, k : f = h.score /\ k = g.score
      OBVIOUS
    <3>2. OfTheOther(k, f, a, b)
      BY <1>2, <3>1 DEF OfTheOther
    <3>3. ScoresOf(k, pool) = ScoresOf(f, pool)
      BY <3>2, ScoresSwap
    <3> QED BY <3>1, <3>3 DEF ScoresOf
  <2> QED BY <2>1 DEF BestScore
<1>4. \A x : x \in Best1(g) <=> Swap(x, a, b) \in Best1(h)
  BY <1>1, <1>2, <1>3
<1>5. Best1(g) \in SUBSET Nat /\ Best1(h) \in SUBSET Nat /\ Best1(g) \in SUBSET Entries /\ Best1(h) \in SUBSET Entries
  BY <1>1, EntriesAreNumbers
<1> HIDE DEF Best1
<1>6. \A d \in Entries : (NameOf(d) = NameOf(a) => d = a) /\ (NameOf(d) = NameOf(b) => d = b)
  BY Zenon DEF Twins, OnlyOneSoNamed
<1>7. ASSUME NEW e PROVE e \in Tops(Best1(g)) <=> Swap(e, a, b) \in Tops(Best1(h))
  <2>1. CASE e \notin Best1(g)
    BY <1>4, <2>1
  <2>2. CASE e \in Best1(g) /\ e \in {a, b}
    <3>1. \A d \in Best1(g) : NameOf(d) = NameOf(e) => e <= d
      BY <1>5, <1>6, <2>2
    <3>2. Swap(e, a, b) \in {a, b} /\ Swap(e, a, b) \in Best1(h)
      BY <1>4, <2>2 DEF Swap
    <3>3. \A d \in Best1(h) : NameOf(d) = NameOf(Swap(e, a, b)) => Swap(e, a, b) <= d
      BY <1>5, <1>6, <3>2
    <3> QED BY <2>2, <3>1, <3>2, <3>3
  <2>3. CASE e \in Best1(g) /\ e \notin {a, b}
    <3>1. Swap(e, a, b) = e /\ e \in Best1(h)
      BY <1>4, <2>3 DEF Swap
    <3>2. \A d \in Entries : NameOf(d) = NameOf(e) => d \notin {a, b}
      BY <1>5, <1>6, <2>3
    <3>3. \A d \in Entries : NameOf(d) = NameOf(e) => (d \in Best1(g) <=> d \in Best1(h))
      BY <1>4, <3>2 DEF Swap
    <3>4. Leads(Best1(g), e) <=> Leads(Best1(h), e)
      BY <1>5, <3>3
    <3> QED BY <2>3, <3>1, <3>4
  <2> QED BY <2>1, <2>2, <2>3
<1>8. \A x : _top_matches(x, pool) = Tops(Best1(x))
  BY Zenon DEF _top_matches, Best1
<1> HIDE DEF Tops
<1>9. Tops(Best1(g)) = SwapIn(Tops(Best1(h)), a, b)
  <2>1. \A x : x \in SwapIn(Tops(Best1(h)), a, b) <=> Swap(x, a, b) \in Tops(Best1(h))
    BY <1>1, SwapsSets
  <2> QED BY <1>7, <2>1, Zenon
<1> QED BY <1>3, <1>8, <1>9

(* The name means the swapped entry.                                       *)
LEMMA MeaningSwaps ==
    ASSUME NEW a, NEW b, NEW pool, Twins(a, b, pool), NEW h, NEW g, AsTheOther(h, g, a, b)
    PROVE  resolve_or_hedge(g, pool).found = Swap(resolve_or_hedge(h, pool).found, a, b)
<1> DEFINE Exact(x) == _exact_name_matches(x, pool)
           Winners(x) == _top_matches(x, pool)
           Contained(x) == _contained_matches(x, pool)
           Targets(x) == Misheard(x, pool)
           Sounds(x) == _phonetic_match(x, pool)
           Score(x) == BestScore(x, pool)
           Rest(x) == IF Cardinality(Contained(x)) = 1 THEN Found(First(Contained(x)))
                      ELSE IF Contained(x) # {} THEN Hedge(Contained(x))
                      ELSE IF Targets(x) # {} THEN Found(First(Targets(x)))
                      ELSE IF Sounds(x) # {} THEN Found(First(Sounds(x)))
                      ELSE IF Cardinality(Winners(x)) > 1 THEN Hedge(Winners(x)) ELSE Unknown
           IsSure(x) == Cardinality(Winners(x)) = 1 /\ Score(x) >= LOW_CONFIDENCE_MAX
<1>1. /\ a # b /\ a \in Nat /\ b \in Nat /\ a # 0 /\ b # 0 /\ pool \in SUBSET Entries /\ pool \in SUBSET Nat
  BY EntriesAreNumbers DEF Twins, Nothing
<1>2. /\ Exact(g) = SwapIn(Exact(h), a, b)
      /\ Exact(h) # {} => First(Exact(g)) = Swap(First(Exact(h)), a, b)
  <2>1. g.says = Swap(h.says, NameOf(a), NameOf(b))
    BY Zenon DEF AsTheOther
  <2> QED BY <2>1, SwapsNamed DEF _exact_name_matches
<1>3. /\ Targets(g) = SwapIn(Targets(h), a, b)
      /\ Targets(h) # {} => First(Targets(g)) = Swap(First(Targets(h)), a, b)
  <2>1. g.misheard = Swap(h.misheard, NameOf(a), NameOf(b))
    BY Zenon DEF AsTheOther
  <2> QED BY <2>1, SwapsNamed DEF Misheard
<1>4. Contained(g) = SwapIn(Contained(h), a, b) /\ Sounds(g) = SwapIn(Sounds(h), a, b)
      /\ Winners(g) = SwapIn(Winners(h), a, b) /\ Score(g) = Score(h)
  <2>1. Contained(g) = SwapIn(Contained(h), a, b)
    BY ContainedSwap
  <2>2. Sounds(g) = SwapIn(Sounds(h), a, b)
    BY PhoneticSwap
  <2>3. Winners(g) = SwapIn(Winners(h), a, b) /\ Score(g) = Score(h)
    BY TopSwap
  <2> QED BY <2>1, <2>2, <2>3
<1>5. /\ \A x : Contained(x) \subseteq pool /\ Sounds(x) \subseteq pool /\ Winners(x) \subseteq pool
      /\ \A x : Sounds(x) # {} => Cardinality(Sounds(x)) = 1
  <2>1. \A x : Contained(x) \subseteq pool /\ Sounds(x) \subseteq pool /\ Winners(x) \subseteq pool
    BY DEF _contained_matches, _phonetic_match, _top_matches
  <2>2. \A x : Sounds(x) # {} => Cardinality(Sounds(x)) = 1
    BY DEF _phonetic_match
  <2> QED BY <2>1, <2>2
<1>6. ASSUME NEW S \in SUBSET pool
      PROVE  /\ Cardinality(SwapIn(S, a, b)) = Cardinality(S) /\ (SwapIn(S, a, b) = {} <=> S = {})
             /\ Cardinality(S) = 1 => First(SwapIn(S, a, b)) = Swap(First(S), a, b)
  <2>1. IsFiniteSet(S) /\ S \in SUBSET Nat
    BY <1>1, EntriesAreNumbers, FS_Subset
  <2>2. Cardinality(SwapIn(S, a, b)) = Cardinality(S)
    BY <1>1, <2>1, SwapsAsMany
  <2>3. SwapIn(S, a, b) = {} <=> S = {}
    BY <1>1, SwapsSets
  <2>4. ASSUME Cardinality(S) = 1 PROVE First(SwapIn(S, a, b)) = Swap(First(S), a, b)
    <3>1. \E x : S = {x}
      BY <2>1, <2>4, FS_Singleton
    <3>2. S # {}
      BY <3>1
    <3> QED BY <1>1, <2>1, <3>1, <3>2, SwapsFirst
  <2> QED BY <2>2, <2>3, <2>4
<1>7. /\ Cardinality(Contained(g)) = Cardinality(Contained(h)) /\ (Contained(g) = {} <=> Contained(h) = {})
      /\ Cardinality(Contained(h)) = 1 => First(Contained(g)) = Swap(First(Contained(h)), a, b)
      /\ Sounds(g) = {} <=> Sounds(h) = {}
      /\ Sounds(h) # {} => First(Sounds(g)) = Swap(First(Sounds(h)), a, b)
      /\ Cardinality(Winners(g)) = Cardinality(Winners(h))
      /\ Cardinality(Winners(h)) = 1 => First(Winners(g)) = Swap(First(Winners(h)), a, b)
  <2> HIDE DEF Contained, Sounds, Winners
  <2> QED BY <1>4, <1>5, <1>6
<1>8. (Exact(g) = {} <=> Exact(h) = {}) /\ (Targets(g) = {} <=> Targets(h) = {})
  <2> HIDE DEF Exact, Targets
  <2> QED BY <1>1, <1>2, <1>3, SwapsSets
<1>9. \A x : Found(x).found = x /\ Hedge(x).found = Nothing
  BY DEF Found, Hedge
<1>10. Unknown.found = Nothing /\ Swap(Nothing, a, b) = Nothing
  BY <1>1, <1>9, Zenon DEF Unknown, Swap, Nothing
<1>11. ASSUME NEW x
       PROVE  /\ Exact(x) # {} => resolve_or_hedge(x, pool) = Found(First(Exact(x)))
              /\ Exact(x) = {} /\ IsSure(x) => resolve_or_hedge(x, pool) = Found(First(Winners(x)))
              /\ Exact(x) = {} /\ ~IsSure(x) => resolve_or_hedge(x, pool) = Rest(x)
  <2>1. ASSUME Exact(x) # {} PROVE resolve_or_hedge(x, pool) = Found(First(Exact(x)))
    BY <2>1 DEF resolve_or_hedge
  <2>2. ASSUME Exact(x) = {}, IsSure(x) PROVE resolve_or_hedge(x, pool) = Found(First(Winners(x)))
    BY <2>2 DEF resolve_or_hedge
  <2>3. ASSUME Exact(x) = {}, ~IsSure(x) PROVE resolve_or_hedge(x, pool) = Rest(x)
    BY <2>3 DEF resolve_or_hedge
  <2> QED BY <2>1, <2>2, <2>3
<1> HIDE DEF Exact, Winners, Contained, Targets, Sounds, Score
<1>12. Rest(g).found = Swap(Rest(h).found, a, b)
  BY <1>3, <1>7, <1>8, <1>9, <1>10
<1>13. IsSure(g) <=> IsSure(h)
  BY <1>4, <1>7
<1> HIDE DEF Rest
<1>14. CASE Exact(h) # {}
  BY <1>2, <1>8, <1>9, <1>11, <1>14
<1>15. CASE Exact(h) = {} /\ IsSure(h)
  BY <1>7, <1>8, <1>9, <1>11, <1>13, <1>15
<1>16. CASE Exact(h) = {} /\ ~IsSure(h)
  BY <1>8, <1>11, <1>12, <1>13, <1>16
<1> QED BY <1>14, <1>15, <1>16

LEMMA ShipsSwap ==
    ASSUME NEW h, IsHearing(h), NEW a \in OfKind("ship"), NEW b \in OfKind("ship"), SameSort(a, b)
    PROVE  resolve_cargo_ship(SwapHeard(h, a, b)).found = Swap(resolve_cargo_ship(h).found, a, b)
<1> DEFINE g == SwapHeard(h, a, b)
           ships == OfKind("ship")
           hauler(x) == resolve_or_hedge(x, cargo_capable_vehicles).found
           known(x) == resolve_or_hedge(x, ships).found
<1>1. AsTheOther(h, g, a, b)
  BY HeardAsTheOther
<1>2. a \in Nat /\ b \in Nat /\ a # Nothing /\ b # Nothing
  BY EntriesAreNumbers DEF OfKind
<1>3. a # b /\ OnlyOneSoNamed(a) /\ OnlyOneSoNamed(b)
      /\ (a \in cargo_capable_vehicles <=> b \in cargo_capable_vehicles)
  <2>1. a < b /\ OnlyOneSoNamed(a) /\ OnlyOneSoNamed(b)
        /\ (a \in cargo_capable_vehicles <=> b \in cargo_capable_vehicles)
    BY Zenon DEF SameSort
  <2>2. a # b
    BY <1>2, <2>1
  <2> QED BY <2>1, <2>2
<1>4. Twins(a, b, ships) /\ Twins(a, b, cargo_capable_vehicles)
  <2>1. ships \in SUBSET Entries /\ cargo_capable_vehicles \in SUBSET Entries /\ a \in Entries /\ b \in Entries
    BY DEF OfKind, cargo_capable_vehicles
  <2> QED BY <1>3, <2>1, Zenon DEF Twins
<1>5. hauler(g) = Swap(hauler(h), a, b) /\ known(g) = Swap(known(h), a, b)
  <2> HIDE DEF g
  <2> QED BY <1>1, <1>4, MeaningSwaps
<1>6. Swap(Nothing, a, b) = Nothing
  BY <1>2, Zenon DEF Swap
<1>7. hauler(g) # Nothing <=> hauler(h) # Nothing
  BY <1>2, <1>5, <1>6, Zenon DEF Swap
<1>8. known(g) \in {Nothing} \cup cargo_capable_vehicles <=> known(h) \in {Nothing} \cup cargo_capable_vehicles
  BY <1>2, <1>3, <1>5, <1>6, Zenon DEF Swap
<1>9. ASSUME NEW x
      PROVE  resolve_cargo_ship(x).found =
               IF hauler(x) # Nothing \/ known(x) \in {Nothing} \cup cargo_capable_vehicles
               THEN hauler(x) ELSE Nothing
  BY DEF resolve_cargo_ship, Unknown, Hedge
<1> HIDE DEF hauler, known, g
<1>10. resolve_cargo_ship(g).found = Swap(resolve_cargo_ship(h).found, a, b)
  BY <1>5, <1>6, <1>7, <1>8, <1>9
<1> QED BY <1>10 DEF g

(*------------- candidates, in the order of a stable sort -----------------*)

Kinds == {"commodity", "item", "ship"}
CandidateSet ==
    [entity : { e \in Entries : Kind(e) \in Kinds }, score : Int, matched_by : {"exact", "contained", "fuzzy"}]
(* a set of candidates, as one name brings *)
Shortlist(C) == C \subseteq CandidateSet /\ IsFiniteSet(C)

LEMMA TurnsTellApart ==
    /\ \A c \in CandidateSet : Turn(c) \in Nat
    /\ \A c, d \in CandidateSet : Turn(c) = Turn(d) => c.matched_by = d.matched_by
<1>1. ASSUME NEW c \in CandidateSet
      PROVE  \E k \in 0 .. 2, l \in 0 .. 2 :
               /\ Turn(c) = 3 * k + l
               /\ c.matched_by = IF l = 0 THEN "exact" ELSE IF l = 1 THEN "contained" ELSE "fuzzy"
  <2> DEFINE k == [commodity |-> 0, item |-> 1, ship |-> 2][Kind(c.entity)]
             l == [exact |-> 0, contained |-> 1, fuzzy |-> 2][c.matched_by]
  <2>1. c.entity \in { e \in Entries : Kind(e) \in Kinds } /\ c.matched_by \in {"exact", "contained", "fuzzy"}
    BY DEF CandidateSet
  <2>2. Kind(c.entity) \in Kinds
    BY <2>1
  <2>3. k \in 0 .. 2
    BY <2>2 DEF Kinds
  <2>4. l \in 0 .. 2 /\ c.matched_by = IF l = 0 THEN "exact" ELSE IF l = 1 THEN "contained" ELSE "fuzzy"
    BY <2>1
  <2>5. Turn(c) = 3 * k + l
    BY DEF Turn
  <2> HIDE DEF k, l
  <2> QED BY <2>3, <2>4, <2>5
<1>2. ASSUME NEW c \in CandidateSet, NEW d \in CandidateSet, Turn(c) = Turn(d)
      PROVE  c.matched_by = d.matched_by
  <2>1. PICK k \in 0 .. 2, l \in 0 .. 2 :
          /\ Turn(c) = 3 * k + l
          /\ c.matched_by = IF l = 0 THEN "exact" ELSE IF l = 1 THEN "contained" ELSE "fuzzy"
    BY <1>1
  <2>2. PICK p \in 0 .. 2, q \in 0 .. 2 :
          /\ Turn(d) = 3 * p + q
          /\ d.matched_by = IF q = 0 THEN "exact" ELSE IF q = 1 THEN "contained" ELSE "fuzzy"
    BY <1>1
  <2>3. l = q
    <3>1. 3 * k + l = 3 * p + q
      BY <1>2, <2>1, <2>2
    <3>2. \A i, j, m, n \in 0 .. 2 : 3 * i + m = 3 * j + n => m = n
      OBVIOUS
    <3> QED BY <3>1, <3>2
  <2> QED BY <2>1, <2>2, <2>3
<1>3. \A c \in CandidateSet : Turn(c) \in Nat
  BY <1>1
<1> QED BY <1>2, <1>3

LEMMA BeforeIsAnOrder ==
    ASSUME NEW c \in CandidateSet, NEW d \in CandidateSet, NEW e \in CandidateSet
    PROVE  /\ ~Before(c, c)
           /\ Before(c, d) /\ Before(d, e) => Before(c, e)
           /\ c # d => Before(c, d) \/ Before(d, c)
           /\ c.score > d.score => Before(c, d)
           /\ Before(c, d) => c.score >= d.score
<1>1. /\ Turn(c) \in Nat /\ Turn(d) \in Nat /\ Turn(e) \in Nat
      /\ c.score \in Int /\ d.score \in Int /\ e.score \in Int
      /\ c.entity \in Nat /\ d.entity \in Nat /\ e.entity \in Nat
  BY TurnsTellApart, EntriesAreNumbers DEF CandidateSet
<1>2. c.score = d.score /\ Turn(c) = Turn(d) /\ c.entity = d.entity => c = d
  <2>1. Turn(c) = Turn(d) => c.matched_by = d.matched_by
    BY TurnsTellApart
  <2> QED BY <2>1 DEF CandidateSet
<1>3. c # d => Before(c, d) \/ Before(d, c)
  BY <1>1, <1>2 DEF Before
<1>4. /\ ~Before(c, c)
      /\ Before(c, d) /\ Before(d, e) => Before(c, e)
  BY <1>1 DEF Before
<1>5. /\ c.score > d.score => Before(c, d)
      /\ Before(c, d) => c.score >= d.score
  BY <1>1 DEF Before
<1> QED BY <1>3, <1>4, <1>5

(* how many of a list come before one of it *)
Ahead(C, c) == Cardinality({ d \in C : Before(d, c) })
LEMMA FewerAhead ==
    ASSUME NEW C, Shortlist(C), NEW c \in C
    PROVE  /\ Ahead(C, c) \in Nat
           /\ \A d \in C : Before(d, c) => Ahead(C, d) < Ahead(C, c)
<1> DEFINE Earlier(x) == { d \in C : Before(d, x) }
<1>1. C \subseteq CandidateSet /\ IsFiniteSet(C)
  BY DEF Shortlist
<1>2. \A x : IsFiniteSet(Earlier(x)) /\ Cardinality(Earlier(x)) \in Nat
  BY <1>1, FS_Subset, FS_CardinalityType
<1>3. ASSUME NEW d \in C, Before(d, c) PROVE Cardinality(Earlier(d)) < Cardinality(Earlier(c))
  <2>1. Earlier(d) \subseteq Earlier(c)
    BY <1>1, <1>3, BeforeIsAnOrder
  <2>2. d \in Earlier(c) /\ d \notin Earlier(d)
    BY <1>1, <1>3, BeforeIsAnOrder
  <2>3. Cardinality(Earlier(d)) <= Cardinality(Earlier(c)) /\ Cardinality(Earlier(d)) # Cardinality(Earlier(c))
    BY <1>2, <2>1, <2>2, FS_Subset
  <2> QED BY <1>2, <2>3
<1> QED BY <1>2, <1>3 DEF Ahead

(* One of a list leads it.                                                 *)
LEMMA OneLeads ==
    ASSUME NEW C, Shortlist(C), C # {}
    PROVE  Leading(C) \in C /\ \A d \in C \ {Leading(C)} : Before(Leading(C), d)
<1> DEFINE Counts == { Ahead(C, c) : c \in C }
<1>1. Counts \in SUBSET Nat /\ Counts # {}
  BY FewerAhead
<1>2. PICK n \in Counts : \A k \in Nat : k < n => k \notin Counts
  <2> HIDE DEF Counts
  <2> QED BY <1>1, OneIsFirst
<1>3. PICK c \in C : n = Ahead(C, c)
  BY <1>2
<1>4. \A d \in C : ~Before(d, c)
  <2> SUFFICES ASSUME NEW d \in C, Before(d, c) PROVE FALSE
    OBVIOUS
  <2>1. Ahead(C, d) < n /\ Ahead(C, d) \in Nat
    BY <1>3, FewerAhead
  <2> QED BY <1>2, <2>1
<1>5. \A d \in C \ {c} : Before(c, d)
  BY <1>4, BeforeIsAnOrder DEF Shortlist
<1> QED BY <1>5, Zenon DEF Leading

(* The first of a list are no more than were asked for, and no fewer when  *)
(* some are left out.                                                      *)
LEMMA FirstAreAsMany ==
    ASSUME NEW C, Shortlist(C), NEW n \in Nat
    PROVE  /\ Shortlist(FirstOf(C, n)) /\ FirstOf(C, n) \subseteq C
           /\ Cardinality(FirstOf(C, n)) <= n
           /\ FirstOf(C, n) # C => Cardinality(FirstOf(C, n)) >= n
<1> DEFINE K == FirstOf(C, n)
<1>1. K = { c \in C : Ahead(C, c) < n }
  BY Zenon DEF FirstOf, Ahead
<1>2. /\ C \subseteq CandidateSet /\ IsFiniteSet(C) /\ K \subseteq C
      /\ IsFiniteSet(K) /\ Cardinality(K) \in Nat
  BY <1>1, FS_Subset, FS_CardinalityType DEF Shortlist
<1> HIDE DEF K
<1>3. \A c \in C : Ahead(C, c) \in Nat
  BY FewerAhead
<1>4. Cardinality(K) <= n
  <2>1. CASE K = {}
    BY <2>1, FS_EmptySet
  <2>2. CASE K # {}
    <3> DEFINE Left == { n - Ahead(C, c) : c \in K }
    <3>1. Left \in SUBSET Nat /\ Left # {}
      BY <1>1, <1>3, <2>2
    <3>2. PICK m \in Left : \A k \in Nat : k < m => k \notin Left
      <4> HIDE DEF Left
      <4> QED BY <3>1, OneIsFirst
    <3>3. PICK c \in K : m = n - Ahead(C, c)
      BY <3>2
    <3>4. \A d \in K : ~Before(c, d)
      <4> SUFFICES ASSUME NEW d \in K, Before(c, d) PROVE FALSE
        OBVIOUS
      <4>1. Ahead(C, c) < Ahead(C, d) /\ Ahead(C, d) \in Nat /\ Ahead(C, c) \in Nat /\ Ahead(C, d) < n
        BY <1>1, <1>2, FewerAhead
      <4>2. n - Ahead(C, d) \in Left /\ n - Ahead(C, d) < m /\ n - Ahead(C, d) \in Nat
        BY <3>3, <4>1
      <4> QED BY <3>2, <4>2
    <3>5. K \ {c} \subseteq { d \in C : Before(d, c) }
      BY <1>2, <3>4, BeforeIsAnOrder
    <3>6. Cardinality(K \ {c}) <= Ahead(C, c)
      <4>1. IsFiniteSet({ d \in C : Before(d, c) })
        BY <1>2, FS_Subset
      <4> QED BY <3>5, <4>1, FS_Subset DEF Ahead
    <3>7. Cardinality(K \ {c}) = Cardinality(K) - 1
      BY <1>2, <3>3, FS_RemoveElement
    <3> QED BY <1>1, <1>2, <1>3, <3>3, <3>6, <3>7
  <2> QED BY <2>1, <2>2
<1>5. ASSUME K # C PROVE Cardinality(K) >= n
  <2>1. Shortlist(C \ K) /\ C \ K # {}
    BY <1>2, <1>5, FS_Subset DEF Shortlist
  <2>2. PICK c \in C \ K : \A d \in (C \ K) \ {c} : Before(c, d)
    BY <2>1, OneLeads
  <2>3. { d \in C : Before(d, c) } \subseteq K
    <3> SUFFICES ASSUME NEW d \in C, Before(d, c), d \notin K PROVE FALSE
      OBVIOUS
    <3>1. d = c \/ Before(c, d)
      BY <2>2
    <3> QED BY <1>2, <3>1, BeforeIsAnOrder
  <2>4. Ahead(C, c) <= Cardinality(K)
    BY <1>2, <2>3, FS_Subset DEF Ahead
  <2>5. Ahead(C, c) \in Nat /\ Ahead(C, c) >= n
    BY <1>1, <1>3, <2>2
  <2> QED BY <1>2, <2>4, <2>5
<1> QED BY <1>2, <1>4, <1>5 DEF K, Shortlist

(*--------------- candidates, were two heard as each other ----------------*)

Alike(a, b) == /\ a \in Entries /\ b \in Entries /\ a # b
               /\ Kind(a) = Kind(b) /\ _penalty(a) = _penalty(b)
Turned(c, a, b) == [entity |-> Swap(c.entity, a, b), score |-> c.score, matched_by |-> c.matched_by]
(* D has for every candidate of C the other one *)
Mirror(C, D, a, b) ==
    /\ Shortlist(C) /\ D \subseteq CandidateSet
    /\ \A c \in CandidateSet : c \in D <=> Turned(c, a, b) \in C

LEMMA SwapsAreUndone ==
    ASSUME NEW a, NEW b, Alike(a, b)
    PROVE  /\ a \in Entries /\ b \in Entries /\ a # b
           /\ \A x : Swap(Swap(x, a, b), a, b) = x
           /\ Swap(Nothing, a, b) = Nothing
<1>1. a \in Entries /\ b \in Entries /\ a # b
  BY Zenon DEF Alike
<1>2. ASSUME NEW x PROVE Swap(Swap(x, a, b), a, b) = x
  BY <1>1, Zenon DEF Swap
<1>3. Nothing # a /\ Nothing # b
  BY <1>1, EntriesAreNumbers
<1>4. Swap(Nothing, a, b) = Nothing
  BY <1>1, <1>3, SwapsBack
<1> QED BY <1>1, <1>2, <1>4

LEMMA TurnsBack ==
    ASSUME NEW a, NEW b, Alike(a, b), NEW c \in CandidateSet
    PROVE  /\ Turned(c, a, b) \in CandidateSet /\ Turned(Turned(c, a, b), a, b) = c
           /\ Turned(c, a, b).score = c.score /\ Turned(c, a, b).matched_by = c.matched_by
           /\ Turned(c, a, b).entity = Swap(c.entity, a, b)
           /\ Turn(Turned(c, a, b)) = Turn(c)
<1> DEFINE e == Swap(c.entity, a, b)
           t == Turned(c, a, b)
<1>1. /\ c.entity \in Entries /\ Kind(c.entity) \in Kinds /\ c.score \in Int
      /\ c.matched_by \in {"exact", "contained", "fuzzy"}
      /\ c = [entity |-> c.entity, score |-> c.score, matched_by |-> c.matched_by]
  BY DEF CandidateSet
<1>2. a \in Entries /\ b \in Entries /\ a # b /\ Kind(a) = Kind(b)
  BY Zenon DEF Alike
<1>3. e \in Entries /\ Kind(e) = Kind(c.entity)
  BY <1>1, <1>2, Zenon DEF Swap
<1>4. Swap(e, a, b) = c.entity
  BY <1>2, SwapsBack
<1> HIDE DEF e
<1>5. t = [entity |-> e, score |-> c.score, matched_by |-> c.matched_by]
  BY DEF Turned, e
<1> HIDE DEF t
<1>6. t.entity = e /\ t.score = c.score /\ t.matched_by = c.matched_by
  BY <1>5
<1>7. t \in CandidateSet
  BY <1>1, <1>3, <1>5 DEF CandidateSet
<1>8. Turned(t, a, b) = c
  <2>1. Turned(t, a, b) = [entity |-> Swap(e, a, b), score |-> c.score, matched_by |-> c.matched_by]
    BY <1>6, Zenon DEF Turned
  <2> QED BY <1>1, <1>4, <2>1
<1>9. Turn(t) = Turn(c)
  BY <1>3, <1>6, Zenon DEF Turn
<1> QED BY <1>6, <1>7, <1>8, <1>9 DEF t, e

LEMMA MirrorsBack ==
    ASSUME NEW a, NEW b, Alike(a, b), NEW C, NEW D, Mirror(C, D, a, b)
    PROVE  /\ \A c \in C : c \in CandidateSet /\ Turned(c, a, b) \in D
           /\ \A d \in D : d \in CandidateSet /\ Turned(d, a, b) \in C
           /\ D = {} <=> C = {}
<1>1. /\ C \subseteq CandidateSet /\ D \subseteq CandidateSet
      /\ \A c \in CandidateSet : c \in D <=> Turned(c, a, b) \in C
  BY Zenon DEF Mirror, Shortlist
<1>2. ASSUME NEW c \in C PROVE c \in CandidateSet /\ Turned(c, a, b) \in D
  <2>1. Turned(c, a, b) \in CandidateSet /\ Turned(Turned(c, a, b), a, b) = c
    BY <1>1, TurnsBack
  <2> QED BY <1>1, <2>1
<1> QED BY <1>1, <1>2

LEMMA MirrorsAreAsMany ==
    ASSUME NEW a, NEW b, Alike(a, b), NEW C, NEW D, Mirror(C, D, a, b)
    PROVE  Shortlist(D) /\ Cardinality(D) = Cardinality(C)
<1> DEFINE f == [c \in C |-> Turned(c, a, b)]
<1>1. /\ \A c \in C : c \in CandidateSet /\ Turned(c, a, b) \in D
      /\ \A d \in D : d \in CandidateSet /\ Turned(d, a, b) \in C
  BY MirrorsBack
<1>2. IsFiniteSet(C) /\ D \subseteq CandidateSet
  BY Zenon DEF Mirror, Shortlist
<1>3. \A c \in CandidateSet : Turned(Turned(c, a, b), a, b) = c
  BY TurnsBack
<1>4. f \in [C -> D] /\ \A x, y \in C : f[x] = f[y] => x = y
  <2>1. f \in [C -> D]
    BY <1>1
  <2>2. ASSUME NEW x \in C, NEW y \in C, f[x] = f[y] PROVE x = y
    <3>1. Turned(x, a, b) = Turned(y, a, b)
      BY <2>2
    <3> QED BY <1>1, <1>3, <3>1
  <2> QED BY <2>1, <2>2
<1>5. \A d \in D : \E c \in C : f[c] = d
  <2> TAKE d \in D
  <2>1. Turned(d, a, b) \in C /\ f[Turned(d, a, b)] = d
    BY <1>1, <1>3
  <2> QED BY <2>1
<1> HIDE DEF f
<1>6. f \in Bijection(C, D)
  <2>1. f \in Injection(C, D)
    BY <1>4 DEF Injection, IsInjective
  <2>2. f \in Surjection(C, D)
    BY <1>4, <1>5 DEF Surjection
  <2> QED BY <2>1, <2>2 DEF Bijection
<1>7. ExistsBijection(C, D)
  BY <1>6 DEF ExistsBijection
<1> QED BY <1>2, <1>7, FS_Bijection DEF Shortlist

(* The candidates that are checked are the other ones, when all that are   *)
(* left out fit worse.                                                     *)
LEMMA CheckedMirrors ==
    ASSUME NEW a, NEW b, Alike(a, b), NEW C, NEW D, Mirror(C, D, a, b),
           MAX_CHECKED \in Nat, WorseLeftOut(C)
    PROVE  Mirror(Checked(C), Checked(D), a, b)
<1> DEFINE K == Checked(C)
           T == { c \in CandidateSet : Turned(c, a, b) \in K }
<1>1. Shortlist(C) /\ Shortlist(D)
  BY MirrorsAreAsMany, Zenon DEF Mirror
<1>2. /\ Shortlist(K) /\ K \subseteq C /\ Cardinality(K) <= MAX_CHECKED
      /\ K # C => Cardinality(K) >= MAX_CHECKED
  BY <1>1, FirstAreAsMany DEF Checked
<1>3. \A c \in K, d \in C \ K : c.score > d.score
  BY Zenon DEF WorseLeftOut
<1>4. Checked(D) = { c \in D : Ahead(D, c) < MAX_CHECKED } /\ D \subseteq CandidateSet
  BY <1>1, Zenon DEF Checked, FirstOf, Ahead, Shortlist
<1> HIDE DEF K
<1>5. Mirror(K, T, a, b)
  BY <1>2 DEF Mirror
<1>6. Shortlist(T) /\ Cardinality(T) = Cardinality(K) /\ Cardinality(K) \in Nat
  <2> HIDE DEF T
  <2> QED BY <1>2, <1>5, MirrorsAreAsMany, FS_CardinalityType DEF Shortlist
<1>7. T \subseteq D
  <2>1. \A c \in CandidateSet : c \in D <=> Turned(c, a, b) \in C
    BY Zenon DEF Mirror
  <2> QED BY <1>2, <2>1
<1>8. \A x \in T, y \in D \ T : Before(x, y) /\ ~Before(y, x)
  <2> TAKE x \in T, y \in D \ T
  <2>1. x \in CandidateSet /\ y \in CandidateSet
    BY <1>4
  <2>2. Turned(x, a, b) \in K /\ Turned(y, a, b) \in C \ K
    BY <2>1, MirrorsBack
  <2>3. Turned(x, a, b).score > Turned(y, a, b).score
    BY <1>3, <2>2
  <2>4. x.score > y.score
    BY <2>1, <2>3, TurnsBack
  <2>5. Before(x, y)
    BY <2>1, <2>4, BeforeIsAnOrder
  <2> QED BY <2>1, <2>5, BeforeIsAnOrder
<1>9. ASSUME NEW x \in T PROVE Ahead(D, x) < MAX_CHECKED
  <2>1. { d \in D : Before(d, x) } \subseteq T \ {x}
    <3>1. x \in CandidateSet /\ ~Before(x, x)
      BY BeforeIsAnOrder
    <3> QED BY <1>8, <3>1
  <2>2. IsFiniteSet(T \ {x}) /\ Cardinality(T \ {x}) = Cardinality(T) - 1
    BY <1>6, FS_RemoveElement DEF Shortlist
  <2>3. Ahead(D, x) <= Cardinality(T \ {x})
    BY <2>1, <2>2, FS_Subset DEF Ahead
  <2>4. Ahead(D, x) \in Nat
    BY <1>1, <1>7, FewerAhead
  <2> QED BY <1>2, <1>6, <2>2, <2>3, <2>4
<1>10. ASSUME NEW y \in D \ T PROVE ~(Ahead(D, y) < MAX_CHECKED)
  <2>1. T \subseteq { d \in D : Before(d, y) }
    BY <1>7, <1>8
  <2>2. IsFiniteSet({ d \in D : Before(d, y) })
    BY <1>1, FS_Subset DEF Shortlist
  <2>3. Cardinality(T) <= Ahead(D, y)
    BY <2>1, <2>2, FS_Subset DEF Ahead
  <2>4. K # C
    <3>1. y \in CandidateSet /\ Turned(y, a, b) \in C
      BY MirrorsBack
    <3> QED BY <3>1
  <2>5. Ahead(D, y) \in Nat
    BY <1>1, FewerAhead
  <2> QED BY <1>2, <1>6, <2>3, <2>4, <2>5
<1>11. Checked(D) = T
  <2> HIDE DEF T
  <2> QED BY <1>4, <1>7, <1>9, <1>10
<1> QED BY <1>5, <1>11 DEF K

(*------------------- what is chosen, of those available ------------------*)

(* no other fits nearly as well, and one alone fits well enough *)
Wins(c, A) ==
    /\ c \in A /\ \A d \in A \ {c} : c.score - d.score >= CONFIDENT_MARGIN
    /\ A = {c} => c.score >= LOW_CONFIDENCE_MAX
Foremost(n, K) == n \in K /\ \A k \in K : n.score > k.score \/ (n.score = k.score /\ Turn(n) <= Turn(k))
(* the thing that was surely named fits clearly better than all there are *)
Outdone(K, A) ==
    \E n \in K : Foremost(n, K) /\ NamedForSure(n) /\ \A d \in A : n.score - d.score >= CONFIDENT_MARGIN

LEMMA LeadingIsForemost ==
    ASSUME NEW K, Shortlist(K), K # {}
    PROVE  /\ Leading(K) \in K /\ Foremost(Leading(K), K)
           /\ \A n \in K : Foremost(n, K) => /\ n.score = Leading(K).score
                                             /\ NamedForSure(n) <=> NamedForSure(Leading(K))
<1> DEFINE l == Leading(K)
<1>1. l \in K /\ \A d \in K \ {l} : Before(l, d)
  BY OneLeads
<1> HIDE DEF l
<1>2. \A c \in K : c \in CandidateSet /\ c.score \in Int /\ Turn(c) \in Nat
  BY TurnsTellApart DEF Shortlist, CandidateSet
<1>3. Foremost(l, K)
  <2>1. ASSUME NEW k \in K PROVE l.score > k.score \/ (l.score = k.score /\ Turn(l) <= Turn(k))
    <3>1. CASE k = l
      BY <1>1, <1>2, <3>1
    <3>2. CASE k # l
      <4>1. Before(l, k)
        BY <1>1, <3>2
      <4> QED BY <1>1, <1>2, <4>1 DEF Before
    <3> QED BY <3>1, <3>2
  <2> QED BY <1>1, <2>1 DEF Foremost
<1>4. ASSUME NEW n \in K, Foremost(n, K)
      PROVE  n.score = l.score /\ (NamedForSure(n) <=> NamedForSure(l))
  <2>1. /\ n.score > l.score \/ (n.score = l.score /\ Turn(n) <= Turn(l))
        /\ l.score > n.score \/ (l.score = n.score /\ Turn(l) <= Turn(n))
    BY <1>1, <1>3, <1>4 DEF Foremost
  <2>2. n.score = l.score /\ Turn(n) = Turn(l)
    BY <1>1, <1>2, <2>1
  <2>3. n.matched_by = l.matched_by
    BY <1>1, <1>2, <2>2, TurnsTellApart
  <2> QED BY <2>2, <2>3 DEF NamedForSure
<1> QED BY <1>1, <1>3, <1>4 DEF l

LEMMA TheWinnerIsChosen ==
    ASSUME NEW K, Shortlist(K), NEW A \in SUBSET K
    PROVE  /\ \A c \in A : Wins(c, A) /\ ~Outdone(K, A) => Resolution(K, A).chosen = c.entity
           /\ Outdone(K, A) \/ (\A c \in A : ~Wins(c, A)) => Resolution(K, A).chosen = Nothing
<1> DEFINE best_named == Leading(K)
           top == Leading(A)
           runner_up == IF A = {top} THEN {} ELSE {Leading(A \ {top})}
           Beaten == best_named \notin A /\ NamedForSure(best_named)
                     /\ best_named.score - top.score >= CONFIDENT_MARGIN
           Weak == runner_up = {} /\ top.score < LOW_CONFIDENCE_MAX
           Chosen == Resolution(K, A).chosen
<1>1. /\ K = {} \/ A = {} => Chosen = Nothing
      /\ K # {} /\ A # {} => Chosen = IF Beaten \/ Weak \/ ~LeadsBy(top, runner_up) THEN Nothing ELSE top.entity
  <2>1. \A c, S, s : /\ NotCaught.chosen = Nothing /\ NobodyDeals(c).chosen = Nothing
                     /\ Asks(S).chosen = Nothing /\ Answer(c, s).chosen = c.entity
    BY DEF NotCaught, NobodyDeals, Asks, Answer
  <2>2. K = {} \/ A = {} => Chosen = Nothing
    BY <2>1 DEF Resolution
  <2>3. K # {} /\ A # {} /\ Beaten => Chosen = Nothing
    BY <2>1 DEF Resolution
  <2>4. K # {} /\ A # {} /\ ~Beaten /\ Weak => Chosen = Nothing
    BY <2>1 DEF Resolution
  <2>5. K # {} /\ A # {} /\ ~Beaten /\ ~Weak /\ ~LeadsBy(top, runner_up) => Chosen = Nothing
    BY <2>1 DEF Resolution
  <2>6. K # {} /\ A # {} /\ ~Beaten /\ ~Weak /\ LeadsBy(top, runner_up) => Chosen = top.entity
    BY <2>1 DEF Resolution
  <2> QED BY <2>2, <2>3, <2>4, <2>5, <2>6
<1>2. CASE A = {}
  BY <1>1, <1>2
<1>3. CASE A # {}
  <2>1. /\ K # {} /\ A \subseteq K /\ Shortlist(A)
        /\ \A c \in K : c \in CandidateSet /\ c.score \in Int
    BY <1>3, FS_Subset DEF Shortlist, CandidateSet
  <2>2. top \in A /\ \A d \in A \ {top} : Before(top, d)
    BY <1>3, <2>1, OneLeads
  <2>3. \A d \in A : top.score >= d.score
    <3> TAKE d \in A
    <3>1. CASE d = top
      BY <2>1, <2>2, <3>1
    <3>2. CASE d # top
      BY <2>1, <2>2, <3>2, BeforeIsAnOrder
    <3> QED BY <3>1, <3>2
  <2>4. /\ best_named \in K /\ Foremost(best_named, K)
        /\ \A n \in K : Foremost(n, K) => /\ n.score = best_named.score
                                          /\ NamedForSure(n) <=> NamedForSure(best_named)
    BY <2>1, LeadingIsForemost
  <2>5. A # {top} => /\ Leading(A \ {top}) \in A \ {top}
                     /\ \A d \in A \ {top} : Leading(A \ {top}).score >= d.score
    <3> SUFFICES ASSUME A # {top}
                 PROVE  /\ Leading(A \ {top}) \in A \ {top}
                        /\ \A d \in A \ {top} : Leading(A \ {top}).score >= d.score
      OBVIOUS
    <3>1. Shortlist(A \ {top}) /\ A \ {top} # {}
      BY <2>1, <2>2, FS_RemoveElement DEF Shortlist
    <3>2. PICK r : r = Leading(A \ {top})
      OBVIOUS
    <3>3. r \in A \ {top} /\ \A d \in (A \ {top}) \ {r} : Before(r, d)
      BY <3>1, <3>2, OneLeads
    <3>4. \A d \in A \ {top} : r.score >= d.score
      <4> TAKE d \in A \ {top}
      <4>1. CASE d = r
        BY <2>1, <3>3, <4>1
      <4>2. CASE d # r
        BY <2>1, <3>3, <4>2, BeforeIsAnOrder
      <4> QED BY <4>1, <4>2
    <3> QED BY <3>2, <3>3, <3>4
  <2> HIDE DEF best_named, top
  <2>6. Outdone(K, A) <=> Beaten
    <3>1. best_named.score - top.score >= CONFIDENT_MARGIN <=>
            \A d \in A : best_named.score - d.score >= CONFIDENT_MARGIN
      BY <2>1, <2>2, <2>3, <2>4 DEF CONFIDENT_MARGIN
    <3>2. best_named.score - top.score >= CONFIDENT_MARGIN => best_named \notin A
      BY <2>1, <2>2, <2>3, <2>4 DEF CONFIDENT_MARGIN
    <3>3. Outdone(K, A) <=> NamedForSure(best_named)
                            /\ \A d \in A : best_named.score - d.score >= CONFIDENT_MARGIN
      BY <2>4 DEF Outdone
    <3> QED BY <3>1, <3>2, <3>3
  <2>7. Wins(top, A) <=> ~Weak /\ LeadsBy(top, runner_up)
    <3>1. CASE A = {top}
      <4>1. runner_up = {}
        BY <3>1
      <4>2. LeadsBy(top, runner_up)
        BY <4>1 DEF LeadsBy
      <4>3. Wins(top, A) <=> top.score >= LOW_CONFIDENCE_MAX
        BY <3>1 DEF Wins
      <4> QED BY <2>1, <2>2, <4>1, <4>2, <4>3 DEF LOW_CONFIDENCE_MAX
    <3>2. CASE A # {top}
      <4>1. PICK r : r = Leading(A \ {top})
        OBVIOUS
      <4>2. runner_up = {r} /\ r \in A \ {top} /\ \A d \in A \ {top} : r.score >= d.score
        BY <2>5, <3>2, <4>1
      <4>3. LeadsBy(top, runner_up) <=> top.score - r.score >= CONFIDENT_MARGIN
        BY <4>2 DEF LeadsBy
      <4>4. Wins(top, A) <=> \A d \in A \ {top} : top.score - d.score >= CONFIDENT_MARGIN
        BY <2>2, <3>2 DEF Wins
      <4>5. (\A d \in A \ {top} : top.score - d.score >= CONFIDENT_MARGIN)
              <=> top.score - r.score >= CONFIDENT_MARGIN
        BY <2>1, <2>2, <4>2 DEF CONFIDENT_MARGIN
      <4> QED BY <4>2, <4>3, <4>4, <4>5
    <3> QED BY <3>1, <3>2
  <2>8. \A c \in A : Wins(c, A) => c = top
    <3> SUFFICES ASSUME NEW c \in A, Wins(c, A), c # top PROVE FALSE
      OBVIOUS
    <3>1. c.score - top.score >= CONFIDENT_MARGIN
      BY <2>2 DEF Wins
    <3> QED BY <2>1, <2>2, <2>3, <3>1 DEF CONFIDENT_MARGIN
  <2> HIDE DEF Beaten, Weak, runner_up, Chosen
  <2>9. Chosen = IF Outdone(K, A) \/ ~Wins(top, A) THEN Nothing ELSE top.entity
    BY <1>1, <1>3, <2>1, <2>6, <2>7
  <2> QED BY <2>2, <2>8, <2>9 DEF Chosen
<1> QED BY <1>2, <1>3

(* Of the other ones the other one is chosen.                              *)
LEMMA ChoiceMirrors ==
    ASSUME NEW a, NEW b, Alike(a, b), NEW K, NEW L, Mirror(K, L, a, b),
           NEW A \in SUBSET K, NEW B \in SUBSET L, Mirror(A, B, a, b)
    PROVE  Resolution(L, B).chosen = Swap(Resolution(K, A).chosen, a, b)
<1>1. Shortlist(K) /\ Shortlist(L)
  BY MirrorsAreAsMany, Zenon DEF Mirror
<1>2. /\ \A c \in K : c \in CandidateSet /\ Turned(c, a, b) \in L
      /\ \A d \in L : d \in CandidateSet /\ Turned(d, a, b) \in K
      /\ \A c \in A : c \in CandidateSet /\ Turned(c, a, b) \in B
      /\ \A d \in B : d \in CandidateSet /\ Turned(d, a, b) \in A
  BY MirrorsBack
<1>3. \A c \in CandidateSet :
        /\ Turned(Turned(c, a, b), a, b) = c
        /\ Turned(c, a, b).score = c.score /\ Turned(c, a, b).matched_by = c.matched_by
        /\ Turned(c, a, b).entity = Swap(c.entity, a, b)
        /\ Turn(Turned(c, a, b)) = Turn(c)
  BY TurnsBack
<1>0. (\A x : Swap(Swap(x, a, b), a, b) = x) /\ Swap(Nothing, a, b) = Nothing
  BY SwapsAreUndone
<1>4. ASSUME NEW d \in B PROVE Wins(d, B) <=> Wins(Turned(d, a, b), A)
  <2> DEFINE c == Turned(d, a, b)
  <2>1. c \in A /\ d \in CandidateSet /\ c.score = d.score
    BY <1>2, <1>3
  <2>2. \A e \in B : e # d <=> Turned(e, a, b) # c
    BY <1>2, <1>3
  <2>3. B = {d} <=> A = {c}
    <3>1. ASSUME B = {d}, NEW x \in A PROVE x = c
      <4>1. Turned(x, a, b) = d /\ x \in CandidateSet
        BY <1>2, <3>1
      <4> QED BY <1>3, <4>1
    <3>2. ASSUME A = {c}, NEW e \in B PROVE e = d
      BY <1>2, <2>2, <3>2
    <3> QED BY <2>1, <3>1, <3>2
  <2>4. (\A e \in B \ {d} : d.score - e.score >= CONFIDENT_MARGIN)
          <=> (\A x \in A \ {c} : c.score - x.score >= CONFIDENT_MARGIN)
    <3>1. ASSUME \A e \in B \ {d} : d.score - e.score >= CONFIDENT_MARGIN, NEW x \in A \ {c}
          PROVE  c.score - x.score >= CONFIDENT_MARGIN
      <4>1. Turned(x, a, b) \in B /\ Turned(Turned(x, a, b), a, b) = x /\ Turned(x, a, b).score = x.score
        BY <1>2, <1>3
      <4>2. Turned(x, a, b) # d
        BY <4>1
      <4>3. d.score - Turned(x, a, b).score >= CONFIDENT_MARGIN
        BY <3>1, <4>1, <4>2
      <4> QED BY <2>1, <4>1, <4>3
    <3>2. ASSUME \A x \in A \ {c} : c.score - x.score >= CONFIDENT_MARGIN, NEW e \in B \ {d}
          PROVE  d.score - e.score >= CONFIDENT_MARGIN
      <4>1. Turned(e, a, b) \in A /\ Turned(e, a, b) # c /\ Turned(e, a, b).score = e.score
        BY <1>2, <1>3, <2>2
      <4>2. c.score - Turned(e, a, b).score >= CONFIDENT_MARGIN
        BY <3>2, <4>1
      <4> QED BY <2>1, <4>1, <4>2
    <3> QED BY <3>1, <3>2
  <2> HIDE DEF c
  <2>5. Wins(d, B) <=> Wins(c, A)
    BY <2>1, <2>3, <2>4, Zenon DEF Wins
  <2> QED BY <2>5 DEF c
<1>5. ASSUME NEW n \in L
      PROVE  Foremost(n, L) <=> Foremost(Turned(n, a, b), K)
  <2>1. /\ Turned(n, a, b) \in K /\ Turned(n, a, b).score = n.score /\ Turn(Turned(n, a, b)) = Turn(n)
    BY <1>2, <1>3
  <2>2. ASSUME Foremost(n, L), NEW k \in K
        PROVE  n.score > k.score \/ (n.score = k.score /\ Turn(n) <= Turn(k))
    <3>1. Turned(k, a, b) \in L /\ Turned(k, a, b).score = k.score /\ Turn(Turned(k, a, b)) = Turn(k)
      BY <1>2, <1>3
    <3>2. n.score > Turned(k, a, b).score \/ (n.score = Turned(k, a, b).score /\ Turn(n) <= Turn(Turned(k, a, b)))
      BY <2>2, <3>1, Zenon DEF Foremost
    <3> QED BY <3>1, <3>2
  <2>3. ASSUME Foremost(Turned(n, a, b), K), NEW k \in L
        PROVE  n.score > k.score \/ (n.score = k.score /\ Turn(n) <= Turn(k))
    <3>1. Turned(k, a, b) \in K /\ Turned(k, a, b).score = k.score /\ Turn(Turned(k, a, b)) = Turn(k)
      BY <1>2, <1>3
    <3> QED BY <2>1, <2>3, <3>1 DEF Foremost
  <2> QED BY <2>1, <2>2, <2>3 DEF Foremost
<1>6. Outdone(L, B) <=> Outdone(K, A)
  <2>1. ASSUME NEW n \in L, Foremost(n, L), NamedForSure(n),
               \A d \in B : n.score - d.score >= CONFIDENT_MARGIN
        PROVE  Outdone(K, A)
    <3>1. /\ Turned(n, a, b) \in K /\ Foremost(Turned(n, a, b), K)
          /\ Turned(n, a, b).score = n.score /\ Turned(n, a, b).matched_by = n.matched_by
      BY <1>2, <1>3, <1>5, <2>1
    <3>2. NamedForSure(Turned(n, a, b))
      BY <2>1, <3>1 DEF NamedForSure
    <3>3. ASSUME NEW x \in A PROVE Turned(n, a, b).score - x.score >= CONFIDENT_MARGIN
      <4>1. Turned(x, a, b) \in B /\ Turned(x, a, b).score = x.score
        BY <1>2, <1>3
      <4>2. n.score - Turned(x, a, b).score >= CONFIDENT_MARGIN
        BY <2>1, <4>1
      <4> QED BY <3>1, <4>1, <4>2
    <3> QED BY <3>1, <3>2, <3>3, Zenon DEF Outdone
  <2>2. ASSUME NEW k \in K, Foremost(k, K), NamedForSure(k),
               \A x \in A : k.score - x.score >= CONFIDENT_MARGIN
        PROVE  Outdone(L, B)
    <3>1. /\ Turned(k, a, b) \in L /\ Turned(Turned(k, a, b), a, b) = k
          /\ Turned(k, a, b).score = k.score /\ Turned(k, a, b).matched_by = k.matched_by
      BY <1>2, <1>3
    <3>2. NamedForSure(Turned(k, a, b)) /\ Foremost(Turned(k, a, b), L)
      BY <1>5, <2>2, <3>1 DEF NamedForSure
    <3>3. ASSUME NEW d \in B PROVE Turned(k, a, b).score - d.score >= CONFIDENT_MARGIN
      <4>1. Turned(d, a, b) \in A /\ Turned(d, a, b).score = d.score
        BY <1>2, <1>3
      <4>2. k.score - Turned(d, a, b).score >= CONFIDENT_MARGIN
        BY <2>2, <4>1
      <4> QED BY <3>1, <4>1, <4>2
    <3> QED BY <3>1, <3>2, <3>3, Zenon DEF Outdone
  <2>3. Outdone(L, B) => Outdone(K, A)
    BY <2>1, Zenon DEF Outdone
  <2>4. Outdone(K, A) => Outdone(L, B)
    BY <2>2, Zenon DEF Outdone
  <2> QED BY <2>3, <2>4
<1>7. CASE ~Outdone(L, B) /\ \E d \in B : Wins(d, B)
  <2>1. PICK d \in B : Wins(d, B)
    BY <1>7
  <2>2. Resolution(L, B).chosen = d.entity
    BY <1>1, <1>7, <2>1, TheWinnerIsChosen
  <2>3. Turned(d, a, b) \in A /\ Wins(Turned(d, a, b), A) /\ ~Outdone(K, A)
    BY <1>2, <1>4, <1>6, <1>7, <2>1
  <2>4. Resolution(K, A).chosen = Turned(d, a, b).entity
    BY <1>1, <2>3, TheWinnerIsChosen
  <2>5. Turned(d, a, b).entity = Swap(d.entity, a, b)
    BY <1>2, <1>3
  <2>6. Swap(Swap(d.entity, a, b), a, b) = d.entity
    BY <1>0
  <2> QED BY <2>2, <2>4, <2>5, <2>6
<1>8. CASE Outdone(L, B) \/ \A d \in B : ~Wins(d, B)
  <2>1. Resolution(L, B).chosen = Nothing
    BY <1>1, <1>8, TheWinnerIsChosen
  <2>2. Outdone(K, A) \/ \A c \in A : ~Wins(c, A)
    <3> SUFFICES ASSUME \A d \in B : ~Wins(d, B), NEW c \in A, Wins(c, A) PROVE FALSE
      BY <1>6, <1>8
    <3>1. Turned(c, a, b) \in B /\ Turned(Turned(c, a, b), a, b) = c
      BY <1>2, <1>3
    <3> QED BY <1>4, <3>1
  <2>3. Resolution(K, A).chosen = Nothing
    BY <1>1, <2>2, TheWinnerIsChosen
  <2> QED BY <1>0, <2>1, <2>3
<1> QED BY <1>7, <1>8

(*--------------------- the candidates that a name brings -----------------*)

LEMMA TurnedCandidate ==
    ASSUME NEW a, NEW b, Alike(a, b), NEW e \in Entries, NEW s, NEW m
    PROVE  Turned(Candidate(e, s, m), a, b) = Candidate(Swap(e, a, b), s, m)
<1>1. a # b /\ _penalty(a) = _penalty(b)
  BY Zenon DEF Alike
<1>2. _penalty(Swap(e, a, b)) = _penalty(e)
  BY <1>1, Zenon DEF Swap
<1> QED BY <1>2 DEF Turned, Candidate

LEMMA BestScoreIsOne ==
    ASSUME NEW h, IsHearing(h), NEW pool \in SUBSET Entries
    PROVE  BestScore(h, pool) \in Nat
<1> DEFINE S == { h.score[e] : e \in pool } \cup {0}
           f == [e \in pool |-> h.score[e]]
<1>1. h.score \in [Entries -> Nat]
  BY DEF IsHearing
<1>2. S \in SUBSET Nat /\ S # {}
  BY <1>1
<1>3. IsFiniteSet(S)
  <2>1. IsFiniteSet(pool)
    BY EntriesAreNumbers, FS_Subset
  <2>2. f \in Surjection(pool, { h.score[e] : e \in pool })
    BY DEF Surjection
  <2> HIDE DEF f
  <2>3. IsFiniteSet({ h.score[e] : e \in pool })
    BY <2>1, <2>2, FS_Surjection
  <2> QED BY <2>3, FS_AddElement
<1> HIDE DEF S
<1>4. PICK m \in S : \A j \in S : j <= m
  BY <1>2, <1>3, LastOfFinite
<1>5. Max(S) \in S
  <2>1. \E x \in S : \A j \in S : x >= j
    BY <1>2, <1>4
  <2> QED BY <2>1, Zenon DEF Max
<1> QED BY <1>2, <1>5 DEF BestScore, S

LEMMA CandidatesAre ==
    ASSUME NEW e \in Entries, Kind(e) \in Kinds, NEW s \in Int, NEW m \in {"exact", "contained", "fuzzy"}
    PROVE  Candidate(e, s, m) \in CandidateSet
<1>1. _penalty(e) \in Int
  BY DEF _penalty, VARIANT_PENALTY, ACCESSORY_PENALTY
<1>2. s - _penalty(e) \in Int
  BY <1>1
<1> QED BY <1>2 DEF Candidate, CandidateSet

(* an image of a finite set of entries *)
LEMMA CandidatesAreFinite ==
    ASSUME NEW S \in SUBSET Entries, NEW s, NEW m
    PROVE  IsFiniteSet({ Candidate(e, s, m) : e \in S })
<1> DEFINE f == [e \in S |-> Candidate(e, s, m)]
<1>1. IsFiniteSet(S)
  BY EntriesAreNumbers, FS_Subset
<1>2. f \in Surjection(S, { Candidate(e, s, m) : e \in S })
  BY DEF Surjection
<1> HIDE DEF f
<1> QED BY <1>1, <1>2, FS_Surjection

LEMMA MatchesAre ==
    ASSUME NEW h, IsHearing(h), NEW k \in Kinds
    PROVE  Shortlist(_matches(h, OfKind(k)))
<1> DEFINE pool == OfKind(k)
           Exact == _exact_name_matches(h, pool)
           Contained == _contained_matches(h, pool)
           Fuzzy == _top_matches(h, pool) \ Contained
<1>1. /\ pool \in SUBSET Entries /\ \A e \in pool : Kind(e) \in Kinds
      /\ Exact \in SUBSET pool /\ Contained \in SUBSET pool /\ Fuzzy \in SUBSET pool
  BY DEF OfKind, _exact_name_matches, _contained_matches, _top_matches
<1>2. BestScore(h, pool) \in Int
  <2>1. BestScore(h, pool) \in Nat
    BY <1>1, BestScoreIsOne
  <2> QED BY <2>1
<1>3. Exact # {} => First(Exact) \in Exact
  BY <1>1, EntriesAreNumbers, FirstIsThere
<1>4. _matches(h, pool) =
        IF Exact # {} THEN {Candidate(First(Exact), 100, "exact")}
        ELSE { Candidate(e, CONTAINED_SCORE, "contained") : e \in Contained }
             \cup { Candidate(e, BestScore(h, pool), "fuzzy") : e \in Fuzzy }
  BY Zenon DEF _matches
<1> HIDE DEF pool, Exact, Contained, Fuzzy
<1>5. CASE Exact # {}
  <2>1. Candidate(First(Exact), 100, "exact") \in CandidateSet
    BY <1>1, <1>3, <1>5, CandidatesAre
  <2> QED BY <1>4, <1>5, <2>1, FS_Singleton DEF Shortlist, pool
<1>6. CASE Exact = {}
  <2>1. \A e \in Contained : Candidate(e, CONTAINED_SCORE, "contained") \in CandidateSet
    BY <1>1, CandidatesAre DEF CONTAINED_SCORE
  <2>2. \A e \in Fuzzy : Candidate(e, BestScore(h, pool), "fuzzy") \in CandidateSet
    BY <1>1, <1>2, CandidatesAre
  <2>3. IsFiniteSet({ Candidate(e, CONTAINED_SCORE, "contained") : e \in Contained }
                    \cup { Candidate(e, BestScore(h, pool), "fuzzy") : e \in Fuzzy })
    <3>1. IsFiniteSet({ Candidate(e, CONTAINED_SCORE, "contained") : e \in Contained })
      <4>1. Contained \in SUBSET Entries
        BY <1>1
      <4> QED BY <4>1, CandidatesAreFinite
    <3>2. IsFiniteSet({ Candidate(e, BestScore(h, pool), "fuzzy") : e \in Fuzzy })
      <4>1. Fuzzy \in SUBSET Entries
        BY <1>1
      <4> QED BY <4>1, CandidatesAreFinite
    <3> QED BY <3>1, <3>2, FS_Union
  <2> QED BY <1>4, <1>6, <2>1, <2>2, <2>3 DEF Shortlist, pool
<1> QED BY <1>5, <1>6

LEMMA MatchesMirror ==
    ASSUME NEW a, NEW b, Alike(a, b), NEW k \in Kinds, Twins(a, b, OfKind(k)),
           NEW h, NEW g, IsHearing(h), IsHearing(g), AsTheOther(h, g, a, b)
    PROVE  Mirror(_matches(h, OfKind(k)), _matches(g, OfKind(k)), a, b)
<1> DEFINE pool == OfKind(k)
           Exact(x) == _exact_name_matches(x, pool)
           Contained(x) == _contained_matches(x, pool)
           Fuzzy(x) == _top_matches(x, pool) \ Contained(x)
           score == BestScore(h, pool)
           Listed(x) == { Candidate(e, CONTAINED_SCORE, "contained") : e \in Contained(x) }
                        \cup { Candidate(e, score, "fuzzy") : e \in Fuzzy(x) }
<1>1. Shortlist(_matches(h, pool)) /\ Shortlist(_matches(g, pool))
  BY MatchesAre
<1>2. /\ Exact(g) = SwapIn(Exact(h), a, b)
      /\ Exact(h) # {} => First(Exact(g)) = Swap(First(Exact(h)), a, b)
  <2>1. g.says = Swap(h.says, NameOf(a), NameOf(b))
    BY Zenon DEF AsTheOther
  <2> QED BY <2>1, SwapsNamed DEF _exact_name_matches
<1>3. /\ a # b /\ a \in Entries /\ b \in Entries
      /\ \A x : Swap(Swap(x, a, b), a, b) = x
      /\ \A x : Exact(x) \subseteq Entries /\ Contained(x) \subseteq Entries /\ Fuzzy(x) \subseteq Entries
  <2>1. /\ a # b /\ a \in Entries /\ b \in Entries
        /\ \A x : Swap(Swap(x, a, b), a, b) = x
    BY SwapsAreUndone
  <2>2. \A x : Exact(x) \subseteq Entries /\ Contained(x) \subseteq Entries /\ Fuzzy(x) \subseteq Entries
    BY DEF OfKind, _exact_name_matches, _contained_matches, _top_matches
  <2> QED BY <2>1, <2>2
<1>4. BestScore(g, pool) = score /\ _top_matches(g, pool) = SwapIn(_top_matches(h, pool), a, b)
  BY TopSwap
<1>5. \A x : x \in Contained(g) <=> Swap(x, a, b) \in Contained(h)
  <2>1. Contained(g) = SwapIn(Contained(h), a, b)
    BY ContainedSwap
  <2> QED BY <1>3, <2>1, SwapsSets
<1>6. \A x : x \in Fuzzy(g) <=> Swap(x, a, b) \in Fuzzy(h)
  <2>1. \A x : x \in _top_matches(g, pool) <=> Swap(x, a, b) \in _top_matches(h, pool)
    BY <1>3, <1>4, SwapsSets
  <2> QED BY <1>5, <2>1
<1>7. \A x \in {h, g} : _matches(x, pool) = IF Exact(x) # {} THEN {Candidate(First(Exact(x)), 100, "exact")}
                                            ELSE Listed(x)
  <2>1. ASSUME NEW x, BestScore(x, pool) = score
        PROVE  _matches(x, pool) = IF Exact(x) # {} THEN {Candidate(First(Exact(x)), 100, "exact")}
                                   ELSE Listed(x)
    BY <2>1, Zenon DEF _matches
  <2> QED BY <1>4, <2>1
<1>8. Exact(g) = {} <=> Exact(h) = {}
  BY <1>2, <1>3, SwapsSets
<1>9. Exact(h) # {} => First(Exact(h)) \in Entries
  <2>1. Exact(h) \in SUBSET Nat
    BY <1>3, EntriesAreNumbers
  <2> HIDE DEF Exact
  <2> QED BY <1>3, <2>1, FirstIsThere
<1> HIDE DEF pool, Exact, Contained, Fuzzy, score
<1>10. ASSUME NEW c \in CandidateSet
       PROVE  c \in _matches(g, pool) <=> Turned(c, a, b) \in _matches(h, pool)
  <2>1. Turned(Turned(c, a, b), a, b) = c
    BY TurnsBack
  <2>2. CASE Exact(h) # {}
    <3> DEFINE one == Candidate(First(Exact(h)), 100, "exact")
               other == Candidate(First(Exact(g)), 100, "exact")
    <3>1. Turned(one, a, b) = other
      BY <1>2, <1>9, <2>2, TurnedCandidate
    <3>2. Turned(other, a, b) = one
      <4>1. First(Exact(g)) \in Entries
        BY <1>2, <1>3, <1>9, <2>2, Zenon DEF Swap
      <4>2. Swap(First(Exact(g)), a, b) = First(Exact(h))
        BY <1>2, <1>3, <2>2
      <4> QED BY <4>1, <4>2, TurnedCandidate
    <3>3. _matches(g, pool) = {other} /\ _matches(h, pool) = {one}
      BY <1>7, <1>8, <2>2
    <3> HIDE DEF one, other
    <3> QED BY <2>1, <3>1, <3>2, <3>3
  <2>3. CASE Exact(h) = {}
    <3>1. _matches(g, pool) = Listed(g) /\ _matches(h, pool) = Listed(h)
      BY <1>7, <1>8, <2>3
    <3>2. ASSUME c \in Listed(g) PROVE Turned(c, a, b) \in Listed(h)
      <4>1. CASE \E e \in Contained(g) : c = Candidate(e, CONTAINED_SCORE, "contained")
        <5>1. PICK e \in Contained(g) : c = Candidate(e, CONTAINED_SCORE, "contained")
          BY <4>1
        <5>2. Turned(c, a, b) = Candidate(Swap(e, a, b), CONTAINED_SCORE, "contained")
          BY <1>3, <5>1, TurnedCandidate
        <5> QED BY <1>5, <5>2
      <4>2. CASE \E e \in Fuzzy(g) : c = Candidate(e, score, "fuzzy")
        <5>1. PICK e \in Fuzzy(g) : c = Candidate(e, score, "fuzzy")
          BY <4>2
        <5>2. Turned(c, a, b) = Candidate(Swap(e, a, b), score, "fuzzy")
          BY <1>3, <5>1, TurnedCandidate
        <5> QED BY <1>6, <5>2
      <4> QED BY <3>2, <4>1, <4>2
    <3>3. ASSUME Turned(c, a, b) \in Listed(h) PROVE c \in Listed(g)
      <4>1. CASE \E e \in Contained(h) : Turned(c, a, b) = Candidate(e, CONTAINED_SCORE, "contained")
        <5>1. PICK e \in Contained(h) : Turned(c, a, b) = Candidate(e, CONTAINED_SCORE, "contained")
          BY <4>1
        <5>2. c = Candidate(Swap(e, a, b), CONTAINED_SCORE, "contained")
          <6>1. Turned(Candidate(e, CONTAINED_SCORE, "contained"), a, b)
                  = Candidate(Swap(e, a, b), CONTAINED_SCORE, "contained")
            BY <1>3, TurnedCandidate
          <6> QED BY <2>1, <5>1, <6>1
        <5> QED BY <1>3, <1>5, <5>2
      <4>2. CASE \E e \in Fuzzy(h) : Turned(c, a, b) = Candidate(e, score, "fuzzy")
        <5>1. PICK e \in Fuzzy(h) : Turned(c, a, b) = Candidate(e, score, "fuzzy")
          BY <4>2
        <5>2. c = Candidate(Swap(e, a, b), score, "fuzzy")
          <6>1. Turned(Candidate(e, score, "fuzzy"), a, b) = Candidate(Swap(e, a, b), score, "fuzzy")
            BY <1>3, TurnedCandidate
          <6> QED BY <2>1, <5>1, <6>1
        <5> QED BY <1>3, <1>6, <5>2
      <4> QED BY <3>3, <4>1, <4>2
    <3> QED BY <3>1, <3>2, <3>3
  <2> QED BY <2>2, <2>3
<1> QED BY <1>1, <1>10 DEF Mirror, Shortlist, pool

LEMMA CandidatesMirror ==
    ASSUME NEW a \in OfKind("item"), NEW b \in OfKind("item"), SameSort(a, b),
           NEW h, IsHearing(h), NEW action \in DOMAIN _KINDS_FOR_ACTION
    PROVE  /\ Alike(a, b)
           /\ Mirror(_candidates(h, action), _candidates(SwapHeard(h, a, b), action), a, b)
<1> DEFINE g == SwapHeard(h, a, b)
           kinds == _KINDS_FOR_ACTION[action]
           Brought(x) == { _matches(x, OfKind(k)) : k \in kinds }
<1>1. /\ a \in Entries /\ b \in Entries /\ Kind(a) = "item" /\ Kind(b) = "item"
      /\ OnlyOneSoNamed(a) /\ OnlyOneSoNamed(b) /\ a < b /\ Get(a, "edition") = Get(b, "edition")
  BY DEF OfKind, SameSort
<1>2. a # b
  BY <1>1, EntriesAreNumbers
<1>3. Alike(a, b)
  <2>1. _penalty(a) = _penalty(b)
    BY <1>1 DEF _penalty, Get
  <2> QED BY <1>1, <1>2, <2>1, Zenon DEF Alike
<1>4. AsTheOther(h, g, a, b)
  BY HeardAsTheOther
<1>5. IsHearing(g)
  <2>1. /\ {"says", "score", "contained", "sound", "misheard"} \subseteq DOMAIN h
        /\ h.score \in [Entries -> Nat] /\ DOMAIN h.sound = Entries
    BY DEF IsHearing
  <2>2. /\ DOMAIN g = DOMAIN h
        /\ g.score = [e \in DOMAIN h.score |-> h.score[Swap(e, a, b)]]
        /\ g.sound = [e \in DOMAIN h.sound |-> h.sound[Swap(e, a, b)]]
    BY <2>1 DEF SwapHeard
  <2>3. \A e \in Entries : Swap(e, a, b) \in Entries
    BY <1>1, Zenon DEF Swap
  <2>4. g.score \in [Entries -> Nat] /\ DOMAIN g.sound = Entries
    BY <2>1, <2>2, <2>3
  <2> HIDE DEF g
  <2> QED BY <2>1, <2>2, <2>4 DEF IsHearing
<1>6. kinds \subseteq Kinds /\ IsFiniteSet(kinds)
  <2>1. kinds \subseteq Kinds
    BY DEF _KINDS_FOR_ACTION, Kinds
  <2>2. IsFiniteSet(Kinds)
    <3>1. IsFiniteSet({"commodity"} \cup {"item"}) /\ IsFiniteSet({"ship"})
      BY FS_Singleton, FS_Union
    <3>2. Kinds = ({"commodity"} \cup {"item"}) \cup {"ship"}
      BY DEF Kinds
    <3> QED BY <3>1, <3>2, FS_Union
  <2> QED BY <2>1, <2>2, FS_Subset
<1>7. ASSUME NEW k \in kinds
      PROVE  Mirror(_matches(h, OfKind(k)), _matches(g, OfKind(k)), a, b)
  <2>1. OfKind(k) \in SUBSET Entries /\ (a \in OfKind(k) <=> b \in OfKind(k))
    BY <1>1 DEF OfKind
  <2>2. Twins(a, b, OfKind(k))
    BY <1>1, <1>2, <2>1, Zenon DEF Twins
  <2>3. IsHearing(h) /\ k \in Kinds
    BY <1>6
  <2> HIDE DEF g, kinds
  <2> QED BY <1>3, <1>4, <1>5, <2>2, <2>3, MatchesMirror
<1> HIDE DEF g, kinds
<1>8. Shortlist(UNION Brought(h))
  <2>1. \A k \in kinds : Shortlist(_matches(h, OfKind(k)))
    BY <1>7, Zenon DEF Mirror
  <2>2. IsFiniteSet(Brought(h))
    <3> DEFINE f == [k \in kinds |-> _matches(h, OfKind(k))]
    <3>1. f \in Surjection(kinds, Brought(h))
      BY DEF Surjection
    <3> HIDE DEF f, Brought
    <3> QED BY <1>6, <3>1, FS_Surjection
  <2>3. \A M \in Brought(h) : M \subseteq CandidateSet /\ IsFiniteSet(M)
    BY <2>1 DEF Shortlist
  <2> HIDE DEF Brought
  <2>4. IsFiniteSet(UNION Brought(h))
    BY <2>2, <2>3, FS_UNION
  <2> QED BY <2>3, <2>4 DEF Shortlist
<1>9. UNION Brought(g) \subseteq CandidateSet
  BY <1>7 DEF Mirror
<1>10. \A c \in CandidateSet : c \in UNION Brought(g) <=> Turned(c, a, b) \in UNION Brought(h)
  <2> TAKE c \in CandidateSet
  <2>1. \A k \in kinds : c \in _matches(g, OfKind(k)) <=> Turned(c, a, b) \in _matches(h, OfKind(k))
    BY <1>7, Zenon DEF Mirror
  <2> QED BY <2>1
<1>11. _candidates(h, action) = UNION Brought(h) /\ _candidates(g, action) = UNION Brought(g)
  BY DEF _candidates, kinds
<1> QED BY <1>3, <1>8, <1>9, <1>10, <1>11 DEF Mirror, g

(* Which thing a name means does not depend on the order of the catalogue, *)
(* when those that are not checked fit worse than those that are.          *)
LEMMA ThingsSwap ==
    ASSUME NEW a \in OfKind("item"), NEW b \in OfKind("item"), SameSort(a, b),
           NEW h, IsHearing(h), NEW action \in DOMAIN _KINDS_FOR_ACTION, NEW dealt,
           WorseLeftOut(_candidates(h, action))
    PROVE  resolve(SwapHeard(h, a, b), action, SwapIn(dealt, a, b)).chosen
             = Swap(resolve(h, action, dealt).chosen, a, b)
<1> DEFINE g == SwapHeard(h, a, b)
           C == _candidates(h, action)
           D == _candidates(g, action)
           A == { c \in Checked(C) : c.entity \in dealt }
           B == { c \in Checked(D) : c.entity \in SwapIn(dealt, a, b) }
<1>1. Alike(a, b) /\ Mirror(C, D, a, b)
  BY CandidatesMirror
<1> HIDE DEF C, D, g
<1>2. MAX_CHECKED \in Nat
  BY CheckedAssumption
<1>3. WorseLeftOut(C)
  BY DEF C
<1>4. Mirror(Checked(C), Checked(D), a, b)
  BY <1>1, <1>2, <1>3, CheckedMirrors
<1>5. Shortlist(A)
  <2>1. Shortlist(Checked(C))
    BY <1>4, Zenon DEF Mirror
  <2> QED BY <2>1, FS_Subset DEF Shortlist
<1>6. \A c \in CandidateSet : c \in B <=> Turned(c, a, b) \in A
  <2> TAKE c \in CandidateSet
  <2>1. c \in Checked(D) <=> Turned(c, a, b) \in Checked(C)
    BY <1>4, Zenon DEF Mirror
  <2>2. c.entity \in SwapIn(dealt, a, b) <=> Swap(c.entity, a, b) \in dealt
    BY <1>1, SwapsAreUndone, SwapsSets
  <2>3. Turned(c, a, b).entity = Swap(c.entity, a, b)
    BY <1>1, TurnsBack
  <2> QED BY <2>1, <2>2, <2>3
<1>7. Mirror(A, B, a, b)
  <2>1. Checked(D) \subseteq CandidateSet
    BY <1>4, Zenon DEF Mirror
  <2>2. B \subseteq CandidateSet
    BY <2>1
  <2> QED BY <1>5, <1>6, <2>2, Zenon DEF Mirror
<1>8. A \in SUBSET Checked(C) /\ B \in SUBSET Checked(D)
  OBVIOUS
<1> HIDE DEF A, B
<1>9. Resolution(Checked(D), B).chosen = Swap(Resolution(Checked(C), A).chosen, a, b)
  BY <1>1, <1>4, <1>7, <1>8, ChoiceMirrors
<1> QED BY <1>9, Zenon DEF resolve, OfDealt, A, B, C, D, g

(* The thing that was meant is the thing that the words mean.              *)
MeantInv ==
    reply.kind = "price" => /\ reply.action \in world.asks.price_lookup
                            /\ reply.meant = resolve(world.heard.thing, reply.action, world.dealt)

LEMMA MeantIsKept == world \in Worlds /\ MeantInv /\ [SearchNext]_searchVars => MeantInv'
<1> SUFFICES ASSUME MeantInv, [SearchNext]_searchVars PROVE MeantInv'
  OBVIOUS
<1>1. ASSUME reply' = reply, world' = world PROVE MeantInv'
  BY <1>1, Zenon DEF MeantInv
<1>2. ASSUME reply'.kind \in {"hedge", "error", "route"} PROVE MeantInv'
  BY <1>2 DEF MeantInv
<1>3. ASSUME NEW ask \in world.asks.best_route, BestRoute(ask) PROVE MeantInv'
  <2>1. world' = world /\ (reply' = reply \/ reply'.kind = "hedge")
    BY <1>3 DEF BestRoute, Say
  <2> QED BY <1>1, <1>2, <2>1
<1>4. ASSUME NEW run \in world.asks.trade_advisor, TradeAdvisor(run) PROVE MeantInv'
  <2>1. world' = world /\ (reply' = reply \/ reply'.kind = "hedge")
    BY <1>4 DEF TradeAdvisor, Say
  <2> QED BY <1>1, <1>2, <2>1
<1>5. ASSUME NEW o \in Terminals, FetchEnds(o) \/ Expires(o) PROVE MeantInv'
  BY <1>1, <1>5, Zenon DEF FetchEnds, Expires
<1>6. ASSUME Reports PROVE MeantInv'
  <2>1. world' = world /\ reply'.kind \in {"error", "route"}
    BY <1>6 DEF Reports, Say, Offer
  <2> QED BY <1>2, <2>1
<1>7. ASSUME NEW action \in world.asks.price_lookup, PriceLookup(action) PROVE MeantInv'
  <2>1. /\ world' = world /\ reply'.action = action
        /\ reply'.meant = resolve(world.heard.thing, action, world.dealt)
    BY <1>7 DEF PriceLookup, Say
  <2> QED BY <2>1 DEF MeantInv
<1>8. ASSUME UNCHANGED searchVars PROVE MeantInv'
  BY <1>1, <1>8, Zenon DEF searchVars
<1> QED BY <1>3, <1>4, <1>5, <1>6, <1>7, <1>8, Zenon DEF SearchNext

(* What a name means does not depend on the order of the catalogue: were   *)
(* two entries heard as each other, it would mean the other one.           *)
THEOREM NamesMeanWhatIsHeard == SearchSpec => [](NamesDecideNotOrder /\ ShipDependsOnWords)
<1>1. SearchInit => world \in Worlds /\ MeantInv
  BY DEF SearchInit, Silence, MeantInv
<1>2. world \in Worlds /\ [SearchNext]_searchVars => (world \in Worlds)'
  BY DEF SearchNext, BestRoute, TradeAdvisor, FetchEnds, Expires, Reports, PriceLookup, searchVars
<1>3. world \in Worlds => ShipDependsOnWords
  <2>1. world \in Worlds => IsHearing(world.heard.ship)
    BY WorldsAssumption
  <2> QED BY <2>1, ShipsSwap, Zenon DEF ShipDependsOnWords
<1>4. world \in Worlds /\ MeantInv => ThingDependsOnWords
  <2> SUFFICES ASSUME world \in Worlds, MeantInv, reply.kind = "price",
                      NEW a \in OfKind("item"), NEW b \in OfKind("item"), SameSort(a, b),
                      WorseLeftOut(_candidates(world.heard.thing, reply.action))
               PROVE  resolve(SwapHeard(world.heard.thing, a, b), reply.action, SwapIn(world.dealt, a, b)).chosen
                        = Swap(reply.meant.chosen, a, b)
    BY Zenon DEF ThingDependsOnWords
  <2>1. IsHearing(world.heard.thing) /\ world.asks.price_lookup \subseteq DOMAIN _KINDS_FOR_ACTION
    BY WorldsAssumption
  <2>2. /\ reply.action \in DOMAIN _KINDS_FOR_ACTION
        /\ reply.meant = resolve(world.heard.thing, reply.action, world.dealt)
    BY <2>1 DEF MeantInv
  <2> QED BY <2>1, <2>2, ThingsSwap
<1>5. world \in Worlds /\ MeantInv => NamesDecideNotOrder /\ ShipDependsOnWords
  BY <1>3, <1>4, Zenon DEF NamesDecideNotOrder
<1> QED BY <1>1, <1>2, <1>5, MeantIsKept, PTL DEF SearchSpec
=============================================================================
