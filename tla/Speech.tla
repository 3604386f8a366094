------------------------------- MODULE Speech -------------------------------
(***************************************************************************)
(* The TTS gateway (app/server/tts_service.py, routes/tts.py, limits.py):  *)
(* the sentences of one pilot, spoken by the Kokoro of heket, or by        *)
(* ElevenLabs while heket is benched, behind a sliding window and a daily  *)
(* total.                                                                  *)
(*                                                                         *)
(* A tick is 15 s: heket hangs for one, ElevenLabs for two, a bench lasts  *)
(* two, the window of the limiter four.  Writing a usage row is over       *)
(* within a tick.                                                          *)
(***************************************************************************)
EXTENDS Integers, Sequences

CONSTANTS
    Sentences,                 \* POST /tts that may be in flight at a time
    MaxEvents, WINDOW,         \* RateLimiter: requests of a pilot, ticks
    Lengths, DailyChars,       \* len(text); settings.tts_daily_chars_per_user
    HEKET_TIMEOUT, ELEVENLABS_TIMEOUT, DOWN_FOR    \* ticks

ASSUME LimiterAssumption == WINDOW \in Nat \ {0} /\ MaxEvents \in Nat

VARIABLES
    configured,  \* elevenlabs_configured()
    up,          \* whether heket is well
    bench,       \* ticks until state.down_until
    events,      \* the limiter's deque: how old each event is, up to WINDOW
    chars,       \* DailyCounter: characters of the day
    call,        \* where each POST is
    admitted     \* history: requests let through within the last a + 1 ticks, for each a

speechVars == <<configured, up, bench, events, chars, call, admitted>>

Idle == [at |-> "idle"]
At(s, at) == call[s].at = at
Goes(s, to) == call' = [call EXCEPT ![s] = to]

SpeechInit ==
    /\ configured \in BOOLEAN /\ up \in BOOLEAN
    /\ bench = 0 /\ events = <<>> /\ chars = 0
    /\ call = [s \in Sentences |-> Idle]
    /\ admitted = [a \in 0 .. WINDOW - 1 |-> 0]

(***************************************************************************)
(* The limits.  Nothing is awaited between the tests and the counting.     *)
(***************************************************************************)
(* mutant: a window that starts over once its first event is old           *)
OfThisWindow == IF events # <<>> /\ Head(events) >= WINDOW THEN <<>> ELSE events

(* what is left once those at the left that are too old have been popped   *)
Recent ==
    LET Popped == { n \in 0 .. Len(events) : /\ \A i \in 1 .. n : events[i] >= WINDOW
                                             /\ n < Len(events) => events[n + 1] < WINDOW }
    IN  SubSeq(events, 1 + (CHOOSE n \in Popped : TRUE), Len(events))

(* With somewhere else to go, a benched heket is not asked.                *)
AsksHeket(s) == Goes(s, [at |-> "heket", left |-> HEKET_TIMEOUT, failed |-> {}])
AsksElevenLabs(s, failed) ==
    Goes(s, [at |-> "elevenlabs", left |-> ELEVENLABS_TIMEOUT, failed |-> failed])
Refuses(s, failed) == Goes(s, [at |-> "refused", left |-> 0, failed |-> failed])

(* mutant: every request that finds heket benched benches it anew          *)
BenchesAgain(s) ==
    IF bench > 0 /\ configured THEN AsksElevenLabs(s, {}) /\ bench' = DOWN_FOR
                               ELSE AsksHeket(s) /\ UNCHANGED bench

Speaks(s) ==
    /\ UNCHANGED bench
    /\ IF bench > 0 /\ configured THEN AsksElevenLabs(s, {}) ELSE AsksHeket(s)

(* A sentence over the daily total is refused after the limiter has        *)
(* counted it.                                                             *)
Post(s) ==
    /\ At(s, "idle") /\ Len(Recent) < MaxEvents
    /\ events' = Append(Recent, 0)
    /\ admitted' = [a \in DOMAIN admitted |-> admitted[a] + 1]
    /\ \E n \in Lengths :
          \/ chars + n <= DailyChars /\ chars' = chars + n /\ Speaks(s)
          \/ chars + n > DailyChars /\ UNCHANGED <<chars, bench, call>>
    /\ UNCHANGED <<configured, up>>

TooSoon(s) ==
    /\ At(s, "idle") /\ Len(Recent) >= MaxEvents
    /\ events' = Recent
    /\ UNCHANGED <<configured, up, bench, chars, call, admitted>>

(***************************************************************************)
(* heket.  A success lifts the bench before its row is written; a 5xx      *)
(* benches after its row, a timeout or a refused connection at once and    *)
(* without one.  A 4xx is the fault of the request.                        *)
(***************************************************************************)
HeketSpeaks(s) ==
    /\ At(s, "heket") /\ up
    /\ bench' = 0 /\ Goes(s, Idle)
    /\ UNCHANGED <<configured, up, events, chars, admitted>>

HeketRejects(s) ==
    /\ At(s, "heket") /\ up
    /\ Refuses(s, {"heket"})
    /\ UNCHANGED <<configured, up, bench, events, chars, admitted>>

Heket5xx(s) ==
    /\ At(s, "heket") /\ ~up
    /\ Goes(s, [call[s] EXCEPT !.at = "recording", !.left = 0])
    /\ UNCHANGED <<configured, up, bench, events, chars, admitted>>

(* speak's except clause: the box is benched, and the other engine asked.  *)
HeketFails(s) ==
    /\ At(s, "recording") \/ (At(s, "heket") /\ ~up)
    /\ bench' = DOWN_FOR
    /\ IF configured THEN AsksElevenLabs(s, {"heket"}) ELSE Refuses(s, {"heket"})
    /\ UNCHANGED <<configured, up, events, chars, admitted>>

ElevenLabsAnswers(s) ==
    /\ At(s, "elevenlabs")
    /\ Goes(s, Idle) \/ Refuses(s, call[s].failed \cup {"elevenlabs"})
    /\ UNCHANGED <<configured, up, bench, events, chars, admitted>>

(* The pilot reads in the log that there is no voice.                      *)
Hears503(s) ==
    /\ At(s, "refused")
    /\ Goes(s, Idle)
    /\ UNCHANGED <<configured, up, bench, events, chars, admitted>>

(***************************************************************************)
(* The box, the clock, the day.                                            *)
(***************************************************************************)
HeketTurns ==
    /\ up' = ~up
    /\ UNCHANGED <<configured, bench, events, chars, call, admitted>>

_roll_over ==
    /\ chars # 0 /\ chars' = 0
    /\ UNCHANGED <<configured, up, bench, events, call, admitted>>

Waiting(s) == call[s].at \in {"heket", "elevenlabs"}

Tick ==
    /\ \A s \in Sentences : At(s, "idle") \/ (Waiting(s) /\ call[s].left > 0)
    /\ bench' = IF bench > 0 THEN bench - 1 ELSE 0
    /\ events' = [i \in DOMAIN events |-> IF events[i] < WINDOW THEN events[i] + 1 ELSE WINDOW]
    /\ admitted' = [a \in 0 .. WINDOW - 1 |-> IF a = 0 THEN 0 ELSE admitted[a - 1]]
    /\ call' = [s \in Sentences |->
                  IF Waiting(s) THEN [call[s] EXCEPT !.left = @ - 1] ELSE call[s]]
    /\ UNCHANGED <<configured, up, chars>>

Ends(s) == \/ HeketSpeaks(s) \/ HeketRejects(s) \/ Heket5xx(s) \/ HeketFails(s)
           \/ ElevenLabsAnswers(s) \/ Hears503(s)
SpeechNext ==
    \/ \E s \in Sentences : Post(s) \/ TooSoon(s) \/ Ends(s)
    \/ HeketTurns \/ _roll_over \/ Tick

(* Requests time out, and time passes.                                     *)
SpeechFairness ==
    /\ WF_speechVars(Tick)
    /\ \A s \in Sentences : WF_speechVars(Ends(s))

SpeechSpec == SpeechInit /\ [][SpeechNext]_speechVars /\ SpeechFairness

(***************************************************************************)
(* Properties                                                              *)
(***************************************************************************)
SpeechTypeOK ==
    /\ {configured, up} \subseteq BOOLEAN
    /\ bench \in 0 .. DOWN_FOR /\ chars \in 0 .. DailyChars
    /\ events \in Seq(0 .. WINDOW)
    /\ admitted \in [0 .. WINDOW - 1 -> Nat]

(* A pilot gets at most MaxEvents requests through in any sliding window   *)
(* (limits.py:17), wherever the window begins.                             *)
WindowHolds == \A a \in 0 .. WINDOW - 1 : admitted[a] <= MaxEvents

(* Nobody is told that there is no voice unless an engine has failed or    *)
(* rejected this very sentence, and heket has where there is no other:     *)
(* trying the box again is the only way ALICE gets her voice back          *)
(* (tts_service.py:75).                                                    *)
RefusedOnlyAfterTrying ==
    \A s \in Sentences : At(s, "refused") =>
        /\ call[s].failed # {}
        /\ ~configured => "heket" \in call[s].failed

(* Once heket is well for good, the pilots' sentences stop going to        *)
(* ElevenLabs, which is paid for: a bench ends, however often the pilots   *)
(* speak during it and whatever failures are still on their way.           *)
HeketComesBack == <>[]up => <>[](\A s \in Sentences : ~At(s, "elevenlabs"))
=============================================================================
