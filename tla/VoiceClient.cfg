SPECIFICATION FairSpec
CONSTANTS
    Sticks = {left, right}
    Labels = {"cargo"}
    MAX_PRESSES = 2
    MAX_PLUGS = 3
    MAX_TIMERS = 2
INVARIANT TimersSpeakTrue
PROPERTY CaptureIsTheHold
PROPERTY DeafOnlyWithoutMic
PROPERTY PressIsAnswered
CHECK_DEADLOCK FALSE
