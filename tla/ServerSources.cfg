SPECIFICATION Spec
CONSTANTS
    Sentences = {"s1", "s2"}
    MaxEvents = 4
    WINDOW = 4
    Lengths = {1, 2}
    DailyChars = 3
    HEKET_TIMEOUT = 1
    ELEVENLABS_TIMEOUT = 2
    DOWN_FOR = 2
    PROMPT_NAMES <- MCNames
    Releases = 3
    Ships = {"railen"}
    Tasks = {"t1", "t2"}
    Process <- MCProcess
    CACHE_TTL = 1
PROPERTY HeketComesBack
INVARIANT WindowHolds
PROPERTY PromptsStay
INVARIANT PatchReachesTheServer
CHECK_DEADLOCK FALSE
