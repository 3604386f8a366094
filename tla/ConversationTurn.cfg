SPECIFICATION Spec
CONSTANTS
    HISTORY_TURNS = 2
    HISTORY_FULL_TOOL_RESULT_TURNS = 1
    CLASSIFY_HISTORY_TURNS = 1
    RecursionLimit = 4
    ToolCalls <- MCToolCalls
    LikelyGroups <- MCLikelyGroups
    Turns = 3
INVARIANT PromptIsSound
INVARIANT SkipFollowsTopic
INVARIANT BrokenCallIsForgotten
PROPERTY FailedTurnIsNeverLast
CHECK_DEADLOCK FALSE
