SPECIFICATION Spec
CONSTANTS
    Requests = {"r1", "r2"}
    TimeLimited = {"r2"}
    MayShare = {TRUE, FALSE}
    Tabs = 3
    ServerRestarts = 1
INVARIANT OneLoginPerRejectedToken
PROPERTY OwnLoginOnly
PROPERTY RejectedRequestsEnd
CHECK_DEADLOCK FALSE
