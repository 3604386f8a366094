SPECIFICATION FairSpec
CONSTANTS
    o1 = o1
    o2 = o2
    f1 = f1
    f2 = f2
    Origins = {o1, o2}
    Requests = {"s1"}
    Fetchers = {f1, f2}
    Cap = 9
    Reserve = 5
    EndpointCalls = 1
    CategoryCalls = 1
    RouteTTL = 4
    RecentEnough = 2
    Interval = 3
    Faults = {"uex_down", "restart"}
INVARIANT ReserveLeftToPilots
INVARIANT RoutesAgeIsBounded
PROPERTY RoutesComeBack
