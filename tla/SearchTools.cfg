SPECIFICATION SearchSpec
CONSTANTS
    Catalogue <- MCCatalogue
    Distance <- MCDistance
    DEFAULT_NEAR_DISTANCE = 25
    Position <- MCPosition
    ArrivalRadius <- MCArrivalRadius
    OrbitDistance <- MCOrbitDistance
    Gateway <- MCGateway
    JumpPoint <- MCJumpPoint
    SpoolTime = 1
    ApproachSlowness = 3
    MAX_CHECKED = 3
    Worlds <- MCWorlds
    MAX_LIVE_ROUTE_FETCHES = 1
INVARIANT NamesDecideNotOrder
INVARIANT LoadIsFullest
PROPERTY BestIsBest
PROPERTY SearchesWiden
CHECK_DEADLOCK FALSE
