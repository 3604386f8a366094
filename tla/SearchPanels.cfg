SPECIFICATION FairSpec
CONSTANTS
    Commodities = {"Laranite", "Gold"}
    Terminals = {"Everus", "Orison", "Ruin"}
    Regions <- MCRegions
    SpaceTerminals = {"Everus", "Ruin"}
    AutoLoadTerminals = {"Everus", "Orison"}
    NqaTerminals = {"Ruin"}
    Letters = "Or"
    STATUS_OUT_OF_STOCK = 1
    STATUS_FULL = 7
    Starts <- MCStarts
    HoldOf <- MCHoldOf
    DISPLAYED_ROUTES = 1
INVARIANT FiltersFollow
INVARIANT FoundIsWhatWasAsked
INVARIANT FiltersHideNothingFound
INVARIANT RowsAreOfLastSearch
CHECK_DEADLOCK FALSE
