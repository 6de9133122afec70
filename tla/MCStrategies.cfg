SPECIFICATION Spec
CONSTANTS
    FillSizes = {8, 18}
    TrimSizes = {5, 13}
    Threshold = 35
    Tranches <- MCTranches
    Edges = {0, 11, 12, 32}
    EdgeFloor = 12
    Venues = {"Kamino", "Marginfi", "Solend"}
    FirstVenue = "Marginfi"
    MaxTicks = 6
    MaxMounts = 2
INVARIANTS
    TypeOK
    LiveIsTimed
    InventoryBounded
    ShownIsSent
PROPERTIES
    WatchesBetweenTrades
CHECK_DEADLOCK FALSE
