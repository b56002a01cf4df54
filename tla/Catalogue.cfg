SPECIFICATION Spec
CONSTANTS
    Records <- MCRecords
    Words <- MCWords
    LongWords <- MCLongWords
    Spots <- MCSpots
    Q1 = Q1
    Q2 = Q2
    Sweden = Sweden
    None = None
    Gone = Gone
    Doorway = 1
    Kilometre = 2
    TownSpread = 3
    Batch = 2
    MaxHarvest = 3
    MaxRows = 3
    MaxLoads = 2
    MaxFaults = 1
    MaxLocates = 1
INVARIANT
    CatalogueInv
PROPERTIES
    MergesLoseNothing
    OnlyMergesLaunder
    IdsAreKept
CHECK_DEADLOCK FALSE
