SPECIFICATION FairSpec
CONSTANTS
    Geographies <- TwoGeographies
    StartedWith = {"slot"}
    Cap = 2
    PageAttempts = 2
    ProbeAttempts = 2
    ProbePages = 3
    Listings <- MCListings
    MaxSlots = 2
    MaxShort = 4
    MaxStops = 1
INVARIANTS
    TypeOK
    CompleteIsExhausted
    MissingRowsCostAttempts
    CompleteCycleIsDone
PROPERTIES
    ImplementsPaging
    CycleEnds
CHECK_DEADLOCK FALSE
