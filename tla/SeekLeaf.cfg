SPECIFICATION FairSpec
CONSTANTS
    MaxPosted = 3
    MaxWithdrawn = 2
    MaxStops = 1
    PageSize = 1
    SafetyPages = 3
    Tolerance = 0
    Overlap = 0
    Undated <- MCUndated
    Pinned = {}
INVARIANTS NothingFallsBetweenRuns
PROPERTIES FewAreMissed PostingsAreCollected
