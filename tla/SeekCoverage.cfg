SPECIFICATION FairSpec
CONSTANTS
    States <- MCStates
    Kids <- MCKids
    Windows = {2, 3}
    LookbackDays = 2
    DefaultDays = 2
    MaxTrouble = 2
INVARIANTS
    NothingIncompleteBelow
    SplitIsCovered
    BlockedMeansNothingToDo
PROPERTIES
    WorkIsKept
    CoverageCompletes
