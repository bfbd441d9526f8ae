SPECIFICATION FairSpec
CONSTANTS
    States <- MCStates
    Kids <- MCKids
    Windows = {2, 3}
    LookbackDays = 2
    DefaultDays = 2
    MaxTrouble = 2
INVARIANT SplitIsAlwaysCovered
