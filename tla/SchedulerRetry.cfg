SPECIFICATION FairSpec
CONSTANTS
    Runners = {r1}
    None = None
    ByHand = {}
    MaxSlot = 2
    MaxRuns = 4
INVARIANTS
    SlotRunsBounded
PROPERTIES
    SlotIsTaken
