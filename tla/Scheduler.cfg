SPECIFICATION Spec
CONSTANTS
    Runners = {r1, r2}
    None = None
    ByHand = {"seek"}
    MaxSlot = 2
    MaxRuns = 2
SYMMETRY Symmetry
INVARIANTS
    LiveRunIsRunning
