SPECIFICATION FeedSpec
CONSTANTS
    Postings = {p1, p2}
    MaxId = 2
    None = None
    Clients = {c1, c2}
    PageLimit = 1
SYMMETRY Symmetry
VIEW FeedView
INVARIANTS
    CheckpointPassesOnlyFed
PROPERTIES
    RunCoversSnapshot
