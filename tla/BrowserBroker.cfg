SPECIFICATION FairSpec
CONSTANTS
    Clients = {"api", "run"}
    Wanted <- MCWanted
    Tolerated <- MCTolerated
    MaxIds <- MCMaxIds
    MaxTabs = 4
    MaxFaults = 2
INVARIANTS
    OwnTabPerId
    ReadsAreOfTheirPage
PROPERTIES
    CommandsEnd
CHECK_DEADLOCK FALSE
