SPECIFICATION FairSpec
CONSTANTS
    CardDates <- MCCardDates
    DetailDates <- MCDetailDates
    Initial <- MCInitial
    MaxCrashes = 1
INVARIANTS TypeOK SeekDatesAreFound FilledIsFound
PROPERTIES EvidenceNeverDegrades EvidenceArrives
CHECK_DEADLOCK FALSE
