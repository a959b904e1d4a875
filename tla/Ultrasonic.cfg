SPECIFICATION FairSpec
CONSTANTS
    Counts <- MCCounts
    MaxCalls = 3
INVARIANTS
    TypeOK
    TriggersBounded
    MeasuresMatchPulses
    ChainAlive
PROPERTY CountEnds
CHECK_DEADLOCK FALSE
