SPECIFICATION Spec
CONSTANTS
    Pins = {0, 1}
    NrSamples = 3
    Data <- MCData
    MaxTerminate = 2
INVARIANTS
    TypeOK
    PulseWithinBounds
    SamplesMatchData
    SteadyWave
    StopLeavesLow
CHECK_DEADLOCK FALSE
