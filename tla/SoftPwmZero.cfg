SPECIFICATION Spec
CONSTANTS
    Pins = {0, 1}
    NrSamples = 3
    Data <- MCData
    MaxTerminate = 0
INVARIANT ZeroDrivesLow
CHECK_DEADLOCK FALSE
