SPECIFICATION Spec
CONSTANTS
    Configured = {"dma", "dma_map", "ev_int", "file_cal"}
    Signals = {"TERM", "INT", "PIPE"}
    MaxSignals = 2
INVARIANTS
    TypeOK
    TerminateSound
    MainReturnsClean
CHECK_DEADLOCK FALSE
