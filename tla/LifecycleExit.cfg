SPECIFICATION Spec
CONSTANTS
    Configured = {"dma", "dma_map", "ev_int", "file_cal"}
    Signals = {"TERM"}
    MaxSignals = 0
INVARIANT QuitResetsDma
CHECK_DEADLOCK FALSE
