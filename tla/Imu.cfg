SPECIFICATION FairImuSpec
CONSTANTS
    Capacity = 4
    MaxFails = 2
    MaxLost = 1
    MaxTests = 2
INVARIANTS
    ImuTypeOK
    
PROPERTY DataKeepsComing
CHECK_DEADLOCK FALSE
