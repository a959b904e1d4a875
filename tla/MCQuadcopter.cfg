SPECIFICATION Spec
CONSTANTS
    Scale = 2
    AngleK <- MCAngleK
    RateK <- MCRateK
    MinThrottle = 3
    MaxThrottle = 12
    ClockRange = 4
    Times <- MCTimes
    Readings <- MCReadings
    Angles <- MCAngles
    Amounts <- MCAmounts
    Reach = 2
    MaxReady = 3
    MaxCommands = 1
INVARIANTS
    TypeOK
    IntegralsBounded
    TimeAddsUp
PROPERTY LiftKept
CHECK_DEADLOCK FALSE
