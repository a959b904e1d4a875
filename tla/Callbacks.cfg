SPECIFICATION Spec
CONSTANTS
    Addresses = {"a1", "a2"}
    Pins = {"p1"}
    Counts <- MCCounts
    MaxRequests = 3
INVARIANTS
    TypeOK
    EnvsServe
    OwnHandler
PROPERTY CallsExact
CHECK_DEADLOCK FALSE
