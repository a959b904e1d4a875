SPECIFICATION Spec
CONSTANTS
    led_warn = led_warn
    laster = laster
    Pins <- MCPins
    Slots = {1, 2}
    Counts <- MCCounts
    Distances <- MCDistances
    Cruise = 3
    Turn = 2
    WarnCount = 1
    Speeds <- MCSpeeds
    Deltas <- MCDeltas
    MaxSpeed = 2
    DtRange = 5
    Ranges <- MCRanges
    Datas <- MCDatas
    Steps <- MCSteps
    MaxGradual = 1
    Budgets <- MCBudgets
INVARIANTS
    TypeOK
    CountsReturn
    BlinkSettles
    TurnsFromObstacle
