SPECIFICATION Spec
CONSTANTS
    Flags = "EIGHT"
    StepsPerRev = 16
    Angles <- MCAngles
    SwingAngle = 180
    MaxCommands = 3
INVARIANTS
    TypeOK
    RotorFollows
    SwingDoesNotDrift
PROPERTIES
    ServoSpec
CHECK_DEADLOCK FALSE
