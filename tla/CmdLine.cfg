SPECIFICATION SplitSpec
CONSTANTS
    Chars = {" ", "esc", "a", "b"}
    Spaces = {" "}
    Backslash = "esc"
    MaxLine = 6
INVARIANTS
    LineTypeOK
    ArgsFit
    ArgsAreWords
CHECK_DEADLOCK FALSE
