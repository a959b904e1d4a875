SPECIFICATION Spec
CONSTANTS
    Clients = {"c1", "c2"}
    Letters <- MCLetters
    Commands <- MCCommands
    Exit <- MCExit
    BufSize = 4
    ReplyRoom = 1
    MaxSend <- MCMaxSend
INVARIANTS
    TypeOK
    RunsAsRead
    RepliesPaired
CHECK_DEADLOCK FALSE
