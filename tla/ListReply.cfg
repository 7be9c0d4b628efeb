CONSTANTS
    Table <- Small
    sendqlen = 20
    Room = 3
    Others = TRUE
SPECIFICATION ReplySpec
INVARIANT EndIsComplete
CHECK_DEADLOCK FALSE
