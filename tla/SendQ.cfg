CONSTANTS
    Lengths = {1, 2, 3}
    sendqlen = 4
    BurstRoom = 3
    BurstLen = 2
    MaxLines = 4
SPECIFICATION FairSpec
INVARIANTS BytesInOrder WriteArmed
PROPERTY QueueDrains
CHECK_DEADLOCK FALSE
