CONSTANTS
    MAX_EVENTS = 50
    PingDelay = 2
    BootDelay = 3
    SplitDelay = 5
    MaxJump = 2
    MaxBack = 2
    MaxAdds = 5
    NoMin = NoMin
SPECIFICATION EventFairSpec
INVARIANTS EventsOnTime
PROPERTY SplitEnds
CHECK_DEADLOCK TRUE
