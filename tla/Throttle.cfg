CONSTANTS
    Hosts = {h1}
    throttle_tcount = 3
    throttle_ttime = 2
    throttle_ztime = 5
    ZlineTimes <- Periods
    MaxTime = 10
    MaxCalls = 3
SPECIFICATION Spec
INVARIANTS RateLimited
PROPERTIES SilenceServed
CHECK_DEADLOCK FALSE
