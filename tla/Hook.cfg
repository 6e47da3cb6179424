SPECIFICATION FairSpec
CONSTANTS
    Fibers = {f1, f2}
    Fds = {d1, d2, d3}
    Open = {d1}
    MaxCalls = 2
    MaxSteals = 1
    MayReuse = FALSE
    None = None
INVARIANTS OneWakeup BlocksOnlyOwn CtxTracksFile LeftOnlyIfLate
PROPERTIES TimeoutIsReal TimedCallsReturn
CHECK_DEADLOCK FALSE
