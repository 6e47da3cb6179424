SPECIFICATION Spec
CONSTANTS
    Fibers = {f1}
    Fds = {d1}
    Open = {}
    MaxCalls = 2
    MaxSteals = 0
    MayReuse = FALSE
    None = None
PROPERTY ConnectTruthful
CHECK_DEADLOCK FALSE
