CONSTANTS
    Workers = {w1}
    Caller = c0
    UseCaller = TRUE
    Cbs = {a, b}
    Fibers = {f1, f2}
    None = None
    Pins = {None, w1, c0}
    TasksPin = FALSE
    MaxYields = 1
    MayHold = TRUE
    MayReady = TRUE
    WakeParkedOnly = TRUE
    MayRepeat = FALSE
SPECIFICATION FairSpec
INVARIANTS ActiveExact IdleExact OneThreadPerFiber FetchedFiberIsParked StateAssertions OnlyWaitersLeft
PROPERTY StopTerminates
