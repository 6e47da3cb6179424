CONSTANTS
    Workers = {w1, w2}
    Caller = c0
    UseCaller = FALSE
    Cbs = {a}
    Fibers = {f1}
    None = None
    Pins = {None}
    TasksPin = TRUE
    MaxYields = 1
    MayHold = TRUE
    MayReady = FALSE
    WakeParkedOnly = FALSE
    MayRepeat = FALSE
SPECIFICATION Spec
INVARIANTS FetchedFiberIsParked
