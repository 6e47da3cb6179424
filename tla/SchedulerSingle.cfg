CONSTANTS
    Workers = {w1}
    Caller = c0
    UseCaller = FALSE
    Cbs = {a, b}
    Fibers = {f1, f2}
    None = None
    Pins = {None}
    TasksPin = TRUE
    MaxYields = 2
    MayHold = TRUE
    MayReady = TRUE
    WakeParkedOnly = FALSE
    MayRepeat = TRUE
SPECIFICATION FairSpec
INVARIANTS NoTaskStranded
PROPERTIES EndedOnce StopTerminates EveryTaskRuns
