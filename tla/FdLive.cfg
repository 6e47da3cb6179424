CONSTANTS
    Fds = {f1, f2}
    Waiters = {w1, w2}
    Idlers = {t1, t2}
    Used = {"READ", "WRITE"}
    MayHangUp = FALSE
    MayCancel = TRUE
    MayClose = FALSE
    Room = 1
    None = None
SPECIFICATION FairSpec
INVARIANTS KernelWatches
PROPERTIES NoLostEdge
