CONSTANTS
    Fds = {f1, f2}
    Waiters = {w1, w2, w3}
    Idlers = {t1, t2}
    Used = {"READ", "WRITE"}
    MayHangUp = TRUE
    MayCancel = TRUE
    MayClose = TRUE
    Room = 1
    None = None
SPECIFICATION Spec
SYMMETRY Symmetry
INVARIANTS PendingExact WaitersKept
