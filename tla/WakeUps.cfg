SPECIFICATION FairSpec
CONSTANTS
    k1 = k1
    k2 = k2
    k3 = k3
    t1 = t1
    Tasks = {k1, k2, k3}
    Threads = {t1, t2}
    Callers = {c1, c2}
    Pin <- OnePinned
    None = None
PROPERTIES ImplementsPool EveryTaskRuns StopReturns
