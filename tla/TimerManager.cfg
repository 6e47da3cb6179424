CONSTANTS
    Timers = {k1, k2}
    Clients = {c1}
    Idlers = {t1, t2}
    Periods = {0, 2}
    Recurring = {k2}
    Base = 6
    MaxTime = 6
    Hour = 2
    MaxBack = 3
    MAX_TIMEOUT = 1
    IntBits = 3
SPECIFICATION Spec
SYMMETRY Symmetry
INVARIANTS CbIffInSet FiresOnceOrCancelled NoOversleep BoundedSleep
PROPERTIES NothingOverdueLeft NeverEarly
