SPECIFICATION FairSpec
CONSTANTS
    a = a
    root = root
    f1 = f1
    f2 = f2
    bad = bad
    None = None
    Names = {a, root}
    Root = root
    Setters = {s1}
    Values <- SomeValues
    Default <- NoDefines
    Listeners = {"log", "other"}
    First = {"log", "other"}
    Writers = {w1, w2}
    Levels = {0, 2}
    Patterns = {f1, f2, bad}
    Valid = {f1, f2}
    Basic = f1
    Own = own
    MaxLogs = 2
    MaxEdits = 1
INVARIANTS OnlyRegisteredCalled FormatterInherited WritesToAttached ConfigApplied
PROPERTY CallsReturn
