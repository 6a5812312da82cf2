SPECIFICATION FailSpec
CONSTANTS
    a = a
    b = b
    c = c
    d = d
    s1 = s1
    s2 = s2
    Sites = {s1, s2}
    Calls = {a, b, c, d}
    Dest <- MCDest
    Urgent = {}
    UsingSize = 2
    WindowSize = 1
    MaxFailures = 1
    NoCall = NoCall
INVARIANTS NoPanic
CHECK_DEADLOCK FALSE
