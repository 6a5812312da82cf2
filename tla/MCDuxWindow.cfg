SPECIFICATION Spec
CONSTANTS
    a = a
    b = b
    c = c
    d = d
    s1 = s1
    s2 = s2
    Sites = {s1, s2}
    Calls = {a, b, c, d}
    Dest <- MCDest
    Urgent = {d}
    UsingSize = 3
    WindowSize = 1
    MaxFailures = 2
    NoCall = NoCall
INVARIANTS QueueSound WindowExact NoPanic
PROPERTIES Served
CHECK_DEADLOCK FALSE
