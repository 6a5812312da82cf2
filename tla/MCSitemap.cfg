SPECIFICATION Spec
CONSTANTS
    Clients = {a, b, c}
    Servers = {p, q}
    SITEARRAYSIZE = 2
    CHECKVCOUNT = 1
    MaxRefs = 4
INVARIANTS TypeOK Balanced TotalExact KnownInUse Decrements
PROPERTIES Updated
CHECK_DEADLOCK FALSE
