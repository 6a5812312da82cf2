SPECIFICATION Spec
CONSTANTS
    NumSites = 3
    MaxNet <- MCMaxNet
    MaxLost = 2
    MaxFailures = 1
INVARIANTS RemainExact NotLeftOut RunOnce
CHECK_DEADLOCK FALSE
