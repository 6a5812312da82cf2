SPECIFICATION Spec
CONSTANTS
    NumSites = 3
    MaxNet <- MCMaxNet
    MaxLost = 2
    MaxFailures = 0
INVARIANTS RetriesGoOn
CHECK_DEADLOCK FALSE
