SPECIFICATION Spec
CONSTANTS
    Clients = {a, b}
    Root = root
    None = None
    MaxCrashes = 2
    MaxRequests = 1
INVARIANTS FailedCount CleanBeforeJoin Notified
PROPERTIES Rejoins CleanupEnds
CHECK_DEADLOCK FALSE
