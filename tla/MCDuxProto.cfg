SPECIFICATION Spec
CONSTANTS
    Calls = {a, b}
    Repeatable = {b}
    ReqParts = 2
    RepParts = 2
    ServingSize = 1
    MaxNet = 1
    MaxFaults = 2
    NoCall = NoCall
INVARIANTS NoAckPanic SlowIsServed
PROPERTIES Implements Completes RepliesReleased
CHECK_DEADLOCK FALSE
