SPECIFICATION Spec
CONSTANTS
    Callers = {c1, c2}
    MaxSeq = 2
    MaxConns = 2
    AutoReconn = TRUE
INVARIANTS NotLost AcceptedOnce LoopsPaired
PROPERTIES FailureHandled
