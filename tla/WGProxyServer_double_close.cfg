CONSTANTS
    CandCap = 10
    MaxCandidates = 2
    MaxConnects = 2
SPECIFICATION Spec
INVARIANT NoDoubleCloseReady
CHECK_DEADLOCK FALSE
