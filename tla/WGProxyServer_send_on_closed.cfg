CONSTANTS
    CandCap = 10
    MaxCandidates = 2
    MaxConnects = 2
SPECIFICATION Spec
INVARIANT NoSendOnClosedCandidates
CHECK_DEADLOCK FALSE
