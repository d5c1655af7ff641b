CONSTANTS
    CandCap = 10
    MaxCandidates = 2
    MaxConnects = 1
SPECIFICATION FairSpec
PROPERTY MutexEventuallyReleased
CHECK_DEADLOCK FALSE
