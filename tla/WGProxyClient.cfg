\* Every path ends in a final state (the constructor returned and the
\* connection is closed or left open), so final states are expected.
CONSTANTS
    ErrCap = 10
    MaxCandidates = 2
    MaxRemote = 10
    MaxConnects = 2
SPECIFICATION Spec
PROPERTY NoCandidateAfterReady
CHECK_DEADLOCK FALSE
