\* The proxy stops for good once its peer connection is closed, so final
\* states are expected.
CONSTANTS
    CandCap = 10
    MaxCandidates = 11
    MaxConnects = 2
SPECIFICATION Spec
PROPERTY CandidatesBeforeReady
CHECK_DEADLOCK FALSE
