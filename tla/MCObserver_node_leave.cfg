\* A heartbeat purge with plugin watchers: is the purged node's NODE_LEAVE emitted?
CONSTANTS
    n1 = n1  n2 = n2  n3 = n3  k1 = k1  k2 = k2
    NoNode = NoNode  Absent = Absent
    Node <- MCNode
    Self = n1
    InitMembers <- MCNode
    Key <- MCKey
    Threshold = 2
    HasWatchers = TRUE
    TestStore = FALSE
    MaxFailures = 2
    MaxObs = 4
SPECIFICATION Spec
PROPERTY NodeLeaveEmitted
CHECK_DEADLOCK FALSE
