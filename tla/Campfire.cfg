CONSTANT MaxIceChanges = 4
\* New returns, the callbacks run, the connection is closed: every path
\* ends, so final states are expected.
SPECIFICATION Spec
INVARIANT ErrorReturnClosesConn
PROPERTY ImplementsSession
CHECK_DEADLOCK FALSE
