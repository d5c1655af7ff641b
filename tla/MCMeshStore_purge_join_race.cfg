\* A Join of a node racing its heartbeat purge: every raft member must keep a record.
CONSTANTS
    s1 = s1  s2 = s2  s3 = s3  k1 = k1  k2 = k2  e1 = e1
    a1 = a1  a2 = a2  a3 = a3  v1 = v1  v2 = v2  v3 = v3  h1 = h1  h2 = h2
    NoServer = NoServer  NoEndpoint = NoEndpoint  NoLease = NoLease  Absent = Absent
    Server <- MCServer
    Bootstrap = s1
    InitMembers <- MCInitAll
    Key <- MCKey
    Endpoint <- MCEndpoint
    IPv6Addr <- MCIPv6Addr
    IPv4Addr <- MCIPv4Addr
    StaticLease <- MCStaticLease
    Handler <- MCHandler1
    Threshold = 1
    MaxFailures = 1
    QueueBound = 1
SPECIFICATION Spec
INVARIANT MembersRegistered
