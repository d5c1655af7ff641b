\* Heartbeat purging (threshold 2) of the members of a settled cluster, no Join.
CONSTANTS
    s1 = s1  s2 = s2  s3 = s3  k1 = k1  k2 = k2  e1 = e1
    a1 = a1  a2 = a2  a3 = a3  v1 = v1  v2 = v2  v3 = v3  h1 = h1  h2 = h2
    NoServer = NoServer  NoEndpoint = NoEndpoint  NoLease = NoLease  Absent = Absent
    Server <- MCServer
    Bootstrap = s1
    InitMembers <- MCInitAll
    Key <- MCKey1
    Endpoint <- MCEndpoint0
    IPv6Addr <- MCIPv6Addr2
    IPv4Addr <- MCIPv4Addr2
    StaticLease <- MCStaticLease
    Handler <- MCHandler0
    Threshold = 2
    MaxFailures = 2
    QueueBound = 1
SPECIFICATION Spec
INVARIANT MembersRegistered
