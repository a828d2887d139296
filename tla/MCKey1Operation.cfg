SPECIFICATION ClientOperation
CONSTANTS
    a = a
    b = b
    c = c
    d = d
    distrusted = d
    net = net
    BadX = BadX
    None = None
    Host = {a, b, c, d}
    XCoord = {a, b, c, d}
    UUID = {a, b, c, d}
    Key1 = key1
    Name = {key1}
    Waiting = {"gate"}
    Faults = {}
    MaxCrashes = 2
    ClientHost = d
    CrashesWithCommand = 1
    OwnerName <- MCOwnerName
    CommonName <- MCCommonName
    OwnName <- MCOwnName
    Cert <- MCCert
    KeyUuid <- MCKeyUuid
    HostStatus <- MCHostStatus
INVARIANTS
    GetKey1PrintsOwn
    GetKey1ToleratesMissing
PROPERTY QuorumRecovers
CHECK_DEADLOCK FALSE
