SPECIFICATION FairSpec
CONSTANTS
    a = a
    b = b
    c = c
    d = d
    distrusted = None
    net = net
    BadX = BadX
    None = None
    Host = {a, b, c, d}
    XCoord = {a, b, c, d}
    UUID = {a, b, c, d}
    Key1 = key1
    Name = {key1}
    Waiting = {"gate"}
    Faults = {}
    MaxCrashes = 0
    OwnerName <- MCOwnerName
    CommonName <- MCCommonName
    OwnName <- MCOwnName
    Cert <- MCCert
    KeyUuid <- MCKeyUuid
    HostStatus <- MCHostStatus
INVARIANTS
    SetupSucceeds
    AtMostOneInGap
    NobodyWaitsForTheWaiting
    BootstrapGoesOn
PROPERTY HandoffCompletes
CHECK_DEADLOCK FALSE
