SPECIFICATION Spec
CONSTANTS
    a = a
    b = b
    c = c
    d = d
    distrusted = None
    net = net
    BadX = BadX
    None = None
    Host = {a, b, c}
    XCoord = {a, b, c}
    UUID = {a, b, c}
    Key1 = key1
    Name = {key1}
    Waiting = {"poll", "gate"}
    Faults = {"disk", "timeout"}
    MaxCrashes = 2
    OwnerName <- MCOwnerName
    CommonName <- MCCommonName
    OwnName <- MCOwnName
    Cert <- MCCert
    KeyUuid <- MCKeyUuid
    HostStatus <- MCHostStatus
SYMMETRY Symmetry
INVARIANTS
    MetadataMeansPublished
    BootsWithOwnKey
    NoPeerAskedInVain
CHECK_DEADLOCK FALSE
