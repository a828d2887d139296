SPECIFICATION Spec
CONSTANTS
    o = o
    p1 = p1
    p2 = p2
    p3 = p3
    q = q
    c1 = c1
    c2 = c2
    BadX = BadX
    None = None
    Host = {o, p1, p2}
    XCoord = {o, p1, p2}
    Client = {c1, c2}
    UUID = {u1, u2}
    Treshold = {2}
    MaxCrashes = 1
    Name <- MCName
    OwnerName <- MCCommonName
    CommonName <- MCCommonName
    OwnName <- MCOwnName
    Cert <- MCCert
    HostOf <- MCHostOf
    HostStatus <- MCHostStatus
SYMMETRY Symmetry
INVARIANTS
    StoreInv
    RecordedRecoverable
    NoStaleRecord
    DecodesOwnVersion
PROPERTY ImplementsRegister
