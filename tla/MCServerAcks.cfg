SPECIFICATION Spec
CONSTANTS
    a = a
    b = b
    net = net
    u1 = u1
    u2 = u2
    x1 = x1
    x2 = x2
    BadX = BadX
    None = None
    Host = {h1}
    UUID = {u1, u2}
    XCoord = {x1, x2}
    Name <- MCName
    OwnerName <- MCOwnerName
    CommonName <- MCCommonName
    OwnName <- MCOwnName
    Submitted <- MCSubmitted
    SubmittedRecords <- MCRecords
INVARIANTS
    AcksInv
    StoredShareDurable
    ServedToStorer
    RecordNeverReverts
PROPERTY HeldSharesImmutable
