SPECIFICATION FairSpec
CONSTANTS
    o = o
    p1 = p1
    p2 = p2
    p3 = p3
    q = q
    c1 = c1
    c2 = c2
    BadX = BadX
    None = None
    Host = {o, p1, p2, p3, q}
    XCoord = {o, p1, p2, p3, q}
    Client = {c1}
    UUID = {u1}
    Treshold = {2, 3}
    MaxCrashes = 1
    Name <- MCName
    OwnerName <- MCCommonName
    CommonName <- MCCommonName
    OwnName <- MCOwnName
    Cert <- MCCert
    HostOf <- MCHostOf
    HostStatus <- MCHostStatus
INVARIANT CommandsGoOn
PROPERTIES
    CommandsAdvance
    CommandsEnd
    GetToleratesMissingPeers
