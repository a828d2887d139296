SPECIFICATION Spec
CONSTANTS
    Pid = {p1, p2}
    MaxKeys = 2
    MaxKills = 1
    None = None
SYMMETRY Pids
INVARIANTS
    KnownServerOwnsFiles
    MetadataBootable
    ReadyMeansServing
    ServersFound
    ForeignUntouched
    HandoffGoesOn
PROPERTIES
    EncryptedFilesKept
    StartsWithOwnFilesOnly
    HostListRenamed
CHECK_DEADLOCK FALSE
