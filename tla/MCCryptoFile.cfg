SPECIFICATION Spec
CONSTANTS
    Proc = {w1, w2}
    Doc = {hosts, shares}
    Mirrored = {hosts}
    MaxSaves = 3
    MaxLosses = 1
    None = None
    Half = Half
SYMMETRY Processes
INVARIANTS
    MirrorFollows
PROPERTIES
    ImplementsAtomicFiles
CHECK_DEADLOCK FALSE
