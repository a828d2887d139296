SPECIFICATION FairSpec
CONSTANTS
    Pid = {p1, p2}
    MaxKeys = 1
    MaxKills = 2
    None = None
PROPERTY HandoffEnds
CHECK_DEADLOCK FALSE
