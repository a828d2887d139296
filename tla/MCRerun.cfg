SPECIFICATION Spec
CONSTANTS
    Pid = {p1, p2}
    MaxKeys = 2
    MaxKills = 0
    None = None
INVARIANT RerunStartsServer
CHECK_DEADLOCK FALSE
