SPECIFICATION ControlSpec
CONSTANTS
    Nodes = {n1}
    Ports = {p1, p2}
    Releases = {r1}
    NoRelease = NoRelease
    MaxNodes = 1
    Capacity = 0
    ChangeIds = {k1}
    NoNode = NoNode
    NoPort = NoPort
    Webs = {w1, w2}
    Free = Free
    NoConf = NoConf
    NoProc = NoProc
    Failure = Failure
    NoChangeId = NoChangeId
    MaxFaults = 0
    MaxRevision = 3
    MaxCrashes = 0
    BusyGuard = TRUE
INVARIANTS
    ListenerReserved
CHECK_DEADLOCK FALSE
