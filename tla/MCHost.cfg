SPECIFICATION MCSpec
CONSTANTS
    Nodes = {n1, n2}
    Ports = {o1, o2}
    Releases = {r1}
    MaxNodes = 2
    Capacity = 1
    ChangeIds = {k1}
    MaxRevision = 3
    Runs = 2
    MaxFaults = 3
    Callbacks = {p1, p2}
    Flows = 3
    FlowLimit = 2
    FlowTime = 1
    FailureLimit = 1
    LockTime = 1
    Probes = {p1, p2}
    MaxTime = 1
    MaxAlerts = 4
    Parts = {"login", "contract"}
    NoNode = NoNode
    NoPort = NoPort
    NoRelease = NoRelease
    None = None
    NoRequest = NoRequest
    b1 = b1
    b2 = b2
    web = web
    control = control
    n1 = n1
    n2 = n2
    x1 = x1
    x2 = x2
    c1 = c1
    c2 = c2
    c3 = c3
    c4 = c4
INVARIANTS
    PortsReserved
    ReconcileEndsKnown
    LoginsSafe
PROPERTIES
    PortMovesByChange
    ReleaseIsWhole
    
    ProbesAreBudgeted
