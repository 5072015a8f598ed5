SPECIFICATION MCSpec
CONSTANTS
    Cameras = {c1, c2}
    Nodes = {n1, n2}
    Urls = {u1}
    Secrets = {FALSE}
    Capacity = 1
    MaxRevision = 2
    Backups = {b1, b2}
    Verifiers = {v1, v2}
    MaxContent = 2
    MaxFaults = 2
    NoNode = NoNode
    NoSource = NoSource
    Auto = Auto
    Free = Free
    None = None
    c1 = c1
INVARIANTS
    RegisteredExact
    CapacityRespected
    MovesAreExclusive
    
    RetriesAgree
PROPERTIES
    RowsAreFenced
    RestoreIsExact
