SPECIFICATION ReconcileSpec
CONSTANTS
    Cameras = {c1}
    Nodes = {1, 2}
    Urls = {u1}
    Secrets = {FALSE}
    NoNode = NoNode
    NoSource = NoSource
    NoPath = NoPath
    Capacity = 1
    MaxRevision = 3
    Workers = {w1, w2}
    Free = Free
    NoCamera = NoCamera
    NoJob = NoJob
    InitialSource <- PlainSource
    Registered = {c1}
    Mortal = {}
    MaxFaults = 1
SYMMETRY WorkerSymmetry
INVARIANTS
    AppliedMeansServed
PROPERTIES
    ReaderLostOnlyIfConfirmed
