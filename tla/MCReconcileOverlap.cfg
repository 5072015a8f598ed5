SPECIFICATION ReconcileSpec
CONSTANTS
    Cameras = {c1}
    Nodes = {1, 2}
    Urls = {u1}
    Secrets = {TRUE, FALSE}
    NoNode = NoNode
    NoSource = NoSource
    NoPath = NoPath
    Capacity = 1
    MaxRevision = 2
    Workers = {w1, w2}
    Free = Free
    NoCamera = NoCamera
    NoJob = NoJob
    InitialSource <- CredentialSource
    Registered = {c1}
    Mortal = {2}
    MaxFaults = 1
SYMMETRY WorkerSymmetry
INVARIANTS
    TargetClosedUntilSourceDeleted
    NoStrayPath
PROPERTIES
    SingleEndpoint
