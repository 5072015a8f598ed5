SPECIFICATION ReconcileSpec
CONSTANTS
    Cameras = {c1}
    Nodes = {1, 2}
    Urls = {u1}
    Secrets = {TRUE, FALSE}
    NoNode = NoNode
    NoSource = NoSource
    NoPath = NoPath
    Capacity = 1
    MaxRevision = 2
    Workers = {w1}
    Free = Free
    NoCamera = NoCamera
    NoJob = NoJob
    InitialSource <- CredentialSource
    Registered = {c1}
    Mortal = {}
    MaxFaults = 0
PROPERTIES
    ReaderLostOnlyIfConfirmed
