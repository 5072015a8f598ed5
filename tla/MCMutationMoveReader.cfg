SPECIFICATION MutationSpec
CONSTANTS
    Cameras = {c1}
    Nodes = {1, 2}
    Urls = {u1, u2}
    Secrets = {FALSE}
    NoNode = NoNode
    NoSource = NoSource
    NoPath = NoPath
    Capacity = 1
    MaxRevision = 3
    Workers = {w1}
    Free = Free
    NoCamera = NoCamera
    NoJob = NoJob
    InitialSource <- PlainSource
    Registered = {c1}
    Mortal = {}
    MaxFaults = 0
    Web = Web
    NoToken = NoToken
    MaxRequests = 1
PROPERTIES
    NoSilentDisconnect
