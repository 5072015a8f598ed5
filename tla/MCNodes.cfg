SPECIFICATION MCSpec
CONSTANTS
    Free = Free
    NoRelease = NoRelease
    NoNode = NoNode
    NoPort = NoPort
    NoConf = NoConf
    NoProc = NoProc
    Failure = Failure
    NoChangeId = NoChangeId
    NoSource = NoSource
    NoPath = NoPath
    NoCamera = NoCamera
    NoJob = NoJob
    Web = Web
    NoToken = NoToken
    n1 = n1
    p1 = p1
    p2 = p2
    c1 = c1
    c2 = c2
INVARIANTS
    NodeFollowsItsRow
PROPERTIES
    DisruptionIsConfirmed
    NoSilentDisconnect
