SPECIFICATION FairMCSpec
CONSTANTS
    NoNode = NoNode
    NoSource = NoSource
    NoPath = NoPath
    Free = Free
    NoCamera = NoCamera
    NoJob = NoJob
    Web = Web
    NoToken = NoToken
    u1 = u1
    u2 = u2
    w1 = w1
    c1 = c1
    c2 = c2
    n1 = n1
    a1 = a1
    p1 = p1
    p2 = p2
    Nobody = Nobody
    NoMail = NoMail
    NoGen = NoGen
    NoRelease = NoRelease
    NoPort = NoPort
    NoConf = NoConf
    NoProc = NoProc
    Failure = Failure
    NoChangeId = NoChangeId
PROPERTIES
    RegistryIsServed
    
    BrokerMovesOn
    IncidentCloses
    
