SPECIFICATION MCSpec
CONSTANTS
    Procs = {p1, p2}
    Sessions = 3
    SessionLimit = 2
    FailureLimit = 2
    LockTime = 2
    IdleTime = 1
    LifeTime = 2
    MaxTime = 3
    MaxVersion = 2
    Plans <- Logins
    q1 = q1
    q2 = q2
    q3 = q3
    c1 = c1
    c9 = c9
    k1 = k1
    k2 = k2
    None = None
    p1 = p1
    p2 = p2
INVARIANTS
    
    SessionsSafe
    GuessesBounded
PROPERTIES
    
    GrantsAreFenced
