SPECIFICATION MCSpec
CONSTANTS
    Nodes = {n1}
    Workers = {w1, w2}
    Alerts = {a1}
    MaxIncidents = 1
    MaxAttempts = 2
    MaxFaults = 1
    MaxGen = 2
    MaxOutages = 1
    NoMail = NoMail
    NoGen = NoGen
    Nothing = Nothing
    Nobody = Nobody
    Sweeper = Sweeper
    n1 = n1
    n2 = n2
    c1 = c1
    p1 = p1
    p2 = p2
INVARIANTS
    MailedAtMostOnce
    FailureBeforeRecovery
    IncidentHasItsMail
    GuardsAreOwned
    ProbesAreContained
PROPERTIES
    UnitsAreOwned
    
    
