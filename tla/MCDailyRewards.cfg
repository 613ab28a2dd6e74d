SPECIFICATION Spec
CONSTANTS
    u1 = u1
    u2 = u2
    m1 = m1
    m2 = m2
    m3 = m3
    s1 = s1
    s2 = s2
    NoMatch = NoMatch
    User = {u1, u2}
    Match = {m1, m2, m3}
    Server = {s1, s2}
    Question = {"known", "other"}
    Difficulty <- MCDifficulty
    Starter = {"known"}
    Limit <- MCLimit
    Ttl = 1
    LastPlay = 0
    MaxDay = 1
    MaxVersions = 2
SYMMETRY Interchangeable
INVARIANTS
    QuotaExact
    
PROPERTIES
    MintsUnownedFirst
CHECK_DEADLOCK FALSE
