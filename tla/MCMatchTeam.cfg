CONSTANTS
    a = a
    b = b
    c = c
    d = d
    ca = ca
    cb = cb
    cc = cc
    cd = cd
    Player = {a, b, c, d}
    Owner = a
    NoPlayer = NoPlayer
    Mode = "team"
    TeamOf <- Teams
    Card = {ca, cb, cc, cd}
    CardOwner <- Owners
    DeckSize = 1
    TurnDuration = 1
    RevealDuration = 1
    MaxTime = 12
    MaxPool = 2
    MaxCommits = 4
    TurnLag = {0}
    Outcomes = {TRUE}
    MaxVersion = 14
SPECIFICATION Spec
INVARIANTS
    WinningTeamLeads
    LevelStart
PROPERTIES
    ImplementsContest
CHECK_DEADLOCK FALSE
