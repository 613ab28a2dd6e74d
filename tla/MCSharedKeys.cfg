CONSTANTS
    a = a
    b = b
    ca = ca
    cb = cb
    cc = cc
    k1 = k1
    k2 = k2
    k3 = k3
    k4 = k4
    k5 = k5
    k6 = k6
    k7 = k7
    Player = {a, b}
    Owner = a
    NoPlayer = NoPlayer
    Mode = "duel"
    TeamOf <- NoTeams
    Card = {ca, cb, cc}
    CardOwner <- Owners
    DeckSize = 1
    TurnDuration = 1
    RevealDuration = 1
    MaxTime = 5
    MaxPool = 1
    MaxCommits = 5
    TurnLag = {0}
    Outcomes = {TRUE}
    MaxVersion = 12
    Key = {k1}
    NoKey = NoKey
    MaxProcessed = 256
    UsesKey <- SharedKeys
SPECIFICATION CommandSpec
INVARIANTS
    AtMostOnce
CHECK_DEADLOCK FALSE
