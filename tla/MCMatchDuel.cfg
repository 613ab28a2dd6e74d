CONSTANTS
    a = a
    b = b
    ca = ca
    cb = cb
    Player = {a, b}
    Owner = a
    NoPlayer = NoPlayer
    Mode = "duel"
    TeamOf <- NoTeams
    Card = {ca, cb}
    CardOwner <- Owners
    DeckSize = 1
    TurnDuration = 2
    RevealDuration = 1
    MaxTime = 12
    MaxPool = 2
    MaxCommits = 3
    TurnLag = {0, 1}
    Outcomes = {TRUE, FALSE}
    MaxVersion = 14
SPECIFICATION FairSpec
INVARIANTS
    ChampionLeadsField
    DrawOnlyWithoutPool
    MainScheduleKept
    TieBreakConsistent
PROPERTIES
    MainStageEnds
    TerminalFrozen
    ScoringDisciplined
    VersionCoversChanges
CHECK_DEADLOCK FALSE
