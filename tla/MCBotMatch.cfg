CONSTANTS
    MainTurns = 2
    TurnDuration = 3
    RevealDuration = 1
    Delay = {1, 2}
    FirstPool = 1
    PoolSize = 2
    MaxTransitions = 13
    MaxPool = 2
    MaxTime = 13
SPECIFICATION Spec
INVARIANTS
    PollingInvisible
    BotAnswersEveryTurn
CHECK_DEADLOCK FALSE
