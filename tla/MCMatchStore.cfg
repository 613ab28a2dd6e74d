CONSTANTS
    a = a
    b = b
    a1 = a1
    a2 = a2
    b1 = b1
    r1 = r1
    r2 = r2
    Player = {a, b}
    Owner = a
    NoOne = NoOne
    Card = {a1, b1}
    FirstOwner <- Owners
    DeckSize = 1
    Replica = {r1, r2}
    MaxVersion = 5
    MaxCrashes = 1
SPECIFICATION FairSpec
INVARIANTS
    LocksMatchDecks
    SettlementNeverStuck
    PaidExactlyOnce
PROPERTIES
    ImplementsRecord
    EventuallySettled
CHECK_DEADLOCK FALSE
