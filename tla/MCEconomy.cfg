CONSTANTS
    a = a
    b = b
    qa = qa
    qb = qb
    c1 = c1
    c2 = c2
    c3 = c3
    l1 = l1
    t1 = t1
    t2 = t2
    r1 = r1
    r2 = r2
    User = {a, b}
    Card = {c1, c2, c3}
    Question = {qa, qb}
    Listing = {l1}
    Trade = {t1}
    MatchRef = MatchRef
    None = None
    Request = {r1, r2}
    StarterOf <- Starters
    StarterBalance = 600
    Price = {10, 410}
    Coins = {0, 400}
    MaxTradeCards = 1
    MaxRewards = 400
SYMMETRY Interchangeable
SPECIFICATION Spec
INVARIANTS
    EscrowMatches
    StarterComplete
    NoOverdraft
    LockedBacksOffers
    CoinsConserved
PROPERTIES
    ImplementsOwnership
CHECK_DEADLOCK FALSE
