CONSTANTS
    User = {a, b, c}
    Game = {g1, g2}
    Server = {s1, s2}
    Request = {r1, r2}
    Kind = {"human", "bot"}
    Quota = 1
    MinPlayers = 2
    MaxPlayers = 2
    None = None
SYMMETRY Interchangeable
SPECIFICATION Spec
INVARIANTS
    RosterFrozen
    QuotaHeld
    PlacesHeld
