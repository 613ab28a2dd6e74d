CONSTANTS
    o = o
    g = g
    oc = oc
    g1 = g1
    g2 = g2
    User = {o, g}
    Owner = o
    Conn = {oc, g1, g2}
    UserOf <- SocketOwners
    Hub = {h1, h2}
    None = None
SPECIFICATION FairSpec
INVARIANTS
    RoomIsForMembers
    MembersNotShutOut
    NoHubLeaks
    NoPanic
PROPERTIES
    LeaversAreDisconnected
CHECK_DEADLOCK FALSE
