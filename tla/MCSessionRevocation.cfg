CONSTANTS
    s1 = s1
    s2 = s2
    events = events
    Server = {s1, s2}
    Hub = {events}
    Conn = {c1}
    ServerOf <- SocketServers
    HubOf <- SocketHubs
    TTL = 1
    OperationTime = 0
    CheckPeriod = 1
    Leeway = 0
    MaxRestarts = 1
SPECIFICATION Spec
INVARIANTS
    LogoutIsImmediate
    StaleAnswersEnd
    RevokedSocketsEnd
