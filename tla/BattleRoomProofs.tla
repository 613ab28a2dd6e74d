-------------------------- MODULE BattleRoomProofs --------------------------
(***************************************************************************)
(* Proofs about BattleRoom, for every set of users, sockets and hubs.  One *)
(* inductive invariant, RoomInv, ties the registry, the hubs, the sockets  *)
(* and the commands under way together; the room's properties follow.      *)
(***************************************************************************)
EXTENDS BattleRoom, FiniteSetTheorems, TLAPS

(* The inductive invariant *)

\* lockBattle: no two commands at a time.
OneCommand == \A j, k \in commands : j = k

\* What a command has done to the document when it turns to the registry and to a hub.
CommandsPlaced ==
    \A k \in commands :
        /\ k.at \in {"left", "revoking"} => k.user \notin member
        /\ k.at \in {"joined", "granting"} => k.user \in member
        /\ k.at \in {"closed", "closing"} => ~isActive
        /\ k.at \in {"revoking", "granting", "closing"} => k.hub \in Hub

\* A socket has a hub from when it was given one until it is forgotten.
SocketsPlaced ==
    \A c \in Conn : socket[c].at \in {"idle", "checked"} <=> socket[c].hub = None

\* A client of a hub is a socket that was given this hub and has not unregistered yet.
ClientsPlaced ==
    \A h \in Hub : \A c \in hub[h].clients :
        /\ hub[h].running
        /\ socket[c].hub = h
        /\ socket[c].at \in {"open", "leaving"}

\* Only a client that some hub took out has its channel closed.
ChannelsPlaced == \A c \in sendClosed : socket[c].at \in {"open", "leaving", "left"}
SendsOpen == ~panicked /\ \A h \in Hub : hub[h].clients \cap sendClosed = {}

\* A battle that was closed gets no hub again.
RoomClosed == ~isActive /\ \A k \in commands : k.at # "closed"
ClosedForGood ==
    /\ gameClosed => ~isActive
    /\ RoomClosed =>
          /\ gameHub = None
          /\ gameClosed \/ \A c \in Conn : socket[c].at \notin {"checked", "given"}

\* The registry counts the sockets of a hub that were registered and are not forgotten,
\* until the battle is closed.
Attached(h) ==
    {c \in Conn : socket[c].hub = h /\ socket[c].at \in {"open", "leaving", "left"}}
CountsExact ==
    \A h \in Hub :
        \/ connections[h] = Cardinality(Attached(h))
        \/ connections[h] = 0 /\ RoomClosed

\* A user who left is held back by the tombstone, and is out of the game's hub when the
\* command is over.
LeaverHeld(c) ==
    /\ socket[c].at \in {"checked", "given"} =>
          \/ UserOf[c] \in tombstone
          \/ \E k \in commands : k.user = UserOf[c] /\ k.at = "left"
    /\ gameHub # None /\ c \in hub[gameHub].clients =>
          \E k \in commands : /\ k.user = UserOf[c]
                              /\ k.at = "left" \/ (k.at = "revoking" /\ k.hub = gameHub)
LeaversHeld == isActive => \A c \in Conn : UserOf[c] \notin member => LeaverHeld(c)

\* What an earlier exit left behind is on the way out as long as a member is kept out.
JoinerFreed(u) ==
    /\ u \in tombstone => \E k \in commands : k.user = u /\ k.at = "joined"
    /\ gameHub # None /\ u \in hub[gameHub].revoked =>
          \E k \in commands : /\ k.user = u
                              /\ k.at = "joined" \/ (k.at = "granting" /\ k.hub = gameHub)
JoinersFreed == isActive => \A u \in member : JoinerFreed(u)

\* A hub runs for the game, or is being closed; the game's hub has a socket in it or on
\* its way to it.
HubsServed == \A h \in Hub : hub[h].running => gameHub = h \/ CloseCalled(h)
HubWanted ==
    gameHub # None =>
        \E c \in Conn : /\ socket[c].hub = gameHub
                        /\ socket[c].at \in {"given", "open", "leaving", "left"}

RoomInv ==
    /\ TypeOK
    /\ OneCommand
    /\ CommandsPlaced
    /\ SocketsPlaced
    /\ ClientsPlaced
    /\ ChannelsPlaced
    /\ SendsOpen
    /\ ClosedForGood
    /\ CountsExact
    /\ LeaversHeld
    /\ JoinersFreed
    /\ HubsServed
    /\ HubWanted

-----------------------------------------------------------------------------
(* The types, and what the common updates do *)

CommandType ==
    [user : User, hub : Hub \cup {None},
     at : {"left", "revoking", "joined", "granting", "closed", "closing"}]
HubType == [running : BOOLEAN, clients : SUBSET Conn, revoked : SUBSET User]
SocketType ==
    [at : {"idle", "checked", "given", "open", "leaving", "left", "closing"},
     hub : Hub \cup {None}]

LEMMA Types ==
    ASSUME RoomInv
    PROVE  /\ commands \subseteq CommandType
           /\ hub \in [Hub -> HubType]
           /\ socket \in [Conn -> SocketType]
           /\ connections \in [Hub -> 0 .. Cardinality(Conn)]
           /\ \A k \in commands : k \in CommandType
           /\ \A h \in Hub : /\ hub[h] \in HubType
                             /\ hub[h].clients \subseteq Conn
                             /\ connections[h] \in Nat
           /\ \A c \in Conn : socket[c] \in SocketType /\ UserOf[c] \in User
           /\ Cardinality(Conn) \in Nat
           /\ None \notin Hub
<1>1. Cardinality(Conn) \in Nat
  BY RoomAssumption, FS_CardinalityType
<1>2. /\ commands \subseteq CommandType
      /\ hub \in [Hub -> HubType]
      /\ socket \in [Conn -> SocketType]
      /\ connections \in [Hub -> 0 .. Cardinality(Conn)]
  BY DEF RoomInv, TypeOK, CommandType, HubType, SocketType
<1> QED BY <1>1, <1>2, RoomAssumption DEF HubType

LEMMA TypesNext ==
    ASSUME member' \subseteq User, isActive' \in BOOLEAN, commands' \subseteq CommandType,
           gameHub' \in Hub \cup {None},
           connections' \in [Hub -> 0 .. Cardinality(Conn)],
           tombstone' \subseteq User, gameClosed' \in BOOLEAN, hub' \in [Hub -> HubType],
           socket' \in [Conn -> SocketType], sendClosed' \subseteq Conn,
           panicked' \in BOOLEAN
    PROVE  TypeOK'
BY DEF TypeOK, CommandType, HubType, SocketType

\* The only command.
LEMMA TheCommand ==
    ASSUME RoomInv, NEW k \in commands
    PROVE  commands = {k} /\ k \in CommandType
BY Types DEF RoomInv, OneCommand

LEMMA SocketMoves ==
    ASSUME RoomInv, NEW c \in Conn, NEW at,
           at \in {"checked", "given", "open", "leaving", "left", "closing"},
           SocketAt(c, at)
    PROVE  /\ socket' \in [Conn -> SocketType]
           /\ socket'[c].at = at /\ socket'[c].hub = socket[c].hub
           /\ \A d \in Conn : d # c => socket'[d] = socket[d]
BY Types DEF SocketAt, SocketType

LEMMA SocketEnds ==
    ASSUME RoomInv, NEW c \in Conn, SocketOver(c)
    PROVE  /\ socket' \in [Conn -> SocketType]
           /\ socket'[c].at = "idle" /\ socket'[c].hub = None
           /\ \A d \in Conn : d # c => socket'[d] = socket[d]
BY Types DEF SocketOver, SocketType, Idle

\* A new command.
LEMMA CommandBegins ==
    ASSUME RoomInv, lockBattle, NEW u \in User, NEW at,
           at \in {"left", "joined", "closed"}, Begin(u, at)
    PROVE  \E j \in CommandType : /\ commands' = {j} /\ j.user = u /\ j.at = at
<1> DEFINE j == [user |-> u, at |-> at, hub |-> None]
<1>1. j \in CommandType /\ j.user = u /\ j.at = at
  BY DEF CommandType
<1>2. commands' = {j}
  BY DEF lockBattle, Begin
<1> HIDE DEF j
<1> QED BY <1>1, <1>2

\* A command that turns to the hub, or is over.
LEMMA CommandTellsHub ==
    ASSUME RoomInv, NEW k \in commands, NEW at, at \in {"revoking", "granting", "closing"},
           TellHub(k, at)
    PROVE  \/ gameHub = None /\ commands' = {}
           \/ /\ gameHub \in Hub
              /\ \E j \in CommandType : /\ commands' = {j} /\ j.user = k.user
                                        /\ j.at = at /\ j.hub = gameHub
<1> DEFINE j == [k EXCEPT !.at = at, !.hub = gameHub]
<1>1. k \in CommandType /\ commands = {k} /\ gameHub \in Hub \cup {None}
  BY TheCommand DEF RoomInv, TypeOK
<1>2. CASE gameHub = None
  BY <1>1, <1>2 DEF TellHub
<1>3. CASE gameHub # None
  <2>1. j \in CommandType /\ j.user = k.user /\ j.at = at /\ j.hub = gameHub
    BY <1>1, <1>3 DEF CommandType
  <2>2. commands' = {j}
    BY <1>1, <1>3 DEF TellHub
  <2> HIDE DEF j
  <2> QED BY <1>1, <1>3, <2>1, <2>2
<1> QED BY <1>2, <1>3

\* A hub that takes out some of its clients.
LEMMA ClientsRemoved ==
    ASSUME RoomInv, NEW h \in Hub, NEW S, S \subseteq hub[h].clients, Remove(h, S)
    PROVE  /\ hub' \in [Hub -> HubType]
           /\ hub'[h].running = hub[h].running /\ hub'[h].revoked = hub[h].revoked
           /\ hub'[h].clients = hub[h].clients \ S
           /\ \A g \in Hub : g # h => hub'[g] = hub[g]
           /\ sendClosed' = sendClosed \cup S
           /\ panicked' = panicked
<1>1. S \cap sendClosed = {}
  BY DEF RoomInv, SendsOpen
<1> QED BY <1>1, Types DEF RoomInv, TypeOK, Remove, CloseSend, HubType

-----------------------------------------------------------------------------
(* Every step keeps RoomInv *)

LEMMA InitRoom == Init => RoomInv
<1> SUFFICES ASSUME Init PROVE RoomInv
  OBVIOUS
<1> USE DEF Init
<1>1. TypeOK
  <2>1. 0 \in 0 .. Cardinality(Conn)
    BY RoomAssumption, FS_CardinalityType
  <2>2. connections \in [Hub -> 0 .. Cardinality(Conn)]
    BY <2>1
  <2> QED BY <2>2, RoomAssumption DEF TypeOK, Stopped, Idle
<1>2. OneCommand /\ CommandsPlaced /\ SocketsPlaced /\ ClientsPlaced /\ ChannelsPlaced /\ SendsOpen
  BY RoomAssumption DEF OneCommand, CommandsPlaced, SocketsPlaced, ClientsPlaced, ChannelsPlaced,
     SendsOpen, Stopped, Idle
<1>3. ClosedForGood /\ HubsServed /\ HubWanted
  BY DEF ClosedForGood, RoomClosed, HubsServed, HubWanted, Stopped
<1>4. CountsExact
  <2> SUFFICES ASSUME NEW h \in Hub PROVE connections[h] = Cardinality(Attached(h))
    BY DEF CountsExact
  <2>1. Attached(h) = {}
    BY DEF Attached, Idle
  <2> QED BY <2>1, FS_EmptySet
<1>5. LeaversHeld /\ JoinersFreed
  BY DEF LeaversHeld, LeaverHeld, JoinersFreed, JoinerFreed, Idle
<1> QED BY <1>1, <1>2, <1>3, <1>4, <1>5 DEF RoomInv

\* The counts stay when the sockets, the registry and the hubs do.
LEMMA SocketsStay ==
    ASSUME RoomInv, UNCHANGED <<connections, socket>>, RoomClosed => RoomClosed'
    PROVE  SocketsPlaced' /\ CountsExact'
<1>1. \A h \in Hub : Attached(h)' = Attached(h)
  BY DEF Attached
<1> QED BY <1>1 DEF RoomInv, SocketsPlaced, CountsExact

LEMMA JoinGameRoom ==
    ASSUME RoomInv, NEW u \in User, JoinGame(u)
    PROVE  RoomInv'
<1>1. /\ isActive /\ commands = {} /\ member' = member \cup {u}
      /\ UNCHANGED <<isActive, registry, hub, socket, channels>>
  BY DEF JoinGame, lockBattle
<1>2. PICK j \in CommandType : commands' = {j} /\ j.user = u /\ j.at = "joined"
  BY CommandBegins DEF JoinGame
<1> USE DEF RoomInv, doc, registry, channels
<1>3. TypeOK'
  BY <1>1, <1>2, Types, TypesNext DEF TypeOK
<1>4. OneCommand' /\ CommandsPlaced'
  BY <1>1, <1>2 DEF OneCommand, CommandsPlaced
<1>5. ClientsPlaced' /\ ChannelsPlaced' /\ SendsOpen'
  BY <1>1 DEF ClientsPlaced, ChannelsPlaced, SendsOpen
<1>6. SocketsPlaced' /\ CountsExact'
  BY <1>1, SocketsStay DEF RoomClosed
<1>7. ClosedForGood'
  BY <1>1 DEF ClosedForGood, RoomClosed
<1>8. HubsServed' /\ HubWanted'
  BY <1>1 DEF HubsServed, HubWanted, CloseCalled
<1>9. LeaversHeld'
  BY <1>1 DEF LeaversHeld, LeaverHeld
<1>10. JoinersFreed'
  <2>1. JoinerFreed(u)'
    <3>1. \E k \in commands' : k.user = u /\ k.at = "joined"
      BY <1>2
    <3> QED BY <3>1 DEF JoinerFreed
  <2>2. \A v \in member : JoinerFreed(v)'
    BY <1>1 DEF JoinersFreed, JoinerFreed
  <2> QED BY <1>1, <2>1, <2>2 DEF JoinersFreed
<1> QED BY <1>3, <1>4, <1>5, <1>6, <1>7, <1>8, <1>9, <1>10

LEMMA ExitGameRoom ==
    ASSUME RoomInv, NEW u \in User, ExitGame(u)
    PROVE  RoomInv'
<1>1. /\ isActive /\ commands = {}
      /\ UNCHANGED <<registry, hub, socket, channels>>
  BY DEF ExitGame, lockBattle
<1> USE DEF RoomInv, doc, registry, channels
<1>2. ClientsPlaced' /\ ChannelsPlaced' /\ SendsOpen'
  BY <1>1 DEF ClientsPlaced, ChannelsPlaced, SendsOpen
<1>3. SocketsPlaced' /\ CountsExact'
  BY <1>1, SocketsStay DEF RoomClosed
<1>4. HubsServed' /\ HubWanted'
  BY <1>1 DEF HubsServed, HubWanted, CloseCalled
<1>5. CASE u = Owner
  <2>1. isActive' = FALSE /\ member' = member /\ Begin(u, "closed")
    BY <1>5 DEF ExitGame
  <2>2. PICK j \in CommandType : commands' = {j} /\ j.user = u /\ j.at = "closed"
    BY <1>1, <2>1, CommandBegins DEF lockBattle
  <2>3. TypeOK'
    BY <1>1, <2>1, <2>2, Types, TypesNext DEF TypeOK
  <2>4. OneCommand' /\ CommandsPlaced'
    BY <2>1, <2>2 DEF OneCommand, CommandsPlaced
  <2>5. ClosedForGood' /\ LeaversHeld' /\ JoinersFreed'
    BY <2>1, <2>2 DEF ClosedForGood, RoomClosed, LeaversHeld, JoinersFreed
  <2> QED BY <1>2, <1>3, <1>4, <2>3, <2>4, <2>5
<1>6. CASE u # Owner
  <2>1. isActive' = isActive /\ member' = member \ {u} /\ Begin(u, "left")
    BY <1>6 DEF ExitGame
  <2>2. PICK j \in CommandType : commands' = {j} /\ j.user = u /\ j.at = "left"
    BY <1>1, <2>1, CommandBegins DEF lockBattle
  <2>3. TypeOK'
    BY <1>1, <2>1, <2>2, Types, TypesNext DEF TypeOK
  <2>4. OneCommand' /\ CommandsPlaced'
    BY <2>1, <2>2 DEF OneCommand, CommandsPlaced
  <2>5. ClosedForGood' /\ JoinersFreed'
    BY <1>1, <2>1 DEF ClosedForGood, RoomClosed, JoinersFreed, JoinerFreed
  <2>6. ASSUME NEW c \in Conn, UserOf[c] \notin member' PROVE LeaverHeld(c)'
    <3>1. CASE UserOf[c] = u
      <4>1. \E k \in commands' : k.user = UserOf[c] /\ k.at = "left"
        BY <2>2, <3>1
      <4> QED BY <4>1 DEF LeaverHeld
    <3>2. CASE UserOf[c] \notin member
      BY <1>1, <3>2 DEF LeaversHeld, LeaverHeld
    <3> QED BY <2>1, <2>6, <3>1, <3>2
  <2>7. LeaversHeld'
    BY <2>6 DEF LeaversHeld
  <2> QED BY <1>2, <1>3, <1>4, <2>3, <2>4, <2>5, <2>7
<1> QED BY <1>5, <1>6

LEMMA DisconnectRoom ==
    ASSUME RoomInv, NEW k \in commands, DisconnectBattleUser(k)
    PROVE  RoomInv'
<1>1. /\ k.at = "left" /\ commands = {k} /\ k \in CommandType
      /\ tombstone' = tombstone \cup {k.user}
      /\ UNCHANGED <<doc, gameHub, connections, gameClosed, hub, socket, channels>>
  BY TheCommand DEF DisconnectBattleUser
<1>2. \/ gameHub = None /\ commands' = {}
      \/ /\ gameHub \in Hub
         /\ \E j \in CommandType : /\ commands' = {j} /\ j.user = k.user
                                   /\ j.at = "revoking" /\ j.hub = gameHub
  BY CommandTellsHub DEF DisconnectBattleUser
<1> USE DEF RoomInv, doc, channels
<1>3. TypeOK'
  BY <1>1, <1>2, Types, TypesNext DEF TypeOK, CommandType
<1>4. OneCommand' /\ CommandsPlaced'
  BY <1>1, <1>2 DEF OneCommand, CommandsPlaced
<1>5. ClientsPlaced' /\ ChannelsPlaced' /\ SendsOpen'
  BY <1>1 DEF ClientsPlaced, ChannelsPlaced, SendsOpen
<1>6. RoomClosed' => RoomClosed
  BY <1>1 DEF RoomClosed
<1>7. SocketsPlaced' /\ CountsExact'
  <2>1. RoomClosed => RoomClosed'
    BY <1>1, <1>2 DEF RoomClosed
  <2> QED BY <1>1, <2>1, SocketsStay
<1>8. ClosedForGood'
  BY <1>1, <1>6 DEF ClosedForGood
<1>9. HubsServed' /\ HubWanted'
  BY <1>1 DEF HubsServed, HubWanted, CloseCalled
<1>10. ASSUME isActive, NEW c \in Conn, UserOf[c] \notin member PROVE LeaverHeld(c)'
  <2>1. CASE UserOf[c] = k.user
    BY <1>1, <1>2, <2>1 DEF LeaverHeld
  <2>2. CASE UserOf[c] # k.user
    BY <1>1, <1>10, <2>2 DEF LeaversHeld, LeaverHeld
  <2> QED BY <2>1, <2>2
<1>11. ASSUME isActive, NEW u \in member PROVE JoinerFreed(u)'
  <2>1. u # k.user
    BY <1>1 DEF CommandsPlaced
  <2> QED BY <1>1, <1>11, <2>1 DEF JoinersFreed, JoinerFreed
<1>12. LeaversHeld' /\ JoinersFreed'
  BY <1>1, <1>10, <1>11 DEF LeaversHeld, JoinersFreed
<1> QED BY <1>3, <1>4, <1>5, <1>7, <1>8, <1>9, <1>12

LEMMA RevokeRoom ==
    ASSUME RoomInv, NEW k \in commands, RevokeUser(k)
    PROVE  RoomInv'
<1> DEFINE h == k.hub
           gone == {c \in hub[h].clients : UserOf[c] = k.user}
<1>1. /\ k.at = "revoking" /\ commands = {k} /\ k \in CommandType /\ h \in Hub
      /\ commands' = {} /\ k.user \notin member
      /\ UNCHANGED <<doc, registry, socket>>
  BY TheCommand DEF RevokeUser, RoomInv, CommandsPlaced, Over
<1>2. /\ hub' \in [Hub -> HubType]
      /\ \A g \in Hub : hub'[g].running = hub[g].running /\ hub'[g].clients \subseteq hub[g].clients
      /\ \A g \in Hub : hub'[g].revoked \subseteq hub[g].revoked \cup {k.user}
      /\ \A c \in hub'[h].clients : UserOf[c] # k.user
      /\ sendClosed' \subseteq Conn /\ panicked' = FALSE
      /\ \A c \in sendClosed' : \/ c \in sendClosed
                                \/ c \in hub[h].clients /\ c \notin hub'[h].clients
  <2>1. CASE hub[h].running
    <3>1. /\ hub' = [hub EXCEPT ![h].clients = @ \ gone, ![h].revoked = @ \cup {k.user}]
          /\ CloseSend(gone)
      BY <2>1 DEF RevokeUser
    <3>2. /\ gone \subseteq hub[h].clients /\ gone \cap sendClosed = {}
          /\ \A c \in hub[h].clients : UserOf[c] = k.user => c \in gone
      BY <1>1 DEF RoomInv, SendsOpen
    <3> HIDE DEF gone, h
    <3>3. hub[h] \in HubType /\ k.user \in User /\ gone \subseteq Conn
      BY <1>1, <3>2, Types DEF CommandType
    <3>4. /\ hub'[h] = [hub[h] EXCEPT !.clients = @ \ gone, !.revoked = @ \cup {k.user}]
          /\ \A g \in Hub : g # h => hub'[g] = hub[g]
      BY <1>1, <3>1, Types
    <3>5. /\ hub'[h].running = hub[h].running
          /\ hub'[h].clients = hub[h].clients \ gone
          /\ hub'[h].revoked = hub[h].revoked \cup {k.user}
          /\ hub'[h] \in HubType
      BY <3>3, <3>4 DEF HubType
    <3>6. hub' \in [Hub -> HubType]
      BY <1>1, <3>1, <3>4, <3>5, Types
    <3>7. sendClosed' = sendClosed \cup gone /\ panicked' = FALSE /\ sendClosed \subseteq Conn
      BY <3>1, <3>2 DEF CloseSend, RoomInv, SendsOpen, TypeOK
    <3>8. ASSUME NEW g \in Hub
          PROVE  /\ hub'[g].running = hub[g].running
                 /\ hub'[g].clients \subseteq hub[g].clients
                 /\ hub'[g].revoked \subseteq hub[g].revoked \cup {k.user}
      BY <3>4, <3>5
    <3> QED BY <3>2, <3>3, <3>5, <3>6, <3>7, <3>8
  <2>2. CASE ~hub[h].running
    BY <1>1, <2>2, Types DEF RevokeUser, RoomInv, TypeOK, ClientsPlaced, SendsOpen, channels
  <2> QED BY <2>1, <2>2
<1> HIDE DEF gone
<1> USE DEF RoomInv, doc, registry
<1>3. TypeOK'
  BY <1>1, <1>2, Types, TypesNext DEF TypeOK
<1>4. OneCommand' /\ CommandsPlaced'
  BY <1>1 DEF OneCommand, CommandsPlaced
<1>5. ClientsPlaced' /\ ChannelsPlaced'
  BY <1>1, <1>2 DEF ClientsPlaced, ChannelsPlaced
<1>6. SendsOpen'
  BY <1>1, <1>2 DEF SendsOpen, ClientsPlaced
<1>7. RoomClosed' <=> RoomClosed
  BY <1>1 DEF RoomClosed
<1>8. SocketsPlaced' /\ CountsExact'
  BY <1>1, <1>7, SocketsStay
<1>9. ClosedForGood'
  BY <1>1, <1>7 DEF ClosedForGood
<1>10. HubsServed' /\ HubWanted'
  BY <1>1, <1>2 DEF HubsServed, HubWanted, CloseCalled
<1>11. ASSUME isActive, NEW c \in Conn, UserOf[c] \notin member PROVE LeaverHeld(c)'
  <2>1. /\ socket[c].at \in {"checked", "given"} => UserOf[c] \in tombstone
        /\ gameHub # None /\ c \in hub[gameHub].clients => UserOf[c] = k.user /\ gameHub = h
    BY <1>1, <1>11 DEF LeaversHeld, LeaverHeld
  <2>2. gameHub # None => gameHub \in Hub
    BY DEF TypeOK
  <2> QED BY <1>1, <1>2, <2>1, <2>2 DEF LeaverHeld
<1>12. ASSUME isActive, NEW u \in member PROVE JoinerFreed(u)'
  <2>1. u # k.user /\ u \notin tombstone /\ (gameHub # None => u \notin hub[gameHub].revoked)
    BY <1>1, <1>12 DEF JoinersFreed, JoinerFreed
  <2>2. gameHub # None => gameHub \in Hub
    BY DEF TypeOK
  <2> QED BY <1>1, <1>2, <2>1, <2>2 DEF JoinerFreed
<1>13. LeaversHeld' /\ JoinersFreed'
  BY <1>1, <1>11, <1>12 DEF LeaversHeld, JoinersFreed
<1> QED BY <1>3, <1>4, <1>5, <1>6, <1>8, <1>9, <1>10, <1>13

LEMMA AllowRoom ==
    ASSUME RoomInv, NEW k \in commands, AllowBattleUser(k)
    PROVE  RoomInv'
<1>1. /\ k.at = "joined" /\ commands = {k} /\ k \in CommandType
      /\ tombstone' = tombstone \ {k.user}
      /\ UNCHANGED <<doc, gameHub, connections, gameClosed, hub, socket, channels>>
  BY TheCommand DEF AllowBattleUser
<1>2. \/ gameHub = None /\ commands' = {}
      \/ /\ gameHub \in Hub
         /\ \E j \in CommandType : /\ commands' = {j} /\ j.user = k.user
                                   /\ j.at = "granting" /\ j.hub = gameHub
  BY CommandTellsHub DEF AllowBattleUser
<1> USE DEF RoomInv, doc, channels
<1>3. TypeOK'
  BY <1>1, <1>2, Types, TypesNext DEF TypeOK
<1>4. OneCommand' /\ CommandsPlaced'
  BY <1>1, <1>2 DEF OneCommand, CommandsPlaced
<1>5. ClientsPlaced' /\ ChannelsPlaced' /\ SendsOpen'
  BY <1>1 DEF ClientsPlaced, ChannelsPlaced, SendsOpen
<1>6. RoomClosed' <=> RoomClosed
  BY <1>1, <1>2 DEF RoomClosed
<1>7. SocketsPlaced' /\ CountsExact'
  BY <1>1, <1>6, SocketsStay
<1>8. ClosedForGood'
  BY <1>1, <1>6 DEF ClosedForGood
<1>9. HubsServed' /\ HubWanted'
  BY <1>1 DEF HubsServed, HubWanted, CloseCalled
<1>10. ASSUME isActive, NEW c \in Conn, UserOf[c] \notin member PROVE LeaverHeld(c)'
  <2>1. UserOf[c] # k.user
    BY <1>1, <1>10 DEF CommandsPlaced
  <2> QED BY <1>1, <1>10, <2>1 DEF LeaversHeld, LeaverHeld
<1>11. ASSUME isActive, NEW u \in member PROVE JoinerFreed(u)'
  <2>1. CASE u = k.user
    BY <1>1, <1>2, <2>1 DEF JoinerFreed
  <2>2. CASE u # k.user
    BY <1>1, <1>11, <2>2 DEF JoinersFreed, JoinerFreed
  <2> QED BY <2>1, <2>2
<1>12. LeaversHeld' /\ JoinersFreed'
  BY <1>1, <1>10, <1>11 DEF LeaversHeld, JoinersFreed
<1> QED BY <1>3, <1>4, <1>5, <1>7, <1>8, <1>9, <1>12

LEMMA GrantUserRoom ==
    ASSUME RoomInv, NEW k \in commands, GrantUser(k)
    PROVE  RoomInv'
<1> DEFINE h == k.hub
<1>1. /\ k.at = "granting" /\ commands = {k} /\ k \in CommandType /\ h \in Hub
      /\ commands' = {} /\ k.user \in member
      /\ hub' = [hub EXCEPT ![h].revoked = @ \ {k.user}]
      /\ UNCHANGED <<doc, registry, socket, channels>>
  BY TheCommand DEF GrantUser, RoomInv, CommandsPlaced, Over
<1>2. /\ hub' \in [Hub -> HubType]
      /\ \A g \in Hub : /\ hub'[g].running = hub[g].running
                        /\ hub'[g].clients = hub[g].clients
                        /\ hub'[g].revoked \subseteq hub[g].revoked
      /\ k.user \notin hub'[h].revoked
  BY <1>1, Types DEF HubType
<1> USE DEF RoomInv, doc, registry, channels
<1>3. TypeOK'
  BY <1>1, <1>2, Types, TypesNext DEF TypeOK
<1>4. OneCommand' /\ CommandsPlaced'
  BY <1>1 DEF OneCommand, CommandsPlaced
<1>5. ClientsPlaced' /\ ChannelsPlaced' /\ SendsOpen'
  BY <1>1, <1>2 DEF ClientsPlaced, ChannelsPlaced, SendsOpen
<1>6. RoomClosed' <=> RoomClosed
  BY <1>1 DEF RoomClosed
<1>7. SocketsPlaced' /\ CountsExact'
  BY <1>1, <1>6, SocketsStay
<1>8. ClosedForGood'
  BY <1>1, <1>6 DEF ClosedForGood
<1>9. HubsServed' /\ HubWanted'
  BY <1>1, <1>2 DEF HubsServed, HubWanted, CloseCalled
<1>10. gameHub # None => gameHub \in Hub
  BY DEF TypeOK
<1>11. ASSUME isActive, NEW c \in Conn, UserOf[c] \notin member PROVE LeaverHeld(c)'
  <2>1. UserOf[c] # k.user
    BY <1>1, <1>11
  <2> QED BY <1>1, <1>2, <1>10, <1>11, <2>1 DEF LeaversHeld, LeaverHeld
<1>12. ASSUME isActive, NEW u \in member PROVE JoinerFreed(u)'
  <2>1. CASE u = k.user
    BY <1>1, <1>2, <1>10, <1>12, <2>1 DEF JoinersFreed, JoinerFreed
  <2>2. CASE u # k.user
    BY <1>1, <1>2, <1>10, <1>12, <2>2 DEF JoinersFreed, JoinerFreed
  <2> QED BY <2>1, <2>2
<1>13. LeaversHeld' /\ JoinersFreed'
  BY <1>1, <1>11, <1>12 DEF LeaversHeld, JoinersFreed
<1> QED BY <1>3, <1>4, <1>5, <1>7, <1>8, <1>9, <1>13

LEMMA CloseGameHubRoom ==
    ASSUME RoomInv, NEW k \in commands, CloseGameHub(k)
    PROVE  RoomInv'
<1>1. /\ k.at = "closed" /\ commands = {k} /\ k \in CommandType /\ ~isActive
      /\ gameClosed' = TRUE /\ tombstone' = {} /\ gameHub' = None
      /\ connections' = [h \in Hub |-> IF h = gameHub THEN 0 ELSE connections[h]]
      /\ UNCHANGED <<doc, hub, socket, channels>>
  BY TheCommand DEF CloseGameHub, RoomInv, CommandsPlaced
<1>2. \/ gameHub = None /\ commands' = {}
      \/ /\ gameHub \in Hub
         /\ \E j \in CommandType : /\ commands' = {j} /\ j.user = k.user
                                   /\ j.at = "closing" /\ j.hub = gameHub
  BY CommandTellsHub DEF CloseGameHub
<1> USE DEF RoomInv, doc, channels
<1>3. TypeOK'
  <2>1. connections' \in [Hub -> 0 .. Cardinality(Conn)]
    BY <1>1, Types
  <2> QED BY <1>1, <1>2, <2>1, Types, TypesNext DEF TypeOK
<1>4. OneCommand' /\ CommandsPlaced'
  BY <1>1, <1>2 DEF OneCommand, CommandsPlaced
<1>5. ClientsPlaced' /\ ChannelsPlaced' /\ SendsOpen' /\ SocketsPlaced'
  BY <1>1 DEF ClientsPlaced, ChannelsPlaced, SendsOpen, SocketsPlaced
<1>6. RoomClosed' /\ ~RoomClosed
  BY <1>1, <1>2 DEF RoomClosed
<1>7. CountsExact'
  <2> SUFFICES ASSUME NEW h \in Hub
               PROVE  \/ connections'[h] = Cardinality(Attached(h)')
                      \/ connections'[h] = 0
    BY <1>6 DEF CountsExact
  <2>1. Attached(h)' = Attached(h)
    BY <1>1 DEF Attached
  <2> QED BY <1>1, <1>6, <2>1 DEF CountsExact
<1>8. ClosedForGood' /\ HubWanted' /\ LeaversHeld' /\ JoinersFreed'
  BY <1>1 DEF ClosedForGood, HubWanted, LeaversHeld, JoinersFreed
<1>9. HubsServed'
  <2> SUFFICES ASSUME NEW h \in Hub, hub[h].running PROVE CloseCalled(h)'
    BY <1>1 DEF HubsServed
  <2>1. CASE gameHub = h
    BY <1>2, <2>1, RoomAssumption DEF CloseCalled
  <2>2. CASE gameHub # h
    BY <1>1, <2>2 DEF HubsServed, CloseCalled
  <2> QED BY <2>1, <2>2
<1> QED BY <1>3, <1>4, <1>5, <1>7, <1>8, <1>9

LEMMA CommandClosedRoom ==
    ASSUME RoomInv, NEW k \in commands, CommandClosedHub(k)
    PROVE  RoomInv'
<1>1. /\ k.at = "closing" /\ commands = {k} /\ ~isActive
      /\ commands' = {} /\ ~hub[k.hub].running
      /\ UNCHANGED <<doc, registry, hub, socket, channels>>
  BY TheCommand DEF CommandClosedHub, RoomInv, CommandsPlaced, Over
<1> USE DEF RoomInv, doc, registry, channels
<1>2. TypeOK'
  BY <1>1, Types, TypesNext DEF TypeOK
<1>3. /\ OneCommand' /\ CommandsPlaced' /\ ClientsPlaced' /\ ChannelsPlaced'
      /\ SendsOpen' /\ LeaversHeld' /\ JoinersFreed'
  BY <1>1 DEF OneCommand, CommandsPlaced, ClientsPlaced, ChannelsPlaced, SendsOpen,
     LeaversHeld, JoinersFreed
<1>4. RoomClosed' <=> RoomClosed
  BY <1>1 DEF RoomClosed
<1>5. SocketsPlaced' /\ CountsExact'
  BY <1>1, <1>4, SocketsStay
<1>6. ClosedForGood'
  BY <1>1, <1>4 DEF ClosedForGood
<1>7. HubsServed' /\ HubWanted'
  BY <1>1 DEF HubsServed, HubWanted, CloseCalled
<1> QED BY <1>2, <1>3, <1>5, <1>6, <1>7

-----------------------------------------------------------------------------
(* Sockets *)

\* A socket that moves on without being registered or forgotten.
LEMMA SameAttached ==
    ASSUME NEW c \in Conn, \A d \in Conn : d # c => socket'[d] = socket[d],
           \A h \in Hub : c \in Attached(h)' <=> c \in Attached(h)
    PROVE  \A h \in Hub : Attached(h)' = Attached(h)
BY DEF Attached

LEMMA CanAccessRoom ==
    ASSUME RoomInv, NEW c \in Conn, CanAccessBattle(c)
    PROVE  RoomInv'
<1>1. /\ socket[c].at = "idle" /\ isActive /\ UserOf[c] \in member /\ SocketAt(c, "checked")
      /\ UNCHANGED <<doc, commands, registry, hub, channels>>
  BY DEF CanAccessBattle
<1>2. /\ socket' \in [Conn -> SocketType]
      /\ socket'[c].at = "checked" /\ socket'[c].hub = socket[c].hub
      /\ \A d \in Conn : d # c => socket'[d] = socket[d]
  BY <1>1, SocketMoves
<1> USE DEF RoomInv, doc, registry, channels
<1>3. TypeOK'
  BY <1>1, <1>2, Types, TypesNext DEF TypeOK
<1>4. OneCommand' /\ CommandsPlaced' /\ SendsOpen' /\ JoinersFreed'
  BY <1>1 DEF OneCommand, CommandsPlaced, SendsOpen, JoinersFreed, JoinerFreed
<1>5. SocketsPlaced'
  BY <1>1, <1>2 DEF SocketsPlaced
<1>6. ClientsPlaced' /\ ChannelsPlaced'
  BY <1>1, <1>2, Types DEF ClientsPlaced, ChannelsPlaced, TypeOK
<1>7. \A h \in Hub : Attached(h)' = Attached(h)
  <2>1. \A h \in Hub : c \in Attached(h)' <=> c \in Attached(h)
    BY <1>1, <1>2 DEF Attached
  <2> QED BY <1>2, <2>1, SameAttached
<1>8. CountsExact' /\ ClosedForGood'
  BY <1>1, <1>7 DEF CountsExact, ClosedForGood, RoomClosed
<1>9. HubsServed' /\ HubWanted'
  BY <1>1, <1>2 DEF HubsServed, HubWanted, CloseCalled
<1>10. LeaversHeld'
  BY <1>1, <1>2 DEF LeaversHeld, LeaverHeld
<1> QED BY <1>3, <1>4, <1>5, <1>6, <1>8, <1>9, <1>10

\* A request that is refused before it was given a hub, or after.
LEMMA RefusedRoom ==
    ASSUME RoomInv, NEW c \in Conn, socket[c].at \in {"checked", "given"}, SocketOver(c),
           UNCHANGED <<doc, commands, registry, hub, channels>>,
           gameHub = socket[c].hub /\ gameHub # None => connections[gameHub] # 0
    PROVE  RoomInv'
<1>1. /\ socket' \in [Conn -> SocketType]
      /\ socket'[c].at = "idle" /\ socket'[c].hub = None
      /\ \A d \in Conn : d # c => socket'[d] = socket[d]
  BY SocketEnds
<1> USE DEF RoomInv, doc, registry, channels
<1>2. TypeOK'
  BY <1>1, Types, TypesNext DEF TypeOK
<1>3. OneCommand' /\ CommandsPlaced' /\ SendsOpen' /\ JoinersFreed'
  BY DEF OneCommand, CommandsPlaced, SendsOpen, JoinersFreed, JoinerFreed
<1>4. SocketsPlaced'
  BY <1>1 DEF SocketsPlaced
<1>5. ClientsPlaced' /\ ChannelsPlaced'
  <2>1. c \notin sendClosed /\ \A h \in Hub : c \notin hub[h].clients
    BY DEF ClientsPlaced, ChannelsPlaced
  <2>2. sendClosed \subseteq Conn /\ \A h \in Hub : hub[h].clients \subseteq Conn
    BY Types DEF TypeOK
  <2> USE <1>1, <2>1, <2>2
  <2>3. ClientsPlaced'
    BY DEF ClientsPlaced
  <2>4. ChannelsPlaced'
    BY DEF ChannelsPlaced
  <2> QED BY <2>3, <2>4
<1>6. \A h \in Hub : Attached(h)' = Attached(h)
  <2>1. \A h \in Hub : c \in Attached(h)' <=> c \in Attached(h)
    BY <1>1 DEF Attached
  <2> QED BY <1>1, <2>1, SameAttached
<1>7. CountsExact' /\ ClosedForGood'
  BY <1>1, <1>6 DEF CountsExact, ClosedForGood, RoomClosed
<1>8. HubsServed'
  BY <1>1 DEF HubsServed, CloseCalled
<1>9. HubWanted'
  <2> SUFFICES ASSUME gameHub # None
               PROVE  \E d \in Conn : /\ socket'[d].hub = gameHub
                                      /\ socket'[d].at \in {"given", "open", "leaving", "left"}
    BY DEF HubWanted
  <2>1. CASE gameHub # socket[c].hub
    BY <1>1, <2>1 DEF HubWanted
  <2>2. CASE gameHub = socket[c].hub
    <3>1. gameHub \in Hub /\ connections[gameHub] # 0
      BY <2>2 DEF TypeOK
    <3>2. Cardinality(Attached(gameHub)) # 0
      BY <3>1 DEF CountsExact
    <3>3. PICK d \in Conn : d \in Attached(gameHub)
      BY <3>2, FS_EmptySet DEF Attached
    <3> QED BY <1>1, <3>3 DEF Attached
  <2> QED BY <2>1, <2>2
<1>10. LeaversHeld'
  BY <1>1 DEF LeaversHeld, LeaverHeld
<1> QED BY <1>2, <1>3, <1>4, <1>5, <1>7, <1>8, <1>9, <1>10

\* A request that is given the game's hub h, made for it or not.
LEMMA GameHubRoom ==
    ASSUME RoomInv, NEW c \in Conn, GameHubForUser(c)
    PROVE  RoomInv'
<1>1. /\ socket[c].at = "checked" /\ socket[c].hub = None
      /\ UNCHANGED <<doc, commands, connections, tombstone, gameClosed, channels>>
  BY DEF GameHubForUser, RoomInv, SocketsPlaced
<1>2. CASE ~BattleAllowed(UserOf[c])
  BY <1>1, <1>2, RefusedRoom DEF GameHubForUser, registry
<1>3. CASE BattleAllowed(UserOf[c])
  <2>1. PICK h \in Hub :
           /\ gameHub' = h
           /\ socket' = [socket EXCEPT ![c] = [at |-> "given", hub |-> h]]
           /\ \/ gameHub = h /\ hub' = hub
              \/ /\ gameHub = None /\ Unused(h)
                 /\ hub' = [hub EXCEPT ![h] = [Stopped EXCEPT !.running = TRUE]]
    BY <1>3 DEF GameHubForUser, RoomInv, TypeOK
  <2>2. /\ socket' \in [Conn -> SocketType]
        /\ socket'[c].at = "given" /\ socket'[c].hub = h
        /\ \A d \in Conn : d # c => socket'[d] = socket[d]
    BY <2>1, Types DEF SocketType
  <2>3. /\ hub' \in [Hub -> HubType]
        /\ \A g \in Hub : g # h => hub'[g] = hub[g]
        /\ \/ gameHub = h /\ hub' = hub
           \/ gameHub = None /\ hub'[h].clients = {} /\ hub'[h].revoked = {}
    <3>1. CASE gameHub = h /\ hub' = hub
      BY <3>1, Types
    <3>2. CASE /\ gameHub = None
               /\ hub' = [hub EXCEPT ![h] = [Stopped EXCEPT !.running = TRUE]]
      BY <3>2, Types DEF HubType, Stopped
    <3> QED BY <2>1, <3>1, <3>2
  <2>4. ~gameClosed /\ UserOf[c] \notin tombstone
    BY <1>3 DEF BattleAllowed
  <2> USE DEF RoomInv, doc, channels
  <2>5. TypeOK'
    BY <1>1, <2>1, <2>2, <2>3, Types, TypesNext DEF TypeOK
  <2>6. OneCommand' /\ CommandsPlaced'
    BY <1>1 DEF OneCommand, CommandsPlaced
  <2>7. SocketsPlaced'
    BY <1>1, <2>2, Types DEF SocketsPlaced
  <2>8. \A g \in Hub : \A d \in hub'[g].clients : d # c /\ d \in hub[g].clients /\ hub'[g] = hub[g]
    BY <1>1, <2>3, Types DEF ClientsPlaced
  <2>9. ClientsPlaced' /\ ChannelsPlaced' /\ SendsOpen'
    <3>1. ClientsPlaced'
      BY <1>1, <2>2, <2>8, Types DEF ClientsPlaced
    <3>2. ChannelsPlaced'
      BY <1>1, <2>2 DEF ChannelsPlaced, TypeOK
    <3>3. SendsOpen'
      BY <1>1, <2>8 DEF SendsOpen
    <3> QED BY <3>1, <3>2, <3>3
  <2>10. \A g \in Hub : Attached(g)' = Attached(g)
    <3>1. \A g \in Hub : c \in Attached(g)' <=> c \in Attached(g)
      BY <1>1, <2>2 DEF Attached
    <3> QED BY <2>2, <3>1, SameAttached
  <2>11. ~RoomClosed /\ ~RoomClosed'
    BY <1>1, <2>4 DEF ClosedForGood, RoomClosed
  <2>12. CountsExact' /\ ClosedForGood'
    BY <1>1, <2>4, <2>10, <2>11 DEF CountsExact, ClosedForGood
  <2>13. HubsServed' /\ HubWanted'
    <3>1. ASSUME NEW g \in Hub, g # h, hub'[g].running PROVE CloseCalled(g)'
      <4>1. CloseCalled(g)
        BY <2>1, <2>3, <3>1, RoomAssumption DEF HubsServed
      <4> QED BY <1>1, <2>2, <4>1 DEF CloseCalled
    <3>2. HubsServed'
      BY <2>1, <3>1 DEF HubsServed
    <3> QED BY <2>1, <2>2, <3>2 DEF HubWanted
  <2>14. ASSUME isActive, NEW d \in Conn, UserOf[d] \notin member PROVE LeaverHeld(d)'
    <3>1. socket'[d].at \in {"checked", "given"} => socket[d].at \in {"checked", "given"}
      BY <1>1, <2>2
    <3>2. d \in hub'[h].clients => gameHub = h /\ d \in hub[h].clients
      BY <2>3
    <3> QED BY <1>1, <2>1, <2>14, <3>1, <3>2, Types DEF LeaversHeld, LeaverHeld
  <2>15. ASSUME isActive, NEW u \in member PROVE JoinerFreed(u)'
    <3>1. u \in hub'[h].revoked => gameHub = h /\ u \in hub[h].revoked
      BY <2>3
    <3> QED BY <1>1, <2>1, <2>15, <3>1, Types DEF JoinersFreed, JoinerFreed
  <2>16. LeaversHeld' /\ JoinersFreed'
    BY <1>1, <2>14, <2>15 DEF LeaversHeld, JoinersFreed
  <2> QED BY <2>5, <2>6, <2>7, <2>9, <2>12, <2>13, <2>16
<1> QED BY <1>2, <1>3

LEMMA RegisterRoom ==
    ASSUME RoomInv, NEW c \in Conn, RegisterClient(c)
    PROVE  RoomInv'
<1>1. PICK h \in Hub :
      /\ socket[c].at = "given" /\ socket[c].hub = h
      /\ hub[h].running /\ ~gameClosed /\ UserOf[c] \notin tombstone
      /\ hub' = [hub EXCEPT ![h].clients = @ \cup {c}]
      /\ connections' = [connections EXCEPT ![h] = @ + 1]
      /\ SocketAt(c, "open")
      /\ UNCHANGED <<doc, commands, gameHub, tombstone, gameClosed, channels>>
  BY Types DEF RegisterClient, RoomInv, SocketsPlaced, BattleAllowed, Accepts, SocketType
<1>2. /\ socket' \in [Conn -> SocketType]
      /\ socket'[c].at = "open" /\ socket'[c].hub = h
      /\ \A d \in Conn : d # c => socket'[d] = socket[d]
  BY <1>1, SocketMoves
<1>3. /\ hub' \in [Hub -> HubType]
      /\ hub'[h].clients = hub[h].clients \cup {c}
      /\ \A g \in Hub : /\ hub'[g].running = hub[g].running
                        /\ hub'[g].revoked = hub[g].revoked
                        /\ g # h => hub'[g] = hub[g]
  BY <1>1, Types DEF HubType
<1>5. ~RoomClosed /\ ~RoomClosed'
  BY <1>1, <1>2 DEF RoomInv, ClosedForGood, RoomClosed, doc
<1>6. Attached(h)' = Attached(h) \cup {c} /\ \A g \in Hub : g # h => Attached(g)' = Attached(g)
  BY <1>1, <1>2 DEF Attached
<1>7. /\ connections[h] = Cardinality(Attached(h))
      /\ Cardinality(Attached(h)') = connections[h] + 1
      /\ connections[h] + 1 \in 0 .. Cardinality(Conn)
  <2>1. connections[h] = Cardinality(Attached(h))
    BY <1>1, <1>5 DEF RoomInv, CountsExact
  <2>2. IsFiniteSet(Attached(h)) /\ c \notin Attached(h)
    BY <1>1, RoomAssumption, FS_Subset DEF Attached
  <2>3. Cardinality(Attached(h) \cup {c}) = Cardinality(Attached(h)) + 1
    BY <2>2, FS_AddElement
  <2>4. Cardinality(Attached(h)') <= Cardinality(Conn)
    <3>1. Attached(h)' \subseteq Conn
      BY DEF Attached
    <3> QED BY <3>1, RoomAssumption, FS_Subset
  <2> QED BY <1>1, <1>6, <2>1, <2>3, <2>4, Types
<1>8. /\ connections' \in [Hub -> 0 .. Cardinality(Conn)]
      /\ connections'[h] = connections[h] + 1
      /\ \A g \in Hub : g # h => connections'[g] = connections[g]
  BY <1>1, <1>7, Types
<1> USE DEF RoomInv, doc, channels
<1>9. TypeOK'
  BY <1>1, <1>2, <1>3, <1>8, Types, TypesNext DEF TypeOK
<1>10. OneCommand' /\ CommandsPlaced'
  BY <1>1 DEF OneCommand, CommandsPlaced
<1>11. SocketsPlaced'
  BY <1>1, <1>2, Types DEF SocketsPlaced
<1>12. c \notin sendClosed
  BY <1>1 DEF ChannelsPlaced
<1>13. ClientsPlaced'
  <2> SUFFICES ASSUME NEW g \in Hub, NEW d \in hub'[g].clients
               PROVE  /\ hub'[g].running /\ socket'[d].hub = g
                      /\ socket'[d].at \in {"open", "leaving"}
    BY DEF ClientsPlaced
  <2>1. CASE d = c
    <3>1. c \notin hub[g].clients
      BY <1>1 DEF ClientsPlaced
    <3> QED BY <1>1, <1>2, <1>3, <2>1, <3>1
  <2>2. CASE d # c
    BY <1>2, <1>3, <2>2, Types DEF ClientsPlaced
  <2> QED BY <2>1, <2>2
<1>14. ChannelsPlaced' /\ SendsOpen'
  BY <1>1, <1>2, <1>3, <1>12 DEF ChannelsPlaced, SendsOpen, TypeOK
<1>15. CountsExact' /\ ClosedForGood'
  <2>1. ASSUME NEW g \in Hub PROVE connections'[g] = Cardinality(Attached(g)')
    <3>1. CASE g = h
      BY <1>7, <1>8, <3>1
    <3>2. CASE g # h
      <4>1. connections[g] = Cardinality(Attached(g))
        BY <1>5 DEF CountsExact
      <4>2. Attached(g)' = Attached(g) /\ connections'[g] = connections[g]
        BY <1>6, <1>8, <3>2
      <4> QED BY <4>1, <4>2
    <3> QED BY <3>1, <3>2
  <2> QED BY <1>1, <1>5, <2>1 DEF CountsExact, ClosedForGood
<1>16. HubsServed' /\ HubWanted'
  <2>1. ASSUME NEW g \in Hub, CloseCalled(g) PROVE CloseCalled(g)'
    BY <1>1, <1>2, <2>1 DEF CloseCalled
  <2>2. HubsServed'
    BY <1>1, <1>3, <2>1 DEF HubsServed
  <2>3. HubWanted'
    BY <1>1, <1>2 DEF HubWanted
  <2> QED BY <2>2, <2>3
<1>17. ASSUME isActive, NEW d \in Conn, UserOf[d] \notin member PROVE LeaverHeld(d)'
  <2>1. CASE d = c
    BY <1>1, <1>2, <1>17, <2>1 DEF LeaversHeld, LeaverHeld
  <2>2. CASE d # c
    <3>1. gameHub # None => gameHub \in Hub
      BY DEF TypeOK
    <3> QED BY <1>1, <1>2, <1>3, <1>17, <2>2, <3>1 DEF LeaversHeld, LeaverHeld
  <2> QED BY <2>1, <2>2
<1>18. LeaversHeld' /\ JoinersFreed'
  <2>1. gameHub # None => gameHub \in Hub
    BY DEF TypeOK
  <2> QED BY <1>1, <1>3, <1>17, <2>1 DEF LeaversHeld, JoinersFreed, JoinerFreed
<1> QED BY <1>9, <1>10, <1>11, <1>13, <1>14, <1>15, <1>16, <1>18

LEMMA RejectRoom ==
    ASSUME RoomInv, NEW c \in Conn, RejectClient(c)
    PROVE  RoomInv'
<1>1. /\ socket[c].at = "given" /\ socket[c].hub # None
      /\ UNCHANGED <<doc, commands, connections, tombstone, gameClosed, hub, channels>>
  BY DEF RejectClient, RoomInv, SocketsPlaced
<1>2. CASE ~(gameHub = socket[c].hub /\ connections[gameHub] = 0)
  BY <1>1, <1>2, RefusedRoom DEF RejectClient, registry
<1>3. CASE gameHub = socket[c].hub /\ connections[gameHub] = 0
  <2>1. gameHub' = None /\ SocketAt(c, "closing")
    BY <1>3 DEF RejectClient
  <2>2. /\ socket' \in [Conn -> SocketType]
        /\ socket'[c].at = "closing" /\ socket'[c].hub = socket[c].hub
        /\ \A d \in Conn : d # c => socket'[d] = socket[d]
    BY <2>1, SocketMoves
  <2> USE DEF RoomInv, doc, channels
  <2>3. TypeOK'
    BY <1>1, <2>1, <2>2, Types, TypesNext DEF TypeOK
  <2>4. OneCommand' /\ CommandsPlaced' /\ SendsOpen' /\ HubWanted'
    BY <1>1, <2>1 DEF OneCommand, CommandsPlaced, SendsOpen, HubWanted
  <2>5. SocketsPlaced'
    BY <1>1, <2>2 DEF SocketsPlaced
  <2>6. ClientsPlaced' /\ ChannelsPlaced'
    <3>1. c \notin sendClosed /\ \A h \in Hub : c \notin hub[h].clients
      BY <1>1 DEF ClientsPlaced, ChannelsPlaced
    <3> QED BY <1>1, <2>2, <3>1, Types DEF ClientsPlaced, ChannelsPlaced, TypeOK
  <2>7. \A h \in Hub : Attached(h)' = Attached(h)
    <3>1. \A h \in Hub : c \in Attached(h)' <=> c \in Attached(h)
      BY <1>1, <2>2 DEF Attached
    <3> QED BY <2>2, <3>1, SameAttached
  <2>8. CountsExact' /\ ClosedForGood'
    BY <1>1, <2>1, <2>2, <2>7 DEF CountsExact, ClosedForGood, RoomClosed
  <2>9. HubsServed'
    <3> SUFFICES ASSUME NEW h \in Hub, hub[h].running PROVE CloseCalled(h)'
      BY <1>1 DEF HubsServed
    <3>1. CASE gameHub = h
      BY <1>3, <2>2, <3>1 DEF CloseCalled
    <3>2. CASE gameHub # h
      BY <1>1, <2>2, <3>2 DEF HubsServed, CloseCalled
    <3> QED BY <3>1, <3>2
  <2>10. LeaversHeld' /\ JoinersFreed'
    BY <1>1, <2>1, <2>2 DEF LeaversHeld, LeaverHeld, JoinersFreed, JoinerFreed
  <2> QED BY <2>3, <2>4, <2>5, <2>6, <2>8, <2>9, <2>10
<1> QED BY <1>2, <1>3

LEMMA ReadPumpRoom ==
    ASSUME RoomInv, NEW c \in Conn, ReadPumpEnds(c)
    PROVE  RoomInv'
<1>1. /\ socket[c].at = "open" /\ SocketAt(c, "leaving")
      /\ UNCHANGED <<doc, commands, registry, hub, channels>>
  BY DEF ReadPumpEnds
<1>2. /\ socket' \in [Conn -> SocketType]
      /\ socket'[c].at = "leaving" /\ socket'[c].hub = socket[c].hub
      /\ \A d \in Conn : d # c => socket'[d] = socket[d]
  BY <1>1, SocketMoves
<1> USE DEF RoomInv, doc, registry, channels
<1>3. TypeOK'
  BY <1>1, <1>2, Types, TypesNext DEF TypeOK
<1>4. OneCommand' /\ CommandsPlaced' /\ SendsOpen' /\ JoinersFreed'
  BY <1>1 DEF OneCommand, CommandsPlaced, SendsOpen, JoinersFreed, JoinerFreed
<1>5. SocketsPlaced'
  BY <1>1, <1>2 DEF SocketsPlaced
<1>6. ClientsPlaced' /\ ChannelsPlaced'
  <2>1. ASSUME NEW d \in Conn, socket[d].at \in {"open", "leaving"}
        PROVE  socket'[d].at \in {"open", "leaving"} /\ socket'[d].hub = socket[d].hub
    BY <1>1, <1>2, <2>1
  <2>2. ClientsPlaced'
    BY <1>1, <2>1, Types DEF ClientsPlaced
  <2>3. ChannelsPlaced'
    BY <1>1, <1>2 DEF ChannelsPlaced, TypeOK
  <2> QED BY <2>2, <2>3
<1>7. \A h \in Hub : Attached(h)' = Attached(h)
  <2>1. \A h \in Hub : c \in Attached(h)' <=> c \in Attached(h)
    BY <1>1, <1>2 DEF Attached
  <2> QED BY <1>2, <2>1, SameAttached
<1>8. CountsExact' /\ ClosedForGood'
  BY <1>1, <1>2, <1>7 DEF CountsExact, ClosedForGood, RoomClosed
<1>9. HubsServed' /\ HubWanted'
  BY <1>1, <1>2 DEF HubsServed, HubWanted, CloseCalled
<1>10. LeaversHeld'
  BY <1>1, <1>2 DEF LeaversHeld, LeaverHeld
<1> QED BY <1>3, <1>4, <1>5, <1>6, <1>8, <1>9, <1>10

\* Clients S of h are taken out; nothing else changes in the hubs.
LEMMA TakenOut ==
    ASSUME RoomInv, NEW h \in Hub, NEW S, S \subseteq hub[h].clients, Remove(h, S),
           UNCHANGED <<doc, commands, registry>>,
           socket' \in [Conn -> SocketType],
           \A c \in Conn :
              /\ socket'[c].hub = socket[c].hub
              /\ \/ socket'[c] = socket[c]
                 \/ /\ socket[c].at = "leaving" /\ socket'[c].at = "left"
                    /\ c \in hub[h].clients => c \in S
                    /\ \A g \in Hub : g # h => c \notin hub[g].clients
    PROVE  RoomInv'
<1>1. /\ hub' \in [Hub -> HubType] /\ sendClosed' = sendClosed \cup S /\ panicked' = panicked
      /\ \A g \in Hub : /\ hub'[g].running = hub[g].running
                        /\ hub'[g].revoked = hub[g].revoked
                        /\ hub'[g].clients \subseteq hub[g].clients
      /\ hub'[h].clients = hub[h].clients \ S
  BY ClientsRemoved, Types
<1>2. S \subseteq Conn /\ \A c \in S : socket[c].hub = h /\ socket[c].at \in {"open", "leaving"}
  BY Types DEF RoomInv, ClientsPlaced
<1> USE DEF RoomInv, doc, registry
<1>3. TypeOK'
  BY <1>1, <1>2, Types, TypesNext DEF TypeOK
<1>4. OneCommand' /\ CommandsPlaced'
  BY DEF OneCommand, CommandsPlaced
<1>5. SocketsPlaced'
  <2> SUFFICES ASSUME NEW c \in Conn
               PROVE  socket'[c].at \in {"idle", "checked"} <=> socket[c].at \in {"idle", "checked"}
    BY DEF SocketsPlaced
  <2> QED OBVIOUS
<1>6. ClientsPlaced'
  <2> SUFFICES ASSUME NEW g \in Hub, NEW c \in hub'[g].clients
               PROVE  socket'[c] = socket[c]
    BY <1>1 DEF ClientsPlaced
  <2>1. c \in hub[g].clients /\ c \in Conn /\ (g = h => c \notin S)
    BY <1>1, Types
  <2> QED BY <2>1
<1>7. ChannelsPlaced' /\ SendsOpen'
  <2>1. ChannelsPlaced'
    BY <1>1, <1>2 DEF ChannelsPlaced, TypeOK
  <2>2. ASSUME NEW g \in Hub, NEW c \in hub'[g].clients PROVE c \notin sendClosed'
    <3>1. c \in hub[g].clients /\ c \notin sendClosed /\ (g = h => c \notin S)
      BY <1>1 DEF SendsOpen
    <3>2. socket[c].hub = g
      BY <3>1 DEF ClientsPlaced
    <3> QED BY <1>1, <1>2, <3>1, <3>2
  <2> QED BY <1>1, <2>1, <2>2 DEF SendsOpen
<1>8. \A g \in Hub : Attached(g)' = Attached(g)
  <2> SUFFICES ASSUME NEW g \in Hub, NEW c \in Conn
               PROVE  c \in Attached(g)' <=> c \in Attached(g)
    BY DEF Attached
  <2> QED BY DEF Attached
<1>9. CountsExact' /\ ClosedForGood'
  <2>1. RoomClosed' <=> RoomClosed
    BY DEF RoomClosed
  <2>2. \A c \in Conn : socket'[c].at \in {"checked", "given"} => socket[c].at \in {"checked", "given"}
    OBVIOUS
  <2> QED BY <1>8, <2>1, <2>2 DEF CountsExact, ClosedForGood
<1>10. HubsServed'
  <2>1. ASSUME NEW g \in Hub, CloseCalled(g) PROVE CloseCalled(g)'
    BY <2>1 DEF CloseCalled
  <2> QED BY <1>1, <2>1 DEF HubsServed
<1>11. HubWanted'
  <2> SUFFICES ASSUME NEW c \in Conn, socket[c].at \in {"given", "open", "leaving", "left"}
               PROVE  socket'[c].at \in {"given", "open", "leaving", "left"}
    BY DEF HubWanted
  <2> QED OBVIOUS
<1>12. gameHub # None => gameHub \in Hub
  BY DEF TypeOK
<1>13. LeaversHeld'
  <2> SUFFICES ASSUME isActive, NEW c \in Conn, UserOf[c] \notin member PROVE LeaverHeld(c)'
    BY DEF LeaversHeld
  <2>1. LeaverHeld(c)
    BY DEF LeaversHeld
  <2>2. socket'[c].at \in {"checked", "given"} => socket[c].at \in {"checked", "given"}
    OBVIOUS
  <2> QED BY <1>1, <1>12, <2>1, <2>2 DEF LeaverHeld
<1>14. JoinersFreed'
  BY <1>1, <1>12 DEF JoinersFreed, JoinerFreed
<1> QED BY <1>3, <1>4, <1>5, <1>6, <1>7, <1>9, <1>10, <1>11, <1>13, <1>14

LEMMA UnregisterRoom ==
    ASSUME RoomInv, NEW c \in Conn, Unregister(c)
    PROVE  RoomInv'
<1> DEFINE h == socket[c].hub
           S == {c} \cap hub[h].clients
<1>1. /\ socket[c].at = "leaving" /\ h \in Hub /\ SocketAt(c, "left")
      /\ UNCHANGED <<doc, commands, registry>>
  BY Types DEF Unregister, RoomInv, SocketsPlaced, SocketType
<1>2. /\ socket' \in [Conn -> SocketType]
      /\ socket'[c].at = "left" /\ socket'[c].hub = socket[c].hub
      /\ \A d \in Conn : d # c => socket'[d] = socket[d]
  BY <1>1, SocketMoves
<1>3. Remove(h, S)
  <2>1. CASE hub[h].running
    BY <2>1 DEF Unregister
  <2>2. CASE ~hub[h].running
    <3>1. S = {}
      BY <1>1, <2>2, Types DEF RoomInv, ClientsPlaced
    <3> HIDE DEF S
    <3>2. hub' = hub /\ sendClosed' = sendClosed /\ panicked' = FALSE /\ panicked = FALSE
      BY <2>2 DEF Unregister, channels, RoomInv, TypeOK, SendsOpen
    <3>3. hub = [hub EXCEPT ![h].clients = @ \ {}]
      BY <1>1, Types DEF HubType
    <3>4. hub' = [hub EXCEPT ![h].clients = @ \ S]
      BY <3>1, <3>2, <3>3
    <3>5. CloseSend(S)
      BY <3>1, <3>2 DEF CloseSend
    <3> QED BY <3>4, <3>5 DEF Remove
  <2> QED BY <2>1, <2>2
<1>4. /\ S \subseteq hub[h].clients /\ (c \in hub[h].clients => c \in S)
      /\ \A g \in Hub : g # h => c \notin hub[g].clients
  BY DEF RoomInv, ClientsPlaced
<1> HIDE DEF S, h
<1>5. \A d \in Conn :
         /\ socket'[d].hub = socket[d].hub
         /\ \/ socket'[d] = socket[d]
            \/ /\ socket[d].at = "leaving" /\ socket'[d].at = "left"
               /\ d \in hub[h].clients => d \in S
               /\ \A g \in Hub : g # h => d \notin hub[g].clients
  BY <1>1, <1>2, <1>4
<1> QED BY <1>1, <1>2, <1>3, <1>4, <1>5, TakenOut

LEMMA BroadcastRoom ==
    ASSUME RoomInv, NEW h \in Hub, NEW full \in SUBSET Conn, Broadcast(h, full)
    PROVE  RoomInv'
<1>1. /\ full \subseteq hub[h].clients /\ Remove(h, full)
      /\ UNCHANGED <<doc, commands, registry>> /\ socket' = socket
  BY DEF Broadcast
<1>2. socket' \in [Conn -> SocketType]
  BY <1>1, Types
<1> QED BY <1>1, <1>2, TakenOut

LEMMA ConnectionClosedRoom ==
    ASSUME RoomInv, NEW c \in Conn, ConnectionClosed(c)
    PROVE  RoomInv'
<1>1. PICK h \in Hub : socket[c].at = "left" /\ socket[c].hub = h
  BY Types DEF ConnectionClosed, RoomInv, SocketsPlaced, SocketType
<1>2. /\ sendClosed' = sendClosed \ {c}
      /\ UNCHANGED <<doc, commands, tombstone, gameClosed, hub, panicked>>
      /\ \/ /\ connections[h] > 1 /\ connections' = [connections EXCEPT ![h] = @ - 1]
            /\ SocketOver(c) /\ gameHub' = gameHub
         \/ /\ connections[h] <= 1 /\ connections' = [connections EXCEPT ![h] = 0]
            /\ gameHub = h /\ gameHub' = None /\ SocketAt(c, "closing")
         \/ /\ connections[h] <= 1 /\ connections' = [connections EXCEPT ![h] = 0]
            /\ gameHub # h /\ gameHub' = gameHub /\ SocketOver(c)
  BY <1>1 DEF ConnectionClosed
<1>3. /\ socket' \in [Conn -> SocketType]
      /\ \/ socket'[c].at = "idle" /\ socket'[c].hub = None /\ gameHub' = gameHub
         \/ /\ socket'[c].at = "closing" /\ socket'[c].hub = h
            /\ gameHub = h /\ gameHub' = None
      /\ \A d \in Conn : d # c => socket'[d] = socket[d]
  <2>1. CASE SocketOver(c) /\ gameHub' = gameHub
    BY <2>1, SocketEnds
  <2>2. CASE SocketAt(c, "closing") /\ gameHub = h /\ gameHub' = None
    BY <1>1, <2>2, SocketMoves
  <2> QED BY <1>2, <2>1, <2>2
<1>4. /\ connections' \in [Hub -> 0 .. Cardinality(Conn)]
      /\ connections'[h] = IF connections[h] > 1 THEN connections[h] - 1 ELSE 0
      /\ \A g \in Hub : g # h => connections'[g] = connections[g]
  BY <1>2, Types
<1>5. /\ IsFiniteSet(Attached(h)) /\ c \in Attached(h)
      /\ Cardinality(Attached(h)) \in Nat \ {0}
      /\ Cardinality(Attached(h) \ {c}) = Cardinality(Attached(h)) - 1
  <2>1. IsFiniteSet(Attached(h)) /\ c \in Attached(h)
    BY <1>1, RoomAssumption, FS_Subset DEF Attached
  <2> QED BY <2>1, FS_RemoveElement, FS_CardinalityType, FS_EmptySet
<1>6. /\ Attached(h)' = Attached(h) \ {c}
      /\ \A g \in Hub : g # h => Attached(g)' = Attached(g)
  BY <1>1, <1>3 DEF Attached
<1> USE DEF RoomInv, doc
<1>7. TypeOK'
  BY <1>2, <1>3, <1>4, Types, TypesNext DEF TypeOK
<1>8. OneCommand' /\ CommandsPlaced'
  BY <1>2 DEF OneCommand, CommandsPlaced
<1>9. SocketsPlaced'
  BY <1>1, <1>3, RoomAssumption DEF SocketsPlaced
<1>10. ClientsPlaced' /\ ChannelsPlaced' /\ SendsOpen'
  <2>1. \A g \in Hub : c \notin hub[g].clients
    BY <1>1 DEF ClientsPlaced
  <2>2. ClientsPlaced'
    BY <1>2, <1>3, <2>1, Types DEF ClientsPlaced
  <2>3. ChannelsPlaced'
    BY <1>2, <1>3 DEF ChannelsPlaced, TypeOK
  <2> QED BY <1>2, <2>2, <2>3 DEF SendsOpen
<1>11. RoomClosed' <=> RoomClosed
  BY <1>2 DEF RoomClosed
<1>12. CountsExact'
  <2> SUFFICES ASSUME NEW g \in Hub
               PROVE  \/ connections'[g] = Cardinality(Attached(g)')
                      \/ connections'[g] = 0 /\ RoomClosed
    BY <1>11 DEF CountsExact
  <2>1. CASE g = h
    <3>1. \/ connections[h] = Cardinality(Attached(h))
          \/ connections[h] = 0 /\ RoomClosed
      BY DEF CountsExact
    <3>2. Cardinality(Attached(h)') = Cardinality(Attached(h)) - 1
      BY <1>5, <1>6
    <3> QED BY <1>4, <1>5, <2>1, <3>1, <3>2
  <2>2. CASE g # h
    <3>1. Attached(g)' = Attached(g) /\ connections'[g] = connections[g]
      BY <1>4, <1>6, <2>2
    <3> QED BY <3>1 DEF CountsExact
  <2> QED BY <2>1, <2>2
<1>13. ClosedForGood'
  BY <1>2, <1>3, <1>11 DEF ClosedForGood
<1>14. HubsServed'
  <2>1. ASSUME NEW g \in Hub, CloseCalled(g) PROVE CloseCalled(g)'
    BY <1>1, <1>2, <1>3, <2>1 DEF CloseCalled
  <2>2. gameHub' # gameHub => gameHub = h /\ CloseCalled(h)'
    BY <1>3 DEF CloseCalled
  <2> QED BY <1>2, <2>1, <2>2 DEF HubsServed
<1>15. HubWanted'
  <2> SUFFICES ASSUME gameHub' # None
               PROVE  \E d \in Conn : /\ socket'[d].hub = gameHub
                                      /\ socket'[d].at \in {"given", "open", "leaving", "left"}
    BY <1>3 DEF HubWanted
  <2>1. CASE gameHub = h
    <3>1. connections[h] > 1 /\ gameHub' = gameHub
      BY <1>2, <2>1
    <3>2. Cardinality(Attached(h) \ {c}) # 0
      BY <1>5, <3>1, Types DEF CountsExact
    <3>3. PICK d \in Attached(h) : d # c
      BY <3>2, FS_EmptySet
    <3> QED BY <1>3, <2>1, <3>3 DEF Attached
  <2>2. CASE gameHub # h
    <3>1. gameHub # None
      BY <1>3
    <3>2. PICK d \in Conn : /\ socket[d].hub = gameHub
                            /\ socket[d].at \in {"given", "open", "leaving", "left"}
      BY <3>1 DEF HubWanted
    <3> QED BY <1>1, <1>3, <2>2, <3>2
  <2> QED BY <2>1, <2>2
<1>16. LeaversHeld' /\ JoinersFreed'
  <2>1. gameHub' # None => gameHub' = gameHub
    BY <1>3
  <2>2. \A d \in Conn : socket'[d].at \in {"checked", "given"} => socket[d].at \in {"checked", "given"}
    BY <1>3
  <2>3. LeaversHeld'
    BY <1>2, <2>1, <2>2 DEF LeaversHeld, LeaverHeld
  <2>4. JoinersFreed'
    BY <1>2, <2>1 DEF JoinersFreed, JoinerFreed
  <2> QED BY <2>3, <2>4
<1> QED BY <1>7, <1>8, <1>9, <1>10, <1>12, <1>13, <1>14, <1>15, <1>16

LEMMA SocketClosedRoom ==
    ASSUME RoomInv, NEW c \in Conn, SocketClosedHub(c)
    PROVE  RoomInv'
<1>1. /\ socket[c].at = "closing" /\ ~hub[socket[c].hub].running /\ SocketOver(c)
      /\ UNCHANGED <<doc, commands, registry, hub, channels>>
  BY DEF SocketClosedHub
<1>2. /\ socket' \in [Conn -> SocketType]
      /\ socket'[c].at = "idle" /\ socket'[c].hub = None
      /\ \A d \in Conn : d # c => socket'[d] = socket[d]
  BY <1>1, SocketEnds
<1> USE DEF RoomInv, doc, registry, channels
<1>3. TypeOK'
  BY <1>1, <1>2, Types, TypesNext DEF TypeOK
<1>4. OneCommand' /\ CommandsPlaced' /\ SendsOpen' /\ JoinersFreed'
  BY <1>1 DEF OneCommand, CommandsPlaced, SendsOpen, JoinersFreed, JoinerFreed
<1>5. SocketsPlaced'
  BY <1>1, <1>2 DEF SocketsPlaced
<1>6. ClientsPlaced' /\ ChannelsPlaced'
  <2>1. c \notin sendClosed /\ \A h \in Hub : c \notin hub[h].clients
    BY <1>1 DEF ClientsPlaced, ChannelsPlaced
  <2> QED BY <1>1, <1>2, <2>1, Types DEF ClientsPlaced, ChannelsPlaced, TypeOK
<1>7. \A h \in Hub : Attached(h)' = Attached(h)
  <2>1. \A h \in Hub : c \in Attached(h)' <=> c \in Attached(h)
    BY <1>1, <1>2 DEF Attached
  <2> QED BY <1>2, <2>1, SameAttached
<1>8. CountsExact' /\ ClosedForGood'
  BY <1>1, <1>2, <1>7 DEF CountsExact, ClosedForGood, RoomClosed
<1>9. HubsServed' /\ HubWanted'
  <2>1. ASSUME NEW h \in Hub, hub[h].running, CloseCalled(h) PROVE CloseCalled(h)'
    BY <1>1, <1>2, <2>1 DEF CloseCalled
  <2>2. HubWanted'
    BY <1>1, <1>2 DEF HubWanted
  <2> QED BY <1>1, <2>1, <2>2 DEF HubsServed
<1>10. LeaversHeld'
  BY <1>1, <1>2 DEF LeaversHeld, LeaverHeld
<1> QED BY <1>3, <1>4, <1>5, <1>6, <1>8, <1>9, <1>10

-----------------------------------------------------------------------------
(* Hubs and time *)

LEMMA ShutdownRoom ==
    ASSUME RoomInv, NEW h \in Hub, Shutdown(h)
    PROVE  RoomInv'
<1> DEFINE S == hub[h].clients
<1>1. /\ hub' = [hub EXCEPT ![h] = Stopped] /\ CloseSend(S)
      /\ UNCHANGED <<doc, commands, registry, socket>>
  BY DEF Shutdown
<1>2. /\ hub' \in [Hub -> HubType]
      /\ ~hub'[h].running /\ hub'[h].clients = {} /\ hub'[h].revoked = {}
      /\ \A g \in Hub : g # h => hub'[g] = hub[g]
  BY <1>1, Types DEF HubType, Stopped
<1>3. S \subseteq Conn /\ \A c \in S : socket[c].hub = h /\ socket[c].at \in {"open", "leaving"}
  BY Types DEF RoomInv, ClientsPlaced
<1>4. sendClosed' = sendClosed \cup S /\ panicked' = FALSE
  BY <1>1 DEF CloseSend, RoomInv, TypeOK, SendsOpen
<1> HIDE DEF S
<1> USE DEF RoomInv, doc, registry
<1>5. TypeOK'
  BY <1>1, <1>2, <1>3, <1>4, Types, TypesNext DEF TypeOK
<1>6. OneCommand' /\ CommandsPlaced' /\ ClosedForGood' /\ HubWanted'
  BY <1>1 DEF OneCommand, CommandsPlaced, ClosedForGood, RoomClosed, HubWanted
<1>7. SocketsPlaced' /\ CountsExact'
  BY <1>1, SocketsStay DEF RoomClosed
<1>8. ClientsPlaced' /\ ChannelsPlaced' /\ SendsOpen'
  <2>1. ClientsPlaced'
    BY <1>1, <1>2 DEF ClientsPlaced
  <2>2. ChannelsPlaced'
    BY <1>1, <1>3, <1>4 DEF ChannelsPlaced
  <2>3. ASSUME NEW g \in Hub, NEW c \in hub'[g].clients PROVE c \notin sendClosed'
    <3>1. g # h /\ c \in hub[g].clients /\ c \notin sendClosed
      BY <1>2 DEF SendsOpen
    <3>2. socket[c].hub = g
      BY <3>1 DEF ClientsPlaced
    <3> QED BY <1>3, <1>4, <3>1, <3>2
  <2> QED BY <1>4, <2>1, <2>2, <2>3 DEF SendsOpen
<1>9. HubsServed'
  BY <1>1, <1>2 DEF HubsServed, CloseCalled
<1>10. gameHub # None => gameHub \in Hub
  BY DEF TypeOK
<1>11. LeaversHeld' /\ JoinersFreed'
  <2>1. \A g \in Hub : hub'[g].clients \subseteq hub[g].clients /\ hub'[g].revoked \subseteq hub[g].revoked
    BY <1>2
  <2>2. LeaversHeld'
    BY <1>1, <1>10, <2>1 DEF LeaversHeld, LeaverHeld
  <2>3. JoinersFreed'
    BY <1>1, <1>10, <2>1 DEF JoinersFreed, JoinerFreed
  <2> QED BY <2>2, <2>3
<1> QED BY <1>5, <1>6, <1>7, <1>8, <1>9, <1>11

LEMMA TombstoneRoom ==
    ASSUME RoomInv, NEW u \in User, TombstoneExpires(u)
    PROVE  RoomInv'
<1>1. /\ \A k \in commands : k.user # u
      /\ \A c \in Conn : UserOf[c] = u => socket[c].at \notin {"checked", "given"}
      /\ tombstone' = tombstone \ {u}
      /\ hub' = [h \in Hub |-> [hub[h] EXCEPT !.revoked = @ \ {u}]]
      /\ UNCHANGED <<doc, commands, gameHub, connections, gameClosed, socket, channels>>
  BY DEF TombstoneExpires
<1>2. /\ hub' \in [Hub -> HubType]
      /\ \A h \in Hub : /\ hub'[h].running = hub[h].running
                        /\ hub'[h].clients = hub[h].clients
                        /\ hub'[h].revoked = hub[h].revoked \ {u}
  BY <1>1, Types DEF HubType
<1> USE DEF RoomInv, doc, channels
<1>3. TypeOK'
  BY <1>1, <1>2, Types, TypesNext DEF TypeOK
<1>4. OneCommand' /\ CommandsPlaced' /\ ClosedForGood' /\ HubWanted'
  BY <1>1 DEF OneCommand, CommandsPlaced, ClosedForGood, RoomClosed, HubWanted
<1>5. SocketsPlaced' /\ CountsExact'
  BY <1>1, SocketsStay DEF RoomClosed
<1>6. ClientsPlaced' /\ ChannelsPlaced' /\ SendsOpen'
  BY <1>1, <1>2 DEF ClientsPlaced, ChannelsPlaced, SendsOpen
<1>7. HubsServed'
  BY <1>1, <1>2 DEF HubsServed, CloseCalled
<1>8. gameHub # None => gameHub \in Hub
  BY DEF TypeOK
<1>9. ASSUME isActive, NEW c \in Conn, UserOf[c] \notin member PROVE LeaverHeld(c)'
  <2>1. CASE UserOf[c] = u
    BY <1>1, <1>2, <1>8, <1>9, <2>1 DEF LeaversHeld, LeaverHeld
  <2>2. CASE UserOf[c] # u
    BY <1>1, <1>2, <1>8, <1>9, <2>2 DEF LeaversHeld, LeaverHeld
  <2> QED BY <2>1, <2>2
<1>10. LeaversHeld' /\ JoinersFreed'
  BY <1>1, <1>2, <1>8, <1>9 DEF LeaversHeld, JoinersFreed, JoinerFreed
<1> QED BY <1>3, <1>4, <1>5, <1>6, <1>7, <1>10

LEMMA ClosureRoom ==
    ASSUME RoomInv, ClosureExpires
    PROVE  RoomInv'
<1>1. /\ \A c \in Conn : socket[c].at \notin {"checked", "given"}
      /\ gameClosed' = FALSE
      /\ UNCHANGED <<doc, commands, gameHub, connections, tombstone, hub, socket, channels>>
  BY DEF ClosureExpires
<1> USE DEF RoomInv, doc, channels
<1>2. TypeOK'
  BY <1>1, Types, TypesNext DEF TypeOK
<1>3. SocketsPlaced' /\ CountsExact'
  BY <1>1, SocketsStay DEF RoomClosed
<1>4. OneCommand' /\ CommandsPlaced' /\ ClosedForGood'
  BY <1>1 DEF OneCommand, CommandsPlaced, ClosedForGood, RoomClosed
<1>5. ClientsPlaced' /\ ChannelsPlaced' /\ SendsOpen' /\ HubsServed' /\ HubWanted'
  BY <1>1 DEF ClientsPlaced, ChannelsPlaced, SendsOpen, HubsServed, CloseCalled, HubWanted
<1>6. LeaversHeld' /\ JoinersFreed'
  BY <1>1 DEF LeaversHeld, LeaverHeld, JoinersFreed, JoinerFreed
<1> QED BY <1>2, <1>3, <1>4, <1>5, <1>6

-----------------------------------------------------------------------------
(* The theorems *)

LEMMA NextRoom == RoomInv /\ [Next]_vars => RoomInv'
<1> SUFFICES ASSUME RoomInv, [Next]_vars PROVE RoomInv'
  OBVIOUS
<1>1. CASE UNCHANGED vars
  <2> USE <1>1 DEF vars, doc, registry, channels, RoomInv
  <2>1. SocketsPlaced' /\ CountsExact'
    BY SocketsStay DEF RoomClosed
  <2>2. TypeOK' /\ OneCommand' /\ CommandsPlaced' /\ ClientsPlaced' /\ ChannelsPlaced' /\ SendsOpen'
    BY DEF TypeOK, OneCommand, CommandsPlaced, ClientsPlaced, ChannelsPlaced, SendsOpen
  <2>3. ClosedForGood' /\ HubsServed' /\ HubWanted'
    BY DEF ClosedForGood, RoomClosed, HubsServed, CloseCalled, HubWanted
  <2>4. LeaversHeld' /\ JoinersFreed'
    BY DEF LeaversHeld, LeaverHeld, JoinersFreed, JoinerFreed
  <2> QED BY <2>1, <2>2, <2>3, <2>4
<1>2. CASE \E u \in User : JoinGame(u) \/ ExitGame(u) \/ TombstoneExpires(u)
  BY <1>2, JoinGameRoom, ExitGameRoom, TombstoneRoom
<1>3. CASE \E k \in commands : CommandStep(k)
  BY <1>3, DisconnectRoom, RevokeRoom, AllowRoom, GrantUserRoom, CloseGameHubRoom,
     CommandClosedRoom DEF CommandStep
<1>4. CASE \E c \in Conn : CanAccessBattle(c) \/ RequestStep(c) \/ ReadPumpEnds(c) \/ LeaveStep(c)
  BY <1>4, CanAccessRoom, GameHubRoom, RegisterRoom, RejectRoom, ReadPumpRoom, UnregisterRoom,
     ConnectionClosedRoom, SocketClosedRoom DEF RequestStep, LeaveStep
<1>5. CASE \E h \in Hub : Shutdown(h) \/ \E full \in SUBSET Conn : Broadcast(h, full)
  BY <1>5, ShutdownRoom, BroadcastRoom
<1>6. CASE ClosureExpires
  BY <1>6, ClosureRoom
<1> QED BY <1>1, <1>2, <1>3, <1>4, <1>5, <1>6 DEF Next

\* However commands, requests, sockets, hubs and expiries interleave, the registry's
\* counts, the hubs' clients and the sockets agree.
THEOREM RoomInvariant == Spec => []RoomInv
<1> QED BY InitRoom, NextRoom, PTL DEF Spec

\* In particular the connection counts stay between zero and the number of sockets.
THEOREM RoomTypeCorrect == Spec => []TypeOK
<1>1. RoomInv => TypeOK
  BY DEF RoomInv
<1> QED BY <1>1, RoomInvariant, PTL

\* No order of unregistering, revoking, a full buffer and shutting down closes a send
\* channel twice or leaves a closed one among a hub's clients: the hub never panics.
THEOREM NoPanicHolds == Spec => []NoPanic
<1>1. RoomInv => NoPanic
  BY DEF RoomInv, SendsOpen, NoPanic
<1> QED BY <1>1, RoomInvariant, PTL

\* Every running hub is the game's or is being closed, the game's hub has a socket, and a
\* count falls to zero with the last socket it counted.
THEOREM NoHubLeaksHolds == Spec => []NoHubLeaks
<1>1. RoomInv => NoHubLeaks
  <2> SUFFICES ASSUME RoomInv, NEW h \in Hub, connections[h] > 0
               PROVE  \E c \in Conn : socket[c].hub = h
    BY DEF RoomInv, HubsServed, HubWanted, NoHubLeaks
  <2>1. connections[h] = Cardinality(Attached(h))
    BY DEF RoomInv, CountsExact
  <2>2. PICK c \in Attached(h) : TRUE
    BY <2>1, FS_EmptySet
  <2> QED BY <2>2 DEF Attached
<1> QED BY <1>1, RoomInvariant, PTL

\* A user who left is in no room when the command that removed him is over: neither a
\* socket he had, nor a request that was checked while he was a member.
THEOREM RoomIsForMembersHolds == Spec => []RoomIsForMembers
<1>1. RoomInv => RoomIsForMembers
  <2> SUFFICES ASSUME RoomInv, NEW h \in Hub, NEW c \in hub[h].clients, commands = {},
                      ~CloseCalled(h)
               PROVE  Member(UserOf[c])
    BY DEF RoomIsForMembers, NoCommandUnderWay
  <2>1. c \in Conn /\ gameHub = h /\ h # None
    BY Types DEF RoomInv, ClientsPlaced, HubsServed
  <2>2. isActive
    BY <2>1 DEF RoomInv, ClosedForGood, RoomClosed
  <2>3. UserOf[c] \in member
    BY <2>1, <2>2 DEF RoomInv, LeaversHeld, LeaverHeld
  <2> QED BY <2>2, <2>3 DEF Member
<1> QED BY <1>1, RoomInvariant, PTL

\* Whoever joins again is let in: tombstones of an earlier exit, in the registry and in the
\* hub, are lifted with the join, whichever hub the game has by then.
THEOREM MembersNotShutOutHolds == Spec => []MembersNotShutOut
<1>1. RoomInv => MembersNotShutOut
  <2> SUFFICES ASSUME RoomInv, NEW u \in User, isActive, u \in member, commands = {}
               PROVE  /\ ~gameClosed /\ u \notin tombstone
                      /\ gameHub # None => u \notin hub[gameHub].revoked
    BY DEF MembersNotShutOut, Member, NoCommandUnderWay, BattleAllowed
  <2> QED BY DEF RoomInv, ClosedForGood, JoinersFreed, JoinerFreed
<1> QED BY <1>1, RoomInvariant, PTL
=============================================================================
