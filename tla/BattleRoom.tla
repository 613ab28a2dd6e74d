------------------------------ MODULE BattleRoom ------------------------------
(***************************************************************************)
(* Who listens in the realtime room of one battle: membership commands     *)
(* (service/game.go), the registry (websockets/socket.go), its hubs        *)
(* (websockets/hub.go) and the sockets they serve (websockets/client.go).  *)
(*                                                                         *)
(* Three kinds of goroutine meet here.  A command changes the game         *)
(* document, then the registry under its mutex, then tells a hub.  A hub   *)
(* serves one call at a time; a caller waits until its call is served or   *)
(* the hub is done.  A socket is checked by the controller, is given a     *)
(* hub, upgrades, registers and, when it ends, unregisters and is          *)
(* forgotten.  Everything done while the registry's mutex is held is one   *)
(* step; clientRegistrar holds it across the hub's answer.                 *)
(*                                                                         *)
(* Abstractions: one game, whose match does not start (GameLobby has the   *)
(* states that forbid leaving); sessions are SessionRevocation's subject; a    *)
(* frame is only which buffers it finds full.                              *)
(***************************************************************************)
EXTENDS Integers, FiniteSets

CONSTANTS
    User,
    Owner,        \* Game.UserID
    Conn,         \* sockets, each with a browser behind it
    UserOf,       \* whose socket it is
    Hub,          \* hubs that may exist at the same time
    None          \* no hub

ASSUME RoomAssumption ==
    /\ Owner \in User
    /\ UserOf \in [Conn -> User]
    /\ None \notin Hub
    /\ IsFiniteSet(Conn)

VARIABLES
    member,      \* Game.JoinedUsers
    isActive,    \* Game.IsActive
    commands,    \* joins and exits under way, each with how far it has come
    gameHub,     \* registry.gameHubs of the game; hubGames is its inverse
    connections, \* registry.hubConnections
    tombstone,   \* registry.revokedMembers of the game
    gameClosed,  \* registry.closedGames has the game
    hub,         \* the hubs' own state
    socket,      \* per socket: where it is, and in which hub
    sendClosed,  \* sockets whose send channel is closed
    panicked     \* a send channel was closed twice or sent to when closed

doc == <<member, isActive>>
registry == <<gameHub, connections, tombstone, gameClosed>>
channels == <<sendClosed, panicked>>
vars == <<doc, commands, registry, hub, socket, channels>>

Idle == [at |-> "idle", hub |-> None]
Stopped == [running |-> FALSE, clients |-> {}, revoked |-> {}]

TypeOK ==
    /\ member \subseteq User
    /\ isActive \in BOOLEAN
    /\ commands \subseteq
         [user : User, hub : Hub \cup {None},
          at : {"left", "revoking", "joined", "granting", "closed", "closing"}]
    /\ gameHub \in Hub \cup {None}
    /\ connections \in [Hub -> 0 .. Cardinality(Conn)]
    /\ tombstone \subseteq User
    /\ gameClosed \in BOOLEAN
    /\ hub \in [Hub -> [running : BOOLEAN, clients : SUBSET Conn, revoked : SUBSET User]]
    /\ socket \in [Conn -> [at : {"idle", "checked", "given", "open", "leaving", "left",
                                  "closing"}, hub : Hub \cup {None}]]
    /\ sendClosed \subseteq Conn
    /\ panicked \in BOOLEAN

Init ==
    /\ member = {Owner}
    /\ isActive = TRUE
    /\ commands = {}
    /\ gameHub = None
    /\ connections = [h \in Hub |-> 0]
    /\ tombstone = {}
    /\ gameClosed = FALSE
    /\ hub = [h \in Hub |-> Stopped]
    /\ socket = [c \in Conn |-> Idle]
    /\ sendClosed = {}
    /\ panicked = FALSE

Begin(u, at) == commands' = commands \cup {[user |-> u, at |-> at, hub |-> None]}
Over(k) == commands' = commands \ {k}
SocketAt(c, at) == socket' = [socket EXCEPT ![c].at = at]
SocketOver(c) == socket' = [socket EXCEPT ![c] = Idle]

CloseSend(S) ==
    /\ sendClosed' = sendClosed \cup S
    /\ panicked' = (panicked \/ S \cap sendClosed # {})

\* A hub takes the clients S out and closes their send channels.
Remove(h, S) ==
    /\ hub' = [hub EXCEPT ![h].clients = @ \ S]
    /\ CloseSend(S)

-----------------------------------------------------------------------------
(* Membership commands, one at a time per game (lockBattle) *)

\* Mutant: commands of two users run side by side.
NoLock == TRUE

lockBattle == commands = {}

JoinGame(u) ==
    /\ lockBattle
    /\ isActive
    /\ u \notin member
    /\ member' = member \cup {u}
    /\ Begin(u, "joined")
    /\ UNCHANGED <<isActive, registry, hub, socket, channels>>

\* A guest leaves; the owner closes the battle.
ExitGame(u) ==
    /\ lockBattle
    /\ isActive
    /\ u \in member
    /\ IF u = Owner
         THEN isActive' = FALSE /\ Begin(u, "closed") /\ UNCHANGED member
         ELSE member' = member \ {u} /\ Begin(u, "left") /\ UNCHANGED isActive
    /\ UNCHANGED <<registry, hub, socket, channels>>

\* The registry's half of a command; without a hub the command is over.
TellHub(k, at) ==
    commands' = (commands \ {k}) \cup
                IF gameHub = None THEN {} ELSE {[k EXCEPT !.at = at, !.hub = gameHub]}

\* Mutant: only the hub is told.
DisconnectWithoutTombstone(k) ==
    /\ k.at = "left"
    /\ TellHub(k, "revoking")
    /\ UNCHANGED <<doc, registry, hub, socket, channels>>

DisconnectBattleUser(k) ==
    /\ k.at = "left"
    /\ tombstone' = tombstone \cup {k.user}
    /\ TellHub(k, "revoking")
    /\ UNCHANGED <<doc, gameHub, connections, gameClosed, hub, socket, channels>>

\* Mutant: the hub admits the user no more, but leaves the sockets it has.
RevokeFutureOnly(k) ==
    /\ k.at = "revoking"
    /\ hub' = [hub EXCEPT ![k.hub].revoked = @ \cup {k.user}]
    /\ Over(k)
    /\ UNCHANGED <<doc, registry, socket, channels>>

\* RevokeUser, served by the hub or given up when the hub is done.
RevokeUser(k) ==
    LET gone == {c \in hub[k.hub].clients : UserOf[c] = k.user}
    IN  /\ k.at = "revoking"
        /\ IF hub[k.hub].running
             THEN /\ hub' = [hub EXCEPT ![k.hub].clients = @ \ gone,
                                        ![k.hub].revoked = @ \cup {k.user}]
                  /\ CloseSend(gone)
             ELSE UNCHANGED <<hub, channels>>
        /\ Over(k)
        /\ UNCHANGED <<doc, registry, socket>>

AllowBattleUser(k) ==
    /\ k.at = "joined"
    /\ tombstone' = tombstone \ {k.user}
    /\ TellHub(k, "granting")
    /\ UNCHANGED <<doc, gameHub, connections, gameClosed, hub, socket, channels>>

GrantUser(k) ==
    /\ k.at = "granting"
    /\ hub' = [hub EXCEPT ![k.hub].revoked = @ \ {k.user}]
    /\ Over(k)
    /\ UNCHANGED <<doc, registry, socket, channels>>

\* closeGameHub, on the event "closed"; CloseWithMessage follows.
CloseGameHub(k) ==
    /\ k.at = "closed"
    /\ gameClosed' = TRUE
    /\ tombstone' = {}
    /\ gameHub' = None
    /\ connections' = [h \in Hub |-> IF h = gameHub THEN 0 ELSE connections[h]]
    /\ TellHub(k, "closing")
    /\ UNCHANGED <<doc, hub, socket, channels>>

\* The call of Close returns when the hub is done.
CommandClosedHub(k) ==
    /\ k.at = "closing"
    /\ ~hub[k.hub].running
    /\ Over(k)
    /\ UNCHANGED <<doc, registry, hub, socket, channels>>

-----------------------------------------------------------------------------
(* Sockets *)

\* The controller's CanAccessBattle.
CanAccessBattle(c) ==
    /\ socket[c].at = "idle"
    /\ isActive
    /\ UserOf[c] \in member
    /\ SocketAt(c, "checked")
    /\ UNCHANGED <<doc, commands, registry, hub, channels>>

BattleAllowed(u) == ~gameClosed /\ u \notin tombstone

\* A hub value nothing refers to: the next NewHub.
Unused(h) ==
    /\ ~hub[h].running
    /\ gameHub # h
    /\ \A c \in Conn : socket[c].hub # h
    /\ \A k \in commands : k.hub # h

\* gameHubForUser: the game's hub, made and started if there is none, or a refusal.
GameHubForUser(c) ==
    /\ socket[c].at = "checked"
    /\ \/ /\ ~BattleAllowed(UserOf[c])
          /\ SocketOver(c)
          /\ UNCHANGED <<gameHub, hub>>
       \/ /\ BattleAllowed(UserOf[c])
          /\ gameHub # None
          /\ socket' = [socket EXCEPT ![c] = [at |-> "given", hub |-> gameHub]]
          /\ UNCHANGED <<gameHub, hub>>
       \/ /\ BattleAllowed(UserOf[c])
          /\ gameHub = None
          /\ \E h \in Hub :
                /\ Unused(h)
                /\ gameHub' = h
                /\ hub' = [hub EXCEPT ![h] = [Stopped EXCEPT !.running = TRUE]]
                /\ socket' = [socket EXCEPT ![c] = [at |-> "given", hub |-> h]]
    /\ UNCHANGED <<doc, commands, connections, tombstone, gameClosed, channels>>

\* The hub's answer: a battle room takes one socket of a user.
Accepts(h, u) ==
    /\ hub[h].running
    /\ u \notin hub[h].revoked
    /\ \A c \in hub[h].clients : UserOf[c] # u

\* The upgrade is done; clientRegistrar, then the pumps start.
RegisterClient(c) ==
    LET h == socket[c].hub
    IN  /\ socket[c].at = "given"
        /\ BattleAllowed(UserOf[c])
        /\ Accepts(h, UserOf[c])
        /\ hub' = [hub EXCEPT ![h].clients = @ \cup {c}]
        /\ connections' = [connections EXCEPT ![h] = @ + 1]
        /\ SocketAt(c, "open")
        /\ UNCHANGED <<doc, commands, gameHub, tombstone, gameClosed, channels>>

\* Mutant: the hub of a refused socket stays.
RejectOnly(c) ==
    /\ socket[c].at = "given"
    /\ SocketOver(c)
    /\ UNCHANGED <<doc, commands, registry, hub, channels>>

\* Any refusal after the hub was given (quota, upgrade, session, registrar):
\* discardUnusedGameHub drops the game's hub if nobody is registered with it.
RejectClient(c) ==
    /\ socket[c].at = "given"
    /\ IF gameHub = socket[c].hub /\ connections[gameHub] = 0
         THEN gameHub' = None /\ SocketAt(c, "closing")
         ELSE SocketOver(c) /\ UNCHANGED gameHub
    /\ UNCHANGED <<doc, commands, connections, tombstone, gameClosed, hub, channels>>

\* readPump returns: the browser left, or the hub took the client out and the
\* connection was closed.
ReadPumpEnds(c) ==
    /\ socket[c].at = "open"
    /\ SocketAt(c, "leaving")
    /\ UNCHANGED <<doc, commands, registry, hub, channels>>

\* Mutant: the hub closes the channel of a client it no longer has.
UnregisterAnyClient(c) ==
    LET h == socket[c].hub
    IN  /\ socket[c].at = "leaving"
        /\ IF hub[h].running THEN Remove(h, {c}) ELSE UNCHANGED <<hub, channels>>
        /\ SocketAt(c, "left")
        /\ UNCHANGED <<doc, commands, registry>>

Unregister(c) ==
    LET h == socket[c].hub
    IN  /\ socket[c].at = "leaving"
        /\ IF hub[h].running THEN Remove(h, {c} \cap hub[h].clients)
                             ELSE UNCHANGED <<hub, channels>>
        /\ SocketAt(c, "left")
        /\ UNCHANGED <<doc, commands, registry>>

\* Forgets the socket; the last one of a hub takes the hub with it.
ConnectionClosed(c) ==
    LET h == socket[c].hub
    IN  /\ socket[c].at = "left"
        /\ \/ /\ connections[h] > 1
              /\ connections' = [connections EXCEPT ![h] = @ - 1]
              /\ SocketOver(c)
              /\ UNCHANGED gameHub
           \/ /\ connections[h] <= 1
              /\ connections' = [connections EXCEPT ![h] = 0]
              /\ IF gameHub = h THEN gameHub' = None /\ SocketAt(c, "closing")
                                ELSE SocketOver(c) /\ UNCHANGED gameHub
        /\ sendClosed' = sendClosed \ {c}
        /\ UNCHANGED <<doc, commands, tombstone, gameClosed, hub, panicked>>

SocketClosedHub(c) ==
    /\ socket[c].at = "closing"
    /\ ~hub[socket[c].hub].running
    /\ SocketOver(c)
    /\ UNCHANGED <<doc, commands, registry, hub, channels>>

-----------------------------------------------------------------------------
(* Hubs *)

CloseCalled(h) ==
    \/ \E c \in Conn : socket[c].at = "closing" /\ socket[c].hub = h
    \/ \E k \in commands : k.at = "closing" /\ k.hub = h

Shutdown(h) ==
    /\ hub[h].running
    /\ CloseCalled(h)
    /\ hub' = [hub EXCEPT ![h] = Stopped]
    /\ CloseSend(hub[h].clients)
    /\ UNCHANGED <<doc, commands, registry, socket>>

\* A frame or an event is delivered; clients with a full buffer are taken out.
Broadcast(h, full) ==
    /\ hub[h].running
    /\ full # {}
    /\ full \subseteq hub[h].clients
    /\ Remove(h, full)
    /\ UNCHANGED <<doc, commands, registry, socket>>

\* After a minute the registry and the hub forget that a user left.  A request checked
\* before the user left is over by then: an upgrade and a session lookup take seconds.
TombstoneExpires(u) ==
    /\ u \in tombstone
    /\ \A k \in commands : k.user # u
    /\ \A c \in Conn : UserOf[c] = u => socket[c].at \notin {"checked", "given"}
    /\ tombstone' = tombstone \ {u}
    /\ hub' = [h \in Hub |-> [hub[h] EXCEPT !.revoked = @ \ {u}]]
    /\ UNCHANGED <<doc, commands, gameHub, connections, gameClosed, socket, channels>>

ClosureExpires ==
    /\ gameClosed
    /\ \A c \in Conn : socket[c].at \notin {"checked", "given"}
    /\ gameClosed' = FALSE
    /\ UNCHANGED <<doc, commands, gameHub, connections, tombstone, hub, socket, channels>>

-----------------------------------------------------------------------------
CommandStep(k) ==
    \/ DisconnectBattleUser(k)
    \/ RevokeUser(k)
    \/ AllowBattleUser(k)
    \/ GrantUser(k)
    \/ CloseGameHub(k)
    \/ CommandClosedHub(k)
RequestStep(c) == GameHubForUser(c) \/ RegisterClient(c) \/ RejectClient(c)
LeaveStep(c) == Unregister(c) \/ ConnectionClosed(c) \/ SocketClosedHub(c)

Next ==
    \/ \E u \in User : JoinGame(u) \/ ExitGame(u) \/ TombstoneExpires(u)
    \/ \E k \in commands : CommandStep(k)
    \/ \E c \in Conn :
          CanAccessBattle(c) \/ RequestStep(c) \/ ReadPumpEnds(c) \/ LeaveStep(c)
    \/ \E h \in Hub : Shutdown(h) \/ \E full \in SUBSET Conn : Broadcast(h, full)
    \/ ClosureExpires

Spec == Init /\ [][Next]_vars

\* A client the hub has taken out finds its connection closed.
CutOff(c) == socket[c].at = "open" /\ c \notin hub[socket[c].hub].clients

\* Goroutines run: commands and requests go on, hubs serve the calls made to them, and
\* a pump whose connection is closed returns.  No browser must leave.
Fairness ==
    /\ WF_vars(\E k \in commands : CommandStep(k))
    /\ \A c \in Conn : WF_vars(RequestStep(c)) /\ WF_vars(LeaveStep(c))
    /\ \A c \in Conn : WF_vars(CutOff(c) /\ ReadPumpEnds(c))
    /\ \A h \in Hub : WF_vars(Shutdown(h))
FairSpec == Spec /\ Fairness

-----------------------------------------------------------------------------
(* Properties *)

Member(u) == isActive /\ u \in member
NoCommandUnderWay == commands = {}

\* Whoever listens in a room is a member of the battle, but for the moment in which the
\* command that removed it is still on its way, or the room is being closed: a request
\* checked before the user left must not slip in afterwards.
RoomIsForMembers ==
    \A h \in Hub : \A c \in hub[h].clients :
        \/ Member(UserOf[c])
        \/ ~NoCommandUnderWay
        \/ CloseCalled(h)

\* A member is not kept out by what is left of an earlier exit: not by the registry's
\* tombstone, nor by the hub's.
MembersNotShutOut ==
    \A u \in User :
        Member(u) /\ NoCommandUnderWay =>
            /\ BattleAllowed(u)
            /\ gameHub # None => u \notin hub[gameHub].revoked

\* No hub goes on running unused, and no count outlives the sockets it counted: a hub is
\* the game's, with a socket in it or on its way, or somebody is closing it.
NoHubLeaks ==
    /\ \A h \in Hub : hub[h].running => gameHub = h \/ CloseCalled(h)
    /\ gameHub # None => \E c \in Conn : /\ socket[c].hub = gameHub
                                         /\ socket[c].at \in {"given", "open", "leaving", "left"}
    /\ \A h \in Hub : connections[h] > 0 => \E c \in Conn : socket[c].hub = h

\* A send channel is closed once and never sent to again, whichever of unregistering,
\* revoking, a full buffer and shutting down comes first; Go would panic in the hub.
NoPanic == ~panicked /\ \A h \in Hub : hub[h].clients \cap sendClosed = {}

\* A user who left is out of the room in the end, whatever its browser does.
LeaversAreDisconnected ==
    \A c \in Conn :
        socket[c].at = "open" /\ ~Member(UserOf[c]) ~> socket[c].at # "open" \/ Member(UserOf[c])
=============================================================================
