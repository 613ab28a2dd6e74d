------------------------------- MODULE GameLobby -------------------------------
(***************************************************************************)
(* Battles before and after their match: the game documents of the lobby   *)
(* (service/game.go, repository/mongogame.go) and the moment in which a    *)
(* match takes over the roster (Prepare of service/match.go, CreateForGame *)
(* of repository/mongomatch.go).                                           *)
(*                                                                         *)
(* A request reads, decides, and then writes with a conditional update,    *)
(* holding a lock of its server meanwhile: createMu while a battle is      *)
(* counted and added, one lock per battle for joining and leaving, and     *)
(* another, of the match service, for preparing.  So a request meets the   *)
(* requests of other servers, and of the other locks, between its read and *)
(* its write.  Any write may fail.                                         *)
(*                                                                         *)
(* Abstractions: all human battles have one capacity; the match is its     *)
(* roster (MatchStore has its life); a bot battle's bot is left out, since *)
(* the lobby only counts humans.                                           *)
(***************************************************************************)
EXTENDS Naturals, FiniteSets, Sequences, SequencesExt

CONSTANTS
    User, Game, Server,
    Request,     \* requests under way at the same time
    Kind,        \* "human", "bot"
    Quota,       \* maximumActiveBattlesPerOwner
    MinPlayers, MaxPlayers,
    None

ASSUME LobbyAssumption ==
    /\ IsFiniteSet(Server) /\ IsFiniteSet(Game)
    /\ Kind \subseteq {"human", "bot"}
    /\ Quota \in Nat \ {0}
    /\ MinPlayers \in Nat \ {0} /\ MaxPlayers \in Nat /\ MinPlayers <= MaxPlayers

VARIABLES
    game,     \* the documents; an ID not yet drawn has state "none"
    roster,   \* the matches: per game, the players of its match, in order
    request   \* what each request does, where, and what it has read

vars == <<game, roster, request>>

\* addedBy, the server that made the battle, is not in the document; QuotaHeld speaks of it.
NoGame == [state |-> "none", isActive |-> FALSE, owner |-> None, kind |-> None, joined |-> <<>>,
           addedBy |-> None]
Idle == [op |-> "none", server |-> None, user |-> None, game |-> None, read |-> <<>>]

Rosters == {s \in BoundedSeq(User, MaxPlayers) : IsInjective(s)}

TypeOK ==
    /\ game \in [Game -> [state : {"none", "lobby", "playing", "over"}, isActive : BOOLEAN,
                          owner : User \cup {None}, kind : Kind \cup {None},
                          joined : Rosters, addedBy : Server \cup {None}]]
    /\ roster \in [Game -> Rosters]
    /\ request \in [Request -> [op : {"none", "create", "createBot", "join", "exit", "prepare"},
                                server : Server \cup {None}, user : User \cup {None},
                                game : Game \cup {None}, read : Rosters]]

Init ==
    /\ game = [g \in Game |-> NoGame]
    /\ roster = [g \in Game |-> <<>>]
    /\ request = [r \in Request |-> Idle]

-----------------------------------------------------------------------------
Joined(g) == ToSet(game[g].joined)
Over(r) == request' = [request EXCEPT ![r] = Idle]

\* A request begins once it has the lock of its server: its lock is held by none of ops.
Locked(s, g, ops) ==
    \E r \in Request : request[r].server = s /\ request[r].game = g /\ request[r].op \in ops

Begin(r, op, s, u, g, read) ==
    /\ request[r] = Idle
    /\ request' = [request EXCEPT ![r] =
                     [op |-> op, server |-> s, user |-> u, game |-> g, read |-> read]]
    /\ UNCHANGED <<game, roster>>

-----------------------------------------------------------------------------
(* Create *)

\* CountActiveGame: a finished battle stays active, for its result, but does not count.
ActiveGames(u) ==
    {g \in Game : game[g].owner = u /\ game[g].isActive /\ game[g].state # "over"}
CountActiveGame(u) == Cardinality(ActiveGames(u))

Creating == [human |-> "create", bot |-> "createBot"]

\* Mutant: createMu is released after the count.
CountUnlocked(r, s, u, kind) ==
    /\ CountActiveGame(u) < Quota
    /\ Begin(r, Creating[kind], s, u, None, <<>>)

CountGames(r, s, u, kind) ==
    /\ ~Locked(s, None, {"create", "createBot"})
    /\ CountActiveGame(u) < Quota
    /\ Begin(r, Creating[kind], s, u, None, <<>>)

Add(r) ==
    \E kind \in Kind :
        /\ request[r].op = Creating[kind]
        /\ \E g \in Game :
              /\ game[g] = NoGame
              /\ game' = [game EXCEPT ![g] =
                            [state |-> "lobby", isActive |-> TRUE, owner |-> request[r].user,
                             kind |-> kind, joined |-> <<request[r].user>>,
                             addedBy |-> request[r].server]]
        /\ Over(r)
        /\ UNCHANGED roster

-----------------------------------------------------------------------------
(* Join and exit, under lockBattle *)

Membership == {"join", "exit"}

BeginJoin(r, s, u, g) ==
    /\ ~Locked(s, g, Membership)
    /\ game[g].isActive /\ game[g].kind = "human" /\ game[g].state = "lobby"
    /\ u \notin Joined(g)
    /\ Len(game[g].joined) < MaxPlayers
    /\ Begin(r, "join", s, u, g, <<>>)

\* Mutant: the update does not look at the capacity again.
JoinUncounted(r) ==
    LET g == request[r].game
    IN  /\ request[r].op = "join"
        /\ game[g].isActive /\ game[g].kind = "human" /\ game[g].state = "lobby"
        /\ request[r].user \notin Joined(g)
        /\ game' = [game EXCEPT ![g].joined = Append(@, request[r].user)]
        /\ Over(r)
        /\ UNCHANGED roster

JoinGame(r) ==
    LET g == request[r].game
    IN  /\ request[r].op = "join"
        /\ game[g].isActive /\ game[g].kind = "human" /\ game[g].state = "lobby"
        /\ request[r].user \notin Joined(g)
        /\ Len(game[g].joined) < MaxPlayers
        /\ game' = [game EXCEPT ![g].joined = Append(@, request[r].user)]
        /\ Over(r)
        /\ UNCHANGED roster

ExitAllowed(g) == game[g].isActive /\ game[g].state \in {"lobby", "over"}

BeginExit(r, s, u, g) ==
    /\ ~Locked(s, g, Membership)
    /\ ExitAllowed(g)
    /\ u \in Joined(g)
    /\ Begin(r, "exit", s, u, g, <<>>)

\* Mutant: the update trusts the state that was read.
LeaveAnyState(r) ==
    LET g == request[r].game
    IN  /\ request[r].op = "exit" /\ request[r].user # game[g].owner
        /\ game[g].isActive
        /\ request[r].user \in Joined(g)
        /\ game' = [game EXCEPT ![g].joined = RemoveFirst(@, request[r].user)]
        /\ Over(r)
        /\ UNCHANGED roster

LeaveGame(r) ==
    LET g == request[r].game
    IN  /\ request[r].op = "exit" /\ request[r].user # game[g].owner
        /\ ExitAllowed(g)
        /\ request[r].user \in Joined(g)
        /\ game' = [game EXCEPT ![g].joined = RemoveFirst(@, request[r].user)]
        /\ Over(r)
        /\ UNCHANGED roster

\* The owner's exit closes the battle.
CloseGame(r) ==
    LET g == request[r].game
    IN  /\ request[r].op = "exit" /\ request[r].user = game[g].owner
        /\ ExitAllowed(g)
        /\ game' = [game EXCEPT ![g].isActive = FALSE]
        /\ Over(r)
        /\ UNCHANGED roster

-----------------------------------------------------------------------------
(* The match *)

\* A bot battle has its owner and the bot.
ArenaReady(g) ==
    IF game[g].kind = "bot" THEN Len(game[g].joined) = 1
                            ELSE Len(game[g].joined) \in MinPlayers .. MaxPlayers

\* Prepare, by the owner, when there is no match yet.
Prepare(r, s, g) ==
    /\ ~Locked(s, g, {"prepare"})
    /\ game[g].isActive /\ game[g].state = "lobby"
    /\ roster[g] = <<>>
    /\ game[g].owner \in Joined(g)
    /\ ArenaReady(g)
    /\ Begin(r, "prepare", s, game[g].owner, g, game[g].joined)

\* Mutant: the match gets the roster that was read, whoever is in the lobby now.
CreateFromRead(r) ==
    LET g == request[r].game
    IN  /\ request[r].op = "prepare"
        /\ game[g].isActive /\ game[g].state = "lobby" /\ roster[g] = <<>>
        /\ game' = [game EXCEPT ![g].state = "playing"]
        /\ roster' = [roster EXCEPT ![g] = request[r].read]
        /\ Over(r)

\* The transaction takes the game if its members are those that were read, in any order.
CreateForGame(r) ==
    LET g == request[r].game
    IN  /\ request[r].op = "prepare"
        /\ game[g].isActive /\ game[g].state = "lobby" /\ roster[g] = <<>>
        /\ Len(game[g].joined) = Len(request[r].read)
        /\ ToSet(request[r].read) \subseteq Joined(g)
        /\ game' = [game EXCEPT ![g].state = "playing"]
        /\ roster' = [roster EXCEPT ![g] = request[r].read]
        /\ Over(r)

\* The update that makes the match terminal sets the game's state with it.
EndMatch(g) ==
    /\ game[g].state = "playing"
    /\ game' = [game EXCEPT ![g].state = "over"]
    /\ UNCHANGED <<roster, request>>

\* The conditional update matches nothing, or the database fails.
Fail(r) ==
    /\ request[r] # Idle
    /\ Over(r)
    /\ UNCHANGED <<game, roster>>

Next ==
    \/ \E r \in Request, s \in Server :
          \/ \E u \in User, kind \in Kind : CountGames(r, s, u, kind)
          \/ \E u \in User, g \in Game : BeginJoin(r, s, u, g) \/ BeginExit(r, s, u, g)
          \/ \E g \in Game : Prepare(r, s, g)
    \/ \E r \in Request :
          Add(r) \/ JoinGame(r) \/ LeaveGame(r) \/ CloseGame(r) \/ CreateForGame(r) \/ Fail(r)
    \/ \E g \in Game : EndMatch(g)

Spec == Init /\ [][Next]_vars

-----------------------------------------------------------------------------
(* Properties *)

\* While a match is played its players are exactly the members of its battle, and the
\* battle is open to them: nobody slips in or out while Prepare freezes the roster, and
\* the owner does not close the battle under the match.
RosterFrozen ==
    \A g \in Game :
        /\ roster[g] # <<>> <=> game[g].state \in {"playing", "over"}
        /\ game[g].state = "playing" =>
              game[g].isActive /\ ToSet(roster[g]) = Joined(g)

\* Nobody owns more unfinished battles than the quota, where one server made them; every
\* further server adds at most one, however many battles it makes while another counts.
QuotaHeld ==
    \A u \in User :
        CountActiveGame(u) > 0 =>
            CountActiveGame(u) < Quota + Cardinality({game[g].addedBy : g \in ActiveGames(u)})

\* However many join at once, a battle has no more members than places, its owner among
\* them, and nobody twice: a match prepared from it is one the aggregate accepts.
PlacesHeld ==
    \A g \in Game : game[g].state # "none" =>
        /\ Len(game[g].joined) <= MaxPlayers
        /\ IsInjective(game[g].joined)
        /\ game[g].owner \in Joined(g)
        /\ roster[g] # <<>> => game[g].owner \in ToSet(roster[g])
=============================================================================
