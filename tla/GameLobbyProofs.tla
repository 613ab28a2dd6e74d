--------------------------- MODULE GameLobbyProofs ---------------------------
(***************************************************************************)
(* Proofs about GameLobby, for any number of users, battles, servers and   *)
(* requests.  Facts about rosters come first: what adding and removing a   *)
(* member does, and that CreateForGame's comparison is one of sets.  Then  *)
(* LobbyInv, for types, rosters and places; then QuotaInv, for the quota.  *)
(***************************************************************************)
EXTENDS GameLobby, SequenceTheorems, FiniteSetTheorems, WellFoundedInduction, TLAPS

-----------------------------------------------------------------------------
(* Rosters: lists of users without repetition, of bounded length *)

LEMMA RosterFacts ==
    ASSUME NEW s
    PROVE  s \in Rosters <=> s \in Seq(User) /\ Len(s) <= MaxPlayers /\ IsInjective(s)
<1>1. ASSUME s \in Rosters
      PROVE  s \in Seq(User) /\ Len(s) <= MaxPlayers /\ IsInjective(s)
  <2>1. PICK m \in 0 .. MaxPlayers : s \in [1 .. m -> User]
    BY <1>1 DEF Rosters, BoundedSeq, SeqOf
  <2>2. m \in Nat /\ m <= MaxPlayers
    BY LobbyAssumption
  <2>3. s \in Seq(User) /\ Len(s) = m
    BY <2>1, <2>2
  <2> QED BY <1>1, <2>2, <2>3 DEF Rosters
<1>2. ASSUME s \in Seq(User), Len(s) <= MaxPlayers, IsInjective(s)
      PROVE  s \in Rosters
  <2>1. Len(s) \in 0 .. MaxPlayers /\ s \in [1 .. Len(s) -> User]
    BY <1>2, LobbyAssumption
  <2> QED BY <1>2, <2>1 DEF Rosters, BoundedSeq, SeqOf
<1> QED BY <1>1, <1>2

LEMMA EmptyRoster == <<>> \in Rosters
<1>1. <<>> \in Seq(User) /\ Len(<<>>) = 0 /\ IsInjective(<<>>)
  BY DEF IsInjective
<1>2. 0 <= MaxPlayers
  BY LobbyAssumption
<1> QED BY <1>1, <1>2, RosterFacts

LEMMA SoleRoster ==
    ASSUME NEW u \in User
    PROVE  <<u>> \in Rosters /\ ToSet(<<u>>) = {u}
<1>1. <<u>> \in Seq(User) /\ Len(<<u>>) = 1 /\ DOMAIN <<u>> = {1} /\ <<u>>[1] = u
  OBVIOUS
<1>2. IsInjective(<<u>>)
  BY <1>1 DEF IsInjective
<1>3. 1 <= MaxPlayers
  BY LobbyAssumption
<1> QED BY <1>1, <1>2, <1>3, RosterFacts DEF ToSet

\* A member more: JoinGame.
LEMMA AppendRoster ==
    ASSUME NEW s \in Rosters, NEW u \in User, u \notin ToSet(s), Len(s) < MaxPlayers
    PROVE  Append(s, u) \in Rosters /\ ToSet(Append(s, u)) = ToSet(s) \cup {u}
<1> DEFINE t == Append(s, u)
           n == Len(s)
<1>1. s \in Seq(User) /\ IsInjective(s) /\ n \in Nat /\ DOMAIN s = 1 .. n
  BY RosterFacts, LenProperties
<1>2. /\ t \in Seq(User) /\ Len(t) = n + 1 /\ DOMAIN t = 1 .. n + 1
      /\ \A i \in 1 .. n : t[i] = s[i]
      /\ t[n + 1] = u
  BY <1>1, AppendProperties, LenProperties
<1> HIDE DEF t
<1>3. \A i \in 1 .. n : s[i] # u
  BY <1>1 DEF ToSet
<1>4. IsInjective(t)
  <2> SUFFICES ASSUME NEW i \in 1 .. n + 1, NEW j \in 1 .. n + 1, t[i] = t[j] PROVE i = j
    BY <1>2 DEF IsInjective
  <2>1. (i \in 1 .. n \/ i = n + 1) /\ (j \in 1 .. n \/ j = n + 1)
    BY <1>1
  <2> QED BY <1>1, <1>2, <1>3, <2>1 DEF IsInjective
<1>5. n + 1 <= MaxPlayers
  BY <1>1, LobbyAssumption DEF n
<1>6. ToSet(t) = ToSet(s) \cup {u}
  <2>1. ASSUME NEW x \in ToSet(t) PROVE x \in ToSet(s) \cup {u}
    <3>1. PICK i \in 1 .. n + 1 : x = t[i]
      BY <2>1, <1>2 DEF ToSet
    <3>2. i \in 1 .. n \/ i = n + 1
      BY <1>1
    <3> QED BY <1>1, <1>2, <3>1, <3>2 DEF ToSet
  <2>2. ASSUME NEW x \in ToSet(s) \cup {u} PROVE x \in ToSet(t)
    <3>1. CASE x = u
      BY <1>1, <1>2, <3>1 DEF ToSet
    <3>2. CASE x \in ToSet(s)
      <4>1. PICK i \in 1 .. n : x = s[i]
        BY <3>2, <1>1 DEF ToSet
      <4>2. i \in 1 .. n + 1
        BY <1>1
      <4> QED BY <1>2, <4>1, <4>2 DEF ToSet
    <3> QED BY <2>2, <3>1, <3>2
  <2> QED BY <2>1, <2>2
<1> QED BY <1>2, <1>4, <1>5, <1>6, RosterFacts DEF t

\* Where RemoveFirst cuts.
LEMMA FirstPosition ==
    ASSUME NEW s \in Seq(User), NEW u \in ToSet(s)
    PROVE  \E k \in 1 .. Len(s) :
              /\ s[k] = u
              /\ RemoveFirst(s, u) = SubSeq(s, 1, k - 1) \o SubSeq(s, k + 1, Len(s))
<1> DEFINE I == {i \in 1 .. Len(s) : s[i] = u}
<1>1. Len(s) \in Nat /\ DOMAIN s = 1 .. Len(s)
  BY LenProperties
<1>2. I # {} /\ I \subseteq Nat
  BY <1>1 DEF ToSet
<1>3. \E x \in I : \A y \in I : x =< y
  <2> HIDE DEF I
  <2>1. IsWellFoundedOn(OpToRel(<, Nat), Nat)
    BY NatLessThanWellFounded
  <2>2. \A x, y \in Nat : <<y, x>> \in OpToRel(<, Nat) <=> y < x
    BY Zenon DEF OpToRel
  <2>3. PICK x \in I : \A y \in I : ~(<<y, x>> \in OpToRel(<, Nat))
    BY <1>2, <2>1, WFMin
  <2>4. \A y \in I : ~(y < x)
    BY <1>2, <2>2, <2>3
  <2>5. \A m, n \in Nat : ~(m < n) => n =< m
    OBVIOUS
  <2> QED BY <1>2, <2>4, <2>5
<1>4. Min(I) \in I
  BY <1>3 DEF Min
<1>5. RemoveFirst(s, u) = SubSeq(s, 1, Min(I) - 1) \o SubSeq(s, Min(I) + 1, Len(s))
  BY <1>2 DEF RemoveFirst, RemoveAt, SelectInSeq
<1> QED BY <1>4, <1>5

\* A member less: LeaveGame.
LEMMA RemoveRoster ==
    ASSUME NEW s \in Rosters, NEW u \in ToSet(s)
    PROVE  /\ RemoveFirst(s, u) \in Rosters
           /\ ToSet(RemoveFirst(s, u)) = ToSet(s) \ {u}
<1> DEFINE n == Len(s)
           t == RemoveFirst(s, u)
<1>1. s \in Seq(User) /\ IsInjective(s) /\ n \in Nat /\ DOMAIN s = 1 .. n /\ n <= MaxPlayers
  BY RosterFacts, LenProperties
<1>2. PICK k \in 1 .. n : s[k] = u /\ t = SubSeq(s, 1, k - 1) \o SubSeq(s, k + 1, n)
  BY <1>1, FirstPosition
<1> DEFINE a == SubSeq(s, 1, k - 1)
           b == SubSeq(s, k + 1, n)
<1>3. /\ a \in Seq(User) /\ Len(a) = k - 1
      /\ \A i \in 1 .. k - 1 : a[i] = s[i]
  <2>1. \A i \in 1 .. k - 1 : s[i] \in User
    BY <1>1, ElementOfSeq
  <2>2. k - 1 \in Int /\ 1 \in Int
    OBVIOUS
  <2>3. /\ a \in Seq(User)
        /\ Len(a) = IF 1 <= k - 1 THEN k - 1 - 1 + 1 ELSE 0
        /\ \A i \in 1 .. k - 1 - 1 + 1 : a[i] = s[1 + i - 1]
    BY <2>1, <2>2, SubSeqProperties
  <2> QED BY <2>3, <1>1
<1>4. /\ b \in Seq(User) /\ Len(b) = n - k
      /\ \A i \in 1 .. n - k : b[i] = s[k + i]
  <2>1. \A i \in k + 1 .. n : s[i] \in User
    BY <1>1, ElementOfSeq
  <2>2. k + 1 \in Int /\ n \in Int
    BY <1>1
  <2>3. /\ b \in Seq(User)
        /\ Len(b) = IF k + 1 <= n THEN n - (k + 1) + 1 ELSE 0
        /\ \A i \in 1 .. n - (k + 1) + 1 : b[i] = s[(k + 1) + i - 1]
    BY <2>1, <2>2, SubSeqProperties
  <2> HIDE DEF b
  <2>6. \A m, j \in Nat : j <= m => (IF j + 1 <= m THEN m - (j + 1) + 1 ELSE 0) = m - j
    OBVIOUS
  <2>7. k \in Nat /\ k <= n
    BY <1>1
  <2>4. Len(b) = n - k
    BY <2>3, <2>6, <2>7, <1>1
  <2>5. ASSUME NEW i \in 1 .. n - k PROVE b[i] = s[k + i]
    <3>1. i \in 1 .. n - (k + 1) + 1 /\ (k + 1) + i - 1 = k + i
      BY <1>1
    <3> QED BY <2>3, <3>1
  <2> QED BY <2>3, <2>4, <2>5
<1> HIDE DEF a, b
<1>5. /\ t \in Seq(User) /\ Len(t) = n - 1 /\ DOMAIN t = 1 .. n - 1
      /\ \A i \in 1 .. n - 1 : t[i] = IF i < k THEN s[i] ELSE s[i + 1]
  <2>1. t = a \o b
    BY <1>2 DEF a, b
  <2> HIDE DEF t
  <2>5. /\ t \in Seq(User) /\ Len(t) = Len(a) + Len(b)
        /\ \A i \in 1 .. Len(a) + Len(b) : t[i] = IF i <= Len(a) THEN a[i] ELSE b[i - Len(a)]
    BY <2>1, <1>3, <1>4, ConcatProperties
  <2>2. /\ t \in Seq(User) /\ Len(t) = (k - 1) + (n - k)
        /\ \A i \in 1 .. (k - 1) + (n - k) : t[i] = IF i <= k - 1 THEN a[i] ELSE b[i - (k - 1)]
    BY <2>5, <1>3, <1>4
  <2>3. Len(t) = n - 1 /\ DOMAIN t = 1 .. n - 1
    BY <2>2, <1>1, LenProperties
  <2>4. ASSUME NEW i \in 1 .. n - 1 PROVE t[i] = IF i < k THEN s[i] ELSE s[i + 1]
    <3>1. i \in 1 .. (k - 1) + (n - k)
      BY <1>1
    <3>2. CASE i < k
      <4>1. i \in 1 .. k - 1 /\ i <= k - 1
        BY <3>2, <1>1
      <4> QED BY <2>2, <3>1, <4>1, <1>3, <3>2
    <3>3. CASE ~(i < k)
      <4>1. i - (k - 1) \in 1 .. n - k /\ k + (i - (k - 1)) = i + 1 /\ ~(i <= k - 1)
        BY <3>3, <1>1
      <4> QED BY <2>2, <3>1, <4>1, <1>4, <3>3
    <3> QED BY <3>2, <3>3
  <2> QED BY <2>2, <2>3, <2>4
<1> HIDE DEF t
<1>6. IsInjective(t)
  <2> SUFFICES ASSUME NEW i \in 1 .. n - 1, NEW j \in 1 .. n - 1, t[i] = t[j] PROVE i = j
    BY <1>5 DEF IsInjective
  <2>1. i \in 1 .. n /\ j \in 1 .. n /\ i + 1 \in 1 .. n /\ j + 1 \in 1 .. n
    BY <1>1
  <2>2. \A x, y \in 1 .. n : s[x] = s[y] => x = y
    BY <1>1 DEF IsInjective
  <2>3. CASE i < k /\ j < k
    BY <2>1, <2>2, <2>3, <1>5
  <2>4. CASE i < k /\ ~(j < k)
    <3>1. s[i] = s[j + 1]
      BY <2>4, <1>5
    <3>2. i = j + 1
      BY <2>1, <2>2, <3>1
    <3> QED BY <1>1, <2>4, <3>2
  <2>5. CASE ~(i < k) /\ j < k
    <3>1. s[i + 1] = s[j]
      BY <2>5, <1>5
    <3>2. i + 1 = j
      BY <2>1, <2>2, <3>1
    <3> QED BY <1>1, <2>5, <3>2
  <2>6. CASE ~(i < k) /\ ~(j < k)
    BY <2>1, <2>2, <2>6, <1>5
  <2> QED BY <2>3, <2>4, <2>5, <2>6
<1>7. ToSet(t) = ToSet(s) \ {u}
  <2>1. ASSUME NEW x \in ToSet(t) PROVE x \in ToSet(s) /\ x # u
    <3>1. PICK i \in 1 .. n - 1 : x = t[i]
      BY <2>1, <1>5 DEF ToSet
    <3>2. PICK j \in 1 .. n : x = s[j] /\ j # k
      <4>1. CASE i < k
        BY <4>1, <3>1, <1>5, <1>1
      <4>2. CASE ~(i < k)
        <5>1. i + 1 \in 1 .. n /\ i + 1 # k
          BY <4>2, <1>1
        <5> QED BY <5>1, <4>2, <3>1, <1>5
      <4> QED BY <4>1, <4>2
    <3> QED BY <3>2, <1>1, <1>2 DEF ToSet, IsInjective
  <2>2. ASSUME NEW x \in ToSet(s), x # u PROVE x \in ToSet(t)
    <3>1. PICK j \in 1 .. n : x = s[j]
      BY <2>2, <1>1 DEF ToSet
    <3>2. CASE j < k
      <4>1. j \in 1 .. n - 1
        BY <3>2, <1>1
      <4> QED BY <4>1, <3>1, <3>2, <1>5 DEF ToSet
    <3>3. CASE j > k
      <4>1. j - 1 \in 1 .. n - 1 /\ ~(j - 1 < k) /\ (j - 1) + 1 = j
        BY <3>3, <1>1
      <4> QED BY <4>1, <3>1, <1>5 DEF ToSet
    <3>4. j # k
      BY <3>1, <2>2, <1>2
    <3> QED BY <3>2, <3>3, <3>4, <1>1
  <2> QED BY <2>1, <2>2
<1> QED BY <1>1, <1>5, <1>6, <1>7, RosterFacts, LobbyAssumption DEF t

\* Two rosters of one length are of the same users if one's are among the other's:
\* CreateForGame compares no more.
LEMMA SameRoster ==
    ASSUME NEW s \in Rosters, NEW t \in Rosters, Len(s) = Len(t), ToSet(s) \subseteq ToSet(t)
    PROVE  ToSet(s) = ToSet(t)
<1>1. ASSUME NEW r \in Rosters
      PROVE  IsFiniteSet(ToSet(r)) /\ Cardinality(ToSet(r)) = Len(r)
  <2>1. r \in Seq(User) /\ IsInjective(r) /\ Len(r) \in Nat /\ DOMAIN r = 1 .. Len(r)
    BY RosterFacts, LenProperties
  <2>2. r \in [1 .. Len(r) -> ToSet(r)]
    BY <2>1, LenProperties DEF ToSet
  <2>3. r \in Surjection(1 .. Len(r), ToSet(r)) /\ r \in Injection(1 .. Len(r), ToSet(r))
    BY <2>1, <2>2 DEF Surjection, Injection, IsInjective, ToSet
  <2>4. 1 \in Int /\ Len(r) \in Int
    BY <2>1
  <2>5. /\ IsFiniteSet(1 .. Len(r))
        /\ Cardinality(1 .. Len(r)) = IF 1 > Len(r) THEN 0 ELSE Len(r) - 1 + 1
    BY <2>4, FS_Interval
  <2>6. Cardinality(1 .. Len(r)) = Len(r)
    BY <2>1, <2>5
  <2> QED BY <2>3, <2>5, <2>6, FS_Surjection
<1> QED BY <1>1, FS_Subset

-----------------------------------------------------------------------------
(* Types and requests *)

GameType ==
    [state : {"none", "lobby", "playing", "over"}, isActive : BOOLEAN,
     owner : User \cup {None}, kind : Kind \cup {None},
     joined : Rosters, addedBy : Server \cup {None}]
CreateOps == {"create", "createBot"}
GameOps == {"join", "exit", "prepare"}
RequestType ==
    [op : {"none"} \cup CreateOps \cup GameOps, server : Server \cup {None},
     user : User \cup {None}, game : Game \cup {None}, read : Rosters]

LEMMA TypeParts ==
    TypeOK <=> /\ game \in [Game -> GameType]
               /\ roster \in [Game -> Rosters]
               /\ request \in [Request -> RequestType]
BY DEF TypeOK, GameType, RequestType, CreateOps, GameOps

\* A request under way has a server and a user, and a battle unless it makes one.
RequestInv ==
    \A r \in Request :
        /\ request[r].op # "none" => request[r].server \in Server /\ request[r].user \in User
        /\ request[r].op \in GameOps => request[r].game \in Game
        /\ request[r].op \in CreateOps => request[r].game = None

\* createMu: a server makes one battle at a time.
CreateInv ==
    \A r, q \in Request :
        /\ request[r].op \in CreateOps /\ request[q].op \in CreateOps
        /\ request[r].server = request[q].server
        => r = q

LEMMA NoGameType == NoGame \in GameType
BY EmptyRoster DEF NoGame, GameType

\* What JoinGame and LeaveGame, and CloseGame, write into a battle.
LEMMA MembersType ==
    ASSUME NEW d \in GameType, NEW players \in Rosters
    PROVE  LET e == [d EXCEPT !.joined = players]
           IN  /\ e \in GameType /\ e.state = d.state /\ e.owner = d.owner
               /\ e.joined = players
BY DEF GameType

LEMMA ClosedType ==
    ASSUME NEW d \in GameType
    PROVE  LET e == [d EXCEPT !.isActive = FALSE]
           IN  /\ e \in GameType /\ e.state = d.state /\ e.owner = d.owner
               /\ e.joined = d.joined
BY DEF GameType

LEMMA IdleType == Idle \in RequestType /\ Idle.op = "none"
BY EmptyRoster DEF Idle, RequestType

\* A request begins.
LEMMA BeginStep ==
    ASSUME TypeOK, RequestInv, NEW r \in Request, NEW op \in CreateOps \cup GameOps,
           NEW s \in Server, NEW u \in User, NEW g \in Game \cup {None}, NEW read \in Rosters,
           op \in CreateOps => g = None,
           op \in GameOps => g \in Game,
           Begin(r, op, s, u, g, read)
    PROVE  /\ TypeOK' /\ RequestInv' /\ UNCHANGED <<game, roster>>
           /\ request'[r] = [op |-> op, server |-> s, user |-> u, game |-> g, read |-> read]
           /\ \A q \in Request \ {r} : request'[q] = request[q]
<1> DEFINE new == [op |-> op, server |-> s, user |-> u, game |-> g, read |-> read]
<1>1. new \in RequestType
  BY DEF RequestType
<1>2. /\ request' = [request EXCEPT ![r] = new]
      /\ UNCHANGED <<game, roster>>
  BY DEF Begin
<1>3. request \in [Request -> RequestType]
  BY TypeParts
<1>4. /\ request' \in [Request -> RequestType]
      /\ request'[r] = new
      /\ \A q \in Request \ {r} : request'[q] = request[q]
  BY <1>1, <1>2, <1>3
<1>5. TypeOK'
  BY <1>2, <1>4 DEF TypeOK, RequestType, CreateOps, GameOps
<1>6. op # "none"
  BY DEF CreateOps, GameOps
<1>7. RequestInv'
  <2> SUFFICES ASSUME NEW q \in Request
               PROVE  /\ request'[q].op # "none" =>
                            request'[q].server \in Server /\ request'[q].user \in User
                      /\ request'[q].op \in GameOps => request'[q].game \in Game
                      /\ request'[q].op \in CreateOps => request'[q].game = None
    BY DEF RequestInv
  <2>1. CASE q = r
    BY <2>1, <1>4
  <2>2. CASE q # r
    BY <2>2, <1>4 DEF RequestInv
  <2> QED BY <2>1, <2>2
<1> QED BY <1>2, <1>4, <1>5, <1>7

\* A request is over.
LEMMA OverStep ==
    ASSUME TypeOK, RequestInv, NEW r \in Request, Over(r)
    PROVE  /\ request' \in [Request -> RequestType] /\ RequestInv'
           /\ request'[r] = Idle
           /\ \A q \in Request \ {r} : request'[q] = request[q]
<1>1. request \in [Request -> RequestType]
  BY TypeParts
<1>2. /\ request' \in [Request -> RequestType]
      /\ request'[r] = Idle
      /\ \A q \in Request \ {r} : request'[q] = request[q]
  BY <1>1, IdleType DEF Over
<1>3. "none" \notin GameOps /\ "none" \notin CreateOps
  BY DEF GameOps, CreateOps
<1> QED BY <1>2, <1>3, IdleType DEF RequestInv

-----------------------------------------------------------------------------
(* The invariant of the rosters *)

LobbyInv == TypeOK /\ RequestInv /\ RosterFrozen /\ PlacesHeld

LEMMA LobbyInit == Init => LobbyInv
<1> SUFFICES ASSUME Init PROVE LobbyInv
  OBVIOUS
<1>1. TypeOK
  BY TypeParts, NoGameType, IdleType, EmptyRoster DEF Init
<1>2. RequestInv
  BY DEF Init, RequestInv, Idle, GameOps, CreateOps
<1>3. RosterFrozen
  BY DEF Init, RosterFrozen, NoGame
<1>4. PlacesHeld
  BY DEF Init, PlacesHeld, NoGame
<1> QED BY <1>1, <1>2, <1>3, <1>4 DEF LobbyInv

\* A step that leaves battles and matches alone.
LEMMA RequestOnly ==
    ASSUME LobbyInv, TypeOK', RequestInv', UNCHANGED <<game, roster>>
    PROVE  LobbyInv'
BY DEF LobbyInv, RosterFrozen, PlacesHeld, Joined

\* A step that changes one battle, and its match.
LEMMA OneGame ==
    ASSUME LobbyInv, RequestInv', request' \in [Request -> RequestType],
           NEW g \in Game, NEW doc \in GameType, NEW players \in Rosters,
           game' = [game EXCEPT ![g] = doc],
           roster' = [roster EXCEPT ![g] = players],
           players # <<>> <=> doc.state \in {"playing", "over"},
           doc.state = "playing" => doc.isActive /\ ToSet(players) = ToSet(doc.joined),
           doc.state # "none" => /\ doc.owner \in ToSet(doc.joined)
                                 /\ players # <<>> => doc.owner \in ToSet(players)
    PROVE  LobbyInv'
<1>1. /\ game \in [Game -> GameType]
      /\ roster \in [Game -> Rosters]
  BY TypeParts DEF LobbyInv
<1>2. /\ game' \in [Game -> GameType] /\ roster' \in [Game -> Rosters]
      /\ game'[g] = doc /\ roster'[g] = players
      /\ \A h \in Game \ {g} : game'[h] = game[h] /\ roster'[h] = roster[h]
  BY <1>1
<1>3. TypeOK'
  BY <1>2 DEF TypeOK, GameType, RequestType, CreateOps, GameOps
<1>4. RosterFrozen'
  <2> SUFFICES ASSUME NEW h \in Game
               PROVE  /\ roster'[h] # <<>> <=> game'[h].state \in {"playing", "over"}
                      /\ game'[h].state = "playing" =>
                            game'[h].isActive /\ ToSet(roster'[h]) = ToSet(game'[h].joined)
    BY DEF RosterFrozen, Joined
  <2>1. CASE h = g
    BY <2>1, <1>2
  <2>2. CASE h # g
    BY <2>2, <1>2 DEF LobbyInv, RosterFrozen, Joined
  <2> QED BY <2>1, <2>2
<1>5. PlacesHeld'
  <2> SUFFICES ASSUME NEW h \in Game, game'[h].state # "none"
               PROVE  /\ Len(game'[h].joined) <= MaxPlayers
                      /\ IsInjective(game'[h].joined)
                      /\ game'[h].owner \in ToSet(game'[h].joined)
                      /\ roster'[h] # <<>> => game'[h].owner \in ToSet(roster'[h])
    BY DEF PlacesHeld, Joined
  <2>1. CASE h = g
    <3>1. doc.joined \in Rosters
      BY DEF GameType
    <3> QED BY <2>1, <3>1, <1>2, RosterFacts
  <2>2. CASE h # g
    BY <2>2, <1>2 DEF LobbyInv, PlacesHeld, Joined
  <2> QED BY <2>1, <2>2
<1> QED BY <1>3, <1>4, <1>5 DEF LobbyInv

LEMMA LobbyStep == LobbyInv /\ [Next]_vars => LobbyInv'
<1> SUFFICES ASSUME LobbyInv, [Next]_vars PROVE LobbyInv'
  OBVIOUS
<1> USE DEF LobbyInv
<1>1. /\ game \in [Game -> GameType]
      /\ roster \in [Game -> Rosters]
      /\ request \in [Request -> RequestType]
  BY TypeParts
<1>2. \A g \in Game : /\ game[g] \in GameType /\ game[g].joined \in Rosters
                      /\ \A u \in Joined(g) : u \in User
  <2> SUFFICES ASSUME NEW g \in Game
               PROVE  /\ game[g] \in GameType /\ game[g].joined \in Rosters
                      /\ \A u \in Joined(g) : u \in User
    OBVIOUS
  <2>1. game[g] \in GameType /\ game[g].joined \in Rosters
    BY <1>1 DEF GameType
  <2>2. game[g].joined \in Seq(User)
    BY <2>1, RosterFacts
  <2> QED BY <2>1, <2>2, ElementOfSeq, LenProperties DEF Joined, ToSet
<1>3. ASSUME NEW r \in Request, request[r].op \in GameOps
      PROVE  request[r].game \in Game /\ request[r].user \in User
  BY <1>3 DEF RequestInv, GameOps
<1>4. ASSUME NEW r \in Request, NEW s \in Server, NEW u \in User, NEW kind \in Kind,
             CountGames(r, s, u, kind)
      PROVE  LobbyInv'
  <2>1. Creating[kind] \in CreateOps
    BY LobbyAssumption DEF Creating, CreateOps
  <2>2. Creating[kind] \notin GameOps
    BY <2>1 DEF CreateOps, GameOps
  <2> QED BY <1>4, <2>1, <2>2, EmptyRoster, BeginStep, RequestOnly DEF CountGames
<1>5. ASSUME NEW r \in Request, NEW s \in Server, NEW u \in User, NEW g \in Game,
             BeginJoin(r, s, u, g) \/ BeginExit(r, s, u, g)
      PROVE  LobbyInv'
  <2>1. /\ "join" \in GameOps /\ "join" \notin CreateOps
        /\ "exit" \in GameOps /\ "exit" \notin CreateOps
    BY DEF GameOps, CreateOps
  <2> QED BY <1>5, <2>1, EmptyRoster, BeginStep, RequestOnly DEF BeginJoin, BeginExit
<1>6. ASSUME NEW r \in Request, NEW s \in Server, NEW g \in Game, Prepare(r, s, g)
      PROVE  LobbyInv'
  <2>1. "prepare" \in GameOps /\ "prepare" \notin CreateOps
    BY DEF GameOps, CreateOps
  <2>2. game[g].owner \in User /\ game[g].joined \in Rosters
    BY <1>2, <1>6 DEF Prepare
  <2> QED BY <1>6, <2>1, <2>2, BeginStep, RequestOnly DEF Prepare
<1>7. ASSUME NEW r \in Request, Add(r) PROVE LobbyInv'
  <2>1. PICK kind \in Kind, g \in Game :
           /\ request[r].op = Creating[kind]
           /\ game[g] = NoGame
           /\ game' = [game EXCEPT ![g] =
                         [state |-> "lobby", isActive |-> TRUE, owner |-> request[r].user,
                          kind |-> kind, joined |-> <<request[r].user>>,
                          addedBy |-> request[r].server]]
           /\ Over(r) /\ UNCHANGED roster
    BY <1>7 DEF Add
  <2>2. request[r].op # "none"
    BY <2>1, LobbyAssumption DEF Creating
  <2>3. request[r].user \in User /\ request[r].server \in Server
    BY <2>2 DEF RequestInv
  <2> DEFINE doc == [state |-> "lobby", isActive |-> TRUE, owner |-> request[r].user,
                     kind |-> kind, joined |-> <<request[r].user>>,
                     addedBy |-> request[r].server]
  <2>4. doc \in GameType /\ doc.owner \in ToSet(doc.joined)
    BY <2>3, SoleRoster DEF GameType
  <2>5. roster[g] = <<>> /\ roster' = [roster EXCEPT ![g] = <<>>]
    BY <1>1, <2>1 DEF RosterFrozen, NoGame
  <2> QED BY <2>1, <2>4, <2>5, EmptyRoster, OverStep, OneGame
<1>8. ASSUME NEW r \in Request, JoinGame(r) PROVE LobbyInv'
  <2> DEFINE g == request[r].game
             u == request[r].user
             doc == [game[g] EXCEPT !.joined = Append(@, u)]
  <2>1. g \in Game /\ u \in User
    BY <1>3, <1>8 DEF JoinGame, GameOps
  <2>2. /\ game[g].state = "lobby" /\ u \notin Joined(g) /\ Len(game[g].joined) < MaxPlayers
        /\ game' = [game EXCEPT ![g] = doc] /\ UNCHANGED roster /\ Over(r)
    BY <1>8 DEF JoinGame
  <2>3. /\ Append(game[g].joined, u) \in Rosters
        /\ ToSet(Append(game[g].joined, u)) = Joined(g) \cup {u}
    BY <1>2, <2>1, <2>2, AppendRoster DEF Joined
  <2>4. /\ doc \in GameType /\ doc.state = "lobby" /\ doc.owner = game[g].owner
        /\ doc.joined = Append(game[g].joined, u)
    BY <1>2, <2>1, <2>2, <2>3, MembersType
  <2>5. roster[g] = <<>> /\ roster' = [roster EXCEPT ![g] = <<>>]
    BY <1>1, <2>1, <2>2 DEF RosterFrozen
  <2>6. game[g].owner \in Joined(g)
    BY <2>1, <2>2 DEF PlacesHeld
  <2> HIDE DEF g, u, doc
  <2> QED BY <2>1, <2>2, <2>3, <2>4, <2>5, <2>6, EmptyRoster, OverStep, OneGame
<1>9. ASSUME NEW r \in Request, LeaveGame(r) PROVE LobbyInv'
  <2> DEFINE g == request[r].game
             u == request[r].user
             doc == [game[g] EXCEPT !.joined = RemoveFirst(@, u)]
  <2>1. g \in Game /\ u \in User
    BY <1>3, <1>9 DEF LeaveGame, GameOps
  <2>2. /\ game[g].state \in {"lobby", "over"} /\ u \in Joined(g) /\ u # game[g].owner
        /\ game' = [game EXCEPT ![g] = doc] /\ UNCHANGED roster /\ Over(r)
    BY <1>9 DEF LeaveGame, ExitAllowed
  <2>3. /\ RemoveFirst(game[g].joined, u) \in Rosters
        /\ ToSet(RemoveFirst(game[g].joined, u)) = Joined(g) \ {u}
    BY <1>2, <2>1, <2>2, RemoveRoster DEF Joined
  <2>4. /\ doc \in GameType /\ doc.state = game[g].state /\ doc.owner = game[g].owner
        /\ doc.joined = RemoveFirst(game[g].joined, u)
    BY <1>2, <2>1, <2>2, <2>3, MembersType
  <2>5. /\ roster' = [roster EXCEPT ![g] = roster[g]] /\ roster[g] \in Rosters
        /\ roster[g] # <<>> <=> game[g].state \in {"playing", "over"}
    BY <1>1, <2>1, <2>2 DEF RosterFrozen
  <2>6. game[g].owner \in Joined(g) /\ (roster[g] # <<>> => game[g].owner \in ToSet(roster[g]))
    BY <2>1, <2>2 DEF PlacesHeld
  <2> HIDE DEF g, u, doc
  <2> QED BY <2>1, <2>2, <2>3, <2>4, <2>5, <2>6, OverStep, OneGame
<1>10. ASSUME NEW r \in Request, CloseGame(r) PROVE LobbyInv'
  <2> DEFINE g == request[r].game
             doc == [game[g] EXCEPT !.isActive = FALSE]
  <2>1. g \in Game
    BY <1>3, <1>10 DEF CloseGame, GameOps
  <2>2. /\ game[g].state \in {"lobby", "over"}
        /\ game' = [game EXCEPT ![g] = doc] /\ UNCHANGED roster /\ Over(r)
    BY <1>10 DEF CloseGame, ExitAllowed
  <2>3. /\ doc \in GameType /\ doc.state = game[g].state /\ doc.owner = game[g].owner
        /\ doc.joined = game[g].joined
    BY <1>2, <2>1, ClosedType
  <2>4. /\ roster' = [roster EXCEPT ![g] = roster[g]] /\ roster[g] \in Rosters
        /\ roster[g] # <<>> <=> game[g].state \in {"playing", "over"}
    BY <1>1, <2>1, <2>2 DEF RosterFrozen
  <2>5. game[g].owner \in Joined(g) /\ (roster[g] # <<>> => game[g].owner \in ToSet(roster[g]))
    BY <2>1, <2>2 DEF PlacesHeld
  <2>6. game[g].owner \in ToSet(game[g].joined)
    BY <2>5 DEF Joined
  <2> HIDE DEF g, doc
  <2> QED BY <2>1, <2>2, <2>3, <2>4, <2>5, <2>6, OverStep, OneGame
<1>11. ASSUME NEW r \in Request, CreateForGame(r) PROVE LobbyInv'
  <2> DEFINE g == request[r].game
             read == request[r].read
             doc == [game[g] EXCEPT !.state = "playing"]
  <2>1. g \in Game /\ read \in Rosters
    BY <1>1, <1>3, <1>11 DEF CreateForGame, GameOps, RequestType
  <2>2. /\ game[g].state = "lobby" /\ game[g].isActive
        /\ Len(game[g].joined) = Len(read) /\ ToSet(read) \subseteq Joined(g)
        /\ game' = [game EXCEPT ![g] = doc] /\ roster' = [roster EXCEPT ![g] = read] /\ Over(r)
    BY <1>11 DEF CreateForGame
  <2>3. /\ doc \in GameType /\ doc.state = "playing" /\ doc.owner = game[g].owner
        /\ doc.joined = game[g].joined /\ doc.isActive
    BY <1>2, <2>1, <2>2 DEF GameType
  <2>4. ToSet(read) = ToSet(game[g].joined)
    BY <1>2, <2>1, <2>2, SameRoster DEF Joined
  <2>5. game[g].owner \in ToSet(game[g].joined)
    BY <2>1, <2>2 DEF PlacesHeld, Joined
  <2>7. ToSet(<<>>) = {}
    BY DEF ToSet
  <2>6. read # <<>>
    BY <2>4, <2>5, <2>7
  <2> HIDE DEF g, read, doc
  <2> QED BY <2>1, <2>2, <2>3, <2>4, <2>5, <2>6, OverStep, OneGame
<1>12. ASSUME NEW g \in Game, EndMatch(g) PROVE LobbyInv'
  <2> DEFINE doc == [game[g] EXCEPT !.state = "over"]
  <2>1. /\ game[g].state = "playing" /\ game' = [game EXCEPT ![g] = doc]
        /\ UNCHANGED <<roster, request>>
    BY <1>12 DEF EndMatch
  <2>2. /\ doc \in GameType /\ doc.state = "over" /\ doc.owner = game[g].owner
        /\ doc.joined = game[g].joined
    BY <1>2, <2>1 DEF GameType
  <2>3. /\ roster' = [roster EXCEPT ![g] = roster[g]] /\ roster[g] \in Rosters
        /\ roster[g] # <<>>
    BY <1>1, <2>1 DEF RosterFrozen
  <2>4. /\ game[g].owner \in ToSet(game[g].joined)
        /\ roster[g] # <<>> => game[g].owner \in ToSet(roster[g])
    BY <2>1 DEF PlacesHeld, Joined
  <2>5. RequestInv' /\ request' \in [Request -> RequestType]
    BY <1>1, <2>1 DEF RequestInv
  <2> HIDE DEF doc
  <2> QED BY <2>1, <2>2, <2>3, <2>4, <2>5, OneGame
<1>13. ASSUME NEW r \in Request, Fail(r) PROVE LobbyInv'
  <2>1. /\ request' \in [Request -> RequestType] /\ RequestInv' /\ UNCHANGED <<game, roster>>
    BY <1>13, OverStep DEF Fail
  <2>2. TypeOK'
    BY <1>1, <2>1 DEF TypeOK, GameType, RequestType, CreateOps, GameOps
  <2> QED BY <2>1, <2>2, RequestOnly
<1>14. CASE UNCHANGED vars
  BY <1>14 DEF vars, TypeOK, RequestInv, RosterFrozen, PlacesHeld, Joined
<1> QED BY <1>4, <1>5, <1>6, <1>7, <1>8, <1>9, <1>10, <1>11, <1>12, <1>13, <1>14 DEF Next

\* The invariant of the rosters holds.
THEOREM LobbyCorrect == Spec => []LobbyInv
BY LobbyInit, LobbyStep, PTL DEF Spec

\* Types, for every number of users, battles, servers and requests.
THEOREM LobbyTypeCorrect == Spec => []TypeOK
BY LobbyCorrect, PTL DEF LobbyInv

\* The players of a running match are the members of its battle.
THEOREM RosterStaysFrozen == Spec => []RosterFrozen
BY LobbyCorrect, PTL DEF LobbyInv

\* No battle has more members than places, or one twice, or loses its owner.
THEOREM PlacesStayHeld == Spec => []PlacesHeld
BY LobbyCorrect, PTL DEF LobbyInv

-----------------------------------------------------------------------------
(* The quota *)

\* B: the battles of u that the latest count saw.  Every other one was added since then,
\* by a server of its own, which makes no further one.
CountedBefore(u, B) ==
    /\ Cardinality(B) < Quota
    /\ \A g, h \in ActiveGames(u) \ B : game[g].addedBy = game[h].addedBy => g = h
    /\ \A g \in ActiveGames(u) \ B, r \in Request :
          request[r].op \in CreateOps /\ request[r].user = u =>
              request[r].server # game[g].addedBy

QuotaInv == \A u \in User : \E B \in SUBSET Game : CountedBefore(u, B)

LEMMA ActiveGamesFinite ==
    ASSUME NEW u, NEW B \in SUBSET ActiveGames(u)
    PROVE  IsFiniteSet(B) /\ Cardinality(B) \in Nat
<1>1. B \in SUBSET Game
  BY DEF ActiveGames
<1> QED BY <1>1, LobbyAssumption, FS_Subset, FS_CardinalityType

\* As many battles as were counted, and one for each server that added one since.
LEMMA QuotaFollows ==
    ASSUME TypeOK, QuotaInv PROVE QuotaHeld
<1> SUFFICES ASSUME NEW u \in User
             PROVE  CountActiveGame(u) <
                      Quota + Cardinality({game[g].addedBy : g \in ActiveGames(u)})
  BY DEF QuotaHeld
<1> DEFINE A == ActiveGames(u)
           S == {game[g].addedBy : g \in A}
<1>1. PICK C \in SUBSET Game : CountedBefore(u, C)
  BY DEF QuotaInv
<1> DEFINE B == A \cap C
           N == A \ C
           f == [g \in N |-> game[g].addedBy]
<1>2. IsFiniteSet(B) /\ IsFiniteSet(N) /\ Cardinality(B) \in Nat /\ Cardinality(N) \in Nat
  BY ActiveGamesFinite
<1>3. IsFiniteSet(S) /\ Cardinality(S) \in Nat
  <2>1. S \in SUBSET (Server \cup {None})
    BY TypeParts DEF GameType, ActiveGames
  <2>2. IsFiniteSet(Server \cup {None})
    BY LobbyAssumption, FS_AddElement
  <2> QED BY <2>1, <2>2, FS_Subset, FS_CardinalityType
<1>4. f \in Injection(N, S)
  BY <1>1 DEF Injection, IsInjective, CountedBefore
<1>5. Cardinality(N) <= Cardinality(S)
  BY <1>3, <1>4, FS_Injection
<1>6. Cardinality(B) < Quota
  <2>1. IsFiniteSet(C) /\ Cardinality(C) \in Nat
    BY LobbyAssumption, FS_Subset, FS_CardinalityType
  <2>2. Cardinality(B) <= Cardinality(C)
    BY <2>1, FS_Subset
  <2>3. Cardinality(C) < Quota
    BY <1>1 DEF CountedBefore
  <2> QED BY <1>2, <2>1, <2>2, <2>3, LobbyAssumption
<1>7. Cardinality(A) = Cardinality(B) + Cardinality(N)
  <2>1. A = B \cup N /\ B \cap N = {}
    OBVIOUS
  <2>2. Cardinality(B \cup N) = Cardinality(B) + Cardinality(N) - Cardinality(B \cap N)
    BY <1>2, FS_Union
  <2>3. Cardinality(B \cap N) = 0
    BY <2>1, FS_EmptySet
  <2> HIDE DEF A, B, N
  <2> QED BY <1>2, <2>1, <2>2, <2>3
<1>8. Quota \in Nat
  BY LobbyAssumption
<1> HIDE DEF A, B, N, S
<1>9. Cardinality(A) < Quota + Cardinality(S)
  BY <1>2, <1>3, <1>5, <1>6, <1>7, <1>8
<1> QED BY <1>9 DEF CountActiveGame, A, S

\* Steps that add no battle and begin no creation.
LEMMA QuotaKept ==
    ASSUME QuotaInv, CreateInv,
           \A u \in User : ActiveGames(u)' \subseteq ActiveGames(u),
           \A g \in Game : game'[g].addedBy = game[g].addedBy,
           \A r \in Request : request'[r].op \in CreateOps => request'[r] = request[r]
    PROVE  QuotaInv' /\ CreateInv'
<1>1. CreateInv'
  BY DEF CreateInv
<1>2. ASSUME NEW u \in User PROVE \E B \in SUBSET Game : CountedBefore(u, B)'
  <2>1. PICK B \in SUBSET Game : CountedBefore(u, B)
    BY DEF QuotaInv
  <2>2. ActiveGames(u)' \ B \subseteq ActiveGames(u) \ B /\ ActiveGames(u)' \subseteq Game
    BY DEF ActiveGames
  <2>3. CountedBefore(u, B)'
    BY <2>1, <2>2 DEF CountedBefore
  <2> QED BY <2>3
<1> QED BY <1>1, <1>2 DEF QuotaInv

\* A count: what is there now has been counted, and one more will be added.
LEMMA QuotaCount ==
    ASSUME LobbyInv, QuotaInv, CreateInv,
           NEW r \in Request, NEW s \in Server, NEW u \in User, NEW kind \in Kind,
           CountGames(r, s, u, kind)
    PROVE  QuotaInv' /\ CreateInv'
<1>1. /\ UNCHANGED <<game, roster>>
      /\ request'[r].server = s /\ request'[r].user = u
      /\ \A q \in Request \ {r} : request'[q] = request[q]
  <2>1. PICK op : op = Creating[kind] /\ Begin(r, op, s, u, None, <<>>)
    BY DEF CountGames
  <2>2. request \in [Request -> RequestType]
    BY TypeParts DEF LobbyInv
  <2> QED BY <2>1, <2>2 DEF Begin
<1>2. \A q \in Request : request[q].op \in CreateOps => request[q].server # s
  BY DEF CountGames, Locked, LobbyInv, RequestInv, CreateOps
<1>3. CreateInv'
  BY <1>1, <1>2 DEF CreateInv
<1>4. \A v \in User : ActiveGames(v)' = ActiveGames(v)
  BY <1>1 DEF ActiveGames
<1>5. ASSUME NEW v \in User PROVE \E B \in SUBSET Game : CountedBefore(v, B)'
  <2>1. CASE v = u
    <3>1. PICK B \in SUBSET Game : B = ActiveGames(u)
      BY DEF ActiveGames
    <3>2. Cardinality(B) < Quota
      BY <3>1 DEF CountGames, CountActiveGame
    <3>3. CountedBefore(u, B)'
      BY <3>1, <3>2, <1>4 DEF CountedBefore
    <3> QED BY <2>1, <3>3
  <2>2. CASE v # u
    <3>1. PICK B \in SUBSET Game : CountedBefore(v, B)
      BY DEF QuotaInv
    <3>2. CountedBefore(v, B)'
      BY <3>1, <1>1, <1>4, <2>2 DEF CountedBefore
    <3> QED BY <3>2
  <2> QED BY <2>1, <2>2
<1> QED BY <1>3, <1>5 DEF QuotaInv

\* A battle is added: its server has no other creation under way.
LEMMA QuotaAdd ==
    ASSUME LobbyInv, QuotaInv, CreateInv, NEW r \in Request, Add(r)
    PROVE  QuotaInv' /\ CreateInv'
<1>1. PICK kind \in Kind, g \in Game :
         /\ request[r].op = Creating[kind]
         /\ game[g] = NoGame
         /\ game' = [game EXCEPT ![g] =
                       [state |-> "lobby", isActive |-> TRUE, owner |-> request[r].user,
                        kind |-> kind, joined |-> <<request[r].user>>,
                        addedBy |-> request[r].server]]
         /\ Over(r)
  BY DEF Add
<1>2. request[r].op \in CreateOps
  BY <1>1, LobbyAssumption DEF Creating, CreateOps
<1>3. /\ request'[r].op = "none"
      /\ \A q \in Request \ {r} : request'[q] = request[q]
  BY <1>1, OverStep, IdleType DEF LobbyInv
<1>4. "none" \notin CreateOps
  BY DEF CreateOps
<1>5. CreateInv'
  BY <1>3, <1>4 DEF CreateInv
<1>6. /\ game'[g].addedBy = request[r].server /\ game'[g].owner = request[r].user
      /\ \A h \in Game \ {g} : game'[h] = game[h]
  <2>1. game \in [Game -> GameType]
    BY TypeParts DEF LobbyInv
  <2> QED BY <1>1, <2>1
<1>7. ASSUME NEW v \in User PROVE \E B \in SUBSET Game : CountedBefore(v, B)'
  <2>1. PICK B \in SUBSET Game : CountedBefore(v, B)
    BY DEF QuotaInv
  <2>2. CASE v # request[r].user
    <3>1. ActiveGames(v)' \subseteq ActiveGames(v) /\ g \notin ActiveGames(v)'
      BY <1>6, <2>2 DEF ActiveGames
    <3>2. CountedBefore(v, B)'
      BY <2>1, <3>1, <1>3, <1>4, <1>6 DEF CountedBefore, ActiveGames
    <3> QED BY <3>2
  <2>3. CASE v = request[r].user
    <3>1. ActiveGames(v)' \subseteq ActiveGames(v) \cup {g} /\ ActiveGames(v)' \subseteq Game
      BY <1>6 DEF ActiveGames
    <3>2. \A h \in ActiveGames(v) \ B : request[r].server # game[h].addedBy
      BY <2>1, <2>3, <1>2 DEF CountedBefore
    <3>3. ASSUME NEW h \in ActiveGames(v)' \ B, NEW k \in ActiveGames(v)' \ B,
                 game'[h].addedBy = game'[k].addedBy
          PROVE  h = k
      <4>1. CASE h = g /\ k # g
        BY <4>1, <3>1, <3>2, <3>3, <1>6
      <4>2. CASE h # g /\ k = g
        BY <4>2, <3>1, <3>2, <3>3, <1>6
      <4>3. CASE h # g /\ k # g
        BY <4>3, <2>1, <3>1, <3>3, <1>6 DEF CountedBefore
      <4> QED BY <4>1, <4>2, <4>3
    <3>4. ASSUME NEW h \in ActiveGames(v)' \ B, NEW q \in Request,
                 request'[q].op \in CreateOps, request'[q].user = v
          PROVE  request'[q].server # game'[h].addedBy
      <4>1. q # r /\ request'[q] = request[q]
        BY <3>4, <1>3, <1>4
      <4>2. CASE h = g
        BY <4>1, <4>2, <3>4, <1>2, <1>6 DEF CreateInv
      <4>3. CASE h # g
        BY <4>1, <4>3, <2>1, <3>1, <3>4, <1>6 DEF CountedBefore
      <4> QED BY <4>2, <4>3
    <3>5. Cardinality(B) < Quota
      BY <2>1 DEF CountedBefore
    <3>6. CountedBefore(v, B)'
      BY <3>3, <3>4, <3>5 DEF CountedBefore
    <3> QED BY <3>6
  <2> QED BY <2>2, <2>3
<1> QED BY <1>5, <1>7 DEF QuotaInv

LEMMA QuotaInit == Init => QuotaInv /\ CreateInv
<1> SUFFICES ASSUME Init PROVE QuotaInv /\ CreateInv
  OBVIOUS
<1>1. CreateInv
  BY DEF Init, CreateInv, Idle, CreateOps
<1>2. ASSUME NEW u \in User PROVE \E B \in SUBSET Game : CountedBefore(u, B)
  <2>1. ActiveGames(u) = {}
    BY DEF Init, ActiveGames, NoGame
  <2>2. Cardinality({}) < Quota
    BY LobbyAssumption, FS_EmptySet
  <2>3. CountedBefore(u, {})
    BY <2>1, <2>2 DEF CountedBefore
  <2> QED BY <2>3
<1> QED BY <1>1, <1>2 DEF QuotaInv

LEMMA QuotaStep ==
    LobbyInv /\ QuotaInv /\ CreateInv /\ [Next]_vars => QuotaInv' /\ CreateInv'
<1> SUFFICES ASSUME LobbyInv, QuotaInv, CreateInv, [Next]_vars PROVE QuotaInv' /\ CreateInv'
  OBVIOUS
<1>1. /\ game \in [Game -> GameType]
      /\ request \in [Request -> RequestType] /\ RequestInv /\ TypeOK
  BY TypeParts DEF LobbyInv
<1>2. \A r \in Request : Over(r) =>
         \A q \in Request : request'[q].op \in CreateOps => request'[q] = request[q]
  BY <1>1, OverStep, IdleType DEF CreateOps
<1>3. ASSUME NEW r \in Request, NEW s \in Server, NEW u \in User, NEW g \in Game,
             \/ BeginJoin(r, s, u, g) \/ BeginExit(r, s, u, g)
             \/ Prepare(r, s, g)
      PROVE  /\ UNCHANGED game
             /\ \A q \in Request : request'[q].op \in CreateOps => request'[q] = request[q]
  <2>1. PICK op \in {"join", "exit", "prepare"} :
           /\ UNCHANGED game
           /\ \E v, read : request' = [request EXCEPT ![r] =
                  [op |-> op, server |-> s, user |-> v, game |-> g, read |-> read]]
    BY <1>3 DEF BeginJoin, BeginExit, Prepare, Begin
  <2>2. request'[r].op = op /\ \A q \in Request \ {r} : request'[q] = request[q]
    BY <2>1, <1>1
  <2>3. op \notin CreateOps
    BY DEF CreateOps
  <2> QED BY <2>1, <2>2, <2>3
<1>4. ASSUME NEW r \in Request, JoinGame(r) \/ LeaveGame(r) \/ CloseGame(r) \/ CreateForGame(r)
      PROVE  /\ Over(r)
             /\ \A h \in Game : /\ game'[h].addedBy = game[h].addedBy
                                /\ game'[h].owner = game[h].owner
                                /\ game'[h].isActive => game[h].isActive
                                /\ game[h].state = "over" => game'[h].state = "over"
  <2>1. request[r].game \in Game
    BY <1>1, <1>4 DEF RequestInv, GameOps, JoinGame, LeaveGame, CloseGame, CreateForGame
  <2>2. CASE JoinGame(r)
    BY <1>1, <2>1, <2>2 DEF JoinGame, GameType
  <2>3. CASE LeaveGame(r)
    BY <1>1, <2>1, <2>3 DEF LeaveGame, GameType
  <2>4. CASE CloseGame(r)
    BY <1>1, <2>1, <2>4 DEF CloseGame, GameType
  <2>5. CASE CreateForGame(r)
    BY <1>1, <2>1, <2>5 DEF CreateForGame, GameType
  <2> QED BY <1>4, <2>2, <2>3, <2>4, <2>5
<1>5. ASSUME NEW g \in Game, EndMatch(g)
      PROVE  /\ UNCHANGED request
             /\ \A h \in Game : /\ game'[h].addedBy = game[h].addedBy
                                /\ game'[h].owner = game[h].owner
                                /\ game'[h].isActive => game[h].isActive
                                /\ game[h].state = "over" => game'[h].state = "over"
  BY <1>1, <1>5 DEF EndMatch, GameType
<1>6. ASSUME NEW r \in Request, Fail(r) PROVE UNCHANGED game /\ Over(r)
  BY <1>6 DEF Fail
<1>7. ASSUME UNCHANGED vars PROVE UNCHANGED game /\ UNCHANGED request
  BY <1>7 DEF vars
<1>8. ASSUME \A h \in Game : /\ game'[h].addedBy = game[h].addedBy
                             /\ game'[h].owner = game[h].owner
                             /\ game'[h].isActive => game[h].isActive
                             /\ game[h].state = "over" => game'[h].state = "over",
             \A q \in Request : request'[q].op \in CreateOps => request'[q] = request[q]
      PROVE  QuotaInv' /\ CreateInv'
  <2>1. \A u \in User : ActiveGames(u)' \subseteq ActiveGames(u)
    BY <1>8 DEF ActiveGames
  <2> QED BY <1>8, <2>1, QuotaKept
<1>9. CASE \E r \in Request, s \in Server, u \in User, kind \in Kind : CountGames(r, s, u, kind)
  BY <1>9, QuotaCount
<1>10. CASE \E r \in Request : Add(r)
  BY <1>10, QuotaAdd
<1>11. CASE \E r \in Request, s \in Server, u \in User, g \in Game :
               BeginJoin(r, s, u, g) \/ BeginExit(r, s, u, g)
  BY <1>11, <1>3, <1>8
<1>12. CASE \E r \in Request, s \in Server, g \in Game : Prepare(r, s, g)
  <2>1. PICK r \in Request, s \in Server, g \in Game : Prepare(r, s, g)
    BY <1>12
  <2>2. game[g].owner \in User
    <3>1. game[g].owner \in Joined(g) /\ game[g].joined \in Rosters
      BY <1>1, <2>1 DEF Prepare, GameType
    <3>2. game[g].joined \in Seq(User)
      BY <3>1, RosterFacts
    <3> QED BY <3>1, <3>2, ElementOfSeq, LenProperties DEF Joined, ToSet
  <2> QED BY <2>1, <2>2, <1>3, <1>8
<1>13. CASE \E r \in Request : JoinGame(r) \/ LeaveGame(r) \/ CloseGame(r) \/ CreateForGame(r)
  BY <1>13, <1>2, <1>4, <1>8
<1>14. CASE \E g \in Game : EndMatch(g)
  BY <1>14, <1>5, <1>8
<1>15. CASE \E r \in Request : Fail(r)
  BY <1>15, <1>2, <1>6, <1>8
<1>16. CASE UNCHANGED vars
  BY <1>16, <1>7, <1>8
<1> QED BY <1>9, <1>10, <1>11, <1>12, <1>13, <1>14, <1>15, <1>16 DEF Next

\* On one server nobody has more unfinished battles than the quota; each further server
\* that made one of them can have added one more.
THEOREM QuotaStaysHeld == Spec => []QuotaHeld
<1>1. Init => LobbyInv /\ QuotaInv /\ CreateInv
  BY LobbyInit, QuotaInit
<1>2. LobbyInv /\ QuotaInv /\ CreateInv /\ [Next]_vars => (LobbyInv /\ QuotaInv /\ CreateInv)'
  BY LobbyStep, QuotaStep
<1>3. LobbyInv /\ QuotaInv /\ CreateInv => QuotaHeld
  BY QuotaFollows DEF LobbyInv
<1> QED BY <1>1, <1>2, <1>3, PTL DEF Spec
=============================================================================
