---------------------- MODULE SessionRevocationProofs ----------------------
(***************************************************************************)
(* Proofs about SessionRevocation, for every set of servers, hubs and      *)
(* sockets, every cache life and every delay: a logout ends the session at *)
(* once where it was made, and within the stated bounds elsewhere.  The    *)
(* inductive invariant SessionInv has two halves: who may still slip in    *)
(* where the session is over, and how old an answer may be.                *)
(***************************************************************************)
EXTENDS SessionRevocation, FiniteSetTheorems, TLAPS

\* Only sockets of a server wait for its lookup.
WaitersPlaced == \A s \in Server : \A c \in lookup[s].waiters : ServerOf[c] = s

\* The registry counts the session's sockets that were registered with a hub.
Attached(s, h) ==
    {c \in Conn : ServerOf[c] = s /\ HubOf[c] = h /\ socket[c].at \in {"open", "cut"}}
CountsExact ==
    \A s \in Server, h \in Hub : sessionHubs[s][h] = Cardinality(Attached(s, h))

\* A logout that has come to the sockets has its revocation in the database, and so has a
\* server that remembers it.
LogoutPlaced(s) ==
    /\ logout[s].at \in {"looked", "saved"} => ~local[s]
    /\ logout[s].at \in {"saved", "remembered", "telling"} => revoked
    /\ local[s] \/ ended[s] => revoked
LogoutsPlaced == \A s \in Server : LogoutPlaced(s)

\* Where the session is over: new sockets are refused by now.
Over(s) == ended[s] \/ (local[s] /\ logout[s].at = "telling")

\* As long as the server remembers the revocation no check lets anyone in, and whoever
\* passed his checks before finds the tombstone.
Remembered(s) ==
    Over(s) /\ local[s] /\ ~tombstone[s] =>
        \A c \in Conn : ServerOf[c] = s =>
            /\ socket[c].at # "validated"
            /\ socket[c].at = "checked" => c \notin lookup[s].waiters

\* A server that has restarted since has nothing left but the database's word.
Restarted(s) ==
    ended[s] /\ ~local[s] =>
        /\ ~cache[s].active /\ lookup[s].answer # "active"
        /\ \A c \in Conn : ServerOf[c] = s => socket[c].at \notin Pending

\* Open sockets are those the logout has yet to tell.
OpenToldOf(s) ==
    Over(s) =>
        \A c \in Conn : ServerOf[c] = s /\ socket[c].at = "open" =>
            ~ended[s] /\ HubOf[c] \in logout[s].telling
NoneSlipsIn == \A s \in Server : Remembered(s) /\ Restarted(s) /\ OpenToldOf(s)

\* An answer that missed the revocation was read before it; a socket was admitted on such
\* an answer at the latest.
LookupsFresh ==
    \A s \in Server : lookup[s].answer = "active" => revokedFor + lookup[s].left <= OperationTime
EntriesFresh ==
    \A s \in Server : cache[s].active => revokedFor + cache[s].left <= StaleBound
SocketFresh(c) ==
    /\ socket[c].at = "validated" => revokedFor + socket[c].left < StaleBound + OperationTime
    /\ socket[c].at = "open" => revokedFor + socket[c].left < Bound
SocketsFresh == \A c \in Conn : SocketFresh(c)

SessionInv ==
    /\ TypeOK
    /\ WaitersPlaced
    /\ CountsExact
    /\ LogoutsPlaced
    /\ NoneSlipsIn
    /\ ~revoked => revokedFor = 0
    /\ LookupsFresh
    /\ EntriesFresh
    /\ SocketsFresh

-----------------------------------------------------------------------------
(* Constants and types *)

LEMMA Bounds ==
    /\ TTL \in Nat /\ TTL > 0 /\ OperationTime \in Nat
    /\ CheckPeriod \in Nat /\ CheckPeriod > 0 /\ Leeway \in Nat /\ MaxRestarts \in Nat
    /\ StaleBound \in Nat /\ StaleBound = OperationTime + TTL
    /\ Bound \in Nat /\ Bound = StaleBound + CheckPeriod + 2 * OperationTime
    /\ IsFiniteSet(Conn) /\ Cardinality(Conn) \in Nat
    /\ \A c \in Conn : ServerOf[c] \in Server /\ HubOf[c] \in Hub
<1>1. IsFiniteSet(Conn) /\ Cardinality(Conn) \in Nat
  BY SessionAssumption, FS_CardinalityType
<1> QED BY <1>1, SessionAssumption, SMT DEF StaleBound, Bound

EntryType == [active : BOOLEAN, left : 0 .. TTL]
LookupType ==
    [answer : {"none", "active", "revoked"}, left : 0 .. OperationTime, waiters : SUBSET Conn]
LogoutType ==
    [at : {"none", "looked", "saved", "remembered", "telling"}, telling : SUBSET Hub]
SocketType ==
    [at : {"idle", "checked", "validated", "open", "cut"},
     left : 0 .. CheckPeriod + OperationTime]
HubCounts == [Server -> [Hub -> 0 .. Cardinality(Conn)]]

LEMMA Types ==
    TypeOK <=>
        /\ token \in {"valid", "grace", "dead"} /\ graceLeft \in 0 .. Leeway
        /\ revoked \in BOOLEAN /\ revokedFor \in 0 .. Bound
        /\ local \in [Server -> BOOLEAN]
        /\ cache \in [Server -> EntryType]
        /\ lookup \in [Server -> LookupType]
        /\ tombstone \in [Server -> BOOLEAN]
        /\ sessionHubs \in HubCounts
        /\ logout \in [Server -> LogoutType]
        /\ ended \in [Server -> BOOLEAN]
        /\ socket \in [Conn -> SocketType]
        /\ restarts \in 0 .. MaxRestarts
<1>1. {"idle", "open", "cut"} \cup Pending = {"idle", "checked", "validated", "open", "cut"}
  BY DEF Pending
<1> QED BY <1>1 DEF TypeOK, EntryType, LookupType, LogoutType, SocketType, HubCounts

LEMMA TypesNext ==
    TypeOK' <=>
        /\ token' \in {"valid", "grace", "dead"} /\ graceLeft' \in 0 .. Leeway
        /\ revoked' \in BOOLEAN /\ revokedFor' \in 0 .. Bound
        /\ local' \in [Server -> BOOLEAN]
        /\ cache' \in [Server -> EntryType]
        /\ lookup' \in [Server -> LookupType]
        /\ tombstone' \in [Server -> BOOLEAN]
        /\ sessionHubs' \in HubCounts
        /\ logout' \in [Server -> LogoutType]
        /\ ended' \in [Server -> BOOLEAN]
        /\ socket' \in [Conn -> SocketType]
        /\ restarts' \in 0 .. MaxRestarts
<1>1. {"idle", "open", "cut"} \cup Pending = {"idle", "checked", "validated", "open", "cut"}
  BY DEF Pending
<1> QED BY <1>1 DEF TypeOK, EntryType, LookupType, LogoutType, SocketType, HubCounts

\* Elements of the types.
LEMMA Elements ==
    ASSUME TypeOK
    PROVE  /\ \A s \in Server : /\ cache[s] \in EntryType /\ lookup[s] \in LookupType
                                /\ logout[s] \in LogoutType
                                /\ local[s] \in BOOLEAN /\ ended[s] \in BOOLEAN
                                /\ tombstone[s] \in BOOLEAN
                                /\ cache[s].left \in Nat /\ lookup[s].left \in Nat
           /\ \A c \in Conn : socket[c] \in SocketType /\ socket[c].left \in Nat
           /\ revokedFor \in Nat
BY Types, Bounds DEF EntryType, LookupType, SocketType

LEMMA Blanks ==
    /\ NoEntry \in EntryType /\ ~NoEntry.active
    /\ NoLookup \in LookupType /\ NoLookup.answer = "none" /\ NoLookup.waiters = {}
    /\ NoLogout \in LogoutType /\ NoLogout.at = "none"
    /\ NoSocket \in SocketType /\ NoSocket.at = "idle"
BY Bounds DEF NoEntry, NoLookup, NoLogout, NoSocket, EntryType, LookupType, LogoutType, SocketType

LEMMA InitSession == Init => SessionInv
<1> SUFFICES ASSUME Init PROVE SessionInv
  OBVIOUS
<1>1. TypeOK
  <2>1. sessionHubs \in HubCounts
    BY Bounds DEF Init, HubCounts
  <2>2. graceLeft \in 0 .. Leeway /\ revokedFor \in 0 .. Bound /\ restarts \in 0 .. MaxRestarts
    BY Bounds DEF Init
  <2>3. /\ cache \in [Server -> EntryType] /\ lookup \in [Server -> LookupType]
        /\ logout \in [Server -> LogoutType] /\ socket \in [Conn -> SocketType]
    BY Blanks DEF Init
  <2>4. /\ local \in [Server -> BOOLEAN] /\ tombstone \in [Server -> BOOLEAN]
        /\ ended \in [Server -> BOOLEAN]
    BY DEF Init
  <2> QED BY <2>1, <2>2, <2>3, <2>4, Types DEF Init
<1>2. WaitersPlaced /\ LogoutsPlaced
  BY Blanks DEF Init, WaitersPlaced, LogoutsPlaced, LogoutPlaced
<1>3. CountsExact
  <2> SUFFICES ASSUME NEW s \in Server, NEW h \in Hub
               PROVE  sessionHubs[s][h] = Cardinality(Attached(s, h))
    BY DEF CountsExact
  <2>1. Attached(s, h) = {}
    BY Blanks DEF Init, Attached
  <2> QED BY <2>1, FS_EmptySet DEF Init
<1>4. NoneSlipsIn
  BY Blanks DEF Init, NoneSlipsIn, Remembered, Restarted, OpenToldOf, Over
<1>5. LookupsFresh /\ EntriesFresh /\ SocketsFresh
  BY Blanks DEF Init, LookupsFresh, EntriesFresh, SocketsFresh, SocketFresh
<1> QED BY <1>1, <1>2, <1>3, <1>4, <1>5 DEF SessionInv, Init

-----------------------------------------------------------------------------
(* What most steps have in common *)

\* Sockets that move on but are neither registered nor forgotten.
LEMMA SameCounts ==
    ASSUME CountsExact, UNCHANGED sessionHubs,
           \A c \in Conn : socket'[c].at \in {"open", "cut"} <=> socket[c].at \in {"open", "cut"}
    PROVE  CountsExact'
<1>1. \A s \in Server, h \in Hub : Attached(s, h)' = Attached(s, h)
  BY DEF Attached
<1> QED BY <1>1 DEF CountsExact

\* A server of which nothing changes, but that sockets may leave and lookups may end.
LEMMA OthersUndisturbed ==
    ASSUME NEW s \in Server, Remembered(s), Restarted(s), OpenToldOf(s), LogoutPlaced(s),
           UNCHANGED <<revoked, local[s], ended[s], tombstone[s], logout[s], cache[s], lookup[s]>>,
           \A c \in Conn : ServerOf[c] = s => socket'[c] = socket[c]
    PROVE  Remembered(s)' /\ Restarted(s)' /\ OpenToldOf(s)' /\ LogoutPlaced(s)'
BY DEF Remembered, Restarted, OpenToldOf, Over, LogoutPlaced

\* How a socket goes on after a check.
LEMMA Going ==
    ASSUME TypeOK, NEW c \in Conn, NEW active \in BOOLEAN, AsksForSession(c)
    PROVE  /\ GoesOn(c, active) \in SocketType
           /\ socket[c].at = "open" <=> GoesOn(c, active).at \in {"open", "cut"}
           /\ GoesOn(c, active).at = "open" =>
                 active /\ GoesOn(c, active).left = CheckPeriod + OperationTime
           /\ GoesOn(c, active).at = "validated" =>
                 /\ active /\ socket[c].at = "checked"
                 /\ GoesOn(c, active).left = OperationTime
           /\ GoesOn(c, active).at = "checked" =>
                 active /\ socket[c].at = "idle" /\ ~tombstone[ServerOf[c]]
<1>1. CASE socket[c].at = "open"
  BY <1>1, Bounds DEF GoesOn, SocketType
<1>2. CASE socket[c].at = "checked"
  BY <1>2, Bounds DEF GoesOn, SocketType, NoSocket
<1>3. CASE socket[c].at = "idle"
  BY <1>3, Bounds DEF GoesOn, SocketType, NoSocket
<1> QED BY <1>1, <1>2, <1>3 DEF AsksForSession

-----------------------------------------------------------------------------
(* Checks *)

LEMMA StartLookupSession ==
    ASSUME SessionInv, NEW s \in Server, StartLookup(s)
    PROVE  SessionInv'
<1> DEFINE started == [answer |-> IF IsSessionRevoked THEN "revoked" ELSE "active",
                       left |-> OperationTime, waiters |-> {}]
<1> USE DEF SessionInv
<1>1. started \in LookupType /\ lookup' = [lookup EXCEPT ![s] = started]
  BY Bounds DEF StartLookup, LookupType
<1>2. TypeOK'
  BY <1>1, Types, TypesNext DEF StartLookup, clock, sockets
<1>3. lookup'[s] = started /\ \A t \in Server : t # s => lookup'[t] = lookup[t]
  BY <1>1, Types
<1>4. WaitersPlaced'
  BY <1>3 DEF WaitersPlaced
<1>5. CountsExact'
  BY SameCounts DEF StartLookup, sockets
<1>6. LogoutsPlaced'
  BY DEF StartLookup, LogoutsPlaced, LogoutPlaced
<1>7. revoked => started.answer # "active"
  BY DEF StartLookup, Asks, Refused, IsSessionRevoked, RevocationLapsed
<1>8. NoneSlipsIn'
  <2> SUFFICES ASSUME NEW t \in Server
               PROVE  Remembered(t)' /\ Restarted(t)' /\ OpenToldOf(t)'
    BY DEF NoneSlipsIn
  <2>1. Remembered(t) /\ Restarted(t) /\ OpenToldOf(t) /\ LogoutPlaced(t)
    BY DEF NoneSlipsIn, LogoutsPlaced
  <2>2. CASE t # s
    BY <2>1, <2>2, <1>3 DEF StartLookup, sockets, Remembered, Restarted, OpenToldOf, Over
  <2>3. CASE t = s
    BY <2>1, <2>3, <1>3, <1>7
    DEF StartLookup, sockets, Remembered, Restarted, OpenToldOf, Over, LogoutPlaced
  <2> QED BY <2>2, <2>3
<1>9. LookupsFresh'
  BY <1>3, <1>7, Bounds, Types DEF StartLookup, clock, LookupsFresh
<1>10. EntriesFresh' /\ SocketsFresh' /\ (~revoked' => revokedFor' = 0)
  BY DEF StartLookup, clock, sockets, EntriesFresh, SocketsFresh, SocketFresh
<1> QED BY <1>2, <1>4, <1>5, <1>6, <1>8, <1>9, <1>10

LEMMA JoinLookupSession ==
    ASSUME SessionInv, NEW c \in Conn, JoinLookup(c)
    PROVE  SessionInv'
<1> USE DEF SessionInv
<1>1. PICK s \in Server : s = ServerOf[c]
  BY Bounds
<1>2. /\ lookup' = [lookup EXCEPT ![s].waiters = @ \cup {c}]
      /\ UNCHANGED <<clock, revoked, local, cache, logout, ended, sockets, restarts>>
      /\ token # "dead" /\ ~local[s]
  BY <1>1 DEF JoinLookup, Asks, Refused, isRevoked, RevocationLapsed
<1>3. lookup[s] \in LookupType
  BY Elements
<1>4. /\ lookup'[s] = [lookup[s] EXCEPT !.waiters = @ \cup {c}]
      /\ \A t \in Server : t # s => lookup'[t] = lookup[t]
  BY <1>2, Types
<1>5. /\ lookup'[s].answer = lookup[s].answer /\ lookup'[s].left = lookup[s].left
      /\ lookup'[s].waiters = lookup[s].waiters \cup {c}
      /\ lookup'[s] \in LookupType
  BY <1>3, <1>4 DEF LookupType
<1>6. TypeOK'
  <2>1. lookup' \in [Server -> LookupType]
    BY <1>2, <1>4, <1>5, Types
  <2> QED BY <2>1, <1>2, Types, TypesNext DEF clock, sockets
<1>7. WaitersPlaced'
  BY <1>1, <1>4, <1>5 DEF WaitersPlaced
<1>8. CountsExact' /\ LogoutsPlaced'
  BY <1>2, SameCounts DEF sockets, LogoutsPlaced, LogoutPlaced
<1>9. NoneSlipsIn'
  <2> SUFFICES ASSUME NEW t \in Server
               PROVE  Remembered(t)' /\ Restarted(t)' /\ OpenToldOf(t)'
    BY DEF NoneSlipsIn
  <2>1. Remembered(t) /\ Restarted(t) /\ OpenToldOf(t)
    BY DEF NoneSlipsIn
  <2>2. CASE t # s
    BY <2>1, <2>2, <1>2, <1>4 DEF sockets, Remembered, Restarted, OpenToldOf, Over
  <2>3. CASE t = s
    BY <2>1, <2>3, <1>2, <1>5 DEF sockets, Remembered, Restarted, OpenToldOf, Over
  <2> QED BY <2>2, <2>3
<1>10. LookupsFresh'
  BY <1>2, <1>4, <1>5 DEF clock, LookupsFresh
<1>11. EntriesFresh' /\ SocketsFresh' /\ (~revoked' => revokedFor' = 0)
  BY <1>2 DEF clock, sockets, EntriesFresh, SocketsFresh, SocketFresh
<1> QED BY <1>6, <1>7, <1>8, <1>9, <1>10, <1>11

LEMMA LookupAnswersSession ==
    ASSUME SessionInv, NEW s \in Server, LookupAnswers(s)
    PROVE  SessionInv'
<1> USE DEF SessionInv
<1>1. PICK active \in {lookup[s].answer = "active", FALSE} :
          /\ Put(s, active)
          /\ socket' = [c \in Conn |-> IF c \in lookup[s].waiters /\ AsksForSession(c)
                                         THEN GoesOn(c, active) ELSE socket[c]]
  BY DEF LookupAnswers
<1>2. active \in BOOLEAN /\ (active => lookup[s].answer = "active")
  OBVIOUS
<1>3. /\ cache'[s] = [active |-> active, left |-> TTL] /\ lookup'[s] = NoLookup
      /\ \A t \in Server : t # s => lookup'[t] = lookup[t] /\ cache'[t] = cache[t]
      /\ cache' \in [Server -> EntryType] /\ lookup' \in [Server -> LookupType]
  <2>1. [active |-> active, left |-> TTL] \in EntryType
    BY <1>2, Bounds DEF EntryType
  <2> QED BY <2>1, <1>1, Types, Blanks DEF LookupAnswers, Put
<1>4. /\ UNCHANGED <<clock, revoked, local, logout, ended, tombstone, sessionHubs, restarts>>
  BY DEF LookupAnswers
\* Each socket goes on after the check, or stays.
<1>5. ASSUME NEW c \in Conn
      PROVE  \/ /\ c \in lookup[s].waiters /\ AsksForSession(c) /\ ServerOf[c] = s
                /\ socket'[c] = GoesOn(c, active)
             \/ socket'[c] = socket[c] /\ ~(c \in lookup[s].waiters /\ AsksForSession(c))
  BY <1>1 DEF WaitersPlaced
<1>6. socket' \in [Conn -> SocketType]
  <2>1. \A c \in Conn : socket'[c] \in SocketType
    BY <1>2, <1>5, Going, Elements
  <2> QED BY <2>1, <1>1
<1>7. TypeOK'
  BY <1>3, <1>4, <1>6, Types, TypesNext DEF clock
<1>8. WaitersPlaced'
  BY <1>3, Blanks DEF WaitersPlaced
<1>9. CountsExact'
  <2>1. \A c \in Conn : socket'[c].at \in {"open", "cut"} <=> socket[c].at \in {"open", "cut"}
    <3> SUFFICES ASSUME NEW c \in Conn
                 PROVE  socket'[c].at \in {"open", "cut"} <=> socket[c].at \in {"open", "cut"}
      OBVIOUS
    <3>1. CASE socket'[c] = socket[c]
      BY <3>1
    <3>2. CASE AsksForSession(c) /\ socket'[c] = GoesOn(c, active)
      BY <3>2, <1>2, Going DEF AsksForSession
    <3> QED BY <3>1, <3>2, <1>5
  <2> QED BY <2>1, <1>4, SameCounts
<1>10. LogoutsPlaced'
  BY <1>4 DEF LogoutsPlaced, LogoutPlaced
<1>11. NoneSlipsIn'
  <2> SUFFICES ASSUME NEW t \in Server
               PROVE  Remembered(t)' /\ Restarted(t)' /\ OpenToldOf(t)'
    BY DEF NoneSlipsIn
  <2>1. Remembered(t) /\ Restarted(t) /\ OpenToldOf(t)
    BY DEF NoneSlipsIn
  <2>2. CASE t # s
    <3>1. \A c \in Conn : ServerOf[c] = t => socket'[c] = socket[c]
      BY <2>2, <1>5
    <3> QED BY <3>1, <2>1, <2>2, <1>3, <1>4 DEF Remembered, Restarted, OpenToldOf, Over
  <2>3. CASE t = s
    <3>1. OpenToldOf(s)'
      <4>1. \A c \in Conn : socket'[c].at = "open" => socket[c].at = "open"
        BY <1>2, <1>5, Going DEF AsksForSession
      <4> QED BY <4>1, <2>1, <2>3, <1>4 DEF OpenToldOf, Over
    <3>2. Remembered(s)'
      <4> SUFFICES ASSUME Over(s), local[s], ~tombstone[s], NEW c \in Conn, ServerOf[c] = s
                   PROVE  socket'[c].at # "validated" /\ c \notin lookup'[s].waiters
        BY <1>4 DEF Remembered, Over
      <4>1. /\ socket[c].at # "validated"
            /\ socket[c].at = "checked" => c \notin lookup[s].waiters
        BY <2>1, <2>3 DEF Remembered
      <4>2. socket'[c].at # "validated"
        BY <4>1, <1>2, <1>5, Going
      <4> QED BY <4>2, <1>3, Blanks
    <3>3. Restarted(s)'
      <4> SUFFICES ASSUME ended[s], ~local[s]
                   PROVE  /\ ~cache'[s].active /\ lookup'[s].answer # "active"
                          /\ \A c \in Conn : ServerOf[c] = s => socket'[c].at \notin Pending
        BY <1>4 DEF Restarted
      <4>1. ~active
        BY <2>1, <2>3, <1>2 DEF Restarted
      <4>2. \A c \in Conn : ServerOf[c] = s => socket'[c].at \notin Pending
        BY <4>1, <2>1, <2>3, <1>2, <1>5, Going DEF Restarted, Pending
      <4> QED BY <4>1, <4>2, <1>3, Blanks
    <3> QED BY <3>1, <3>2, <3>3, <2>3
  <2> QED BY <2>2, <2>3
<1>12. LookupsFresh'
  BY <1>3, <1>4, Blanks DEF clock, LookupsFresh
<1>13. active => revokedFor <= OperationTime
  BY <1>2, Elements, Bounds DEF LookupsFresh
<1>14. EntriesFresh'
  <2> SUFFICES ASSUME NEW t \in Server, cache'[t].active
               PROVE  revokedFor + cache'[t].left <= StaleBound
    BY <1>4 DEF EntriesFresh, clock
  <2>1. CASE t # s
    BY <2>1, <1>3 DEF EntriesFresh
  <2>2. CASE t = s
    <3>1. cache'[t].left = TTL /\ active
      BY <2>2, <1>3
    <3> QED BY <3>1, <1>13, Bounds, Elements
  <2> QED BY <2>1, <2>2
<1>15. SocketsFresh'
  <2> SUFFICES ASSUME NEW c \in Conn PROVE SocketFresh(c)'
    BY DEF SocketsFresh
  <2>1. CASE socket'[c] = socket[c]
    BY <2>1, <1>4 DEF SocketsFresh, SocketFresh, clock
  <2>2. CASE AsksForSession(c) /\ socket'[c] = GoesOn(c, active)
    <3>1. socket'[c].at = "open" => active /\ socket'[c].left = CheckPeriod + OperationTime
      BY <2>2, <1>2, Going
    <3>2. socket'[c].at = "validated" => active /\ socket'[c].left = OperationTime
      BY <2>2, <1>2, Going
    <3> QED BY <3>1, <3>2, <1>4, <1>13, Bounds, Elements DEF SocketFresh, clock
  <2> QED BY <2>1, <2>2, <1>5
<1>16. ~revoked' => revokedFor' = 0
  BY <1>4 DEF clock
<1> QED BY <1>7, <1>8, <1>9, <1>10, <1>11, <1>12, <1>14, <1>15, <1>16

LEMMA EvictSession ==
    ASSUME SessionInv, NEW s \in Server, Evict(s)
    PROVE  SessionInv'
<1> USE DEF SessionInv
<1>1. /\ cache' \in [Server -> EntryType] /\ cache'[s] = NoEntry
      /\ \A t \in Server : t # s => cache'[t] = cache[t]
  BY Types, Blanks DEF Evict
<1>2. UNCHANGED <<clock, revoked, local, lookup, logout, ended, sockets, restarts>>
  BY DEF Evict
<1>3. TypeOK'
  BY <1>1, <1>2, Types, TypesNext DEF clock, sockets
<1>4. WaitersPlaced' /\ LogoutsPlaced'
  BY <1>2 DEF WaitersPlaced, LogoutsPlaced, LogoutPlaced
<1>5. CountsExact'
  BY <1>2, SameCounts DEF sockets
<1>6. NoneSlipsIn'
  BY <1>1, <1>2, Blanks DEF sockets, NoneSlipsIn, Remembered, Restarted, OpenToldOf, Over
<1>7. EntriesFresh'
  BY <1>1, <1>2, Blanks DEF clock, EntriesFresh
<1>8. LookupsFresh' /\ SocketsFresh' /\ (~revoked' => revokedFor' = 0)
  BY <1>2 DEF clock, sockets, LookupsFresh, SocketsFresh, SocketFresh
<1> QED BY <1>3, <1>4, <1>5, <1>6, <1>7, <1>8

-----------------------------------------------------------------------------
(* The logout *)

\* The logout comes to its next place, keeping the hubs it has yet to tell.
LEMMA LogoutMoves ==
    ASSUME TypeOK, NEW s \in Server,
           NEW at \in {"none", "looked", "saved", "remembered", "telling"}, LogoutAt(s, at)
    PROVE  /\ logout' \in [Server -> LogoutType]
           /\ logout'[s].at = at /\ logout'[s].telling = logout[s].telling
           /\ \A t \in Server : t # s => logout'[t] = logout[t]
<1>1. logout[s] \in LogoutType
  BY Elements
<1>2. /\ [logout[s] EXCEPT !.at = at] \in LogoutType
      /\ [logout[s] EXCEPT !.at = at].at = at
      /\ [logout[s] EXCEPT !.at = at].telling = logout[s].telling
  BY <1>1 DEF LogoutType
<1> QED BY <1>2, Types DEF LogoutAt

\* A refusal in the cache.
LEMMA RefusalCached ==
    ASSUME TypeOK, NEW s \in Server, Put(s, FALSE)
    PROVE  /\ cache' \in [Server -> EntryType] /\ ~cache'[s].active
           /\ \A t \in Server : t # s => cache'[t] = cache[t]
<1>1. [active |-> FALSE, left |-> TTL] \in EntryType
  BY Bounds DEF EntryType
<1> QED BY <1>1, Types DEF Put

LEMMA BeginLogoutSession ==
    ASSUME SessionInv, NEW s \in Server, BeginLogout(s)
    PROVE  SessionInv'
<1> USE DEF SessionInv
<1>1. UNCHANGED <<clock, revoked, lookup, ended, sockets, restarts>>
  BY DEF BeginLogout
<1>2. logout[s].at = "none"
  BY Blanks DEF BeginLogout
\* What becomes of the server's memory.
<1>3. /\ cache' \in [Server -> EntryType] /\ local' \in [Server -> BOOLEAN]
      /\ logout' \in [Server -> LogoutType]
      /\ \A t \in Server : t # s =>
            cache'[t] = cache[t] /\ local'[t] = local[t] /\ logout'[t] = logout[t]
      /\ cache'[s] = cache[s] \/ ~cache'[s].active
      /\ logout'[s].at \in {"looked", "remembered"}
      /\ logout'[s].at = "looked" => ~local'[s]
      /\ logout'[s].at = "remembered" => revoked
      /\ local'[s] => revoked
      /\ local[s] => local'[s]
  <2>1. token # "dead" /\ (local[s] => revoked)
    BY DEF BeginLogout, LogoutsPlaced, LogoutPlaced
  <2>2. CASE isRevoked(s) /\ LogoutAt(s, "remembered") /\ UNCHANGED <<local, cache>>
    BY <2>1, <2>2, Types, LogoutMoves DEF isRevoked
  <2>3. CASE /\ ~isRevoked(s) /\ IsSessionRevoked
             /\ \E kept \in BOOLEAN : local' = [local EXCEPT ![s] = kept]
             /\ Put(s, FALSE)
             /\ LogoutAt(s, "remembered")
    BY <2>1, <2>3, Types, LogoutMoves, RefusalCached
    DEF isRevoked, IsSessionRevoked, RevocationLapsed
  <2>4. CASE ~isRevoked(s) /\ LogoutAt(s, "looked") /\ UNCHANGED <<local, cache>>
    BY <2>1, <2>4, Types, LogoutMoves DEF isRevoked, RevocationLapsed
  <2> QED BY <2>2, <2>3, <2>4 DEF BeginLogout
<1>4. TypeOK'
  BY <1>1, <1>3, Types, TypesNext DEF clock, sockets
<1>5. WaitersPlaced' /\ CountsExact'
  BY <1>1, SameCounts DEF sockets, WaitersPlaced
<1>6. LogoutsPlaced'
  <2> SUFFICES ASSUME NEW t \in Server PROVE LogoutPlaced(t)'
    BY DEF LogoutsPlaced
  <2>1. LogoutPlaced(t)
    BY DEF LogoutsPlaced
  <2>2. CASE t # s
    BY <2>1, <2>2, <1>1, <1>3 DEF LogoutPlaced
  <2>3. CASE t = s
    BY <2>1, <2>3, <1>1, <1>3 DEF LogoutPlaced
  <2> QED BY <2>2, <2>3
<1>7. NoneSlipsIn'
  <2> SUFFICES ASSUME NEW t \in Server
               PROVE  Remembered(t)' /\ Restarted(t)' /\ OpenToldOf(t)'
    BY DEF NoneSlipsIn
  <2>1. Remembered(t) /\ Restarted(t) /\ OpenToldOf(t)
    BY DEF NoneSlipsIn
  <2>2. CASE t # s
    BY <2>1, <2>2, <1>1, <1>3 DEF sockets, Remembered, Restarted, OpenToldOf, Over
  <2>3. CASE t = s
    <3>1. Over(s)' <=> ended[s]
      BY <1>1, <1>3 DEF Over
    <3>2. Remembered(s)'
      BY <3>1, <2>1, <2>3, <1>1, <1>3 DEF sockets, Remembered, Restarted, Over, Pending
    <3>3. Restarted(s)'
      BY <2>1, <2>3, <1>1, <1>3 DEF sockets, Restarted
    <3>4. OpenToldOf(s)'
      BY <3>1, <2>1, <2>3, <1>1 DEF sockets, OpenToldOf, Over
    <3> QED BY <3>2, <3>3, <3>4, <2>3
  <2> QED BY <2>2, <2>3
<1>8. EntriesFresh'
  BY <1>1, <1>3 DEF clock, EntriesFresh
<1>9. LookupsFresh' /\ SocketsFresh' /\ (~revoked' => revokedFor' = 0)
  BY <1>1 DEF clock, sockets, LookupsFresh, SocketsFresh, SocketFresh
<1> QED BY <1>4, <1>5, <1>6, <1>7, <1>8, <1>9

\* The revocation comes to the database, or does not, and the logout goes on or fails.
LEMMA RevocationSaved ==
    ASSUME SessionInv, NEW s \in Server, logout[s].at = "looked",
           NEW at \in {"none", "saved"}, LogoutAt(s, at),
           revoked' \in {revoked, TRUE}, at = "saved" => revoked',
           UNCHANGED <<clock, auth, ended, sockets, restarts>>
    PROVE  SessionInv'
<1> USE DEF SessionInv
<1>1. /\ logout' \in [Server -> LogoutType] /\ logout'[s].at = at
      /\ \A t \in Server : t # s => logout'[t] = logout[t]
  BY LogoutMoves
<1>2. revoked => revoked'
  OBVIOUS
<1>3. TypeOK'
  BY <1>1, Types, TypesNext DEF clock, auth, sockets
<1>4. WaitersPlaced' /\ CountsExact'
  BY SameCounts DEF auth, sockets, WaitersPlaced
<1>5. LogoutsPlaced'
  <2> SUFFICES ASSUME NEW t \in Server PROVE LogoutPlaced(t)'
    BY DEF LogoutsPlaced
  <2>1. LogoutPlaced(t) /\ LogoutPlaced(s)
    BY DEF LogoutsPlaced
  <2>2. CASE t # s
    BY <2>1, <2>2, <1>1, <1>2 DEF auth, LogoutPlaced
  <2>3. CASE t = s
    BY <2>1, <2>3, <1>1, <1>2 DEF auth, LogoutPlaced
  <2> QED BY <2>2, <2>3
<1>6. NoneSlipsIn'
  <2> SUFFICES ASSUME NEW t \in Server
               PROVE  Remembered(t)' /\ Restarted(t)' /\ OpenToldOf(t)'
    BY DEF NoneSlipsIn
  <2>1. Remembered(t) /\ Restarted(t) /\ OpenToldOf(t)
    BY DEF NoneSlipsIn
  <2>2. CASE t # s
    BY <2>1, <2>2, <1>1 DEF auth, sockets, Remembered, Restarted, OpenToldOf, Over
  <2>3. CASE t = s
    <3>1. (Over(s) <=> ended[s]) /\ (Over(s)' <=> ended[s])
      BY <1>1 DEF Over
    <3> QED BY <3>1, <2>1, <2>3 DEF auth, sockets, Remembered, Restarted, OpenToldOf
  <2> QED BY <2>2, <2>3
<1>7. /\ LookupsFresh' /\ EntriesFresh' /\ SocketsFresh' /\ (~revoked' => revokedFor' = 0)
  BY <1>2 DEF clock, auth, sockets, LookupsFresh, EntriesFresh, SocketsFresh, SocketFresh
<1> QED BY <1>3, <1>4, <1>5, <1>6, <1>7

LEMMA SaveSession ==
    ASSUME SessionInv, NEW s \in Server, SaveSessionRevocation(s) \/ SaveFails(s)
    PROVE  SessionInv'
BY RevocationSaved DEF SaveSessionRevocation, SaveFails

LEMMA RememberSession ==
    ASSUME SessionInv, NEW s \in Server, Remember(s)
    PROVE  SessionInv'
<1> USE DEF SessionInv
<1>1. UNCHANGED <<clock, revoked, lookup, ended, sockets, restarts>> /\ logout[s].at = "saved"
  BY DEF Remember
<1>2. /\ cache' \in [Server -> EntryType] /\ ~cache'[s].active
      /\ \A t \in Server : t # s => cache'[t] = cache[t]
  BY RefusalCached DEF Remember
<1>3. /\ logout' \in [Server -> LogoutType] /\ logout'[s].at = "remembered"
      /\ \A t \in Server : t # s => logout'[t] = logout[t]
  BY LogoutMoves DEF Remember
<1>4. /\ local' \in [Server -> BOOLEAN]
      /\ \A t \in Server : t # s => local'[t] = local[t]
  BY Types DEF Remember
<1>5. ~local[s] /\ revoked
  BY <1>1 DEF LogoutsPlaced, LogoutPlaced
<1>6. TypeOK'
  BY <1>1, <1>2, <1>3, <1>4, Types, TypesNext DEF clock, sockets
<1>7. WaitersPlaced' /\ CountsExact'
  BY <1>1, SameCounts DEF sockets, WaitersPlaced
<1>8. LogoutsPlaced'
  BY <1>1, <1>3, <1>4, <1>5 DEF LogoutsPlaced, LogoutPlaced
<1>9. NoneSlipsIn'
  <2> SUFFICES ASSUME NEW t \in Server
               PROVE  Remembered(t)' /\ Restarted(t)' /\ OpenToldOf(t)'
    BY DEF NoneSlipsIn
  <2>1. Remembered(t) /\ Restarted(t) /\ OpenToldOf(t)
    BY DEF NoneSlipsIn
  <2>2. CASE t # s
    BY <2>1, <2>2, <1>1, <1>2, <1>3, <1>4
    DEF sockets, Remembered, Restarted, OpenToldOf, Over
  <2>3. CASE t = s
    <3>1. (Over(s) <=> ended[s]) /\ (Over(s)' <=> ended[s])
      BY <1>1, <1>3 DEF Over
    <3>2. Remembered(s)'
      BY <3>1, <2>1, <2>3, <1>1, <1>5 DEF sockets, Remembered, Restarted, Pending
    <3>3. Restarted(s)' /\ OpenToldOf(s)'
      BY <3>1, <2>1, <2>3, <1>1, <1>2, <1>5 DEF sockets, Restarted, OpenToldOf
    <3> QED BY <3>2, <3>3, <2>3
  <2> QED BY <2>2, <2>3
<1>10. EntriesFresh'
  BY <1>1, <1>2 DEF clock, EntriesFresh
<1>11. LookupsFresh' /\ SocketsFresh' /\ (~revoked' => revokedFor' = 0)
  BY <1>1 DEF clock, sockets, LookupsFresh, SocketsFresh, SocketFresh
<1> QED BY <1>6, <1>7, <1>8, <1>9, <1>10, <1>11

\* A hub with an open socket of the session is in the registry's list of hubs to tell.
LEMMA OpenIsCounted ==
    ASSUME SessionInv, NEW c \in Conn, socket[c].at = "open"
    PROVE  sessionHubs[ServerOf[c]][HubOf[c]] > 0
<1>1. PICK s \in Server, h \in Hub : s = ServerOf[c] /\ h = HubOf[c]
  BY Bounds
<1>2. Attached(s, h) \subseteq Conn /\ c \in Attached(s, h)
  BY <1>1 DEF Attached
<1>3. IsFiniteSet(Attached(s, h)) /\ Cardinality(Attached(s, h)) \in Nat
  BY <1>2, Bounds, FS_Subset, FS_CardinalityType
<1>4. Cardinality(Attached(s, h)) # 0
  BY <1>2, <1>3, FS_EmptySet
<1>5. sessionHubs[s][h] = Cardinality(Attached(s, h))
  BY DEF SessionInv, CountsExact
<1> QED BY <1>1, <1>3, <1>4, <1>5

LEMMA DisconnectSessionSession ==
    ASSUME SessionInv, NEW s \in Server, DisconnectSession(s)
    PROVE  SessionInv'
<1> USE DEF SessionInv
<1> DEFINE told == {h \in Hub : sessionHubs[s][h] > 0}
<1>1. /\ UNCHANGED <<clock, revoked, auth, ended, sessionHubs, socket, restarts>>
      /\ logout[s].at = "remembered"
  BY DEF DisconnectSession
<1>2. /\ tombstone' \in [Server -> BOOLEAN] /\ tombstone'[s]
      /\ \A t \in Server : t # s => tombstone'[t] = tombstone[t]
  BY Types DEF DisconnectSession
<1>3. /\ logout' \in [Server -> LogoutType]
      /\ logout'[s] = [at |-> "telling", telling |-> told]
      /\ \A t \in Server : t # s => logout'[t] = logout[t]
  <2>1. [at |-> "telling", telling |-> told] \in LogoutType
    BY DEF LogoutType
  <2> QED BY <2>1, Types DEF DisconnectSession
<1>4. TypeOK'
  BY <1>1, <1>2, <1>3, Types, TypesNext DEF clock, auth
<1>5. WaitersPlaced' /\ CountsExact'
  BY <1>1, SameCounts DEF auth, WaitersPlaced
<1>6. LogoutsPlaced'
  BY <1>1, <1>3 DEF auth, LogoutsPlaced, LogoutPlaced
<1>7. NoneSlipsIn'
  <2> SUFFICES ASSUME NEW t \in Server
               PROVE  Remembered(t)' /\ Restarted(t)' /\ OpenToldOf(t)'
    BY DEF NoneSlipsIn
  <2>1. Remembered(t) /\ Restarted(t) /\ OpenToldOf(t)
    BY DEF NoneSlipsIn
  <2>2. CASE t # s
    BY <2>1, <2>2, <1>1, <1>2, <1>3 DEF auth, Remembered, Restarted, OpenToldOf, Over
  <2>3. CASE t = s
    <3>1. Remembered(s)' /\ Restarted(s)'
      BY <2>1, <2>3, <1>1, <1>2 DEF auth, Remembered, Restarted
    <3>2. OpenToldOf(s)'
      <4> SUFFICES ASSUME NEW c \in Conn, ServerOf[c] = s, socket[c].at = "open"
                   PROVE  ~ended[s] /\ HubOf[c] \in told
        BY <1>1, <1>3 DEF OpenToldOf
      <4> QED BY OpenIsCounted, Bounds, <2>1, <2>3 DEF OpenToldOf, Over
    <3> QED BY <3>1, <3>2, <2>3
  <2> QED BY <2>2, <2>3
<1>8. LookupsFresh' /\ EntriesFresh' /\ SocketsFresh' /\ (~revoked' => revokedFor' = 0)
  BY <1>1 DEF clock, auth, LookupsFresh, EntriesFresh, SocketsFresh, SocketFresh
<1> QED BY <1>4, <1>5, <1>6, <1>7, <1>8

LEMMA DisconnectTokenSession ==
    ASSUME SessionInv, NEW s \in Server, NEW h \in Hub, DisconnectToken(s, h)
    PROVE  SessionInv'
<1> USE DEF SessionInv
<1>1. UNCHANGED <<clock, revoked, auth, ended, tombstone, sessionHubs, restarts>>
  BY DEF DisconnectToken
<1>2. \A c \in Conn : \/ socket[c].at = "open" /\ ServerOf[c] = s /\ HubOf[c] = h
                         /\ socket'[c] = [at |-> "cut", left |-> 0]
                      \/ /\ socket'[c] = socket[c]
                         /\ ~(socket[c].at = "open" /\ ServerOf[c] = s /\ HubOf[c] = h)
  BY DEF DisconnectToken, OpenIn
<1>3. /\ logout' \in [Server -> LogoutType]
      /\ logout'[s].at = logout[s].at /\ logout'[s].telling = logout[s].telling \ {h}
      /\ \A t \in Server : t # s => logout'[t] = logout[t]
  <2>1. logout[s] \in LogoutType
    BY Elements
  <2>2. /\ [logout[s] EXCEPT !.telling = @ \ {h}] \in LogoutType
        /\ [logout[s] EXCEPT !.telling = @ \ {h}].at = logout[s].at
        /\ [logout[s] EXCEPT !.telling = @ \ {h}].telling = logout[s].telling \ {h}
    BY <2>1 DEF LogoutType
  <2> QED BY <2>2, Types DEF DisconnectToken
<1>4. socket' \in [Conn -> SocketType]
  <2>1. [at |-> "cut", left |-> 0] \in SocketType
    BY Bounds DEF SocketType
  <2> QED BY <2>1, Types DEF DisconnectToken
<1>5. TypeOK'
  BY <1>1, <1>3, <1>4, Types, TypesNext DEF clock, auth
<1>6. WaitersPlaced'
  BY <1>1 DEF auth, WaitersPlaced
<1>7. CountsExact'
  BY <1>1, <1>2, SameCounts
<1>8. LogoutsPlaced'
  BY <1>1, <1>3 DEF auth, LogoutsPlaced, LogoutPlaced
<1>9. NoneSlipsIn'
  <2> SUFFICES ASSUME NEW t \in Server
               PROVE  Remembered(t)' /\ Restarted(t)' /\ OpenToldOf(t)'
    BY DEF NoneSlipsIn
  <2>1. Remembered(t) /\ Restarted(t) /\ OpenToldOf(t)
    BY DEF NoneSlipsIn
  <2>2. Over(t)' <=> Over(t)
    BY <1>1, <1>3 DEF auth, Over
  <2>3. \A c \in Conn : socket'[c].at = "cut" \/ socket'[c] = socket[c]
    BY <1>2
  <2>4. Remembered(t)' /\ Restarted(t)'
    BY <2>1, <2>2, <2>3, <1>1 DEF auth, Remembered, Restarted, Pending
  <2>5. OpenToldOf(t)'
    BY <2>1, <2>2, <1>1, <1>2, <1>3 DEF auth, OpenToldOf
  <2> QED BY <2>4, <2>5
<1>10. SocketsFresh'
  BY <1>1, <1>2 DEF clock, SocketsFresh, SocketFresh
<1>11. LookupsFresh' /\ EntriesFresh' /\ (~revoked' => revokedFor' = 0)
  BY <1>1 DEF clock, auth, LookupsFresh, EntriesFresh
<1> QED BY <1>5, <1>6, <1>7, <1>8, <1>9, <1>10, <1>11

LEMMA LogoutReturnsSession ==
    ASSUME SessionInv, NEW s \in Server, LogoutReturns(s)
    PROVE  SessionInv'
<1> USE DEF SessionInv
<1>1. /\ UNCHANGED <<clock, revoked, auth, sockets, restarts>>
      /\ logout[s].at = "telling" /\ logout[s].telling = {}
  BY DEF LogoutReturns
<1>2. /\ logout' \in [Server -> LogoutType] /\ logout'[s] = NoLogout
      /\ \A t \in Server : t # s => logout'[t] = logout[t]
  BY Types, Blanks DEF LogoutReturns
<1>3. /\ ended' \in [Server -> BOOLEAN] /\ (ended'[s] <=> ended[s] \/ local[s])
      /\ \A t \in Server : t # s => ended'[t] = ended[t]
  BY Types DEF LogoutReturns
<1>4. TypeOK'
  BY <1>1, <1>2, <1>3, Types, TypesNext DEF clock, auth, sockets
<1>5. WaitersPlaced' /\ CountsExact'
  BY <1>1, SameCounts DEF auth, sockets, WaitersPlaced
<1>6. LogoutsPlaced'
  <2> SUFFICES ASSUME NEW t \in Server PROVE LogoutPlaced(t)'
    BY DEF LogoutsPlaced
  <2>1. LogoutPlaced(t)
    BY DEF LogoutsPlaced
  <2>2. CASE t # s
    BY <2>1, <2>2, <1>1, <1>2, <1>3 DEF auth, LogoutPlaced
  <2>3. CASE t = s
    BY <2>1, <2>3, <1>1, <1>2, <1>3, Blanks DEF auth, LogoutPlaced
  <2> QED BY <2>2, <2>3
<1>7. NoneSlipsIn'
  <2> SUFFICES ASSUME NEW t \in Server
               PROVE  Remembered(t)' /\ Restarted(t)' /\ OpenToldOf(t)'
    BY DEF NoneSlipsIn
  <2>1. Remembered(t) /\ Restarted(t) /\ OpenToldOf(t)
    BY DEF NoneSlipsIn
  <2>2. CASE t # s
    BY <2>1, <2>2, <1>1, <1>2, <1>3 DEF auth, sockets, Remembered, Restarted, OpenToldOf, Over
  <2>3. CASE t = s
    <3>1. (Over(s)' => Over(s)) /\ (Over(s)' <=> ended[s] \/ local[s])
      BY <1>1, <1>2, <1>3, Blanks DEF Over
    <3>2. Remembered(s)' /\ Restarted(s)'
      BY <3>1, <2>1, <2>3, <1>1, <1>3 DEF auth, sockets, Remembered, Restarted
    <3>3. OpenToldOf(s)'
      BY <3>1, <2>1, <2>3, <1>1 DEF auth, sockets, OpenToldOf
    <3> QED BY <3>2, <3>3, <2>3
  <2> QED BY <2>2, <2>3
<1>8. LookupsFresh' /\ EntriesFresh' /\ SocketsFresh' /\ (~revoked' => revokedFor' = 0)
  BY <1>1 DEF clock, auth, sockets, LookupsFresh, EntriesFresh, SocketsFresh, SocketFresh
<1> QED BY <1>4, <1>5, <1>6, <1>7, <1>8

-----------------------------------------------------------------------------
(* Sockets *)

\* One socket moves.
LEMMA SocketGoes ==
    ASSUME TypeOK, NEW c \in Conn, NEW next \in SocketType,
           socket' = [socket EXCEPT ![c] = next]
    PROVE  /\ socket' \in [Conn -> SocketType] /\ socket'[c] = next
           /\ \A d \in Conn : d # c => socket'[d] = socket[d]
BY Types

LEMMA SessionActiveSession ==
    ASSUME SessionInv, NEW c \in Conn, SessionActive(c)
    PROVE  SessionInv'
<1> USE DEF SessionInv
<1>1. PICK s \in Server : s = ServerOf[c]
  BY Bounds
<1> DEFINE active == Admitted(s)
<1>2. /\ AsksForSession(c) /\ active \in BOOLEAN
      /\ \A t \in Server : c \notin lookup[t].waiters
      /\ UNCHANGED <<clock, revoked, auth, logout, ended, tombstone, sessionHubs, restarts>>
  BY <1>1, Elements DEF SessionActive, Admitted
<1>3. active => ~local[s] /\ cache[s].active /\ cache[s].left > 0
  BY DEF Admitted, isRevoked, RevocationLapsed, Cached
<1>4. GoesOn(c, active) \in SocketType
  BY <1>2, Going
<1>5. /\ socket' \in [Conn -> SocketType] /\ socket'[c] = GoesOn(c, active)
      /\ \A d \in Conn : d # c => socket'[d] = socket[d]
  <2>1. socket' = [socket EXCEPT ![c] = GoesOn(c, active)]
    BY <1>1 DEF SessionActive
  <2> HIDE DEF active
  <2> QED BY <2>1, <1>4, SocketGoes
<1> HIDE DEF active
<1>6. TypeOK'
  BY <1>2, <1>5, Types, TypesNext DEF clock, auth
<1>7. WaitersPlaced'
  BY <1>2 DEF auth, WaitersPlaced
<1>8. CountsExact'
  <2>1. socket'[c].at \in {"open", "cut"} <=> socket[c].at \in {"open", "cut"}
    BY <1>2, <1>5, Going DEF AsksForSession
  <2>2. \A d \in Conn : socket'[d].at \in {"open", "cut"} <=> socket[d].at \in {"open", "cut"}
    BY <2>1, <1>5
  <2> QED BY <2>2, <1>2, SameCounts
<1>9. LogoutsPlaced'
  BY <1>2 DEF auth, LogoutsPlaced, LogoutPlaced
<1>10. NoneSlipsIn'
  <2> SUFFICES ASSUME NEW t \in Server
               PROVE  Remembered(t)' /\ Restarted(t)' /\ OpenToldOf(t)'
    BY DEF NoneSlipsIn
  <2>1. Remembered(t) /\ Restarted(t) /\ OpenToldOf(t)
    BY DEF NoneSlipsIn
  <2>2. Over(t)' <=> Over(t)
    BY <1>2 DEF auth, Over
  <2>3. CASE t # s
    <3>1. \A d \in Conn : ServerOf[d] = t => socket'[d] = socket[d]
      BY <2>3, <1>1, <1>5
    <3> QED BY <3>1, <2>1, <2>2, <1>2 DEF auth, Remembered, Restarted, OpenToldOf
  <2>4. CASE t = s
    <3>1. Remembered(s)'
      <4> SUFFICES ASSUME Over(s), local[s], ~tombstone[s], NEW d \in Conn, ServerOf[d] = s
                   PROVE  /\ socket'[d].at # "validated"
                          /\ socket'[d].at = "checked" => d \notin lookup[s].waiters
        BY <2>2, <2>4, <1>2 DEF auth, Remembered
      <4>1. CASE d # c
        BY <4>1, <2>1, <2>4, <1>5 DEF Remembered
      <4>2. CASE d = c
        BY <4>2, <1>2, <1>3, <1>5, Going
      <4> QED BY <4>1, <4>2
    <3>2. Restarted(s)'
      <4> SUFFICES ASSUME ended[s], ~local[s], NEW d \in Conn, ServerOf[d] = s
                   PROVE  socket'[d].at \notin Pending
        BY <2>1, <2>4, <1>2 DEF auth, Restarted
      <4>1. CASE d # c
        BY <4>1, <2>1, <2>4, <1>5 DEF Restarted
      <4>2. CASE d = c
        BY <4>2, <2>1, <2>4, <1>2, <1>3, <1>5, Going DEF Restarted, Pending
      <4> QED BY <4>1, <4>2
    <3>3. OpenToldOf(s)'
      <4>1. \A d \in Conn : socket'[d].at = "open" => socket[d].at = "open"
        BY <1>2, <1>5, Going DEF AsksForSession
      <4> QED BY <4>1, <2>1, <2>2, <2>4, <1>2 DEF OpenToldOf
    <3> QED BY <3>1, <3>2, <3>3, <2>4
  <2> QED BY <2>3, <2>4
<1>11. active => revokedFor < StaleBound
  BY <1>3, Elements, Bounds DEF EntriesFresh
<1>12. SocketsFresh'
  <2> SUFFICES ASSUME NEW d \in Conn PROVE SocketFresh(d)'
    BY DEF SocketsFresh
  <2>1. CASE d # c
    BY <2>1, <1>2, <1>5 DEF clock, SocketsFresh, SocketFresh
  <2>2. CASE d = c
    <3>1. socket'[c].at = "open" => active /\ socket'[c].left = CheckPeriod + OperationTime
      BY <1>2, <1>5, Going
    <3>2. socket'[c].at = "validated" => active /\ socket'[c].left = OperationTime
      BY <1>2, <1>5, Going
    <3> QED BY <3>1, <3>2, <2>2, <1>2, <1>11, Bounds, Elements DEF clock, SocketFresh
  <2> QED BY <2>1, <2>2
<1>13. LookupsFresh' /\ EntriesFresh' /\ (~revoked' => revokedFor' = 0)
  BY <1>2 DEF clock, auth, LookupsFresh, EntriesFresh
<1> QED BY <1>6, <1>7, <1>8, <1>9, <1>10, <1>12, <1>13

\* The registry's counts after one socket was registered or forgotten.
LEMMA CountChanges ==
    ASSUME TypeOK, NEW s \in Server, NEW h \in Hub, NEW n,
           sessionHubs' = [sessionHubs EXCEPT ![s][h] = n],
           CountsExact'
    PROVE  sessionHubs' \in HubCounts
<1>1. \A t \in Server, k \in Hub : sessionHubs'[t][k] \in 0 .. Cardinality(Conn)
  <2> SUFFICES ASSUME NEW t \in Server, NEW k \in Hub
               PROVE  sessionHubs'[t][k] \in 0 .. Cardinality(Conn)
    OBVIOUS
  <2>1. Attached(t, k)' \subseteq Conn
    BY DEF Attached
  <2>2. Cardinality(Attached(t, k)') \in 0 .. Cardinality(Conn)
    BY <2>1, Bounds, FS_Subset, FS_CardinalityType
  <2>3. sessionHubs'[t][k] = Cardinality(Attached(t, k)')
    BY DEF CountsExact
  <2> QED BY <2>2, <2>3
<1>2. sessionHubs \in [Server -> [Hub -> 0 .. Cardinality(Conn)]]
  BY Types DEF HubCounts
<1>3. \A t \in Server : /\ DOMAIN sessionHubs'[t] = Hub
                        /\ sessionHubs'[t] = [k \in Hub |-> sessionHubs'[t][k]]
  BY <1>2
<1> QED BY <1>1, <1>2, <1>3 DEF HubCounts

LEMMA RegisterSocketSession ==
    ASSUME SessionInv, NEW c \in Conn, RegisterSocket(c)
    PROVE  SessionInv'
<1> USE DEF SessionInv
<1>1. PICK s \in Server, h \in Hub : s = ServerOf[c] /\ h = HubOf[c]
  BY Bounds
<1> DEFINE open == [at |-> "open", left |-> CheckPeriod + OperationTime]
<1>2. /\ socket[c].at = "validated" /\ ~tombstone[s]
      /\ UNCHANGED <<clock, revoked, auth, logout, ended, tombstone, restarts>>
  BY <1>1 DEF RegisterSocket
<1>3. open \in SocketType
  BY Bounds DEF SocketType
<1>4. /\ socket' \in [Conn -> SocketType] /\ socket'[c] = open
      /\ \A d \in Conn : d # c => socket'[d] = socket[d]
  BY <1>3, SocketGoes DEF RegisterSocket, Goes
<1>5. sessionHubs' = [sessionHubs EXCEPT ![s][h] = sessionHubs[s][h] + 1]
  BY <1>1 DEF RegisterSocket
<1>6. sessionHubs \in [Server -> [Hub -> 0 .. Cardinality(Conn)]]
  BY Types DEF HubCounts
<1>7. CountsExact'
  <2> SUFFICES ASSUME NEW t \in Server, NEW k \in Hub
               PROVE  sessionHubs'[t][k] = Cardinality(Attached(t, k)')
    BY DEF CountsExact
  <2>1. sessionHubs[t][k] = Cardinality(Attached(t, k))
    BY DEF CountsExact
  <2>2. CASE t = s /\ k = h
    <3>1. Attached(s, h)' = Attached(s, h) \cup {c}
      BY <1>1, <1>2, <1>4 DEF Attached
    <3>2. c \notin Attached(s, h) /\ Attached(s, h) \subseteq Conn
      BY <1>2 DEF Attached
    <3>3. Cardinality(Attached(s, h) \cup {c}) = Cardinality(Attached(s, h)) + 1
      BY <3>2, Bounds, FS_Subset, FS_AddElement
    <3>4. sessionHubs'[s][h] = sessionHubs[s][h] + 1
      BY <1>5, <1>6
    <3> QED BY <2>1, <2>2, <3>1, <3>3, <3>4
  <2>3. CASE ~(t = s /\ k = h)
    <3>1. Attached(t, k)' = Attached(t, k)
      BY <2>3, <1>1, <1>2, <1>4 DEF Attached
    <3>2. sessionHubs'[t][k] = sessionHubs[t][k]
      BY <2>3, <1>5, <1>6
    <3> QED BY <2>1, <3>1, <3>2
  <2> QED BY <2>2, <2>3
<1>8. sessionHubs' \in HubCounts
  BY <1>5, <1>7, CountChanges
<1>9. TypeOK'
  BY <1>2, <1>4, <1>8, Types, TypesNext DEF clock, auth
<1>10. WaitersPlaced' /\ LogoutsPlaced'
  BY <1>2 DEF auth, WaitersPlaced, LogoutsPlaced, LogoutPlaced
\* Where the session is over nobody has passed his checks and would not find the tombstone.
<1>11. ~Over(s)
  BY <1>1, <1>2 DEF NoneSlipsIn, Remembered, Restarted, Over, Pending
<1>12. NoneSlipsIn'
  <2> SUFFICES ASSUME NEW t \in Server
               PROVE  Remembered(t)' /\ Restarted(t)' /\ OpenToldOf(t)'
    BY DEF NoneSlipsIn
  <2>1. Remembered(t) /\ Restarted(t) /\ OpenToldOf(t)
    BY DEF NoneSlipsIn
  <2>2. Over(t)' <=> Over(t)
    BY <1>2 DEF auth, Over
  <2>3. Remembered(t)' /\ Restarted(t)'
    BY <2>1, <2>2, <1>2, <1>4 DEF auth, Remembered, Restarted, Pending
  <2>4. OpenToldOf(t)'
    BY <2>1, <2>2, <1>1, <1>2, <1>4, <1>11 DEF auth, OpenToldOf
  <2> QED BY <2>3, <2>4
<1>13. SocketsFresh'
  <2> SUFFICES ASSUME NEW d \in Conn PROVE SocketFresh(d)'
    BY DEF SocketsFresh
  <2>1. CASE d # c
    BY <2>1, <1>2, <1>4 DEF clock, SocketsFresh, SocketFresh
  <2>2. CASE d = c
    <3>1. revokedFor + socket[c].left < StaleBound + OperationTime
      BY <1>2 DEF SocketsFresh, SocketFresh
    <3>2. revokedFor + (CheckPeriod + OperationTime) < Bound
      BY <3>1, Bounds, Elements
    <3> QED BY <3>2, <2>2, <1>2, <1>4 DEF clock, SocketFresh
  <2> QED BY <2>1, <2>2
<1>14. LookupsFresh' /\ EntriesFresh' /\ (~revoked' => revokedFor' = 0)
  BY <1>2 DEF clock, auth, LookupsFresh, EntriesFresh
<1> QED BY <1>7, <1>9, <1>10, <1>12, <1>13, <1>14

\* Sockets that give up, or are cut, while the token's time may pass.
LEMMA SocketsWithdraw ==
    ASSUME SessionInv, socket' \in [Conn -> SocketType],
           \A c \in Conn : \/ socket'[c] = socket[c]
                           \/ socket[c].at \in Pending /\ socket'[c].at = "idle"
                           \/ socket[c].at = "open" /\ socket'[c].at = "cut",
           token' \in {"valid", "grace", "dead"},
           UNCHANGED <<graceLeft, revokedFor, revoked, auth, logout, ended, tombstone,
                       sessionHubs, restarts>>
    PROVE  SessionInv'
<1> USE DEF SessionInv
<1>1. TypeOK'
  BY Types, TypesNext DEF auth
<1>2. \A c \in Conn : socket'[c] = socket[c] \/ socket'[c].at \in {"idle", "cut"}
  OBVIOUS
<1>3. WaitersPlaced' /\ LogoutsPlaced'
  BY DEF auth, WaitersPlaced, LogoutsPlaced, LogoutPlaced
<1>4. CountsExact'
  BY SameCounts DEF Pending
<1>5. NoneSlipsIn'
  <2> SUFFICES ASSUME NEW t \in Server
               PROVE  Remembered(t)' /\ Restarted(t)' /\ OpenToldOf(t)'
    BY DEF NoneSlipsIn
  <2>1. Remembered(t) /\ Restarted(t) /\ OpenToldOf(t)
    BY DEF NoneSlipsIn
  <2> QED BY <2>1, <1>2 DEF auth, Remembered, Restarted, OpenToldOf, Over, Pending
<1>6. LookupsFresh' /\ EntriesFresh' /\ SocketsFresh' /\ (~revoked' => revokedFor' = 0)
  BY <1>2 DEF auth, LookupsFresh, EntriesFresh, SocketsFresh, SocketFresh
<1> QED BY <1>1, <1>3, <1>4, <1>5, <1>6

LEMMA WithdrawSession ==
    ASSUME SessionInv, NEW c \in Conn, RefuseSocket(c) \/ Leave(c)
    PROVE  SessionInv'
<1> USE DEF SessionInv
<1>1. [at |-> "idle", left |-> 0] \in SocketType /\ [at |-> "cut", left |-> 0] \in SocketType
  BY Bounds DEF SocketType
<1>2. CASE RefuseSocket(c)
  <2>1. socket' = [socket EXCEPT ![c] = [at |-> "idle", left |-> 0]]
    BY <1>2 DEF RefuseSocket, Goes
  <2> QED BY <2>1, <1>1, <1>2, SocketGoes, SocketsWithdraw, Types DEF RefuseSocket, clock
<1>3. CASE Leave(c)
  <2>1. socket' = [socket EXCEPT ![c] = [at |-> "cut", left |-> 0]]
    BY <1>3 DEF Leave, Goes
  <2> QED BY <2>1, <1>1, <1>3, SocketGoes, SocketsWithdraw, Types DEF Leave, clock
<1> QED BY <1>2, <1>3

LEMMA TokenExpiresSession ==
    ASSUME SessionInv, TokenExpires
    PROVE  SessionInv'
<1>1. [at |-> "cut", left |-> 0] \in SocketType
  BY Bounds DEF SocketType
<1>2. socket' \in [Conn -> SocketType]
  BY <1>1, Types DEF TokenExpires, SessionInv
<1>3. \A c \in Conn : socket'[c] = socket[c] \/ (socket[c].at = "open" /\ socket'[c].at = "cut")
  BY DEF TokenExpires
<1> QED BY <1>2, <1>3, SocketsWithdraw DEF TokenExpires

LEMMA ConnectionClosedSession ==
    ASSUME SessionInv, NEW c \in Conn, ConnectionClosed(c)
    PROVE  SessionInv'
<1> USE DEF SessionInv
<1>1. PICK s \in Server, h \in Hub : s = ServerOf[c] /\ h = HubOf[c]
  BY Bounds
<1> DEFINE idle == [at |-> "idle", left |-> 0]
           fewer == IF sessionHubs[s][h] <= 1 THEN 0 ELSE sessionHubs[s][h] - 1
<1>2. /\ socket[c].at = "cut"
      /\ UNCHANGED <<clock, revoked, auth, logout, ended, tombstone, restarts>>
      /\ sessionHubs' = [sessionHubs EXCEPT ![s][h] = fewer]
  BY <1>1 DEF ConnectionClosed
<1>3. idle \in SocketType
  BY Bounds DEF SocketType
<1>4. /\ socket' \in [Conn -> SocketType] /\ socket'[c] = idle
      /\ \A d \in Conn : d # c => socket'[d] = socket[d]
  BY <1>3, SocketGoes DEF ConnectionClosed, Goes
<1>5. sessionHubs \in [Server -> [Hub -> 0 .. Cardinality(Conn)]]
  BY Types DEF HubCounts
<1>6. CountsExact'
  <2> SUFFICES ASSUME NEW t \in Server, NEW k \in Hub
               PROVE  sessionHubs'[t][k] = Cardinality(Attached(t, k)')
    BY DEF CountsExact
  <2>1. sessionHubs[t][k] = Cardinality(Attached(t, k))
    BY DEF CountsExact
  <2>2. CASE t = s /\ k = h
    <3>1. Attached(s, h)' = Attached(s, h) \ {c}
      BY <1>1, <1>2, <1>4 DEF Attached
    <3>2. c \in Attached(s, h) /\ Attached(s, h) \subseteq Conn
      BY <1>1, <1>2 DEF Attached
    <3>3. IsFiniteSet(Attached(s, h)) /\ Cardinality(Attached(s, h)) \in Nat
      BY <3>2, Bounds, FS_Subset, FS_CardinalityType
    <3>4. /\ Cardinality(Attached(s, h) \ {c}) = Cardinality(Attached(s, h)) - 1
          /\ Cardinality(Attached(s, h)) # 0
      BY <3>2, <3>3, FS_RemoveElement, FS_EmptySet
    <3>5. sessionHubs'[s][h] = fewer
      BY <1>2, <1>5
    <3>6. fewer = sessionHubs[s][h] - 1
      BY <2>1, <2>2, <3>3, <3>4
    <3> QED BY <2>1, <2>2, <3>1, <3>4, <3>5, <3>6
  <2>3. CASE ~(t = s /\ k = h)
    <3>1. Attached(t, k)' = Attached(t, k)
      BY <2>3, <1>1, <1>2, <1>4 DEF Attached
    <3>2. sessionHubs'[t][k] = sessionHubs[t][k]
      BY <2>3, <1>2, <1>5
    <3> QED BY <2>1, <3>1, <3>2
  <2> QED BY <2>2, <2>3
<1>7. sessionHubs' \in HubCounts
  BY <1>2, <1>6, CountChanges
<1>8. TypeOK'
  BY <1>2, <1>4, <1>7, Types, TypesNext DEF clock, auth
<1>9. WaitersPlaced' /\ LogoutsPlaced'
  BY <1>2 DEF auth, WaitersPlaced, LogoutsPlaced, LogoutPlaced
<1>10. \A d \in Conn : socket'[d] = socket[d] \/ socket'[d].at = "idle"
  BY <1>4
<1>11. NoneSlipsIn'
  <2> SUFFICES ASSUME NEW t \in Server
               PROVE  Remembered(t)' /\ Restarted(t)' /\ OpenToldOf(t)'
    BY DEF NoneSlipsIn
  <2>1. Remembered(t) /\ Restarted(t) /\ OpenToldOf(t)
    BY DEF NoneSlipsIn
  <2> QED BY <2>1, <1>2, <1>10 DEF auth, Remembered, Restarted, OpenToldOf, Over, Pending
<1>12. SocketsFresh'
  BY <1>2, <1>10 DEF clock, SocketsFresh, SocketFresh
<1>13. LookupsFresh' /\ EntriesFresh' /\ (~revoked' => revokedFor' = 0)
  BY <1>2 DEF clock, auth, LookupsFresh, EntriesFresh
<1> QED BY <1>6, <1>8, <1>9, <1>11, <1>12, <1>13

LEMMA TombstoneExpiresSession ==
    ASSUME SessionInv, NEW s \in Server, TombstoneExpires(s)
    PROVE  SessionInv'
<1> USE DEF SessionInv
<1>1. /\ UNCHANGED <<clock, revoked, auth, logout, ended, sessionHubs, socket, restarts>>
      /\ \A c \in Conn : ServerOf[c] = s => socket[c].at \notin Pending
  BY DEF TombstoneExpires
<1>2. /\ tombstone' \in [Server -> BOOLEAN]
      /\ \A t \in Server : t # s => tombstone'[t] = tombstone[t]
  BY Types DEF TombstoneExpires
<1>3. TypeOK'
  BY <1>1, <1>2, Types, TypesNext DEF clock, auth
<1>4. WaitersPlaced' /\ LogoutsPlaced' /\ CountsExact'
  BY <1>1, SameCounts DEF auth, WaitersPlaced, LogoutsPlaced, LogoutPlaced
<1>5. NoneSlipsIn'
  <2> SUFFICES ASSUME NEW t \in Server
               PROVE  Remembered(t)' /\ Restarted(t)' /\ OpenToldOf(t)'
    BY DEF NoneSlipsIn
  <2>1. Remembered(t) /\ Restarted(t) /\ OpenToldOf(t)
    BY DEF NoneSlipsIn
  <2>2. Restarted(t)' /\ OpenToldOf(t)'
    BY <2>1, <1>1 DEF auth, Restarted, OpenToldOf, Over
  <2>3. Remembered(t)'
    <3>1. CASE t # s
      BY <2>1, <3>1, <1>1, <1>2 DEF auth, Remembered, Over
    <3>2. CASE t = s
      BY <3>2, <1>1 DEF Remembered, Pending
    <3> QED BY <3>1, <3>2
  <2> QED BY <2>2, <2>3
<1>6. LookupsFresh' /\ EntriesFresh' /\ SocketsFresh' /\ (~revoked' => revokedFor' = 0)
  BY <1>1 DEF clock, auth, LookupsFresh, EntriesFresh, SocketsFresh, SocketFresh
<1> QED BY <1>3, <1>4, <1>5, <1>6

-----------------------------------------------------------------------------
(* The surroundings *)

LEMMA RestartSession ==
    ASSUME SessionInv, NEW s \in Server, Restart(s)
    PROVE  SessionInv'
<1> USE DEF SessionInv
<1>1. /\ UNCHANGED <<clock, revoked, ended>>
      /\ restarts < MaxRestarts /\ restarts' = restarts + 1
  BY DEF Restart
<1>2. /\ local' \in [Server -> BOOLEAN] /\ ~local'[s]
      /\ tombstone' \in [Server -> BOOLEAN] /\ ~tombstone'[s]
      /\ \A t \in Server : t # s => local'[t] = local[t] /\ tombstone'[t] = tombstone[t]
  BY Types DEF Restart
<1>3. /\ cache' \in [Server -> EntryType] /\ cache'[s] = NoEntry
      /\ lookup' \in [Server -> LookupType] /\ lookup'[s] = NoLookup
      /\ logout' \in [Server -> LogoutType] /\ logout'[s] = NoLogout
      /\ \A t \in Server : t # s => /\ cache'[t] = cache[t] /\ lookup'[t] = lookup[t]
                                    /\ logout'[t] = logout[t]
  BY Types, Blanks DEF Restart
<1>4. socket' \in [Conn -> SocketType]
  BY Types, Blanks DEF Restart
<1>5. \A c \in Conn : socket'[c] = IF ServerOf[c] = s THEN NoSocket ELSE socket[c]
  BY DEF Restart
<1>6. sessionHubs' \in HubCounts
  <2>1. [h \in Hub |-> 0] \in [Hub -> 0 .. Cardinality(Conn)]
    BY Bounds
  <2> QED BY <2>1, Types DEF Restart, HubCounts
<1>7. restarts' \in 0 .. MaxRestarts
  BY <1>1, Types, Bounds
<1>8. TypeOK'
  BY <1>1, <1>2, <1>3, <1>4, <1>6, <1>7, Types, TypesNext DEF clock
<1>9. WaitersPlaced'
  BY <1>3, Blanks DEF WaitersPlaced
<1>10. CountsExact'
  <2> SUFFICES ASSUME NEW t \in Server, NEW h \in Hub
               PROVE  sessionHubs'[t][h] = Cardinality(Attached(t, h)')
    BY DEF CountsExact
  <2>1. CASE t = s
    <3>1. Attached(t, h)' = {}
      BY <2>1, <1>5, Blanks DEF Attached
    <3>2. sessionHubs'[t][h] = 0
      BY <2>1, Types DEF Restart, HubCounts
    <3> QED BY <3>1, <3>2, FS_EmptySet
  <2>2. CASE t # s
    <3>1. Attached(t, h)' = Attached(t, h)
      BY <2>2, <1>5 DEF Attached
    <3>2. sessionHubs'[t][h] = sessionHubs[t][h]
      BY <2>2, Types DEF Restart, HubCounts
    <3> QED BY <3>1, <3>2 DEF CountsExact
  <2> QED BY <2>1, <2>2
<1>11. LogoutsPlaced'
  <2> SUFFICES ASSUME NEW t \in Server PROVE LogoutPlaced(t)'
    BY DEF LogoutsPlaced
  <2>1. LogoutPlaced(t)
    BY DEF LogoutsPlaced
  <2>2. CASE t # s
    BY <2>1, <2>2, <1>1, <1>2, <1>3 DEF LogoutPlaced
  <2>3. CASE t = s
    BY <2>1, <2>3, <1>1, <1>2, <1>3, Blanks DEF LogoutPlaced
  <2> QED BY <2>2, <2>3
<1>12. NoneSlipsIn'
  <2> SUFFICES ASSUME NEW t \in Server
               PROVE  Remembered(t)' /\ Restarted(t)' /\ OpenToldOf(t)'
    BY DEF NoneSlipsIn
  <2>1. Remembered(t) /\ Restarted(t) /\ OpenToldOf(t)
    BY DEF NoneSlipsIn
  <2>2. CASE t # s
    <3>1. \A c \in Conn : ServerOf[c] = t => socket'[c] = socket[c]
      BY <2>2, <1>5
    <3> QED BY <3>1, <2>1, <2>2, <1>1, <1>2, <1>3 DEF Remembered, Restarted, OpenToldOf, Over
  <2>3. CASE t = s
    <3>1. \A c \in Conn : ServerOf[c] = s => socket'[c].at = "idle"
      BY <1>5, Blanks
    <3>2. Remembered(s)' /\ OpenToldOf(s)'
      BY <3>1, <1>2 DEF Remembered, OpenToldOf
    <3>3. Restarted(s)'
      BY <3>1, <1>3, Blanks DEF Restarted, Pending
    <3> QED BY <3>2, <3>3, <2>3
  <2> QED BY <2>2, <2>3
<1>13. LookupsFresh' /\ EntriesFresh'
  BY <1>1, <1>3, Blanks DEF clock, LookupsFresh, EntriesFresh
<1>14. SocketsFresh' /\ (~revoked' => revokedFor' = 0)
  BY <1>1, <1>5, Blanks DEF clock, SocketsFresh, SocketFresh
<1> QED BY <1>8, <1>9, <1>10, <1>11, <1>12, <1>13, <1>14

LEMMA TickSession ==
    ASSUME SessionInv, Tick
    PROVE  SessionInv'
<1> USE DEF SessionInv
<1>1. UNCHANGED <<revoked, local, logout, ended, tombstone, sessionHubs, restarts>>
  BY DEF Tick
<1>2. /\ revokedFor' \in 0 .. Bound /\ revokedFor' <= revokedFor + 1
      /\ ~revoked' => revokedFor' = 0
  BY Types, Bounds DEF Tick
<1>3. token' \in {"valid", "grace", "dead"} /\ graceLeft' \in 0 .. Leeway
  BY Types, Bounds DEF Tick
\* Every timer that runs has a tick less.
<1>4. ASSUME NEW s \in Server
      PROVE  /\ lookup'[s] \in LookupType
             /\ lookup'[s].answer = lookup[s].answer /\ lookup'[s].waiters = lookup[s].waiters
             /\ lookup'[s].answer = "active" => lookup'[s].left = lookup[s].left - 1
  <2>1. lookup[s] \in LookupType
    BY Elements
  <2>2. CASE lookup[s] = NoLookup
    BY <2>1, <2>2, Blanks DEF Tick
  <2>3. CASE lookup[s] # NoLookup
    <3>1. lookup'[s] = [lookup[s] EXCEPT !.left = @ - 1] /\ lookup[s].left > 0
      BY <2>3 DEF Tick
    <3> QED BY <3>1, <2>1, Bounds DEF LookupType
  <2> QED BY <2>2, <2>3
<1>5. ASSUME NEW s \in Server
      PROVE  /\ cache'[s] \in EntryType
             /\ cache'[s].active => cache[s].active /\ cache'[s].left = cache[s].left - 1
  <2>1. cache[s] \in EntryType
    BY Elements
  <2>2. CASE cache[s].left <= 1
    BY <2>2, Blanks DEF Tick
  <2>3. CASE ~(cache[s].left <= 1)
    <3>1. cache'[s] = [cache[s] EXCEPT !.left = @ - 1]
      BY <2>3 DEF Tick
    <3> QED BY <3>1, <2>1, <2>3, Bounds DEF EntryType
  <2> QED BY <2>2, <2>3
<1>6. ASSUME NEW c \in Conn
      PROVE  /\ socket'[c] \in SocketType /\ socket'[c].at = socket[c].at
             /\ socket[c].at \in {"validated", "open"} => socket'[c].left = socket[c].left - 1
  <2>1. socket[c] \in SocketType
    BY Elements
  <2>2. CASE socket[c].at \notin Pending \cup {"open"}
    BY <2>1, <2>2 DEF Tick, Pending
  <2>3. CASE socket[c].at \in Pending \cup {"open"}
    <3>1. socket'[c] = [socket[c] EXCEPT !.left = @ - 1] /\ socket[c].left > 0
      BY <2>3 DEF Tick
    <3> QED BY <3>1, <2>1, Bounds DEF SocketType
  <2> QED BY <2>2, <2>3
<1>7. TypeOK'
  <2>1. lookup' \in [Server -> LookupType]
    BY <1>4 DEF Tick
  <2>2. cache' \in [Server -> EntryType]
    BY <1>5 DEF Tick
  <2>3. socket' \in [Conn -> SocketType]
    BY <1>6 DEF Tick
  <2> QED BY <2>1, <2>2, <2>3, <1>1, <1>2, <1>3, Types, TypesNext
<1>8. WaitersPlaced' /\ LogoutsPlaced'
  BY <1>1, <1>4 DEF WaitersPlaced, LogoutsPlaced, LogoutPlaced
<1>9. CountsExact'
  BY <1>1, <1>6, SameCounts
<1>10. NoneSlipsIn'
  <2> SUFFICES ASSUME NEW t \in Server
               PROVE  Remembered(t)' /\ Restarted(t)' /\ OpenToldOf(t)'
    BY DEF NoneSlipsIn
  <2>1. Remembered(t) /\ Restarted(t) /\ OpenToldOf(t)
    BY DEF NoneSlipsIn
  <2>2. Over(t)' <=> Over(t)
    BY <1>1 DEF Over
  <2>3. Remembered(t)'
    BY <2>1, <2>2, <1>1, <1>4, <1>6 DEF Remembered
  <2>4. Restarted(t)' /\ OpenToldOf(t)'
    BY <2>1, <2>2, <1>1, <1>4, <1>5, <1>6 DEF Restarted, OpenToldOf
  <2> QED BY <2>3, <2>4
<1>11. LookupsFresh'
  BY <1>2, <1>4, Elements, Bounds DEF LookupsFresh
<1>12. EntriesFresh'
  BY <1>2, <1>5, Elements, Bounds DEF EntriesFresh
<1>13. SocketsFresh'
  <2> SUFFICES ASSUME NEW c \in Conn PROVE SocketFresh(c)'
    BY DEF SocketsFresh
  <2>1. SocketFresh(c) /\ socket[c].left \in Nat /\ revokedFor \in Nat /\ revokedFor' \in Nat
    BY <1>2, Elements, Bounds DEF SocketsFresh
  <2> QED BY <2>1, <1>2, <1>6, Bounds DEF SocketFresh
<1> QED BY <1>2, <1>7, <1>8, <1>9, <1>10, <1>11, <1>12, <1>13

-----------------------------------------------------------------------------
(* The theorems *)

LEMMA NextSession == SessionInv /\ [Next]_vars => SessionInv'
<1> SUFFICES ASSUME SessionInv, [Next]_vars PROVE SessionInv'
  OBVIOUS
<1>1. ASSUME NEW s \in Server,
             \/ StartLookup(s) \/ LookupAnswers(s) \/ Evict(s)
      PROVE  SessionInv'
  BY <1>1, StartLookupSession, LookupAnswersSession, EvictSession
<1>2. ASSUME NEW s \in Server,
             \/ BeginLogout(s) \/ SaveSessionRevocation(s) \/ SaveFails(s)
             \/ Remember(s) \/ DisconnectSession(s) \/ LogoutReturns(s)
             \/ \E h \in Hub : DisconnectToken(s, h)
      PROVE  SessionInv'
  BY <1>2, BeginLogoutSession, SaveSession, RememberSession, DisconnectSessionSession,
     LogoutReturnsSession, DisconnectTokenSession
<1>3. ASSUME NEW s \in Server, TombstoneExpires(s) \/ Restart(s)
      PROVE  SessionInv'
  BY <1>3, TombstoneExpiresSession, RestartSession
<1>4. ASSUME NEW c \in Conn,
             \/ JoinLookup(c) \/ SessionActive(c) \/ RegisterSocket(c) \/ RefuseSocket(c)
             \/ Leave(c) \/ ConnectionClosed(c)
      PROVE  SessionInv'
  BY <1>4, JoinLookupSession, SessionActiveSession, RegisterSocketSession, WithdrawSession,
     ConnectionClosedSession
<1>5. CASE UNCHANGED vars
  <2> USE <1>5 DEF SessionInv, vars, clock, auth, sockets
  <2>1. TypeOK'
    BY Types, TypesNext
  <2>2. CountsExact' /\ WaitersPlaced' /\ LogoutsPlaced'
    BY SameCounts DEF WaitersPlaced, LogoutsPlaced, LogoutPlaced
  <2>3. NoneSlipsIn'
    BY DEF NoneSlipsIn, Remembered, Restarted, OpenToldOf, Over
  <2>4. LookupsFresh' /\ EntriesFresh' /\ SocketsFresh' /\ (~revoked' => revokedFor' = 0)
    BY DEF LookupsFresh, EntriesFresh, SocketsFresh, SocketFresh
  <2> QED BY <2>1, <2>2, <2>3, <2>4
<1> QED BY <1>1, <1>2, <1>3, <1>4, <1>5, TokenExpiresSession, TickSession DEF Next

\* SessionInv is an inductive invariant: what the server remembers, its cache, the lookups
\* under way, the registry and the sockets agree about a session that was logged out.
THEOREM SessionInvariant == Spec => []SessionInv
<1>1. Init => SessionInv
  BY InitSession
<1>2. SessionInv /\ [Next]_vars => SessionInv'
  BY NextSession
<1> QED BY <1>1, <1>2, PTL DEF Spec

\* Every variable of sessions, lookups and sockets keeps its type; no timer goes below
\* zero, and the registry never counts more sockets than there are.
THEOREM SessionTypeCorrect == Spec => []TypeOK
<1>1. SessionInv => TypeOK
  BY DEF SessionInv
<1> QED BY <1>1, SessionInvariant, PTL

\* The answer a request may get: the word of a lookup that is stored as "active" or that is
\* awaited.
LEMMA ActiveBySomeone ==
    ASSUME SessionInv, NEW s \in Server, Active(s)
    PROVE  /\ token # "dead" /\ ~local[s]
           /\ \/ cache[s].active /\ cache[s].left > 0
              \/ lookup[s].answer = "active"
BY DEF Active, Admitted, Asks, Refused, isRevoked, RevocationLapsed, Cached

\* After Logout returned (controller/user.go: Logout, websockets/registry: DisconnectSession)
\* no request that begins on that server is let in, and no socket of the session is open
\* there, whatever lookup, upgrade or registration was under way, and after a restart too.
THEOREM LogoutIsImmediateHolds == Spec => []LogoutIsImmediate
<1>1. SessionInv => LogoutIsImmediate
  <2> SUFFICES ASSUME SessionInv, NEW s \in Server, ended[s]
               PROVE  /\ ~Active(s)
                      /\ \A c \in Conn : ServerOf[c] = s => socket[c].at # "open"
    BY DEF LogoutIsImmediate
  <2>1. Restarted(s) /\ OpenToldOf(s)
    BY DEF SessionInv, NoneSlipsIn
  <2> QED BY <2>1, ActiveBySomeone DEF Restarted, OpenToldOf, Over
<1> QED BY <1>1, SessionInvariant, PTL

\* On any server an answer "active" is younger than a lookup and the life of a cached answer
\* (controller/base.go: validationCache): afterwards the revocation has been noticed.
THEOREM StaleAnswersEndHolds == Spec => []StaleAnswersEnd
<1>1. SessionInv => StaleAnswersEnd
  <2> SUFFICES ASSUME SessionInv, NEW s \in Server, Active(s)
               PROVE  revokedFor < StaleBound
    BY DEF StaleAnswersEnd
  <2>1. TypeOK /\ LookupsFresh /\ EntriesFresh
    BY DEF SessionInv
  <2>2. CASE cache[s].active /\ cache[s].left > 0
    BY <2>1, <2>2, Elements, Bounds DEF EntriesFresh
  <2>3. CASE lookup[s].answer = "active"
    BY <2>1, <2>3, Elements, Bounds DEF LookupsFresh
  <2> QED BY <2>2, <2>3, ActiveBySomeone
<1> QED BY <1>1, SessionInvariant, PTL

\* A socket of a revoked session is closed within another period of the write pump's check
\* (websockets/client.go: authCheckPeriod), on whichever server it is.
THEOREM RevokedSocketsEndHolds == Spec => []RevokedSocketsEnd
<1>1. SessionInv => RevokedSocketsEnd
  <2> SUFFICES ASSUME SessionInv, NEW c \in Conn, socket[c].at = "open"
               PROVE  revokedFor < Bound
    BY DEF RevokedSocketsEnd
  <2>1. TypeOK /\ SocketFresh(c)
    BY DEF SessionInv, SocketsFresh
  <2> QED BY <2>1, Elements, Bounds DEF SocketFresh
<1> QED BY <1>1, SessionInvariant, PTL
=============================================================================
