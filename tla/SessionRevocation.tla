-------------------------- MODULE SessionRevocation --------------------------
(***************************************************************************)
(* The end of one session: the token, its revocation in the database       *)
(* (repository/mongosession.go), what each server remembers of it and      *)
(* caches (api/controller/base.go), and the sockets that were opened with  *)
(* it (websockets/socket.go, websockets/client.go).                        *)
(*                                                                         *)
(* A lookup reads the database and answers later: everyone who asks        *)
(* meanwhile shares it (singleflight).  A logout saves the revocation,     *)
(* remembers it, and then disconnects the session's sockets hub by hub.    *)
(* A server may restart and lose all but the database.                     *)
(*                                                                         *)
(* Time is counted in ticks by timers that run down, so that behaviours    *)
(* have no end: a cached answer has TTL ticks, whatever waits has          *)
(* OperationTime, an open socket is checked every CheckPeriod.             *)
(***************************************************************************)
EXTENDS Integers, FiniteSets

CONSTANTS
    Server,
    Hub,             \* the hubs of each server
    Conn,            \* sockets of this session
    ServerOf,        \* the server a socket is on
    HubOf,           \* and its hub there
    TTL,             \* validationCacheTTL
    OperationTime,   \* bound: a lookup, an upgrade, a registration
    CheckPeriod,     \* authCheckPeriod
    Leeway,          \* TokenValidationLeeway
    MaxRestarts      \* bound: restarts

ASSUME SessionAssumption ==
    /\ ServerOf \in [Conn -> Server]
    /\ HubOf \in [Conn -> Hub]
    /\ IsFiniteSet(Conn)
    /\ TTL \in Nat \ {0} /\ OperationTime \in Nat /\ CheckPeriod \in Nat \ {0}
    /\ Leeway \in Nat
    /\ MaxRestarts \in Nat

VARIABLES
    token,       \* its life: valid, then expired but within the leeway, then dead
    graceLeft,   \* ticks of leeway left
    revoked,     \* the revocation is in the database
    revokedFor,  \* ticks since then, up to Bound
    local,       \* per server: revocations.tokens has the token
    cache,       \* per server: validationCache, and the ticks it is good for
    lookup,      \* per server: the lookup under way, what it has read, who waits for it
    tombstone,   \* per server: registry.revokedSessions has the token
    sessionHubs, \* per server: registry.sessionHubs of the token
    logout,      \* per server: how far a logout has come, and the hubs still to tell
    ended,       \* per server: a logout that was remembered has returned
    socket,      \* per socket: where it is, and the ticks until it must move on
    restarts

auth == <<local, cache, lookup>>
sockets == <<tombstone, sessionHubs, socket>>
clock == <<token, graceLeft, revokedFor>>
vars == <<clock, revoked, auth, logout, ended, sockets, restarts>>

\* How long after the revocation a lookup that missed it may be believed.
StaleBound == OperationTime + TTL
\* And until the sockets admitted on its word are found out.
Bound == StaleBound + CheckPeriod + 2 * OperationTime

NoEntry == [active |-> FALSE, left |-> 0]
NoLookup == [answer |-> "none", left |-> 0, waiters |-> {}]
NoLogout == [at |-> "none", telling |-> {}]
NoSocket == [at |-> "idle", left |-> 0]
Pending == {"checked", "validated"}

TypeOK ==
    /\ token \in {"valid", "grace", "dead"} /\ graceLeft \in 0 .. Leeway
    /\ revoked \in BOOLEAN /\ revokedFor \in 0 .. Bound
    /\ local \in [Server -> BOOLEAN]
    /\ cache \in [Server -> [active : BOOLEAN, left : 0 .. TTL]]
    /\ lookup \in [Server -> [answer : {"none", "active", "revoked"}, left : 0 .. OperationTime,
                            waiters : SUBSET Conn]]
    /\ tombstone \in [Server -> BOOLEAN]
    /\ sessionHubs \in [Server -> [Hub -> 0 .. Cardinality(Conn)]]
    /\ logout \in [Server -> [at : {"none", "looked", "saved", "remembered", "telling"},
                              telling : SUBSET Hub]]
    /\ ended \in [Server -> BOOLEAN]
    /\ socket \in [Conn -> [at : {"idle", "open", "cut"} \cup Pending,
                            left : 0 .. CheckPeriod + OperationTime]]
    /\ restarts \in 0 .. MaxRestarts

Init ==
    /\ token = "valid" /\ graceLeft = Leeway
    /\ revoked = FALSE /\ revokedFor = 0
    /\ local = [s \in Server |-> FALSE]
    /\ cache = [s \in Server |-> NoEntry]
    /\ lookup = [s \in Server |-> NoLookup]
    /\ tombstone = [s \in Server |-> FALSE]
    /\ sessionHubs = [s \in Server |-> [h \in Hub |-> 0]]
    /\ logout = [s \in Server |-> NoLogout]
    /\ ended = [s \in Server |-> FALSE]
    /\ socket = [c \in Conn |-> NoSocket]
    /\ restarts = 0

-----------------------------------------------------------------------------
(* SessionActive *)

\* Mutant: the revocation is kept until the token expires, not until it is refused.
LapsesWithToken == token # "valid"

\* revocationExpiry: nobody verifies the token any more, so that the revocation may go
\* from the database and from memory.
RevocationLapsed == token = "dead"

IsSessionRevoked == revoked /\ ~RevocationLapsed
isRevoked(s) == local[s] /\ ~RevocationLapsed
Cached(s) == cache[s].left > 0

\* A check is told at once, or joins the lookup; Verify refuses a dead token.
Admitted(s) == token # "dead" /\ ~isRevoked(s) /\ Cached(s) /\ cache[s].active
Refused(s) == token = "dead" \/ isRevoked(s) \/ (Cached(s) /\ ~cache[s].active)
Asks(s) == ~Admitted(s) /\ ~Refused(s)

Put(s, active) == cache' = [cache EXCEPT ![s] = [active |-> active, left |-> TTL]]

\* A socket whose session must be active before it goes on.
AsksForSession(c) ==
    \/ socket[c].at \in {"idle", "checked"}
    \/ socket[c].at = "open" /\ socket[c].left <= OperationTime

\* Mutant: an open socket goes on whatever the check says.
ChecksOnlyAtFirst(c, active) ==
    CASE socket[c].at = "open" -> [at |-> "open", left |-> CheckPeriod + OperationTime]
      [] socket[c].at = "checked" /\ active -> [at |-> "validated", left |-> OperationTime]
      [] socket[c].at = "idle" /\ active /\ ~tombstone[ServerOf[c]] ->
           [at |-> "checked", left |-> OperationTime]
      [] OTHER -> NoSocket

\* How it goes on: the middleware lets it in, unless ServeEvents finds the tombstone; the
\* upgraded connection goes to be registered; the write pump goes on, or ends.
GoesOn(c, active) ==
    CASE socket[c].at = "open" ->
           IF active THEN [at |-> "open", left |-> CheckPeriod + OperationTime]
                     ELSE [at |-> "cut", left |-> 0]
      [] socket[c].at = "checked" /\ active -> [at |-> "validated", left |-> OperationTime]
      [] socket[c].at = "idle" /\ active /\ ~tombstone[ServerOf[c]] ->
           [at |-> "checked", left |-> OperationTime]
      [] OTHER -> NoSocket

\* Somebody asks; the middleware of a page or of the API does on every request.
StartLookup(s) ==
    /\ Asks(s)
    /\ lookup[s] = NoLookup
    /\ lookup' = [lookup EXCEPT ![s] =
                    [answer |-> IF IsSessionRevoked THEN "revoked" ELSE "active",
                     left |-> OperationTime, waiters |-> {}]]
    /\ UNCHANGED <<clock, revoked, local, cache, logout, ended, sockets, restarts>>

JoinLookup(c) ==
    LET s == ServerOf[c]
    IN  /\ Asks(s)
        /\ lookup[s] # NoLookup
        /\ AsksForSession(c)
        /\ c \notin lookup[s].waiters
        /\ lookup' = [lookup EXCEPT ![s].waiters = @ \cup {c}]
        /\ UNCHANGED <<clock, revoked, local, cache, logout, ended, sockets, restarts>>

\* The answer of the database; a failure is cached as a refusal.
LookupAnswers(s) ==
    /\ lookup[s] # NoLookup
    /\ \E active \in {lookup[s].answer = "active", FALSE} :
          /\ Put(s, active)
          /\ socket' = [c \in Conn |-> IF c \in lookup[s].waiters /\ AsksForSession(c)
                                         THEN GoesOn(c, active) ELSE socket[c]]
    /\ lookup' = [lookup EXCEPT ![s] = NoLookup]
    /\ UNCHANGED <<clock, revoked, local, logout, ended, tombstone, sessionHubs, restarts>>

\* validationCache is full and another token takes the entry.
Evict(s) ==
    /\ Cached(s)
    /\ cache' = [cache EXCEPT ![s] = NoEntry]
    /\ UNCHANGED <<clock, revoked, local, lookup, logout, ended, sockets, restarts>>

-----------------------------------------------------------------------------
(* Logout: Revoke, then DisconnectSession *)

LogoutAt(s, at) == logout' = [logout EXCEPT ![s].at = at]

\* Already revoked here, or in the database; or else, or if the lookup fails, to be saved.
BeginLogout(s) ==
    /\ logout[s] = NoLogout
    /\ token # "dead"
    /\ \/ /\ isRevoked(s)
          /\ LogoutAt(s, "remembered")
          /\ UNCHANGED <<local, cache>>
       \/ /\ ~isRevoked(s) /\ IsSessionRevoked
          /\ \E kept \in BOOLEAN : local' = [local EXCEPT ![s] = kept]
          /\ Put(s, FALSE)
          /\ LogoutAt(s, "remembered")
       \/ /\ ~isRevoked(s)
          /\ LogoutAt(s, "looked")
          /\ UNCHANGED <<local, cache>>
    /\ UNCHANGED <<clock, revoked, lookup, ended, sockets, restarts>>

SaveSessionRevocation(s) ==
    /\ logout[s].at = "looked"
    /\ revoked' = TRUE
    /\ LogoutAt(s, "saved")
    /\ UNCHANGED <<clock, auth, ended, sockets, restarts>>

\* "could not end session safely; retry", with the revocation saved or not.
SaveFails(s) ==
    /\ logout[s].at = "looked"
    /\ revoked' \in {revoked, TRUE}
    /\ LogoutAt(s, "none")
    /\ UNCHANGED <<clock, auth, ended, sockets, restarts>>

\* Not kept when maxRevokedSessions are remembered already: the logout goes on all the
\* same, on the word of the database.
Remember(s) ==
    /\ logout[s].at = "saved"
    /\ \E kept \in BOOLEAN : local' = [local EXCEPT ![s] = kept]
    /\ Put(s, FALSE)
    /\ LogoutAt(s, "remembered")
    /\ UNCHANGED <<clock, revoked, lookup, ended, sockets, restarts>>

\* Mutant: later registrations are not refused.
DisconnectNoTombstone(s) ==
    /\ logout[s].at = "remembered"
    /\ logout' = [logout EXCEPT ![s] =
                    [at |-> "telling", telling |-> {h \in Hub : sessionHubs[s][h] > 0}]]
    /\ UNCHANGED <<clock, revoked, auth, ended, sockets, restarts>>

DisconnectSession(s) ==
    /\ logout[s].at = "remembered"
    /\ tombstone' = [tombstone EXCEPT ![s] = TRUE]
    /\ logout' = [logout EXCEPT ![s] =
                    [at |-> "telling", telling |-> {h \in Hub : sessionHubs[s][h] > 0}]]
    /\ UNCHANGED <<clock, revoked, auth, ended, sessionHubs, socket, restarts>>

OpenIn(s, h) == {c \in Conn : ServerOf[c] = s /\ HubOf[c] = h /\ socket[c].at = "open"}

\* The hub takes the session's sockets out and closes their connections.
DisconnectToken(s, h) ==
    /\ h \in logout[s].telling
    /\ socket' = [c \in Conn |-> IF c \in OpenIn(s, h) THEN [at |-> "cut", left |-> 0]
                                                       ELSE socket[c]]
    /\ logout' = [logout EXCEPT ![s].telling = @ \ {h}]
    /\ UNCHANGED <<clock, revoked, auth, ended, tombstone, sessionHubs, restarts>>

LogoutReturns(s) ==
    /\ logout[s] = [at |-> "telling", telling |-> {}]
    /\ logout' = [logout EXCEPT ![s] = NoLogout]
    /\ ended' = [ended EXCEPT ![s] = @ \/ local[s]]
    /\ UNCHANGED <<clock, revoked, auth, sockets, restarts>>

-----------------------------------------------------------------------------
(* Sockets *)

Goes(c, at, left) == socket' = [socket EXCEPT ![c] = [at |-> at, left |-> left]]

\* A check that is told at once: of the request, of the upgraded connection, and of the
\* write pump's ticker, at the latest when its period and the time of a lookup are over.
SessionActive(c) ==
    LET s == ServerOf[c]
    IN  /\ AsksForSession(c)
        /\ ~Asks(s)
        /\ \A t \in Server : c \notin lookup[t].waiters
        /\ socket' = [socket EXCEPT ![c] = GoesOn(c, Admitted(s))]
        /\ UNCHANGED <<clock, revoked, auth, logout, ended, tombstone, sessionHubs, restarts>>

\* clientRegistrar; a socket ends with its token, without leeway.
RegisterSocket(c) ==
    /\ socket[c].at = "validated"
    /\ token = "valid"
    /\ ~tombstone[ServerOf[c]]
    /\ Goes(c, "open", CheckPeriod + OperationTime)
    /\ sessionHubs' = [sessionHubs EXCEPT ![ServerOf[c]][HubOf[c]] = @ + 1]
    /\ UNCHANGED <<clock, revoked, auth, logout, ended, tombstone, restarts>>

\* The upgrade fails, or a quota is used up, or the registrar refuses.
RefuseSocket(c) ==
    /\ socket[c].at \in Pending
    /\ Goes(c, "idle", 0)
    /\ UNCHANGED <<clock, revoked, auth, logout, ended, tombstone, sessionHubs, restarts>>

\* The browser leaves.
Leave(c) ==
    /\ socket[c].at = "open"
    /\ Goes(c, "cut", 0)
    /\ UNCHANGED <<clock, revoked, auth, logout, ended, tombstone, sessionHubs, restarts>>

ConnectionClosed(c) ==
    /\ socket[c].at = "cut"
    /\ sessionHubs' = [sessionHubs EXCEPT ![ServerOf[c]][HubOf[c]] = IF @ <= 1 THEN 0 ELSE @ - 1]
    /\ Goes(c, "idle", 0)
    /\ UNCHANGED <<clock, revoked, auth, logout, ended, tombstone, restarts>>

\* A minute later; no request from before is still on its way.
TombstoneExpires(s) ==
    /\ tombstone[s]
    /\ \A c \in Conn : ServerOf[c] = s => socket[c].at \notin Pending
    /\ tombstone' = [tombstone EXCEPT ![s] = FALSE]
    /\ UNCHANGED <<clock, revoked, auth, logout, ended, sessionHubs, socket, restarts>>

-----------------------------------------------------------------------------
(* The surroundings *)

Restart(s) ==
    /\ restarts < MaxRestarts
    /\ restarts' = restarts + 1
    /\ local' = [local EXCEPT ![s] = FALSE]
    /\ cache' = [cache EXCEPT ![s] = NoEntry]
    /\ lookup' = [lookup EXCEPT ![s] = NoLookup]
    /\ tombstone' = [tombstone EXCEPT ![s] = FALSE]
    /\ sessionHubs' = [sessionHubs EXCEPT ![s] = [h \in Hub |-> 0]]
    /\ logout' = [logout EXCEPT ![s] = NoLogout]
    /\ socket' = [c \in Conn |-> IF ServerOf[c] = s THEN NoSocket ELSE socket[c]]
    /\ UNCHANGED <<clock, revoked, ended>>

\* The token's time is over; its sockets reach their read deadline.
TokenExpires ==
    /\ token = "valid"
    /\ token' = "grace"
    /\ socket' = [c \in Conn |-> IF socket[c].at = "open" THEN [at |-> "cut", left |-> 0]
                                                          ELSE socket[c]]
    /\ UNCHANGED <<graceLeft, revoked, revokedFor, auth, logout, ended, tombstone, sessionHubs,
                   restarts>>

\* One tick, when nothing is overdue.
Tick ==
    /\ \A s \in Server : lookup[s] = NoLookup \/ lookup[s].left > 0
    /\ \A c \in Conn : socket[c].at \in Pending \cup {"open"} => socket[c].left > 0
    /\ lookup' = [s \in Server |-> IF lookup[s] = NoLookup THEN NoLookup
                                                           ELSE [lookup[s] EXCEPT !.left = @ - 1]]
    /\ cache' = [s \in Server |-> IF cache[s].left <= 1 THEN NoEntry
                                                        ELSE [cache[s] EXCEPT !.left = @ - 1]]
    /\ socket' = [c \in Conn |-> IF socket[c].at \in Pending \cup {"open"}
                                   THEN [socket[c] EXCEPT !.left = @ - 1] ELSE socket[c]]
    /\ revokedFor' = IF revoked /\ revokedFor < Bound THEN revokedFor + 1 ELSE revokedFor
    /\ \/ token # "grace" /\ UNCHANGED <<token, graceLeft>>
       \/ token = "grace" /\ graceLeft > 0 /\ graceLeft' = graceLeft - 1 /\ UNCHANGED token
       \/ token = "grace" /\ graceLeft = 0 /\ token' = "dead" /\ UNCHANGED graceLeft
    /\ UNCHANGED <<revoked, local, logout, ended, tombstone, sessionHubs, restarts>>

Next ==
    \/ \E s \in Server :
          \/ StartLookup(s) \/ LookupAnswers(s) \/ Evict(s)
          \/ BeginLogout(s) \/ SaveSessionRevocation(s) \/ SaveFails(s)
          \/ Remember(s) \/ DisconnectSession(s) \/ LogoutReturns(s)
          \/ \E h \in Hub : DisconnectToken(s, h)
          \/ TombstoneExpires(s)
          \/ Restart(s)
    \/ \E c \in Conn :
          \/ JoinLookup(c) \/ SessionActive(c) \/ RegisterSocket(c) \/ RefuseSocket(c)
          \/ Leave(c) \/ ConnectionClosed(c)
    \/ TokenExpires
    \/ Tick

Spec == Init /\ [][Next]_vars

-----------------------------------------------------------------------------
(* Properties *)

\* The answer a request that begins now may get.
Active(s) == Admitted(s) \/ (Asks(s) /\ lookup[s].answer = "active")

\* Where a session was logged out it is over at once: no request that begins afterwards is
\* let in and no socket of it is open, whatever lookup or upgrade was under way, and also
\* after a restart.
LogoutIsImmediate ==
    \A s \in Server : ended[s] =>
        /\ ~Active(s)
        /\ \A c \in Conn : ServerOf[c] = s => socket[c].at # "open"

\* Elsewhere, and where the revocation could not be remembered, it is over after a lookup
\* and the life of its cached answer; it stays over until the token itself is refused.
StaleAnswersEnd == \A s \in Server : Active(s) => revokedFor < StaleBound

\* And its sockets are closed within another period of the write pump's check.
RevokedSocketsEnd == \A c \in Conn : socket[c].at = "open" => revokedFor < Bound
=============================================================================
