------------------------------ MODULE MatchStore ------------------------------
(***************************************************************************)
(* One match in the database, the servers that work on it and the cards it *)
(* locks: service/match.go over repository/mongomatch.go and               *)
(* SettleMatchRewards.                                                     *)
(*                                                                         *)
(* A request loads the match, runs a domain operation on its copy and      *)
(* replaces the stored document if its version is still the loaded one; a  *)
(* request that finds the match ended then settles it in a second          *)
(* transaction.  Within a server the per-game mutex admits one request at  *)
(* a time, so a server is one Replica here; between servers only the       *)
(* version check excludes.  A transaction is one step (snapshot reads, and *)
(* every document read is also written).  A server may crash between any   *)
(* two steps and loses the request.                                        *)
(*                                                                         *)
(* Abstractions: the course of play is MatchAggregate's subject, here a    *)
(* playing match goes on or completes with any result; daily quotas and    *)
(* minted cards are left out of the settlement.                            *)
(***************************************************************************)
EXTENDS Integers, FiniteSets

CONSTANTS
    Player,        \* the frozen roster
    Owner,         \* OwnerID
    NoOne,         \* WinnerID = 0, and no user
    Card,
    FirstOwner,    \* who owns each card when the match is created
    DeckSize,
    Replica,
    MaxVersion,    \* bound: Version of the stored match
    MaxCrashes     \* bound: crashes

ASSUME StoreAssumption ==
    /\ Owner \in Player
    /\ NoOne \notin Player
    /\ IsFiniteSet(Card)
    /\ FirstOwner \in [Card -> Player]
    /\ DeckSize \in Nat \ {0}
    /\ MaxVersion \in Nat
    /\ MaxCrashes \in Nat

VARIABLES
    stored,     \* the Matches document
    gameState,  \* Game.State
    card,       \* the Cards collection
    paid,       \* coins credited by the settlement of this match
    request,    \* what each replica is doing
    crashes

vars == <<stored, gameState, card, paid, request, crashes>>

Terminal == {"completed", "forfeited"}
Statuses == {"collecting_decks", "playing"} \cup Terminal
Deck == {d \in SUBSET Card : Cardinality(d) = DeckSize}

\* Rewards for a match of two or an open arena: the champion's and everyone else's.
Reward(p, winner) ==
    IF winner = NoOne THEN 75 ELSE IF p = winner THEN 120 ELSE 45

MatchType ==
    [version : Nat, status : Statuses, deck : [Player -> SUBSET Card],
     winner : Player \cup {NoOne}, settled : BOOLEAN]
CardType == [owner : Player, status : {"available", "match_locked", "market_escrow"}]
RequestType ==
    [at : {"idle", "loaded", "cards_read", "settling"}, user : Player \cup {NoOne},
     copy : MatchType, chosen : SUBSET Card]

NewMatch ==
    [version |-> 1, status |-> "collecting_decks", deck |-> [p \in Player |-> {}],
     winner |-> NoOne, settled |-> FALSE]
Idle == [at |-> "idle", user |-> NoOne, copy |-> NewMatch, chosen |-> {}]

TypeOK ==
    /\ stored \in MatchType
    /\ gameState \in Statuses
    /\ card \in [Card -> CardType]
    /\ paid \in [Player -> Nat]
    /\ request \in [Replica -> RequestType]
    /\ crashes \in Nat

Init ==
    /\ stored = NewMatch
    /\ gameState = "collecting_decks"
    /\ card = [c \in Card |-> [owner |-> FirstOwner[c], status |-> "available"]]
    /\ paid = [p \in Player |-> 0]
    /\ request = [r \in Replica |-> Idle]
    /\ crashes = 0

Done(r) == request' = [request EXCEPT ![r] = Idle]
\* The settlement reads the match anew: it needs nothing of the request's copy.
GoOnToSettle(r) == request' = [request EXCEPT ![r] = [Idle EXCEPT !.at = "settling"]]

-----------------------------------------------------------------------------
(* Requests *)

\* GetByGameID and the check that the user plays in the match.
Load(r, p) ==
    /\ request[r].at = "idle"
    /\ request' = [request EXCEPT ![r] =
                     [at |-> "loaded", user |-> p, copy |-> stored, chosen |-> {}]]
    /\ UNCHANGED <<stored, gameState, card, paid, crashes>>

\* CommitDeck reads the chosen cards and runs the domain's checks on its copy; the
\* transaction comes later.
ReadCards(r, chosen) ==
    /\ request[r].at = "loaded"
    /\ request[r].copy.status = "collecting_decks"
    /\ \A c \in chosen :
          /\ card[c].owner = request[r].user
          /\ card[c].status \in {"available", "match_locked"}
    /\ \A q \in Player \ {request[r].user} : request[r].copy.deck[q] \cap chosen = {}
    /\ request' = [request EXCEPT ![r].at = "cards_read", ![r].chosen = chosen]
    /\ UNCHANGED <<stored, gameState, card, paid, crashes>>

\* Mutant: the match is replaced by its id alone.
NoVersionCheck(r) == TRUE

Unchanged(r) == stored.version = request[r].copy.version

\* Mutant: the replaced deck is forgotten.
NoPrevious(r) == {}

Previous(r) == request[r].copy.deck[request[r].user]

\* Mutant: the cards are locked whoever owns them by then.
DeckAvailableToAnyone(r) ==
    /\ \A c \in Previous(r) : card[c].status = "match_locked"
    /\ \A c \in request[r].chosen : card[c].status = "available" \/ c \in Previous(r)

\* The transaction of CommitDeck: release the deck it replaces, lock the new one,
\* replace the match.  Any of the three that does not match rolls all back.
DeckAvailable(r) ==
    /\ \A c \in Previous(r) :
          card[c] = [owner |-> request[r].user, status |-> "match_locked"]
    /\ \A c \in request[r].chosen :
          /\ card[c].owner = request[r].user
          /\ card[c].status = "available" \/ c \in Previous(r)
CommitDeck(r) ==
    /\ request[r].at = "cards_read"
    /\ DeckAvailable(r)
    /\ Unchanged(r)
    /\ stored.version < MaxVersion
    /\ card' = [c \in Card |->
                  IF c \in request[r].chosen THEN [card[c] EXCEPT !.status = "match_locked"]
                  ELSE IF c \in Previous(r) THEN [card[c] EXCEPT !.status = "available"]
                  ELSE card[c]]
    /\ stored' = [request[r].copy EXCEPT !.deck[request[r].user] = request[r].chosen,
                                         !.version = @ + 1]
    /\ Done(r)
    /\ UNCHANGED <<gameState, paid, crashes>>

\* Update: replace the match and the game's state, if the version is still the loaded one.
Update(r, next) ==
    /\ request[r].at = "loaded"
    /\ Unchanged(r)
    /\ stored.version < MaxVersion
    /\ stored' = [next EXCEPT !.version = @ + 1]
    /\ gameState' = next.status
    /\ UNCHANGED <<card, paid, crashes>>

Start(r) ==
    /\ request[r].copy.status = "collecting_decks"
    /\ request[r].user = Owner
    /\ \A p \in Player : Cardinality(request[r].copy.deck[p]) = DeckSize
    /\ Update(r, [request[r].copy EXCEPT !.status = "playing"])
    /\ Done(r)

\* An answer or a poll moves the match on without ending it ...
Play(r) ==
    /\ request[r].copy.status = "playing"
    /\ Update(r, request[r].copy)
    /\ Done(r)

\* ... or ends it; then the same request goes on to settle it.
Finish(r, winner) ==
    /\ request[r].copy.status = "playing"
    /\ Update(r, [request[r].copy EXCEPT !.status = "completed", !.winner = winner])
    /\ GoOnToSettle(r)

\* The remaining player of a match of two is kept as its winner.
ForfeitWinner(p, w) ==
    IF Cardinality(Player) = 2 THEN w \in Player \ {p} ELSE w = NoOne
Forfeit(r, winner) ==
    /\ request[r].copy.status \notin Terminal
    /\ ForfeitWinner(request[r].user, winner)
    /\ Update(r, [request[r].copy EXCEPT !.status = "forfeited", !.winner = winner])
    /\ GoOnToSettle(r)

\* Mutant: only completed matches are settled by a poll.
SettleOnlyCompleted(r) ==
    /\ request[r].at = "loaded"
    /\ request[r].copy.status = "completed"
    /\ ~request[r].copy.settled
    /\ GoOnToSettle(r)
    /\ UNCHANGED <<stored, gameState, card, paid, crashes>>

\* A poll, or a replayed forfeit, of a match that had ended but was not settled goes
\* on to settle it, with nothing else to do.
SettleOnly(r) ==
    /\ request[r].at = "loaded"
    /\ request[r].copy.status \in Terminal
    /\ ~request[r].copy.settled
    /\ GoOnToSettle(r)
    /\ UNCHANGED <<stored, gameState, card, paid, crashes>>

\* The request ends without effect: a poll with nothing due, an answer or a command
\* that the domain refuses, a replayed command, a version conflict.
Refuse(r) ==
    /\ request[r].at = "loaded"
    /\ Done(r)
    /\ UNCHANGED <<stored, gameState, card, paid, crashes>>

\* CommitDeck's transaction finds the match changed or a card gone, and is rolled back.
CommitFails(r) ==
    /\ request[r].at = "cards_read"
    /\ ~(Unchanged(r) /\ DeckAvailable(r))
    /\ Done(r)
    /\ UNCHANGED <<stored, gameState, card, paid, crashes>>

-----------------------------------------------------------------------------
(* Settlement: one transaction on the match as it is then, not on the copy *)

Locked == {c \in Card : card[c].status = "match_locked"}
ExpectedLocked == UNION {stored.deck[p] : p \in Player}

\* The transaction gives up unless it releases as many cards as the decks hold.
CardsAccountedFor == Cardinality(Locked) = Cardinality(ExpectedLocked)

\* Mutant: the marker is not consulted.
SettleAgain(r) ==
    /\ request[r].at = "settling"
    /\ stored.status \in Terminal
    /\ stored' = [stored EXCEPT !.settled = TRUE]
    /\ card' = [c \in Card |->
                  IF c \in Locked THEN [card[c] EXCEPT !.status = "available"] ELSE card[c]]
    /\ paid' = IF stored.status = "completed"
                 THEN [p \in Player |-> paid[p] + Reward(p, stored.winner)] ELSE paid
    /\ Done(r)
    /\ UNCHANGED <<gameState, crashes>>

Settle(r) ==
    /\ request[r].at = "settling"
    /\ ~stored.settled
    /\ stored.status \in Terminal
    /\ CardsAccountedFor
    /\ stored' = [stored EXCEPT !.settled = TRUE]
    /\ card' = [c \in Card |->
                  IF c \in Locked THEN [card[c] EXCEPT !.status = "available"] ELSE card[c]]
    /\ paid' = IF stored.status = "completed"
                 THEN [p \in Player |-> paid[p] + Reward(p, stored.winner)] ELSE paid
    /\ Done(r)
    /\ UNCHANGED <<gameState, crashes>>

\* Somebody else settled it, or the transaction gave up with an error.
SettleNothing(r) ==
    /\ request[r].at = "settling"
    /\ stored.settled \/ stored.status \notin Terminal \/ ~CardsAccountedFor
    /\ Done(r)
    /\ UNCHANGED <<stored, gameState, card, paid, crashes>>

-----------------------------------------------------------------------------
(* The surroundings *)

Crash(r) ==
    /\ request[r].at # "idle"
    /\ crashes < MaxCrashes
    /\ crashes' = crashes + 1
    /\ Done(r)
    /\ UNCHANGED <<stored, gameState, card, paid>>

\* The market, in transactions of its own: an available card is listed, taken back or
\* sold; a direct trade is a listing and a sale here.
ListCard(c) ==
    /\ card[c].status = "available"
    /\ card' = [card EXCEPT ![c].status = "market_escrow"]
    /\ UNCHANGED <<stored, gameState, paid, request, crashes>>
Delist(c, owner) ==
    /\ card[c].status = "market_escrow"
    /\ card' = [card EXCEPT ![c] = [owner |-> owner, status |-> "available"]]
    /\ UNCHANGED <<stored, gameState, paid, request, crashes>>

Step(r) ==
    \/ CommitDeck(r)
    \/ Start(r)
    \/ Play(r)
    \/ \E w \in Player \cup {NoOne} : Finish(r, w) \/ Forfeit(r, w)
    \/ SettleOnly(r)
    \/ Refuse(r)
    \/ CommitFails(r)
    \/ Settle(r)
    \/ SettleNothing(r)

Next ==
    \/ \E r \in Replica : Step(r) \/ Crash(r)
    \/ \E r \in Replica, p \in Player : Load(r, p)
    \/ \E r \in Replica, chosen \in Deck : ReadCards(r, chosen)
    \/ \E c \in Card, p \in Player : ListCard(c) \/ Delist(c, p)

Spec == Init /\ [][Next]_vars

\* A request that began ends.  The page of some player polls a match that has ended
\* and is not settled, again and again (battle.js, while the reward is pending), so that
\* of the requests that find it so, not all are of the kind that is refused.
Poll == stored.status \in Terminal /\ ~stored.settled /\ \E r \in Replica, p \in Player : Load(r, p)
Fairness ==
    /\ \A r \in Replica : WF_vars(Step(r))
    /\ WF_vars(Poll)
    /\ SF_vars(\E r \in Replica : SettleOnly(r))
FairSpec == Spec /\ Fairness

-----------------------------------------------------------------------------
(* Properties *)

\* The lock on a card and the decks of the match tell the same story: a card is locked
\* exactly while an unsettled match holds it in the deck of its owner.  Card and match
\* are different documents, written by CommitDeck, the market and the settlement.
LocksMatchDecks ==
    \A c \in Card :
        IF ~stored.settled /\ \E p \in Player : c \in stored.deck[p]
          THEN card[c].status = "match_locked" /\ c \in stored.deck[card[c].owner]
          ELSE card[c].status # "match_locked"

\* The settlement's sanity check on the released cards never fails, so that no match
\* is left unsettled for good ("release settled match cards").
SettlementNeverStuck ==
    stored.status \in Terminal /\ ~stored.settled => CardsAccountedFor

\* Rewards are paid once, when the match is marked settled, whichever requests race to
\* do it and although settling does not raise the version an Update is checked against.
PaidExactlyOnce ==
    paid = IF stored.settled /\ stored.status = "completed"
             THEN [p \in Player |-> Reward(p, stored.winner)]
             ELSE [p \in Player |-> 0]

\* The lobby shows the match's status: leaving an arena is decided by Game.State.  (A part
\* of the invariant that MatchStoreProofs proves; no run checks it.)
GameFollowsMatch == gameState = stored.status

\* Nothing is lost or applied to a state it was not computed from.
R == INSTANCE MatchRecord WITH status <- stored.status, decks <- stored.deck,
                               winner <- stored.winner, settled <- stored.settled
ImplementsRecord == R!Spec

\* An ended match is settled and its cards are released, if crashes stop.
EventuallySettled == stored.status \in Terminal ~> stored.settled
=============================================================================
