--------------------------- MODULE MatchStoreProofs ---------------------------
(***************************************************************************)
(* Proofs about MatchStore, for any number of players, cards, servers,     *)
(* versions and crashes.  The inductive invariant says of the copies that  *)
(* requests work on how they may differ from the stored match: one whose   *)
(* version is current differs in the settled marker at most, and then the  *)
(* match is terminal, so that no operation is due on it.                   *)
(***************************************************************************)
EXTENDS MatchStore, FiniteSetTheorems, TLAPS

Working(r) == request[r].at \in {"loaded", "cards_read"}

CopyInv ==
    \A r \in Replica : Working(r) =>
        /\ request[r].user \in Player
        /\ request[r].copy.version <= stored.version
        /\ Unchanged(r) =>
              /\ request[r].copy.status = stored.status
              /\ request[r].copy.deck = stored.deck
              /\ request[r].copy.winner = stored.winner
              /\ request[r].copy.settled = stored.settled \/ stored.status \in Terminal

\* What CommitDeck checked on its copy.
ChosenInv ==
    \A r \in Replica : request[r].at = "cards_read" =>
        /\ request[r].copy.status = "collecting_decks"
        /\ request[r].chosen \in Deck
        /\ \A q \in Player \ {request[r].user} : request[r].copy.deck[q] \cap request[r].chosen = {}

SettledInv == stored.settled => stored.status \in Terminal

\* While the match is not settled, the locked cards are those of its decks, each in its
\* owner's; afterwards there are none.
LockInv ==
    /\ ~stored.settled => \A p \in Player : \A c \in stored.deck[p] :
                              card[c] = [owner |-> p, status |-> "match_locked"]
    /\ \A c \in Card : card[c].status = "match_locked" =>
                          ~stored.settled /\ \E p \in Player : c \in stored.deck[p]

StoreInv ==
    /\ TypeOK /\ CopyInv /\ ChosenInv
    /\ SettledInv /\ LockInv
    /\ PaidExactlyOnce /\ GameFollowsMatch

LEMMA NewMatchType == NewMatch \in MatchType
BY DEF NewMatch, MatchType, Statuses

LEMMA IdleType ==
    /\ Idle \in RequestType /\ Idle.at = "idle"
    /\ [Idle EXCEPT !.at = "settling"] \in RequestType
    /\ [Idle EXCEPT !.at = "settling"].at = "settling"
BY NewMatchType DEF Idle, RequestType

\* What the settlement writes.
LEMMA SettledMatch ==
    ASSUME NEW m \in MatchType
    PROVE  LET n == [m EXCEPT !.settled = TRUE]
           IN  /\ n \in MatchType /\ n.version = m.version /\ n.status = m.status
               /\ n.winner = m.winner /\ n.deck = m.deck /\ n.settled
BY DEF MatchType

LEMMA RewardType == \A p, w : Reward(p, w) \in Nat
BY DEF Reward

LEMMA StoreInit == Init => StoreInv
<1> SUFFICES ASSUME Init PROVE StoreInv
  OBVIOUS
<1>1. TypeOK
  <2>1. card \in [Card -> CardType]
    BY StoreAssumption DEF Init, CardType
  <2> QED BY <2>1, NewMatchType, IdleType DEF Init, TypeOK, Statuses
<1>2. CopyInv /\ ChosenInv
  BY IdleType DEF Init, CopyInv, ChosenInv, Working
<1>3. SettledInv /\ LockInv /\ PaidExactlyOnce /\ GameFollowsMatch
  BY DEF Init, NewMatch, SettledInv, LockInv, PaidExactlyOnce, GameFollowsMatch
<1> QED BY <1>1, <1>2, <1>3 DEF StoreInv

-----------------------------------------------------------------------------
(* Steps of a request *)

\* A request that ends, or goes on to settle, has no copy any more.
LEMMA RequestEnds ==
    ASSUME StoreInv, NEW r \in Replica, Done(r) \/ GoOnToSettle(r)
    PROVE  /\ request' \in [Replica -> RequestType]
           /\ request'[r].at \in {"idle", "settling"}
           /\ \A q \in Replica \ {r} : request'[q] = request[q]
BY IdleType DEF StoreInv, TypeOK, Done, GoOnToSettle

\* ... and if that is all, nothing is disturbed.
LEMMA OnlyRequestEnds ==
    ASSUME StoreInv, NEW r \in Replica, Done(r) \/ GoOnToSettle(r),
           UNCHANGED <<stored, gameState, card, paid>>, crashes' \in Nat
    PROVE  StoreInv'
<1>1. /\ request' \in [Replica -> RequestType]
      /\ request'[r].at \in {"idle", "settling"}
      /\ \A q \in Replica \ {r} : request'[q] = request[q]
  BY RequestEnds
<1>2. TypeOK'
  BY <1>1 DEF StoreInv, TypeOK
<1>3. CopyInv' /\ ChosenInv'
  BY <1>1 DEF StoreInv, CopyInv, ChosenInv, Working, Unchanged
<1>4. SettledInv' /\ LockInv' /\ PaidExactlyOnce' /\ GameFollowsMatch'
  BY DEF StoreInv, SettledInv, LockInv, PaidExactlyOnce, GameFollowsMatch
<1> QED BY <1>2, <1>3, <1>4 DEF StoreInv

\* A request whose copy is current and in play works on the stored match itself.
LEMMA CopyIsStored ==
    ASSUME StoreInv, NEW r \in Replica, Working(r), Unchanged(r),
           request[r].copy.status \notin Terminal
    PROVE  request[r].copy = stored /\ ~stored.settled /\ request[r].user \in Player
<1>1. /\ request[r].copy \in MatchType /\ stored \in MatchType
      /\ request[r].copy.settled \in BOOLEAN /\ stored.settled \in BOOLEAN
  BY DEF StoreInv, TypeOK, RequestType, MatchType
<1>2. /\ request[r].copy.status = stored.status /\ request[r].copy.deck = stored.deck
      /\ request[r].copy.winner = stored.winner /\ request[r].copy.settled = stored.settled
      /\ request[r].copy.version = stored.version /\ request[r].user \in Player
  BY DEF StoreInv, CopyInv, Unchanged
<1>3. ~stored.settled
  BY <1>2 DEF StoreInv, SettledInv
<1>4. request[r].copy = stored
  BY <1>1, <1>2 DEF MatchType
<1> QED BY <1>2, <1>3, <1>4

\* A write that raises the version leaves every other request with an old copy.
LEMMA OthersAreStale ==
    ASSUME StoreInv, NEW r \in Replica, Done(r) \/ GoOnToSettle(r),
           stored'.version = stored.version + 1
    PROVE  CopyInv' /\ ChosenInv'
<1>1. /\ request'[r].at \in {"idle", "settling"}
      /\ \A q \in Replica \ {r} : request'[q] = request[q]
  BY RequestEnds
<1>2. stored.version \in Nat /\ \A q \in Replica : request[q].copy.version \in Nat
  BY DEF StoreInv, TypeOK, MatchType, RequestType
<1>3. CopyInv'
  <2> SUFFICES ASSUME NEW q \in Replica, Working(q)'
               PROVE  /\ request'[q].user \in Player
                      /\ request'[q].copy.version <= stored'.version
                      /\ stored'.version # request'[q].copy.version
    BY DEF CopyInv, Unchanged
  <2>1. q # r /\ request'[q] = request[q] /\ Working(q)
    BY <1>1 DEF Working
  <2>2. request[q].user \in Player /\ request[q].copy.version <= stored.version
    BY <2>1 DEF StoreInv, CopyInv
  <2> QED BY <1>2, <2>1, <2>2
<1>4. ChosenInv'
  BY <1>1 DEF StoreInv, ChosenInv
<1> QED BY <1>3, <1>4

\* Start, Play, Finish and Forfeit: the status and the winner change, the version is raised.
LEMMA UpdateStep ==
    ASSUME StoreInv, NEW r \in Replica, NEW status \in Statuses, NEW winner \in Player \cup {NoOne},
           request[r].copy.status \notin Terminal,
           Update(r, [request[r].copy EXCEPT !.status = status, !.winner = winner]),
           Done(r) \/ GoOnToSettle(r)
    PROVE  StoreInv'
<1>1. Working(r) /\ Unchanged(r)
  BY DEF Update, Working
<1>2. request[r].copy = stored /\ ~stored.settled
  BY <1>1, CopyIsStored
<1>3. stored \in MatchType /\ stored.version \in Nat
  BY DEF StoreInv, TypeOK, MatchType
<1>4. /\ stored' = [stored EXCEPT !.status = status, !.winner = winner,
                                  !.version = stored.version + 1]
      /\ gameState' = status /\ UNCHANGED <<card, paid, crashes>>
  BY <1>2, <1>3 DEF Update, MatchType
<1>5. /\ stored' \in MatchType /\ stored'.version = stored.version + 1
      /\ stored'.status = status /\ stored'.deck = stored.deck
      /\ stored'.settled = stored.settled
  <2> DEFINE v == stored.version + 1
  <2>1. v \in Nat
    BY <1>3
  <2>2. stored' = [stored EXCEPT !.status = status, !.winner = winner, !.version = v]
    BY <1>4
  <2> HIDE DEF v
  <2>3. /\ stored' \in MatchType /\ stored'.version = v
        /\ stored'.status = status /\ stored'.deck = stored.deck
        /\ stored'.settled = stored.settled
    BY <1>3, <2>1, <2>2 DEF MatchType
  <2> QED BY <2>3 DEF v
<1>6. TypeOK'
  BY <1>4, <1>5, RequestEnds DEF StoreInv, TypeOK
<1>7. CopyInv' /\ ChosenInv'
  BY <1>5, OthersAreStale
<1>8. SettledInv' /\ LockInv' /\ GameFollowsMatch'
  BY <1>2, <1>4, <1>5 DEF StoreInv, SettledInv, LockInv, GameFollowsMatch
<1>9. PaidExactlyOnce'
  BY <1>2, <1>4, <1>5 DEF StoreInv, PaidExactlyOnce
<1> QED BY <1>6, <1>7, <1>8, <1>9 DEF StoreInv

LEMMA CommitDeckStep ==
    ASSUME StoreInv, NEW r \in Replica, CommitDeck(r) PROVE StoreInv'
<1> DEFINE u == request[r].user
           chosen == request[r].chosen
           previous == stored.deck[u]
<1>1. /\ Working(r) /\ Unchanged(r) /\ Done(r)
      /\ request[r].copy.status = "collecting_decks"
      /\ chosen \in Deck
      /\ \A q \in Player \ {u} : request[r].copy.deck[q] \cap chosen = {}
  BY DEF CommitDeck, Working, StoreInv, ChosenInv
<1>2. request[r].copy = stored /\ ~stored.settled /\ u \in Player
  <2>1. request[r].copy.status \notin Terminal
    BY <1>1 DEF Terminal
  <2> QED BY <1>1, <2>1, CopyIsStored
<1>3. stored \in MatchType /\ stored.version \in Nat /\ stored.deck \in [Player -> SUBSET Card]
  BY DEF StoreInv, TypeOK, MatchType
<1>4. chosen \in SUBSET Card
  BY <1>1 DEF Deck
<1>5. /\ stored' = [stored EXCEPT !.deck[u] = chosen, !.version = stored.version + 1]
      /\ UNCHANGED <<gameState, paid, crashes>>
  BY <1>2 DEF CommitDeck
<1>6. /\ stored' \in MatchType /\ stored'.version = stored.version + 1
      /\ stored'.status = stored.status /\ stored'.winner = stored.winner
      /\ stored'.settled = stored.settled
      /\ stored'.deck = [stored.deck EXCEPT ![u] = chosen]
  <2> DEFINE v == stored.version + 1
             d == [stored.deck EXCEPT ![u] = chosen]
  <2>1. v \in Nat /\ d \in [Player -> SUBSET Card]
    BY <1>2, <1>3, <1>4
  <2>2. stored' = [stored EXCEPT !.deck = d, !.version = v]
    BY <1>3, <1>5 DEF MatchType
  <2> HIDE DEF u, chosen, d, v
  <2>3. /\ stored' \in MatchType /\ stored'.version = v
        /\ stored'.status = stored.status /\ stored'.winner = stored.winner
        /\ stored'.settled = stored.settled /\ stored'.deck = d
    BY <1>3, <2>1, <2>2 DEF MatchType
  <2> QED BY <2>3 DEF d, v
<1>7. /\ stored'.deck[u] = chosen
      /\ \A q \in Player \ {u} : stored'.deck[q] = stored.deck[q]
  BY <1>2, <1>3, <1>6
<1>8. /\ \A c \in previous : card[c] = [owner |-> u, status |-> "match_locked"]
      /\ \A c \in chosen : card[c].owner = u
  BY <1>2 DEF CommitDeck, DeckAvailable, Previous
<1>9. card' = [c \in Card |->
                 IF c \in chosen THEN [card[c] EXCEPT !.status = "match_locked"]
                 ELSE IF c \in previous THEN [card[c] EXCEPT !.status = "available"]
                 ELSE card[c]]
  BY <1>2 DEF CommitDeck, Previous
<1>10. card \in [Card -> CardType]
  BY DEF StoreInv, TypeOK
<1> HIDE DEF u, chosen, previous
<1>11. card' \in [Card -> CardType]
  BY <1>9, <1>10 DEF CardType
<1>12. /\ \A c \in chosen : card'[c] = [owner |-> u, status |-> "match_locked"]
       /\ \A c \in previous \ chosen : card'[c].status = "available"
       /\ \A c \in Card \ (chosen \cup previous) : card'[c] = card[c]
  BY <1>2, <1>3, <1>4, <1>8, <1>9, <1>10 DEF CardType, previous
<1>13. TypeOK'
  BY <1>1, <1>5, <1>6, <1>11, RequestEnds DEF StoreInv, TypeOK
<1>14. CopyInv' /\ ChosenInv'
  BY <1>1, <1>6, OthersAreStale
<1>15. SettledInv' /\ PaidExactlyOnce' /\ GameFollowsMatch'
  BY <1>5, <1>6 DEF StoreInv, SettledInv, PaidExactlyOnce, GameFollowsMatch
<1>16. LockInv'
  <2>1. ASSUME NEW p \in Player, NEW c \in stored'.deck[p]
        PROVE  card'[c] = [owner |-> p, status |-> "match_locked"]
    <3>1. CASE p = u
      BY <2>1, <3>1, <1>7, <1>12
    <3>2. CASE p # u
      <4>1. c \in stored.deck[p] /\ c \in Card /\ c \notin chosen
        BY <2>1, <3>2, <1>1, <1>2, <1>3, <1>7 DEF u, chosen
      <4>2. card[c] = [owner |-> p, status |-> "match_locked"]
        BY <4>1, <1>2 DEF StoreInv, LockInv
      <4>3. c \notin previous
        BY <4>2, <3>2, <1>8
      <4> QED BY <4>1, <4>2, <4>3, <1>12
    <3> QED BY <3>1, <3>2
  <2>2. ASSUME NEW c \in Card, card'[c].status = "match_locked"
        PROVE  \E p \in Player : c \in stored'.deck[p]
    <3>1. CASE c \in chosen
      BY <3>1, <1>2, <1>7
    <3>2. CASE c \notin chosen
      <4>1. c \notin previous /\ card'[c] = card[c]
        BY <2>2, <3>2, <1>12
      <4>2. PICK p \in Player : c \in stored.deck[p]
        BY <2>2, <4>1 DEF StoreInv, LockInv
      <4>3. p # u
        BY <4>1, <4>2 DEF previous
      <4> QED BY <4>2, <4>3, <1>7
    <3> QED BY <3>1, <3>2
  <2> QED BY <2>1, <2>2, <1>2, <1>6 DEF LockInv
<1> QED BY <1>13, <1>14, <1>15, <1>16 DEF StoreInv

LEMMA SettleStep ==
    ASSUME StoreInv, NEW r \in Replica, Settle(r) PROVE StoreInv'
<1>1. stored \in MatchType /\ stored.winner \in Player \cup {NoOne}
      /\ stored.deck \in [Player -> SUBSET Card] /\ card \in [Card -> CardType]
  BY DEF StoreInv, TypeOK, MatchType
<1>2. /\ ~stored.settled /\ stored.status \in Terminal /\ Done(r)
      /\ stored' = [stored EXCEPT !.settled = TRUE]
      /\ card' = [c \in Card |->
                    IF c \in Locked THEN [card[c] EXCEPT !.status = "available"] ELSE card[c]]
      /\ paid' = IF stored.status = "completed"
                   THEN [p \in Player |-> paid[p] + Reward(p, stored.winner)] ELSE paid
      /\ UNCHANGED <<gameState, crashes>>
  BY DEF Settle
<1>3. /\ stored' \in MatchType /\ stored'.version = stored.version
      /\ stored'.status = stored.status /\ stored'.winner = stored.winner
      /\ stored'.deck = stored.deck /\ stored'.settled
  BY <1>1, <1>2, SettledMatch
<1>4. card' \in [Card -> CardType] /\ \A c \in Card : card'[c].status # "match_locked"
  BY <1>1, <1>2 DEF Locked, CardType
<1>5. paid = [p \in Player |-> 0]
  BY <1>2 DEF StoreInv, PaidExactlyOnce
<1>6. \A p \in Player : paid[p] + Reward(p, stored.winner) = Reward(p, stored.winner)
  <2> TAKE p \in Player
  <2>1. paid[p] = 0 /\ Reward(p, stored.winner) \in Nat
    BY <1>5, RewardType
  <2> QED BY <2>1
<1>7. paid' = IF stored.status = "completed"
                THEN [p \in Player |-> Reward(p, stored.winner)] ELSE [p \in Player |-> 0]
  BY <1>2, <1>5, <1>6
<1>8. PaidExactlyOnce' /\ paid' \in [Player -> Nat]
  BY <1>3, <1>7, RewardType DEF PaidExactlyOnce
<1>9. TypeOK'
  BY <1>2, <1>3, <1>4, <1>8, RequestEnds DEF StoreInv, TypeOK
<1>10. CopyInv' /\ ChosenInv'
  <2>1. /\ request'[r].at \in {"idle", "settling"}
        /\ \A q \in Replica \ {r} : request'[q] = request[q]
    BY <1>2, RequestEnds
  <2>2. ChosenInv'
    BY <2>1 DEF StoreInv, ChosenInv
  <2>3. stored.status \in Terminal
    BY <1>2
  <2>4. CopyInv
    BY DEF StoreInv
  <2> QED BY <1>3, <2>1, <2>2, <2>3, <2>4 DEF CopyInv, Working, Unchanged
<1>11. SettledInv' /\ LockInv' /\ GameFollowsMatch'
  BY <1>2, <1>3, <1>4 DEF StoreInv, SettledInv, LockInv, GameFollowsMatch
<1> QED BY <1>8, <1>9, <1>10, <1>11 DEF StoreInv

-----------------------------------------------------------------------------
(* Requests begin, and what others do to cards *)

LEMMA LoadStep ==
    ASSUME StoreInv, NEW r \in Replica, NEW p \in Player, Load(r, p) PROVE StoreInv'
<1> DEFINE new == [at |-> "loaded", user |-> p, copy |-> stored, chosen |-> {}]
<1>1. /\ request \in [Replica -> RequestType] /\ request' = [request EXCEPT ![r] = new]
      /\ UNCHANGED <<stored, gameState, card, paid, crashes>>
      /\ stored \in MatchType /\ stored.version \in Nat
  BY DEF Load, StoreInv, TypeOK, MatchType
<1>2. new \in RequestType
  BY <1>1 DEF RequestType
<1>3. /\ request' \in [Replica -> RequestType] /\ request'[r] = new
      /\ \A q \in Replica \ {r} : request'[q] = request[q]
  BY <1>1, <1>2
<1>4. TypeOK'
  BY <1>1, <1>3 DEF StoreInv, TypeOK
<1>5. CopyInv'
  <2> SUFFICES ASSUME NEW q \in Replica, Working(q)'
               PROVE  /\ request'[q].user \in Player
                      /\ request'[q].copy.version <= stored.version
                      /\ stored.version = request'[q].copy.version =>
                            /\ request'[q].copy.status = stored.status
                            /\ request'[q].copy.deck = stored.deck
                            /\ request'[q].copy.winner = stored.winner
                            /\ \/ request'[q].copy.settled = stored.settled
                               \/ stored.status \in Terminal
    BY <1>1 DEF CopyInv, Unchanged
  <2>1. CASE q = r
    BY <2>1, <1>1, <1>3
  <2>2. CASE q # r
    BY <2>2, <1>3 DEF StoreInv, CopyInv, Working, Unchanged
  <2> QED BY <2>1, <2>2
<1>6. ChosenInv'
  BY <1>3 DEF StoreInv, ChosenInv
<1>7. SettledInv' /\ LockInv' /\ PaidExactlyOnce' /\ GameFollowsMatch'
  BY <1>1 DEF StoreInv, SettledInv, LockInv, PaidExactlyOnce, GameFollowsMatch
<1> QED BY <1>4, <1>5, <1>6, <1>7 DEF StoreInv

LEMMA ReadCardsStep ==
    ASSUME StoreInv, NEW r \in Replica, NEW chosen \in Deck, ReadCards(r, chosen)
    PROVE  StoreInv'
<1>1. /\ request \in [Replica -> RequestType] /\ request[r].at = "loaded"
      /\ request[r].copy.status = "collecting_decks"
      /\ \A q \in Player \ {request[r].user} : request[r].copy.deck[q] \cap chosen = {}
      /\ request' = [request EXCEPT ![r].at = "cards_read", ![r].chosen = chosen]
      /\ UNCHANGED <<stored, gameState, card, paid, crashes>>
  BY DEF ReadCards, StoreInv, TypeOK
<1>2. chosen \in SUBSET Card
  BY DEF Deck
<1>3. /\ request' \in [Replica -> RequestType]
      /\ request'[r].at = "cards_read" /\ request'[r].chosen = chosen
      /\ request'[r].user = request[r].user /\ request'[r].copy = request[r].copy
      /\ \A q \in Replica \ {r} : request'[q] = request[q]
  BY <1>1, <1>2 DEF RequestType
<1>4. TypeOK'
  BY <1>1, <1>3 DEF StoreInv, TypeOK
<1>5. CopyInv' /\ ChosenInv'
  <2>1. \A q \in Replica : Working(q)' => /\ Working(q)
                                          /\ request'[q].user = request[q].user
                                          /\ request'[q].copy = request[q].copy
    BY <1>1, <1>3 DEF Working
  <2>2. CopyInv'
    BY <1>1, <2>1 DEF StoreInv, CopyInv, Unchanged
  <2>3. ChosenInv'
    BY <1>1, <1>3 DEF StoreInv, ChosenInv
  <2> QED BY <2>2, <2>3
<1>6. SettledInv' /\ LockInv' /\ PaidExactlyOnce' /\ GameFollowsMatch'
  BY <1>1 DEF StoreInv, SettledInv, LockInv, PaidExactlyOnce, GameFollowsMatch
<1> QED BY <1>4, <1>5, <1>6 DEF StoreInv

\* The market leaves locked cards alone and locks none.
LEMMA MarketStep ==
    ASSUME StoreInv, NEW c \in Card, NEW p \in Player, ListCard(c) \/ Delist(c, p)
    PROVE  StoreInv'
<1>1. /\ card \in [Card -> CardType]
      /\ UNCHANGED <<stored, gameState, paid, request, crashes>>
      /\ card[c].status # "match_locked"
  BY DEF ListCard, Delist, StoreInv, TypeOK
<1>2. /\ card' \in [Card -> CardType] /\ card'[c].status # "match_locked"
      /\ \A d \in Card \ {c} : card'[d] = card[d]
  BY <1>1 DEF ListCard, Delist, CardType
<1>3. TypeOK'
  BY <1>1, <1>2 DEF StoreInv, TypeOK
<1>4. CopyInv' /\ ChosenInv' /\ SettledInv' /\ PaidExactlyOnce' /\ GameFollowsMatch'
  BY <1>1 DEF StoreInv, CopyInv, ChosenInv, SettledInv, PaidExactlyOnce, GameFollowsMatch,
              Working, Unchanged
<1>5. LockInv'
  <2>1. stored.deck \in [Player -> SUBSET Card]
    BY DEF StoreInv, TypeOK, MatchType
  <2> QED BY <1>1, <1>2, <2>1 DEF StoreInv, LockInv
<1> QED BY <1>3, <1>4, <1>5 DEF StoreInv

\* Operations that keep the status or the winner, in the form of UpdateStep.
LEMMA KeptCopy ==
    ASSUME StoreInv, NEW r \in Replica
    PROVE  LET m == request[r].copy
           IN  /\ m \in MatchType /\ m.status \in Statuses /\ m.winner \in Player \cup {NoOne}
               /\ \A s \in Statuses : [m EXCEPT !.status = s] =
                                       [m EXCEPT !.status = s, !.winner = m.winner]
               /\ m = [m EXCEPT !.status = m.status, !.winner = m.winner]
<1>1. request[r].copy \in MatchType
  BY DEF StoreInv, TypeOK, RequestType
<1> QED BY <1>1 DEF MatchType

LEMMA StoreStep == StoreInv /\ [Next]_vars => StoreInv'
<1> SUFFICES ASSUME StoreInv, [Next]_vars PROVE StoreInv'
  OBVIOUS
<1>1. ASSUME NEW r \in Replica, Step(r) PROVE StoreInv'
  <2>0. request[r].copy.status \in Statuses
    BY KeptCopy
  <2>1. CASE CommitDeck(r)
    BY <2>1, CommitDeckStep
  <2>2. CASE Start(r)
    <3>1. Update(r, [request[r].copy EXCEPT !.status = "playing", !.winner = request[r].copy.winner])
      BY <2>2, KeptCopy DEF Start, Statuses
    <3>2. request[r].copy.winner \in Player \cup {NoOne}
      BY KeptCopy
    <3> QED BY <2>2, <3>1, <3>2, UpdateStep DEF Start, Statuses, Terminal
  <2>3. CASE Play(r)
    <3>1. Update(r, [request[r].copy EXCEPT !.status = request[r].copy.status,
                                            !.winner = request[r].copy.winner])
      BY <2>3, KeptCopy DEF Play
    <3>2. request[r].copy.winner \in Player \cup {NoOne}
      BY KeptCopy
    <3> QED BY <2>0, <2>3, <3>1, <3>2, UpdateStep DEF Play, Terminal
  <2>4. ASSUME NEW w \in Player \cup {NoOne}, Finish(r, w) PROVE StoreInv'
    BY <2>4, UpdateStep DEF Finish, Statuses, Terminal
  <2>5. ASSUME NEW w \in Player \cup {NoOne}, Forfeit(r, w) PROVE StoreInv'
    BY <2>5, UpdateStep DEF Forfeit, Statuses, Terminal
  <2>6. crashes \in Nat
    BY DEF StoreInv, TypeOK
  <2>7. CASE SettleOnly(r) \/ Refuse(r) \/ CommitFails(r) \/ SettleNothing(r)
    BY <2>6, <2>7, OnlyRequestEnds DEF SettleOnly, Refuse, CommitFails, SettleNothing
  <2>8. CASE Settle(r)
    BY <2>8, SettleStep
  <2> QED BY <1>1, <2>1, <2>2, <2>3, <2>4, <2>5, <2>7, <2>8 DEF Step
<1>2. ASSUME NEW r \in Replica, Crash(r) PROVE StoreInv'
  <2>1. crashes' \in Nat
    BY <1>2 DEF Crash, StoreInv, TypeOK
  <2> QED BY <1>2, <2>1, OnlyRequestEnds DEF Crash
<1>3. CASE UNCHANGED vars
  BY <1>3 DEF vars, StoreInv, TypeOK, CopyInv, ChosenInv, Working, Unchanged, SettledInv,
              LockInv, PaidExactlyOnce, GameFollowsMatch
<1> QED BY <1>1, <1>2, <1>3, LoadStep, ReadCardsStep, MarketStep DEF Next

-----------------------------------------------------------------------------
(* Theorems *)

\* What the documents and the requests hold, for any number of servers, versions and crashes.
THEOREM StoreCorrect == Spec => []StoreInv
BY StoreInit, StoreStep, PTL DEF Spec

\* Every document and every request keeps its type.
THEOREM StoreTypeCorrect == Spec => []TypeOK
<1>1. StoreInv => TypeOK
  BY DEF StoreInv
<1> QED BY <1>1, StoreCorrect, PTL

\* A card is locked exactly while an unsettled match holds it in its owner's deck.
THEOREM LocksFollowDecks == Spec => []LocksMatchDecks
<1>1. StoreInv => LocksMatchDecks
  <2> SUFFICES ASSUME StoreInv, NEW c \in Card
               PROVE  IF ~stored.settled /\ \E p \in Player : c \in stored.deck[p]
                        THEN card[c].status = "match_locked" /\ c \in stored.deck[card[c].owner]
                        ELSE card[c].status # "match_locked"
    BY DEF LocksMatchDecks
  <2>1. CASE ~stored.settled /\ \E p \in Player : c \in stored.deck[p]
    <3>1. PICK p \in Player : c \in stored.deck[p]
      BY <2>1
    <3>2. card[c] = [owner |-> p, status |-> "match_locked"]
      BY <2>1, <3>1 DEF StoreInv, LockInv
    <3> QED BY <2>1, <3>1, <3>2
  <2>2. CASE ~(~stored.settled /\ \E p \in Player : c \in stored.deck[p])
    BY <2>2 DEF StoreInv, LockInv
  <2> QED BY <2>1, <2>2
<1> QED BY <1>1, StoreCorrect, PTL

\* The cards the settlement finds locked are always as many as the decks hold, so that
\* its check never leaves an ended match unsettled.
THEOREM SettlementStaysPossible == Spec => []SettlementNeverStuck
<1>1. StoreInv => SettlementNeverStuck
  <2> SUFFICES ASSUME StoreInv, ~stored.settled PROVE Locked = ExpectedLocked
    BY DEF SettlementNeverStuck, CardsAccountedFor
  <2>1. stored.deck \in [Player -> SUBSET Card]
    BY DEF StoreInv, TypeOK, MatchType
  <2>2. ASSUME NEW c \in ExpectedLocked PROVE c \in Locked
    <3>1. PICK p \in Player : c \in stored.deck[p]
      BY <2>2 DEF ExpectedLocked
    <3>2. c \in Card /\ card[c] = [owner |-> p, status |-> "match_locked"]
      BY <2>1, <3>1 DEF StoreInv, LockInv
    <3> QED BY <3>2 DEF Locked
  <2>3. ASSUME NEW c \in Locked PROVE c \in ExpectedLocked
    BY <2>3 DEF StoreInv, LockInv, Locked, ExpectedLocked
  <2> QED BY <2>2, <2>3
<1> QED BY <1>1, StoreCorrect, PTL

\* Rewards are paid when the match is marked settled, once, whichever requests race to it.
THEOREM PaidOnce == Spec => []PaidExactlyOnce
<1>1. StoreInv => PaidExactlyOnce
  BY DEF StoreInv
<1> QED BY <1>1, StoreCorrect, PTL

\* The lobby's state of the game is the status of its match.
THEOREM LobbyShowsMatch == Spec => []GameFollowsMatch
<1>1. StoreInv => GameFollowsMatch
  BY DEF StoreInv
<1> QED BY <1>1, StoreCorrect, PTL

-----------------------------------------------------------------------------
(* Refinement *)

LEMMA RecordInit == Init => R!Init
BY DEF Init, NewMatch, R!Init, R!Nothing

\* An update of a current copy in play writes what the abstract step writes.
LEMMA UpdatedRecord ==
    ASSUME StoreInv, NEW r \in Replica, NEW status \in Statuses, NEW winner \in Player \cup {NoOne},
           request[r].copy.status \notin Terminal,
           Update(r, [request[r].copy EXCEPT !.status = status, !.winner = winner])
    PROVE  /\ request[r].copy = stored
           /\ stored'.status = status /\ stored'.winner = winner
           /\ stored'.deck = stored.deck /\ stored'.settled = stored.settled
           /\ paid' = paid
<1>1. request[r].copy = stored /\ stored \in MatchType
  BY CopyIsStored DEF Update, Working, Unchanged, StoreInv, TypeOK
<1> DEFINE v == stored.version + 1
<1>2. stored' = [stored EXCEPT !.status = status, !.winner = winner, !.version = v] /\ paid' = paid
  <2>1. [stored EXCEPT !.status = status, !.winner = winner].version = stored.version
    BY <1>1 DEF MatchType
  <2> QED BY <1>1, <2>1 DEF Update
<1> HIDE DEF v
<1> QED BY <1>1, <1>2 DEF MatchType

\* Each step of a server is one of the abstract record's, or none.
LEMMA RecordStep == StoreInv /\ [Next]_vars => [R!Next]_(R!recordVars)
<1> SUFFICES ASSUME StoreInv, [Next]_vars PROVE R!Next \/ UNCHANGED R!recordVars
  OBVIOUS
<1>1. ASSUME UNCHANGED <<stored, paid>> PROVE UNCHANGED R!recordVars
  BY <1>1 DEF R!recordVars
<1>2. ASSUME NEW r \in Replica, CommitDeck(r) PROVE R!Next
  <2> DEFINE u == request[r].user
             chosen == request[r].chosen
  <2>1. /\ Working(r) /\ Unchanged(r) /\ request[r].copy.status = "collecting_decks"
        /\ chosen \in Deck
    BY <1>2 DEF CommitDeck, Working, StoreInv, ChosenInv
  <2>2. request[r].copy = stored /\ u \in Player /\ stored \in MatchType
    BY <2>1, CopyIsStored DEF Terminal, StoreInv, TypeOK
  <2>3. stored' = [stored EXCEPT !.deck[u] = chosen, !.version = stored.version + 1] /\ paid' = paid
    BY <1>2, <2>2 DEF CommitDeck
  <2> DEFINE v == stored.version + 1
             d == [stored.deck EXCEPT ![u] = chosen]
  <2>4. stored' = [stored EXCEPT !.deck = d, !.version = v]
    BY <2>2, <2>3 DEF MatchType
  <2> HIDE DEF u, chosen, d, v
  <2>5. /\ stored'.status = stored.status /\ stored'.winner = stored.winner
        /\ stored'.settled = stored.settled /\ stored'.deck = d
    BY <2>2, <2>4 DEF MatchType
  <2>6. R!Commit(u, chosen)
    BY <2>1, <2>2, <2>3, <2>5 DEF R!Commit, d
  <2> QED BY <2>1, <2>2, <2>6 DEF R!Next
<1>3. ASSUME NEW r \in Replica, Start(r) PROVE R!Next
  <2>1. /\ Update(r, [request[r].copy EXCEPT !.status = "playing", !.winner = request[r].copy.winner])
        /\ request[r].copy.winner \in Player \cup {NoOne}
        /\ "playing" \in Statuses
        /\ request[r].copy.status = "collecting_decks" /\ request[r].copy.status \notin Terminal
    BY <1>3, KeptCopy DEF Start, Statuses, Terminal
  <2>2. /\ request[r].copy = stored
        /\ stored'.status = "playing" /\ stored'.winner = request[r].copy.winner
        /\ stored'.deck = stored.deck /\ stored'.settled = stored.settled
        /\ paid' = paid
    BY <2>1, UpdatedRecord
  <2>3. R!Begin
    BY <2>1, <2>2 DEF R!Begin
  <2> QED BY <2>3 DEF R!Next
<1>4. ASSUME NEW r \in Replica, Play(r) PROVE UNCHANGED R!recordVars
  <2>1. /\ Update(r, [request[r].copy EXCEPT !.status = request[r].copy.status,
                                             !.winner = request[r].copy.winner])
        /\ request[r].copy.winner \in Player \cup {NoOne}
        /\ request[r].copy.status \in Statuses /\ request[r].copy.status \notin Terminal
    BY <1>4, KeptCopy DEF Play, Terminal
  <2>2. /\ request[r].copy = stored
        /\ stored'.status = request[r].copy.status /\ stored'.winner = request[r].copy.winner
        /\ stored'.deck = stored.deck /\ stored'.settled = stored.settled
        /\ paid' = paid
    BY <2>1, UpdatedRecord
  <2> QED BY <2>2 DEF R!recordVars
<1>5. ASSUME NEW r \in Replica, NEW w \in Player \cup {NoOne}, Finish(r, w) PROVE R!Next
  <2>1. /\ Update(r, [request[r].copy EXCEPT !.status = "completed", !.winner = w])
        /\ "completed" \in Statuses
        /\ request[r].copy.status = "playing" /\ request[r].copy.status \notin Terminal
    BY <1>5 DEF Finish, Statuses, Terminal
  <2>2. /\ request[r].copy = stored
        /\ stored'.status = "completed" /\ stored'.winner = w
        /\ stored'.deck = stored.deck /\ stored'.settled = stored.settled
        /\ paid' = paid
    BY <2>1, UpdatedRecord
  <2>3. R!Finish(w)
    BY <2>1, <2>2 DEF R!Finish
  <2> QED BY <2>3 DEF R!Next
<1>6. ASSUME NEW r \in Replica, NEW w \in Player \cup {NoOne}, Forfeit(r, w) PROVE R!Next
  <2>1. request[r].copy.status \in {"collecting_decks", "playing"}
    BY <1>6, KeptCopy DEF Forfeit, Statuses, Terminal
  <2>2. /\ Update(r, [request[r].copy EXCEPT !.status = "forfeited", !.winner = w])
        /\ "forfeited" \in Statuses /\ request[r].copy.status \notin Terminal
    BY <1>6 DEF Forfeit, Statuses, Terminal
  <2>3. /\ request[r].copy = stored
        /\ stored'.status = "forfeited" /\ stored'.winner = w
        /\ stored'.deck = stored.deck /\ stored'.settled = stored.settled
        /\ paid' = paid
    BY <2>2, UpdatedRecord
  <2>4. R!Cancel(w)
    BY <2>1, <2>3 DEF R!Cancel
  <2> QED BY <2>4 DEF R!Next
<1>7. ASSUME NEW r \in Replica, Settle(r) PROVE R!Next
  <2>1. /\ ~stored.settled /\ stored.status \in {"completed", "forfeited"}
        /\ stored' = [stored EXCEPT !.settled = TRUE] /\ stored \in MatchType
    BY <1>7 DEF Settle, Terminal, StoreInv, TypeOK
  <2>2. /\ stored'.status = stored.status /\ stored'.winner = stored.winner
        /\ stored'.deck = stored.deck /\ stored'.settled = TRUE
    BY <2>1, SettledMatch
  <2>3. paid' = IF stored.status = "completed"
                  THEN [p \in Player |-> Reward(p, stored.winner)] ELSE [p \in Player |-> 0]
    BY <1>7, <2>2, SettleStep DEF StoreInv, PaidExactlyOnce
  <2>4. R!Settle
    BY <2>1, <2>2, <2>3 DEF R!Settle, R!Nothing
  <2> QED BY <2>4 DEF R!Next
<1>8. ASSUME NEW r \in Replica,
             \/ SettleOnly(r) \/ Refuse(r) \/ CommitFails(r) \/ SettleNothing(r) \/ Crash(r)
             \/ \E p \in Player : Load(r, p)
             \/ \E chosen \in Deck : ReadCards(r, chosen)
      PROVE  UNCHANGED <<stored, paid>>
  BY <1>8 DEF SettleOnly, Refuse, CommitFails, SettleNothing, Crash, Load, ReadCards
<1>9. ASSUME NEW c \in Card, NEW p \in Player, ListCard(c) \/ Delist(c, p)
      PROVE  UNCHANGED <<stored, paid>>
  BY <1>9 DEF ListCard, Delist
<1>10. CASE UNCHANGED vars
  BY <1>1, <1>10 DEF vars
<1> QED BY <1>1, <1>2, <1>3, <1>4, <1>5, <1>6, <1>7, <1>8, <1>9, <1>10 DEF Next, Step

\* Servers that interleave, race and crash do to the match what the abstract record allows:
\* no operation is lost, and none is applied to a state it was not computed from.
THEOREM StoreRefinesRecord == Spec => ImplementsRecord
BY RecordInit, RecordStep, StoreCorrect, PTL DEF Spec, ImplementsRecord, R!Spec
=============================================================================
