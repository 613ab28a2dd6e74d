------------------------------ MODULE Ownership ------------------------------
(***************************************************************************)
(* What the economy promises about cards: a card has one holder and at     *)
(* most one pledge (a listing, a trade offer or a match); a pledge is made *)
(* by the holder on cards that are free, is given up or honoured as a      *)
(* whole, and nobody loses a card that he neither pledged nor handed over  *)
(* in return for a pledge honoured.                                        *)
(***************************************************************************)
CONSTANTS User, Card, Pledge, None

VARIABLES holder, pledge

ownershipVars == <<holder, pledge>>

PledgedTo(p) == {c \in Card : pledge[c] = p}
Free(c, u) == holder[c] = u /\ pledge[c] = None

Init ==
    /\ holder = [c \in Card |-> None]
    /\ pledge = [c \in Card |-> None]

\* New cards enter the game.
Mint(cards, u) ==
    /\ \A c \in cards : holder[c] = None
    /\ holder' = [c \in Card |-> IF c \in cards THEN u ELSE holder[c]]
    /\ UNCHANGED pledge

MakePledge(cards, u, p) ==
    /\ \A c \in cards : Free(c, u)
    /\ pledge' = [c \in Card |-> IF c \in cards THEN p ELSE pledge[c]]
    /\ UNCHANGED holder

\* A match may reward u with new cards when it gives up its pledges.
GiveUp(p, cards, u) ==
    /\ \A c \in cards : holder[c] = None
    /\ holder' = [c \in Card |-> IF c \in cards THEN u ELSE holder[c]]
    /\ pledge' = [c \in Card |-> IF c \in PledgedTo(p) THEN None ELSE pledge[c]]

\* All that u pledged goes to v; v may give free cards of his in return.
Honour(p, u, v, return) ==
    /\ \A c \in PledgedTo(p) : holder[c] = u
    /\ \A c \in return : Free(c, v)
    /\ holder' = [c \in Card |-> IF c \in PledgedTo(p) THEN v
                                 ELSE IF c \in return THEN u ELSE holder[c]]
    /\ pledge' = [c \in Card |-> IF c \in PledgedTo(p) THEN None ELSE pledge[c]]

Next ==
    \/ \E cards \in SUBSET Card, u \in User : Mint(cards, u)
    \/ \E cards \in SUBSET Card, u \in User, p \in Pledge : MakePledge(cards, u, p)
    \/ \E p \in Pledge, cards \in SUBSET Card, u \in User : GiveUp(p, cards, u)
    \/ \E p \in Pledge, u, v \in User, return \in SUBSET Card : Honour(p, u, v, return)

Spec == Init /\ [][Next]_ownershipVars
=============================================================================
