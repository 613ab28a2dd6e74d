------------------------------- MODULE Contest -------------------------------
(***************************************************************************)
(* What a battle promises its players, whatever the mode, the clock and    *)
(* the number of tie-break rounds: the field of contenders only narrows,   *)
(* the champion comes from those still in it, and a result is final.       *)
(***************************************************************************)
CONSTANTS Player, NoPlayer

VARIABLES phase, contenders, champion

contestVars == <<phase, contenders, champion>>

Undecided == phase \in {"open", "deciding"}

Init ==
    /\ phase = "open"
    /\ contenders = Player
    /\ champion = NoPlayer

\* A tie: those who are level play on.
Narrow(level) ==
    /\ Undecided
    /\ level \subseteq contenders
    /\ phase' = "deciding"
    /\ contenders' = level
    /\ champion' = champion

Crown(p) ==
    /\ Undecided
    /\ p \in contenders
    /\ phase' = "won"
    /\ champion' = p
    /\ contenders' = contenders

\* A match without tie-break questions may end level.
Draw ==
    /\ Undecided
    /\ phase' = "drawn"
    /\ champion' = NoPlayer
    /\ contenders' = contenders

\* A forfeit; the remaining player of a duel is recorded as its winner.
Cancel(p) ==
    /\ Undecided
    /\ phase' = "cancelled"
    /\ champion' = p
    /\ contenders' = contenders

Next ==
    \/ \E level \in SUBSET Player : Narrow(level)
    \/ \E p \in Player : Crown(p)
    \/ Draw
    \/ \E p \in Player \cup {NoPlayer} : Cancel(p)

Spec == Init /\ [][Next]_contestVars
=============================================================================
