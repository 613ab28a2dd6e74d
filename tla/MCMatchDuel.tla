---------------------------- MODULE MCMatchDuel ----------------------------
(* A duel of two players, one card each, for TLC. *)
EXTENDS MatchAggregate, TLC

CONSTANTS a, b, ca, cb

NoTeams == [p \in Player |-> 0]
Owners == (ca :> a) @@ (cb :> b)
=============================================================================
