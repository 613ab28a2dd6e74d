---------------------------- MODULE MCMatchTeam ----------------------------
(* A two-on-two team arena for TLC: a and c against b and d. *)
EXTENDS MatchAggregate, TLC

CONSTANTS a, b, c, d, ca, cb, cc, cd

Teams == (a :> 1) @@ (b :> 2) @@ (c :> 1) @@ (d :> 2)
Owners == (ca :> a) @@ (cb :> b) @@ (cc :> c) @@ (cd :> d)
=============================================================================
