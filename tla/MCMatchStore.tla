---------------------------- MODULE MCMatchStore ----------------------------
(* A duel on two servers; the first player has a card to spare. *)
EXTENDS MatchStore, TLC

CONSTANTS a, b, a1, a2, b1, r1, r2

CardOwners == (a1 :> a) @@ (a2 :> a) @@ (b1 :> b)
Owners == [k \in Card |-> CardOwners[k]]

\* Nothing tells the servers apart.
Servers == Permutations(Replica)
=============================================================================
