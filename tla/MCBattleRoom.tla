---------------------------- MODULE MCBattleRoom ----------------------------
(* The owner, with one socket, and a guest with two. *)
EXTENDS BattleRoom, TLC

CONSTANTS o, g, oc, g1, g2

SocketOwners == (oc :> o) @@ (g1 :> g) @@ (g2 :> g)
=============================================================================
