--------------------------- MODULE MCMatchCommands ---------------------------
(* A duel whose players send their commands under keys, for TLC. *)
EXTENDS MatchCommands

CONSTANTS a, b, ca, cb, cc, k1, k2, k3, k4, k5, k6, k7

NoTeams == [p \in Player |-> 0]
Owners == (ca :> a) @@ (cb :> b) @@ (cc :> a)

\* A client makes up a key for every request: three commits, enough to push one another
\* out of the log, the start, two answers and a forfeit.
Use == (k1 :> <<a, "commit_deck">>) @@ (k2 :> <<b, "commit_deck">>) @@ (k3 :> <<a, "commit_deck">>)
       @@ (k4 :> <<a, "start">>) @@ (k5 :> <<a, "answer">>) @@ (k6 :> <<b, "answer">>)
       @@ (k7 :> <<b, "forfeit">>)
FreshKeys(k, p, action) == Use[k] = <<p, action>>

\* The clients happen to make up the same keys.
SharedKeys(k, p, action) == TRUE
=============================================================================
