----------------------------- MODULE MCGameLobby -----------------------------
(* Three users, two servers, and duels. *)
EXTENDS GameLobby, TLC

Interchangeable ==
    Permutations(User) \cup Permutations(Game) \cup Permutations(Server)
    \cup Permutations(Request)
=============================================================================
