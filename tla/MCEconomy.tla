------------------------------ MODULE MCEconomy ------------------------------
(* Two users with a starter card each, and a third card to mint, for TLC. *)
EXTENDS Economy, TLC

CONSTANTS a, b, qa, qb, c1, c2, c3, l1, t1, t2, r1, r2

Starters == (a :> {qa}) @@ (b :> {qb})

\* Card IDs, commands and request numbers are arbitrary, and so are users, with their
\* starters.
Interchangeable ==
    Permutations(Card) \cup Permutations(Trade) \cup Permutations(Request)
    \cup {(a :> b) @@ (b :> a) @@ (qa :> qb) @@ (qb :> qa)}
=============================================================================
