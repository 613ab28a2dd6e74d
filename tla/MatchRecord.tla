----------------------------- MODULE MatchRecord -----------------------------
(***************************************************************************)
(* What the match service and its repository promise about one match,      *)
(* however many servers work on it and wherever they crash: operations     *)
(* take effect one after the other, each on the result of the last, and a  *)
(* match that has ended is paid out at most once, for the result it has.   *)
(***************************************************************************)
CONSTANTS Player, NoOne, Deck, Reward(_, _)

VARIABLES status, decks, winner, paid, settled

recordVars == <<status, decks, winner, paid, settled>>

Nothing == [p \in Player |-> 0]

Init ==
    /\ status = "collecting_decks"
    /\ decks = [p \in Player |-> {}]
    /\ winner = NoOne
    /\ paid = Nothing
    /\ settled = FALSE

Commit(p, deck) ==
    /\ status = "collecting_decks"
    /\ decks' = [decks EXCEPT ![p] = deck]
    /\ UNCHANGED <<status, winner, paid, settled>>

Begin ==
    /\ status = "collecting_decks"
    /\ status' = "playing"
    /\ UNCHANGED <<decks, winner, paid, settled>>

Finish(w) ==
    /\ status = "playing"
    /\ status' = "completed"
    /\ winner' = w
    /\ UNCHANGED <<decks, paid, settled>>

Cancel(w) ==
    /\ status \in {"collecting_decks", "playing"}
    /\ status' = "forfeited"
    /\ winner' = w
    /\ UNCHANGED <<decks, paid, settled>>

\* A forfeited match is settled too, for nothing.
Settle ==
    /\ status \in {"completed", "forfeited"}
    /\ ~settled
    /\ settled' = TRUE
    /\ paid' = IF status = "completed" THEN [p \in Player |-> Reward(p, winner)] ELSE Nothing
    /\ UNCHANGED <<status, decks, winner>>

Next ==
    \/ \E p \in Player, deck \in Deck : Commit(p, deck)
    \/ Begin
    \/ \E w \in Player \cup {NoOne} : Finish(w) \/ Cancel(w)
    \/ Settle

Spec == Init /\ [][Next]_recordVars
=============================================================================
