---------------------------- MODULE MatchCommands ----------------------------
(***************************************************************************)
(* Idempotency keys: MatchAggregate with its log of processed commands.    *)
(*                                                                         *)
(* Clients retry: any command may arrive any number of times, late, and    *)
(* with a key that was used before.  A command whose key the log shows as  *)
(* its own is acknowledged without effect (a stuttering step); otherwise   *)
(* the operation runs and, if it is accepted, the key is recorded.  The    *)
(* log keeps the newest MaxProcessed entries.                              *)
(***************************************************************************)
EXTENDS MatchAggregate, Sequences, SequencesExt

CONSTANTS
    Key, NoKey,    \* command IDs, and none
    MaxProcessed,  \* maximumProcessed
    UsesKey(_, _, _)  \* whether clients send this player's action under this key

Action == {"commit_deck", "start", "answer", "forfeit"}

ASSUME CommandAssumption ==
    /\ MaxProcessed \in Nat \ {0}
    /\ NoKey \notin Key
    /\ \A k \in Key, p \in Player, a \in Action : UsesKey(k, p, a) \in BOOLEAN

VARIABLES
    processed,  \* ProcessedCommands
    key,        \* the key of the running SubmitAnswer
    applied     \* history: every command that took effect, in order

commandVars == <<vars, processed, key, applied>>

Command(k, p, a) == [id |-> k, user |-> p, action |-> a]

\* Mutant: whoever used the key for this action.
CommandSeenByAnyone(k, p, a) == \E i \in DOMAIN processed : processed[i].id = k /\ processed[i].action = a

\* Only the first entry with this key is looked at.
CommandSeen(k, p, a) ==
    LET first == SelectInSeq(processed, LAMBDA c : c.id = k)
    IN  first # 0 /\ processed[first] = Command(k, p, a)

\* Mutant: the log is trimmed by one entry too many.
RecordTooFew(k, p, a) ==
    /\ applied' = Append(applied, Command(k, p, a))
    /\ LET log == Append(processed, Command(k, p, a))
       IN  processed' = IF Len(log) >= MaxProcessed
                          THEN SubSeq(log, Len(log) - MaxProcessed + 2, Len(log)) ELSE log

RecordCommand(k, p, a) ==
    /\ applied' = Append(applied, Command(k, p, a))
    /\ LET log == Append(processed, Command(k, p, a))
       IN  processed' = IF Len(log) > MaxProcessed
                          THEN SubSeq(log, Len(log) - MaxProcessed + 1, Len(log)) ELSE log

CommandInit ==
    /\ Init
    /\ processed = <<>>
    /\ key = NoKey
    /\ applied = <<>>

CommitDeckCommand(k, p, cards) ==
    /\ ~CommandSeen(k, p, "commit_deck")
    /\ CommitDeck(p, cards)
    /\ RecordCommand(k, p, "commit_deck")
    /\ key' = key

StartCommand(k, p, questions) ==
    /\ ~CommandSeen(k, p, "start")
    /\ Start(p, TRUE, questions)
    /\ RecordCommand(k, p, "start")
    /\ key' = key

ForfeitCommand(k, p) ==
    /\ ~CommandSeen(k, p, "forfeit")
    /\ Forfeit(p)
    /\ RecordCommand(k, p, "forfeit")
    /\ key' = key

AnswerCommand(k, p, turnId, correct) ==
    /\ ~CommandSeen(k, p, "answer")
    /\ SubmitAnswer(p, turnId, correct)
    /\ key' = k
    /\ UNCHANGED <<processed, applied>>

AnswerApplied ==
    /\ AnswerAccepted
    /\ RecordCommand(key, request.user, "answer")
    /\ key' = NoKey

AnswerRefused ==
    /\ AnswerRejected
    /\ key' = NoKey
    /\ UNCHANGED <<processed, applied>>

\* Everything that carries no command.
WithoutCommand ==
    /\ \/ \E n \in 1..MaxPool : AddTieBreakQuestions(n)
       \/ Tick
       \/ TickExpire
       \/ TickNextTurn
       \/ TickFinishStage
       \/ TickReturn
       \/ AdvanceClock
    /\ UNCHANGED <<processed, key, applied>>

CommandNext ==
    \/ \E k \in Key, p \in Player, cards \in SUBSET Card :
          UsesKey(k, p, "commit_deck") /\ CommitDeckCommand(k, p, cards)
    \/ \E k \in Key, p \in Player :
          UsesKey(k, p, "start") /\ StartCommand(k, p, MaxPool)
    \/ \E k \in Key, p \in Player, lag \in TurnLag, right \in Outcomes :
          UsesKey(k, p, "answer") /\ AnswerCommand(k, p, current + lag, right)
    \/ \E k \in Key, p \in Player :
          UsesKey(k, p, "forfeit") /\ ForfeitCommand(k, p)
    \/ AnswerApplied
    \/ AnswerRefused
    \/ WithoutCommand

CommandSpec == CommandInit /\ [][CommandNext]_commandVars

-----------------------------------------------------------------------------
(* Properties *)

CommandTypeOK ==
    /\ TypeOK
    /\ processed \in Seq([id : Key, user : Player, action : Action])
    /\ Len(processed) <= MaxProcessed
    /\ key \in Key \cup {NoKey}

\* "A command idempotency key takes effect at most once."
\* (docs/mvp-domain-design.md, under the match aggregate's invariants)
AtMostOnce == \A i, j \in DOMAIN applied : applied[i] = applied[j] => i = j

\* What the log does give clients that use a key for one player's one action: a
\* command has no second effect before MaxProcessed others took effect.
AtMostOnceInWindow ==
    \A i, j \in DOMAIN applied :
        i < j /\ applied[i] = applied[j] => j - i > MaxProcessed

\* No command is swallowed: a player whose command is acknowledged without effect
\* had that very command applied before, whoever else used the key.
ReplayIsGenuine ==
    \A k \in Key, p \in Player, a \in Action :
        CommandSeen(k, p, a) => \E i \in DOMAIN applied : applied[i] = Command(k, p, a)
=============================================================================
