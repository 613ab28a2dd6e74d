-------------------------------- MODULE BotMatch --------------------------------
(***************************************************************************)
(* A duel against the bot (domain/match/bot.go), as the match service runs *)
(* it (Snapshot, Answer and Forfeit of service/match.go).                  *)
(*                                                                         *)
(* The bot has no goroutine.  What it will answer to a turn, and when, is  *)
(* fixed by the match's seed; AdvanceBots applies what fell due since the  *)
(* last call, in order with the deadlines and reveals that went by.  Beside*)
(* the match that is only advanced when its player calls, the module keeps *)
(* a second one, prompt, that is advanced at every instant.  A call brings *)
(* questions to both: while its questions have run out prompt waits for    *)
(* the next call, as the stored match does.                                *)
(*                                                                         *)
(* Abstractions: as in MatchAggregate; a call is one step, since its       *)
(* aggregate is loaded, advanced and saved under the service's lock.       *)
(***************************************************************************)
EXTENDS Integers

CONSTANTS
    MainTurns,       \* two decks
    TurnDuration, RevealDuration,
    Delay,           \* delays after which the bot may answer
    FirstPool,       \* questions StartWithTieBreak gives
    PoolSize,        \* tieBreakQuestionPoolSize: questions the bank is asked for
    MaxTransitions,  \* maximumAutomaticTransitions
    MaxPool,         \* bound: questions the bank can supply in all
    MaxTime          \* bound: the clock stops here

\* The bot never answers at once, and a turn is longer than the least unit of time.
\* A turn takes up to three transitions, and no more turns than the main ones and one
\* supply of questions follow each other without a call.
ASSUME BotAssumption ==
    /\ MainTurns \in Nat \ {0}
    /\ TurnDuration \in Nat \ {0, 1} /\ RevealDuration \in Nat \ {0}
    /\ Delay \subseteq Nat \ {0}
    /\ PoolSize \in Nat /\ MaxPool \in Nat
    /\ FirstPool \in 1 .. PoolSize /\ FirstPool <= MaxPool
    /\ MaxTransitions \in Nat
    /\ 3 * (MainTurns + PoolSize) < MaxTransitions
    /\ MaxTime \in Nat

VARIABLES
    now,
    match,    \* the stored aggregate
    prompt    \* the same match, advanced at every instant and given the same questions

vars == <<now, match, prompt>>

Actor == {"human", "bot"}
AllTurns == 1 .. MainTurns + MaxPool

NewTurn(id, at) == [id |-> id, status |-> "active", answered |-> {},
                    startedAt |-> at, deadline |-> at + TurnDuration, revealUntil |-> 0]

\* What PlanBotDecision derives from the bot's seed, which never changes: for every turn,
\* its delay and whether it is right.
Plans == [AllTurns -> [delay : Delay, right : BOOLEAN]]
Started(plan) == [plan |-> plan, status |-> "active", turn |-> NewTurn(1, 0),
                  score |-> [p \in Actor |-> 0],
                  pool |-> FirstPool, next |-> 0, awaiting |-> FALSE]

MatchType ==
    [plan : Plans, status : {"active", "tie_break", "completed", "forfeited"},
     turn : [id : AllTurns, status : {"active", "resolved"}, answered : SUBSET Actor,
             startedAt : Nat, deadline : Nat, revealUntil : Nat],
     score : [Actor -> Nat], pool : 1 .. MaxPool, next : 0 .. MaxPool, awaiting : BOOLEAN]

TypeOK ==
    /\ now \in 0 .. MaxTime
    /\ match \in MatchType
    /\ prompt \in MatchType

Init ==
    /\ now = 0
    /\ match \in {Started(plan) : plan \in Plans}
    /\ prompt = match

-----------------------------------------------------------------------------
(* The aggregate: m is one, at an instant of time *)

Playing(m) == m.status \in {"active", "tie_break"}
Going(m) == Playing(m) /\ ~m.awaiting
Points(remaining) == 100 + (50 * remaining) \div TurnDuration

Resolve(m, at) == [m EXCEPT !.turn.status = "resolved", !.turn.revealUntil = at + RevealDuration]

ScheduleTieBreak(m, at) ==
    IF m.next >= m.pool
      THEN [m EXCEPT !.status = "tie_break", !.awaiting = TRUE]
      ELSE [m EXCEPT !.status = "tie_break", !.awaiting = FALSE, !.next = @ + 1,
                     !.turn = NewTurn(m.turn.id + 1, at)]

FinishStage(m, at) ==
    IF m.score["human"] # m.score["bot"] THEN [m EXCEPT !.status = "completed"]
                                         ELSE ScheduleTieBreak(m, at)

\* One iteration of Tick's loop.
TickOnce(m, at) ==
    CASE Going(m) /\ m.turn.status = "active" /\ at >= m.turn.deadline ->
            Resolve(m, m.turn.deadline)
      [] Going(m) /\ m.turn.status = "resolved" /\ at >= m.turn.revealUntil ->
            IF m.turn.id < MainTurns
              THEN [m EXCEPT !.turn = NewTurn(@.id + 1, @.revealUntil)]
              ELSE FinishStage(m, m.turn.revealUntil)
      [] OTHER -> m

\* No turn is left after two iterations for each.
Tick(m, at) ==
    LET run[iterations \in Nat] == [n \in MatchType |->
            LET next == TickOnce(n, at)
            IN  IF iterations = 0 \/ next = n THEN n ELSE run[iterations - 1][next]]
    IN  run[2 * (MainTurns + MaxPool)][m]

\* submitAnswer once Tick is done: of a turn that is open to p, or nothing.
Submit(m, p, turnId, right, at) ==
    IF Going(m) /\ m.turn.id = turnId /\ m.turn.status = "active"
          /\ at \in m.turn.startedAt .. m.turn.deadline - 1 /\ p \notin m.turn.answered
      THEN LET points == IF right THEN Points(m.turn.deadline - at) ELSE 0
               answered == [m EXCEPT !.score[p] = @ + points, !.turn.answered = @ \cup {p}]
           IN  IF answered.turn.answered = Actor THEN Resolve(answered, at) ELSE answered
      ELSE m

-----------------------------------------------------------------------------
(* AdvanceBots *)

Least(x, y) == IF x <= y THEN x ELSE y

\* Never at or after the deadline.
DueAt(m) == Least(m.turn.startedAt + m.plan[m.turn.id].delay, m.turn.deadline - 1)
BotIsDue(m, until) ==
    m.turn.status = "active" /\ "bot" \notin m.turn.answered /\ DueAt(m) <= until

\* The next thing that happened until then: the bot's answer, a deadline, or a reveal's end.
NextTransition(m, until) ==
    CASE Going(m) /\ BotIsDue(m, until) ->
            Submit(Tick(m, DueAt(m)), "bot", m.turn.id, m.plan[m.turn.id].right, DueAt(m))
      [] Going(m) /\ ~BotIsDue(m, until)
            /\ m.turn.status = "active" /\ until >= m.turn.deadline ->
            Tick(m, m.turn.deadline)
      [] Going(m) /\ m.turn.status = "resolved" /\ until >= m.turn.revealUntil ->
            Tick(m, m.turn.revealUntil)
      [] OTHER -> m

\* Mutant: the match is first brought up to date, then the bot answers.
TickFirst(m, until) == NextTransition(Tick(m, until), until)

\* The last iteration can only find that nothing is due, or else the call fails.
AdvanceBots(m, until) ==
    LET run[transitions \in Nat] == [n \in MatchType |->
            LET next == NextTransition(n, until)
            IN  IF transitions = 0 \/ next = n THEN n ELSE run[transitions - 1][next]]
    IN  run[MaxTransitions - 1][m]
Ends(m, until) ==
    LET after == AdvanceBots(m, until) IN NextTransition(after, until) = after

-----------------------------------------------------------------------------
(* The service's calls; each is applied to the prompt match as well *)

\* AddTieBreakQuestions; the bank has at most MaxPool.
Replenish(m, questions) == ScheduleTieBreak([m EXCEPT !.pool = @ + questions], now)
Supply(m) == 1 .. Least(PoolSize, MaxPool - m.pool)

CaughtUp(m) == AdvanceBots(m, now)
Save(stored, always) == match' = stored /\ prompt' = always /\ UNCHANGED now

Snapshot ==
    LET caught == CaughtUp(match)
    IN  /\ Playing(match)
        /\ Ends(match, now)
        /\ \/ /\ ~caught.awaiting
              /\ Save(caught, CaughtUp(prompt))
           \/ /\ caught.awaiting
              /\ \E n \in Supply(caught) :
                    /\ Ends(Replenish(caught, n), now)
                    /\ Save(CaughtUp(Replenish(caught, n)),
                            CaughtUp(Replenish(CaughtUp(prompt), n)))

Answered(m, turnId, right) == Submit(Tick(m, now), "human", turnId, right, now)

\* Mutant: only Tick, within submitAnswer, brings the match up to date.
AnswerTicksOnly(turnId, right) ==
    /\ Playing(match)
    /\ ~CaughtUp(match).awaiting
    /\ Save(Answered(match, turnId, right), Answered(CaughtUp(prompt), turnId, right))

\* A freshly supplied question is not answered by a command sent before.
Answer(turnId, right) ==
    LET caught == CaughtUp(match)
    IN  /\ Playing(match)
        /\ Ends(match, now)
        /\ \/ /\ ~caught.awaiting
              /\ Save(Answered(caught, turnId, right),
                      Answered(CaughtUp(prompt), turnId, right))
           \/ /\ caught.awaiting
              /\ \E n \in Supply(caught) :
                    Save(Replenish(caught, n), Replenish(CaughtUp(prompt), n))

\* Judges the aggregate as it was stored, without advancing it.
ForfeitOf(m) == IF Playing(m) THEN [m EXCEPT !.status = "forfeited", !.awaiting = FALSE] ELSE m
Forfeit ==
    /\ Playing(match)
    /\ Save(ForfeitOf(match), ForfeitOf(prompt))

AdvanceClock ==
    /\ Playing(match)
    /\ now < MaxTime
    /\ now' = now + 1
    /\ prompt' = AdvanceBots(prompt, now + 1)
    /\ UNCHANGED match

\* The player names a turn the page has shown, or could show now.
Next ==
    \/ Snapshot
    \/ \E turnId \in {match.turn.id, prompt.turn.id}, right \in BOOLEAN : Answer(turnId, right)
    \/ Forfeit
    \/ AdvanceClock

Spec == Init /\ [][Next]_vars

-----------------------------------------------------------------------------
(* Properties *)

\* "disconnecting or delaying a refresh cannot erase an answer that was due before the
\* deadline" (docs/game-rules.md): whenever the player looks, the match is the one it
\* would be had it been advanced all the time, in answers, points and times.  Only that
\* it waits for questions until he looks, and is forfeited as it was last stored, is left
\* to when he does.
PollingInvisible == match.status # "forfeited" => AdvanceBots(match, now) = prompt

\* Catching up never runs into its limit, which would fail every call from then on.
CatchUpEnds == Ends(match, now)

\* The bot answers every turn, even when everything is replayed at once; prompt shows
\* every turn there is for an instant at least, the stored match those it was saved in.
BotAnswersEveryTurn ==
    \A m \in {match, prompt} : m.turn.status = "resolved" => "bot" \in m.turn.answered
=============================================================================
