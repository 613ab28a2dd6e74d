--------------------------- MODULE BotMatchProofs ---------------------------
(***************************************************************************)
(* Proofs about BotMatch, for every number of turns, length of a turn and  *)
(* plan of the bot.                                                        *)
(*                                                                         *)
(* The loops of Tick and AdvanceBots are recursive functions: first it is  *)
(* shown that their recursion has a solution, and what it says pass by     *)
(* pass.  A match that is going has one next transition (After), at one    *)
(* instant (When), and every transition lowers its Rank, which is always   *)
(* less than the loop's limit; so AdvanceBots applies After until nothing  *)
(* is due (AdvanceUnfolds), and from then on everything is an induction on *)
(* the rank: catching up ends (CatchUpSettles), and doing so in two parts  *)
(* is doing so at once (CatchUpComposes).  The inductive invariant follows *)
(* from these, call by call.                                               *)
(***************************************************************************)
EXTENDS BotMatch, WellFoundedInduction, TLAPS

-----------------------------------------------------------------------------
(* Loops *)

\* Instead of an induction principle the proofs take a least number for which a claim
\* would fail.
LEMMA LeastNumber ==
    ASSUME NEW I, I \subseteq Nat, I # {}
    PROVE  \E x \in I : \A y \in I : x <= y
<1>1. IsWellFoundedOn(OpToRel(<, Nat), Nat)
  BY NatLessThanWellFounded
<1>2. \A x, y \in Nat : <<y, x>> \in OpToRel(<, Nat) <=> y < x
  BY Zenon DEF OpToRel
<1>3. PICK x \in I : \A y \in I : ~(<<y, x>> \in OpToRel(<, Nat))
  BY <1>1, WFMin
<1>4. \A y \in I : ~(y < x)
  BY <1>2, <1>3
<1>5. \A m, n \in Nat : ~(m < n) => n <= m
  OBVIOUS
<1> QED BY <1>4, <1>5

\* What at most k passes of a loop make of each element of M, when a pass takes n to N[n]
\* and the loop stops at an element that stays; f says what fewer passes make of it.
Passes(M, N, f, k) == [n \in M |-> IF k = 0 \/ N[n] = n THEN n ELSE f[k - 1][N[n]]]
IsLoop(M, N, f, D) == \A k \in D : f[k] = Passes(M, N, f, k)
Solves(f, M, N) == f = [k \in Nat |-> Passes(M, N, f, k)]

LEMMA PassesAgree ==
    ASSUME NEW M, NEW N, NEW f, NEW g, NEW k \in Nat, k # 0 => f[k - 1] = g[k - 1]
    PROVE  Passes(M, N, f, k) = Passes(M, N, g, k)
<1>1. CASE k = 0
  BY <1>1 DEF Passes
<1>2. CASE k # 0
  BY <1>2 DEF Passes
<1> QED BY <1>1, <1>2

\* Functions that describe the same loop agree.
LEMMA LoopsAgree ==
    ASSUME NEW M, NEW N, NEW f, NEW g, NEW a \in Nat,
           IsLoop(M, N, f, 0 .. a), IsLoop(M, N, g, 0 .. a)
    PROVE  \A k \in 0 .. a : f[k] = g[k]
<1> DEFINE I == {k \in 0 .. a : f[k] # g[k]}
<1> SUFFICES ASSUME I # {} PROVE FALSE
  BY DEF I
<1>1. PICK k \in I : \A j \in I : k <= j
  <2>1. I \subseteq Nat
    OBVIOUS
  <2> HIDE DEF I
  <2> QED BY <2>1, LeastNumber
<1>2. k \in Nat /\ k \in 0 .. a
  OBVIOUS
<1>3. k # 0 => f[k - 1] = g[k - 1]
  <2> SUFFICES ASSUME k # 0 PROVE k - 1 \notin I
    BY <1>2
  <2>1. ~(k <= k - 1)
    BY <1>2
  <2> HIDE DEF I
  <2> QED BY <1>1, <2>1
<1>4. Passes(M, N, f, k) = Passes(M, N, g, k)
  BY <1>2, <1>3, PassesAgree
<1> QED BY <1>2, <1>4 DEF IsLoop

\* There is one for every number of passes,
LEMMA LoopUpTo ==
    ASSUME NEW M, NEW N, NEW a \in Nat
    PROVE  \E f : IsLoop(M, N, f, 0 .. a)
<1> DEFINE I == {b \in Nat : ~ \E f : IsLoop(M, N, f, 0 .. b)}
<1> SUFFICES ASSUME I # {} PROVE FALSE
  BY DEF I
<1>1. PICK b \in I : \A j \in I : b <= j
  <2>1. I \subseteq Nat
    OBVIOUS
  <2> HIDE DEF I
  <2> QED BY <2>1, LeastNumber
<1>2. b \in Nat /\ ~ \E f : IsLoop(M, N, f, 0 .. b)
  OBVIOUS
<1>3. \E f : \A k \in 0 .. b - 1 : f[k] = Passes(M, N, f, k)
  <2>1. CASE b = 0
    BY <2>1
  <2>2. CASE b # 0
    <3>1. b - 1 \in Nat /\ ~(b <= b - 1)
      BY <1>2, <2>2
    <3>2. b - 1 \notin I
      <4> HIDE DEF I
      <4> QED BY <1>1, <3>1
    <3> QED BY <3>1, <3>2 DEF IsLoop
  <2> QED BY <2>1, <2>2
<1>4. PICK f : \A k \in 0 .. b - 1 : f[k] = Passes(M, N, f, k)
  BY <1>3
<1> DEFINE g == [k \in 0 .. b |-> Passes(M, N, f, k)]
<1>5. ASSUME NEW k \in 0 .. b PROVE g[k] = Passes(M, N, g, k)
  <2>1. k \in Nat /\ (k # 0 => k - 1 \in 0 .. b - 1 /\ k - 1 \in 0 .. b)
    BY <1>2
  <2>2. k # 0 => g[k - 1] = f[k - 1]
    BY <1>4, <2>1
  <2>3. g[k] = Passes(M, N, f, k)
    OBVIOUS
  <2> HIDE DEF g
  <2> QED BY <2>1, <2>2, <2>3, PassesAgree
<1>6. IsLoop(M, N, g, 0 .. b)
  <2> HIDE DEF g
  <2> QED BY <1>5 DEF IsLoop
<1> QED BY <1>2, <1>6

\* and hence one for all of them: the loop's recursion has a solution.
LEMMA LoopExists ==
    ASSUME NEW M, NEW N
    PROVE  \E f : Solves(f, M, N)
<1> DEFINE some(a) == CHOOSE f : IsLoop(M, N, f, 0 .. a)
<1>1. \A a \in Nat : IsLoop(M, N, some(a), 0 .. a)
  BY LoopUpTo, Zenon
<1> HIDE DEF some
<1> DEFINE f == [k \in Nat |-> some(k)[k]]
<1>2. ASSUME NEW k \in Nat PROVE f[k] = Passes(M, N, f, k)
  <2>1. f[k] = Passes(M, N, some(k), k)
    <3>1. k \in 0 .. k
      OBVIOUS
    <3> QED BY <1>1, <3>1 DEF IsLoop
  <2>2. k # 0 => some(k)[k - 1] = f[k - 1]
    <3> SUFFICES ASSUME k # 0 PROVE some(k)[k - 1] = some(k - 1)[k - 1]
      OBVIOUS
    <3> DEFINE j == k - 1
    <3>1. j \in Nat /\ j \in 0 .. j /\ 0 .. j \subseteq 0 .. k
      OBVIOUS
    <3> HIDE DEF j
    <3>2. IsLoop(M, N, some(k), 0 .. j) /\ IsLoop(M, N, some(j), 0 .. j)
      BY <1>1, <3>1 DEF IsLoop
    <3>3. some(k)[j] = some(j)[j]
      BY <3>1, <3>2, LoopsAgree
    <3> QED BY <3>3 DEF j
  <2> HIDE DEF f
  <2> QED BY <2>1, <2>2, PassesAgree
<1>3. f = [k \in Nat |-> Passes(M, N, f, k)]
  <2> DEFINE e == [k \in Nat |-> Passes(M, N, f, k)]
  <2>1. \A k \in Nat : f[k] = e[k]
    BY <1>2
  <2>2. f = e
    BY <2>1
  <2> QED BY <2>2
<1> QED BY <1>3, Zenon DEF Solves

\* What the solution says of an element, pass by pass.
LEMMA LoopUnfolds ==
    ASSUME NEW M, NEW N, NEW f, Solves(f, M, N), NEW m \in M
    PROVE  /\ f[0][m] = m
           /\ \A k \in Nat : f[k + 1][m] = IF N[m] = m THEN m ELSE f[k][N[m]]
<1>1. \A k \in Nat : f[k] = Passes(M, N, f, k)
  BY DEF Solves
<1>2. f[0][m] = m
  <2>1. f[0] = Passes(M, N, f, 0)
    BY <1>1
  <2> QED BY <2>1 DEF Passes
<1>3. ASSUME NEW k \in Nat PROVE f[k + 1][m] = IF N[m] = m THEN m ELSE f[k][N[m]]
  <2>1. f[k + 1] = Passes(M, N, f, k + 1)
    BY <1>1
  <2>2. k + 1 # 0 /\ (k + 1) - 1 = k
    OBVIOUS
  <2> QED BY <2>1, <2>2 DEF Passes
<1> QED BY <1>2, <1>3

\* The loop of Tick,
IsTickLoop(at, run) ==
    run = [iterations \in Nat |-> [n \in MatchType |->
              IF iterations = 0 \/ TickOnce(n, at) = n
                THEN n ELSE run[iterations - 1][TickOnce(n, at)]]]

LEMMA TickLoop ==
    ASSUME NEW at
    PROVE  \E run :
              /\ \A m : Tick(m, at) = run[2 * (MainTurns + MaxPool)][m]
              /\ \A m \in MatchType :
                    /\ run[0][m] = m
                    /\ \A k \in Nat :
                          run[k + 1][m] = IF TickOnce(m, at) = m
                                            THEN m ELSE run[k][TickOnce(m, at)]
<1> DEFINE N == [n \in MatchType |-> TickOnce(n, at)]
           run == CHOOSE run : IsTickLoop(at, run)
<1>1. \A m : Tick(m, at) = run[2 * (MainTurns + MaxPool)][m]
  BY Zenon DEF Tick, IsTickLoop
<1>2. \A n \in MatchType : N[n] = TickOnce(n, at)
  OBVIOUS
<1>3. ASSUME NEW f
      PROVE  IsTickLoop(at, f) <=> Solves(f, MatchType, N)
  <2>1. ASSUME NEW k
        PROVE  Passes(MatchType, N, f, k) = [n \in MatchType |->
                  IF k = 0 \/ TickOnce(n, at) = n THEN n ELSE f[k - 1][TickOnce(n, at)]]
    <3> HIDE DEF N
    <3> QED BY <1>2 DEF Passes
  <2> HIDE DEF N
  <2> QED BY <2>1 DEF IsTickLoop, Solves
<1>4. \E f : IsTickLoop(at, f)
  BY <1>3, LoopExists, Zenon
<1>5. IsTickLoop(at, run)
  BY <1>4, Zenon
<1> HIDE DEF run, N
<1>6. Solves(run, MatchType, N)
  BY <1>3, <1>5
<1>7. ASSUME NEW m \in MatchType
      PROVE  /\ run[0][m] = m
             /\ \A k \in Nat : run[k + 1][m] = IF TickOnce(m, at) = m
                                                 THEN m ELSE run[k][TickOnce(m, at)]
  <2>1. /\ run[0][m] = m
        /\ \A k \in Nat : run[k + 1][m] = IF N[m] = m THEN m ELSE run[k][N[m]]
    BY <1>6, LoopUnfolds
  <2> QED BY <1>2, <2>1
<1> QED BY <1>1, <1>7

\* and that of AdvanceBots.
IsAdvanceLoop(until, run) ==
    run = [transitions \in Nat |-> [n \in MatchType |->
              IF transitions = 0 \/ NextTransition(n, until) = n
                THEN n ELSE run[transitions - 1][NextTransition(n, until)]]]

LEMMA AdvanceLoop ==
    ASSUME NEW until
    PROVE  \E run :
              /\ \A m : AdvanceBots(m, until) = run[MaxTransitions - 1][m]
              /\ \A m \in MatchType :
                    /\ run[0][m] = m
                    /\ \A k \in Nat :
                          run[k + 1][m] = IF NextTransition(m, until) = m
                                            THEN m ELSE run[k][NextTransition(m, until)]
<1> DEFINE N == [n \in MatchType |-> NextTransition(n, until)]
           run == CHOOSE run : IsAdvanceLoop(until, run)
<1>1. \A m : AdvanceBots(m, until) = run[MaxTransitions - 1][m]
  BY Zenon DEF AdvanceBots, IsAdvanceLoop
<1>2. \A n \in MatchType : N[n] = NextTransition(n, until)
  OBVIOUS
<1>3. ASSUME NEW f
      PROVE  IsAdvanceLoop(until, f) <=> Solves(f, MatchType, N)
  <2>1. ASSUME NEW k
        PROVE  Passes(MatchType, N, f, k) = [n \in MatchType |->
                  IF k = 0 \/ NextTransition(n, until) = n
                    THEN n ELSE f[k - 1][NextTransition(n, until)]]
    <3> HIDE DEF N
    <3> QED BY <1>2 DEF Passes
  <2> HIDE DEF N
  <2> QED BY <2>1 DEF IsAdvanceLoop, Solves
<1>4. \E f : IsAdvanceLoop(until, f)
  BY <1>3, LoopExists, Zenon
<1>5. IsAdvanceLoop(until, run)
  BY <1>4, Zenon
<1> HIDE DEF run, N
<1>6. Solves(run, MatchType, N)
  BY <1>3, <1>5
<1>7. ASSUME NEW m \in MatchType
      PROVE  /\ run[0][m] = m
             /\ \A k \in Nat : run[k + 1][m] = IF NextTransition(m, until) = m
                                                 THEN m ELSE run[k][NextTransition(m, until)]
  <2>1. /\ run[0][m] = m
        /\ \A k \in Nat : run[k + 1][m] = IF N[m] = m THEN m ELSE run[k][N[m]]
    BY <1>6, LoopUnfolds
  <2> QED BY <1>2, <2>1
<1> QED BY <1>1, <1>7

\* Tick leaves a match alone in which nothing is due,
LEMMA TickStays ==
    ASSUME NEW m \in MatchType, NEW at, TickOnce(m, at) = m PROVE Tick(m, at) = m
<1> DEFINE last == 2 * (MainTurns + MaxPool)
<1>1. last \in Nat /\ last - 1 \in Nat /\ (last - 1) + 1 = last
  BY BotAssumption
<1> HIDE DEF last
<1>2. PICK run : /\ Tick(m, at) = run[last][m]
                 /\ \A k \in Nat :
                       run[k + 1][m] = IF TickOnce(m, at) = m
                                         THEN m ELSE run[k][TickOnce(m, at)]
  BY TickLoop DEF last
<1>3. run[(last - 1) + 1][m] = m
  BY <1>1, <1>2
<1> QED BY <1>1, <1>2, <1>3

\* and does what one pass does when nothing is due after it.
LEMMA TickIsOnePass ==
    ASSUME NEW m \in MatchType, NEW at, NEW n \in MatchType,
           TickOnce(m, at) = n, TickOnce(n, at) = n
    PROVE  Tick(m, at) = n
<1> DEFINE last == 2 * (MainTurns + MaxPool)
<1>1. last - 2 \in Nat /\ ((last - 2) + 1) + 1 = last /\ (last - 2) + 1 \in Nat
  BY BotAssumption
<1> HIDE DEF last
<1>2. PICK run : /\ \A x : Tick(x, at) = run[last][x]
                 /\ \A x \in MatchType : \A k \in Nat :
                       run[k + 1][x] = IF TickOnce(x, at) = x
                                         THEN x ELSE run[k][TickOnce(x, at)]
  BY TickLoop DEF last
<1>3. run[(last - 2) + 1][n] = n
  BY <1>1, <1>2
<1>4. run[((last - 2) + 1) + 1][m] = n
  <2>1. run[((last - 2) + 1) + 1][m] =
            IF TickOnce(m, at) = m THEN m ELSE run[(last - 2) + 1][TickOnce(m, at)]
    BY <1>1, <1>2
  <2> QED BY <1>3, <2>1
<1> QED BY <1>1, <1>2, <1>4

-----------------------------------------------------------------------------
(* A match between two transitions *)

\* What holds of the numbers and times of a match beside their types.
Good(m) ==
    /\ m.turn.status = "active" =>
          /\ m.turn.deadline = m.turn.startedAt + TurnDuration
          /\ m.turn.answered # Actor
    /\ m.turn.status = "resolved" => "bot" \in m.turn.answered
    /\ m.next <= m.pool
    /\ m.pool - m.next <= PoolSize
    /\ m.status = "active" => m.next = 0 /\ m.turn.id <= MainTurns
    /\ m.status = "tie_break" => m.turn.id = MainTurns + m.next
    /\ m.awaiting => /\ m.status = "tie_break" /\ m.next = m.pool
                     /\ m.turn.status = "resolved"
Matches == {m \in MatchType : Good(m)}
Turns == [id : AllTurns, status : {"active", "resolved"}, answered : SUBSET Actor,
          startedAt : Nat, deadline : Nat, revealUntil : Nat]

\* When a match that is going has its next transition,
When(m) == IF m.turn.status = "resolved" THEN m.turn.revealUntil
           ELSE IF "bot" \in m.turn.answered THEN m.turn.deadline ELSE DueAt(m)

\* and what that makes of it.
BotAnswers(m) == Submit(m, "bot", m.turn.id, m.plan[m.turn.id].right, DueAt(m))
NextTurn(m) == IF m.turn.id < MainTurns
                 THEN [m EXCEPT !.turn = NewTurn(@.id + 1, @.revealUntil)]
                 ELSE FinishStage(m, m.turn.revealUntil)
After(m) == IF m.turn.status = "resolved" THEN NextTurn(m)
            ELSE IF "bot" \in m.turn.answered THEN Resolve(m, m.turn.deadline) ELSE BotAnswers(m)

LEMMA PointsType ==
    ASSUME NEW r \in Nat PROVE Points(r) \in Nat
<1>1. (50 * r) \in Nat
  OBVIOUS
<1>2. (50 * r) \div TurnDuration \in Nat
  BY <1>1, BotAssumption
<1> QED BY <1>2 DEF Points

\* The bot answers within its turn.
LEMMA DueInTime ==
    ASSUME NEW m \in Matches, m.turn.status = "active"
    PROVE  /\ DueAt(m) \in m.turn.startedAt .. m.turn.deadline - 1
           /\ DueAt(m) \in Nat
           /\ m.turn.startedAt < DueAt(m)
<1>1. /\ m.turn.startedAt \in Nat /\ m.turn.id \in AllTurns
      /\ m.turn.deadline = m.turn.startedAt + TurnDuration
      /\ m.plan \in Plans
  BY DEF Matches, Good, MatchType
<1>2. m.plan[m.turn.id].delay \in Delay
  BY <1>1 DEF Plans
<1> DEFINE d == m.plan[m.turn.id].delay
           s == m.turn.startedAt
<1>3. d \in Nat \ {0} /\ TurnDuration \in Nat \ {0, 1}
  BY <1>2, BotAssumption
<1>4. DueAt(m) = Least(s + d, m.turn.deadline - 1)
  BY DEF DueAt
<1>5. s \in Nat /\ m.turn.deadline = s + TurnDuration
  BY <1>1
<1> HIDE DEF d, s
<1>6. DueAt(m) \in s .. s + TurnDuration - 1 /\ s < DueAt(m)
  BY <1>3, <1>4, <1>5 DEF Least
<1> QED BY <1>3, <1>5, <1>6 DEF s

\* An answer to an open turn.
LEMMA SubmitOpen ==
    ASSUME NEW m \in Matches, Going(m), m.turn.status = "active",
           NEW p \in Actor, p \notin m.turn.answered, NEW right \in BOOLEAN,
           NEW at \in m.turn.startedAt .. m.turn.deadline - 1
    PROVE  LET x == Submit(m, p, m.turn.id, right, at)
           IN  /\ x \in Matches
               /\ x.status = m.status /\ x.awaiting = m.awaiting
               /\ x.pool = m.pool /\ x.next = m.next /\ x.turn.id = m.turn.id
               /\ x.plan = m.plan
               /\ \/ /\ x.turn.status = "active"
                     /\ x.turn.answered = m.turn.answered \cup {p}
                     /\ x.turn.startedAt = m.turn.startedAt
                     /\ x.turn.deadline = m.turn.deadline
                  \/ /\ x.turn.status = "resolved"
                     /\ x.turn.revealUntil = at + RevealDuration
<1> DEFINE points == IF right THEN Points(m.turn.deadline - at) ELSE 0
           a == [m EXCEPT !.score[p] = @ + points, !.turn.answered = @ \cup {p}]
           x == Submit(m, p, m.turn.id, right, at)
<1>1. m \in MatchType /\ m.turn \in Turns /\ Good(m)
  BY DEF Matches, MatchType, Turns
<1>2. points \in Nat
  <2>1. m.turn.deadline - at \in Nat
    BY <1>1 DEF Turns
  <2> HIDE DEF points
  <2> QED BY <2>1, PointsType DEF points
<1>3. x = IF a.turn.answered = Actor THEN Resolve(a, at) ELSE a
  BY DEF Submit, Going
<1> HIDE DEF points, x
<1>4. a.turn \in Turns
  BY <1>1 DEF Turns, MatchType
<1>5. a.score \in [Actor -> Nat]
  BY <1>1, <1>2 DEF MatchType
<1>6. /\ a.status = m.status /\ a.awaiting = m.awaiting
      /\ a.pool = m.pool /\ a.next = m.next
      /\ a.plan = m.plan
      /\ a.turn = [m.turn EXCEPT !.answered = @ \cup {p}]
  BY <1>1 DEF MatchType
<1>7. a \in MatchType
  BY <1>1, <1>4, <1>5 DEF MatchType, Turns
<1> HIDE DEF a
<1>8. /\ a.turn.id = m.turn.id /\ a.turn.status = "active"
      /\ a.turn.answered = m.turn.answered \cup {p}
      /\ a.turn.startedAt = m.turn.startedAt
      /\ a.turn.deadline = m.turn.deadline
  BY <1>1, <1>6 DEF Turns
<1>9. CASE a.turn.answered = Actor
  <2>1. x = [a EXCEPT !.turn.status = "resolved", !.turn.revealUntil = at + RevealDuration]
    BY <1>3, <1>9 DEF Resolve
  <2> HIDE DEF x
  <2>2. at + RevealDuration \in Nat
    BY <1>1, BotAssumption DEF Turns
  <2>3. /\ x \in MatchType
        /\ x.status = a.status /\ x.awaiting = a.awaiting
        /\ x.pool = a.pool /\ x.next = a.next /\ x.plan = a.plan
        /\ x.turn.id = a.turn.id /\ x.turn.answered = a.turn.answered
        /\ x.turn.status = "resolved" /\ x.turn.revealUntil = at + RevealDuration
    BY <1>7, <2>1, <2>2 DEF MatchType
  <2>4. Good(x)
    BY <1>1, <1>6, <1>8, <1>9, <2>3 DEF Good, Actor
  <2> QED BY <1>6, <1>8, <2>3, <2>4 DEF Matches, x
<1>10. CASE a.turn.answered # Actor
  <2>1. x = a
    BY <1>3, <1>10
  <2>2. Good(a)
    BY <1>1, <1>6, <1>8, <1>10 DEF Good
  <2> QED BY <1>6, <1>7, <1>8, <2>1, <2>2 DEF Matches, x
<1> QED BY <1>9, <1>10

LEMMA NewTurnType ==
    ASSUME NEW id \in AllTurns, NEW at \in Nat
    PROVE  /\ NewTurn(id, at) \in Turns
           /\ NewTurn(id, at).id = id /\ NewTurn(id, at).status = "active"
           /\ NewTurn(id, at).answered = {} /\ NewTurn(id, at).startedAt = at
           /\ NewTurn(id, at).deadline = at + TurnDuration
BY BotAssumption DEF NewTurn, Turns

\* A stage of the tie-break begins, or the match waits for a question.
LEMMA Schedule ==
    ASSUME NEW m \in MatchType, NEW at \in Nat,
           m.turn.status = "resolved", "bot" \in m.turn.answered,
           m.next <= m.pool, m.pool - m.next <= PoolSize, m.turn.id = MainTurns + m.next
    PROVE  LET x == ScheduleTieBreak(m, at)
           IN  /\ x \in Matches
               /\ x.status = "tie_break" /\ x.pool = m.pool
               /\ IF m.next = m.pool THEN x.awaiting
                  ELSE ~x.awaiting /\ x.turn = NewTurn(m.turn.id + 1, at)
<1> DEFINE x == ScheduleTieBreak(m, at)
<1>1. /\ m.turn \in Turns /\ m.next \in Nat /\ m.pool \in Nat /\ m.pool <= MaxPool
      /\ MainTurns \in Nat /\ MaxPool \in Nat /\ PoolSize \in Nat
  BY BotAssumption DEF MatchType, Turns
<1>2. CASE m.next = m.pool
  <2>1. x = [m EXCEPT !.status = "tie_break", !.awaiting = TRUE]
    BY <1>1, <1>2 DEF ScheduleTieBreak
  <2> HIDE DEF x
  <2>2. /\ x \in MatchType /\ x.status = "tie_break" /\ x.awaiting
        /\ x.pool = m.pool /\ x.next = m.next /\ x.turn = m.turn
    BY <2>1 DEF MatchType
  <2>3. Good(x)
    BY <1>2, <2>2 DEF Good
  <2> QED BY <1>2, <2>2, <2>3 DEF Matches, x
<1>3. CASE m.next # m.pool
  <2> DEFINE t == NewTurn(m.turn.id + 1, at)
  <2>1. m.next + 1 \in 0 .. MaxPool /\ m.turn.id + 1 \in AllTurns /\ ~(m.next >= m.pool)
    BY <1>1, <1>3 DEF AllTurns
  <2>2. x = [m EXCEPT !.status = "tie_break", !.awaiting = FALSE, !.next = @ + 1, !.turn = t]
    BY <2>1 DEF ScheduleTieBreak
  <2>3. /\ t \in Turns /\ t.id = m.turn.id + 1 /\ t.status = "active"
        /\ t.answered = {} /\ t.startedAt = at /\ t.deadline = at + TurnDuration
    BY <2>1, NewTurnType
  <2> HIDE DEF x, t
  <2>4. /\ x \in MatchType /\ x.status = "tie_break" /\ ~x.awaiting
        /\ x.pool = m.pool /\ x.next = m.next + 1 /\ x.turn = t
    BY <2>1, <2>2, <2>3 DEF MatchType, Turns
  <2>5. /\ x.turn.deadline = x.turn.startedAt + TurnDuration
        /\ x.turn.status = "active" /\ x.turn.answered # Actor
    BY <2>3, <2>4 DEF Actor
  <2>6. /\ x.next <= x.pool /\ x.pool - x.next <= PoolSize
        /\ x.turn.id = MainTurns + x.next
    BY <1>1, <1>3, <2>3, <2>4
  <2>7. Good(x)
    BY <2>4, <2>5, <2>6 DEF Good
  <2> QED BY <1>3, <2>4, <2>7 DEF Matches, x, t
<1> QED BY <1>2, <1>3

\* How many transitions may still follow.
Rank(m) ==
    IF ~Going(m) THEN 0
    ELSE 3 * (MainTurns + m.pool - m.turn.id)
         + (IF m.turn.status = "resolved" THEN 1
            ELSE IF "bot" \in m.turn.answered THEN 2 ELSE 3)

LEMMA RankType ==
    ASSUME NEW m \in Matches
    PROVE  /\ Rank(m) \in Nat
           /\ Rank(m) < MaxTransitions
           /\ Going(m) => Rank(m) # 0
<1>1. /\ MainTurns \in Nat \ {0} /\ PoolSize \in Nat /\ MaxTransitions \in Nat
      /\ 3 * (MainTurns + PoolSize) < MaxTransitions
  BY BotAssumption
<1>2. /\ m.turn.id \in Nat \ {0} /\ m.pool \in Nat /\ m.next \in Nat
      /\ m.status \in {"active", "tie_break", "completed", "forfeited"}
  BY <1>1 DEF Matches, MatchType, AllTurns
<1>3. CASE ~Going(m)
  BY <1>1, <1>3 DEF Rank
<1>4. CASE Going(m)
  <2> DEFINE left == MainTurns + m.pool - m.turn.id
  <2>1. left \in Nat /\ left + 1 <= MainTurns + PoolSize
    BY <1>1, <1>2, <1>4 DEF Matches, Good, Going, Playing
  <2> HIDE DEF left
  <2>2. Rank(m) \in 3 * left + 1 .. 3 * left + 3
    BY <1>4, <2>1 DEF Rank, left
  <2> QED BY <1>1, <2>1, <2>2
<1> QED BY <1>3, <1>4

-----------------------------------------------------------------------------
(* The transitions *)

\* The bot answers,
LEMMA AfterBotAnswer ==
    ASSUME NEW m \in Matches, Going(m), m.turn.status = "active", "bot" \notin m.turn.answered
    PROVE  BotAnswers(m) \in Matches /\ Rank(BotAnswers(m)) < Rank(m)
<1> DEFINE right == m.plan[m.turn.id].right
           x == BotAnswers(m)
<1>1. right \in BOOLEAN
  BY DEF Matches, MatchType, Plans
<1>2. DueAt(m) \in m.turn.startedAt .. m.turn.deadline - 1
  BY DueInTime
<1>3. "bot" \in Actor
  BY DEF Actor
<1> DEFINE at == DueAt(m)
<1>4. x = Submit(m, "bot", m.turn.id, right, at)
  BY DEF BotAnswers
<1> HIDE DEF right, at, x
<1>5. /\ x \in Matches
      /\ x.status = m.status /\ x.awaiting = m.awaiting
      /\ x.pool = m.pool /\ x.turn.id = m.turn.id
      /\ \/ /\ x.turn.status = "active"
            /\ x.turn.answered = m.turn.answered \cup {"bot"}
         \/ x.turn.status = "resolved"
  <2>1. at \in m.turn.startedAt .. m.turn.deadline - 1
    BY <1>2 DEF at
  <2> QED BY <1>1, <1>3, <1>4, <2>1, SubmitOpen
<1>6. Going(x)
  BY <1>5 DEF Going, Playing
<1> DEFINE left == 3 * (MainTurns + m.pool - m.turn.id)
<1>7. left \in Int
  BY BotAssumption DEF Matches, MatchType, AllTurns
<1>8. Rank(m) = left + 3
  BY DEF Rank
<1>9. Rank(x) = left + 2 \/ Rank(x) = left + 1
  BY <1>5, <1>6 DEF Rank
<1> HIDE DEF left
<1> QED BY <1>5, <1>7, <1>8, <1>9 DEF x

\* a deadline passes,
LEMMA AfterDeadline ==
    ASSUME NEW m \in Matches, Going(m), m.turn.status = "active", "bot" \in m.turn.answered
    PROVE  LET x == Resolve(m, m.turn.deadline)
           IN  /\ x \in Matches /\ Rank(x) < Rank(m)
               /\ x.turn.status = "resolved"
               /\ x.turn.revealUntil = m.turn.deadline + RevealDuration
<1> DEFINE x == Resolve(m, m.turn.deadline)
<1>1. x = [m EXCEPT !.turn.status = "resolved",
                    !.turn.revealUntil = m.turn.deadline + RevealDuration]
  BY DEF Resolve
<1> HIDE DEF x
<1>2. m \in MatchType /\ Good(m) /\ m.turn.deadline + RevealDuration \in Nat
  BY BotAssumption DEF Matches, MatchType
<1>3. /\ x \in MatchType
      /\ x.status = m.status /\ x.awaiting = m.awaiting
      /\ x.pool = m.pool /\ x.next = m.next
      /\ x.turn.id = m.turn.id /\ x.turn.answered = m.turn.answered
      /\ x.turn.status = "resolved" /\ x.turn.revealUntil = m.turn.deadline + RevealDuration
  BY <1>1, <1>2 DEF MatchType
<1>4. Good(x)
  BY <1>2, <1>3 DEF Good, Going
<1>5. Going(x)
  BY <1>3 DEF Going, Playing
<1> DEFINE left == 3 * (MainTurns + m.pool - m.turn.id)
<1>6. left \in Int
  BY BotAssumption DEF Matches, MatchType, AllTurns
<1>7. Rank(m) = left + 2 /\ Rank(x) = left + 1
  BY <1>3, <1>5 DEF Rank
<1> HIDE DEF left
<1> QED BY <1>3, <1>4, <1>6, <1>7 DEF Matches, x

\* or a reveal ends.
LEMMA AfterReveal ==
    ASSUME NEW m \in Matches, Going(m), m.turn.status = "resolved"
    PROVE  LET x == NextTurn(m)
           IN  /\ x \in Matches /\ Rank(x) < Rank(m)
               /\ Going(x) => /\ x.turn.status = "active"
                              /\ x.turn.deadline = m.turn.revealUntil + TurnDuration
<1> DEFINE x == NextTurn(m)
           at == m.turn.revealUntil
           left == MainTurns + m.pool - m.turn.id
<1>1. /\ m \in MatchType /\ Good(m) /\ "bot" \in m.turn.answered
      /\ m.turn.id \in AllTurns /\ m.turn.id \in Nat
      /\ at \in Nat /\ m.pool \in Nat /\ m.next \in Nat
      /\ MainTurns \in Nat /\ left \in Int
  BY BotAssumption DEF Matches, Good, MatchType, AllTurns
<1>2. Rank(m) = 3 * left + 1
  BY DEF Rank
<1>3. Rank(m) \in Nat /\ Rank(m) # 0
  BY RankType
<1>4. CASE m.turn.id < MainTurns
  <2> DEFINE t == NewTurn(m.turn.id + 1, at)
  <2>1. m.turn.id + 1 \in AllTurns /\ m.turn.id + 1 <= MainTurns
    BY <1>1, <1>4, BotAssumption DEF AllTurns
  <2>2. /\ t \in Turns /\ t.id = m.turn.id + 1 /\ t.status = "active"
        /\ t.answered = {} /\ t.startedAt = at /\ t.deadline = at + TurnDuration
    BY <1>1, <2>1, NewTurnType
  <2>3. x = [m EXCEPT !.turn = t]
    BY <1>4 DEF NextTurn
  <2> HIDE DEF t, x
  <2>4. /\ x \in MatchType /\ x.turn = t
        /\ x.status = m.status /\ x.awaiting = m.awaiting
        /\ x.pool = m.pool /\ x.next = m.next
    BY <1>1, <2>2, <2>3 DEF MatchType, Turns
  <2>5. m.status # "tie_break"
    BY <1>1, <1>4 DEF Good
  <2>6. Good(x)
    BY <1>1, <2>1, <2>2, <2>4, <2>5 DEF Good, Actor
  <2>7. Rank(x) = 3 * (left - 1) + 3
    <3>1. Going(x)
      BY <2>4 DEF Going, Playing
    <3>2. MainTurns + x.pool - x.turn.id = left - 1
      BY <1>1, <2>2, <2>4
    <3> HIDE DEF left
    <3> QED BY <2>2, <2>4, <3>1, <3>2 DEF Rank
  <2> HIDE DEF left
  <2> QED BY <1>1, <1>2, <2>2, <2>4, <2>6, <2>7 DEF Matches, x
<1>5. CASE ~(m.turn.id < MainTurns) /\ m.score["human"] # m.score["bot"]
  <2>1. x = [m EXCEPT !.status = "completed"]
    BY <1>5 DEF NextTurn, FinishStage
  <2> HIDE DEF x
  <2>2. /\ x \in MatchType /\ x.turn = m.turn /\ x.status = "completed"
        /\ x.awaiting = m.awaiting /\ x.pool = m.pool /\ x.next = m.next
    BY <1>1, <2>1 DEF MatchType
  <2>3. Good(x)
    BY <1>1, <2>2 DEF Good, Going
  <2>4. ~Going(x) /\ Rank(x) = 0
    BY <2>2 DEF Going, Playing, Rank
  <2> QED BY <1>3, <2>2, <2>3, <2>4 DEF Matches, x
<1>6. CASE ~(m.turn.id < MainTurns) /\ m.score["human"] = m.score["bot"]
  <2>1. x = ScheduleTieBreak(m, at)
    BY <1>6 DEF NextTurn, FinishStage
  <2>2. /\ m.turn.id = MainTurns + m.next
        /\ m.next <= m.pool /\ m.pool - m.next <= PoolSize
    BY <1>1, <1>6 DEF Good, Going, Playing, AllTurns
  <2>3. /\ x \in Matches
        /\ x.status = "tie_break" /\ x.pool = m.pool
        /\ IF m.next = m.pool THEN x.awaiting
           ELSE ~x.awaiting /\ x.turn = NewTurn(m.turn.id + 1, at)
    BY <1>1, <2>1, <2>2, Schedule
  <2> HIDE DEF x
  <2>4. CASE m.next = m.pool
    <3>1. ~Going(x) /\ Rank(x) = 0
      BY <2>3, <2>4 DEF Going, Rank
    <3> QED BY <1>3, <2>3, <3>1 DEF x
  <2>5. CASE m.next # m.pool
    <3>1. m.turn.id + 1 \in AllTurns
      <4>1. m.pool <= MaxPool /\ MaxPool \in Nat
        BY <1>1, BotAssumption DEF MatchType
      <4> QED BY <1>1, <2>2, <2>5, <4>1 DEF AllTurns
    <3>2. /\ x.turn.id = m.turn.id + 1 /\ x.turn.status = "active" /\ x.turn.answered = {}
          /\ x.turn.deadline = at + TurnDuration
      BY <1>1, <2>3, <2>5, <3>1, NewTurnType
    <3>3. Rank(x) = 3 * (left - 1) + 3
      <4>1. Going(x)
        BY <2>3, <2>5 DEF Going, Playing
      <4>2. MainTurns + x.pool - x.turn.id = left - 1
        BY <1>1, <2>3, <3>2
      <4> HIDE DEF left
      <4> QED BY <3>2, <4>1, <4>2 DEF Rank
    <3> HIDE DEF left
    <3> QED BY <1>1, <1>2, <2>3, <3>2, <3>3 DEF x
  <2> QED BY <2>4, <2>5
<1> QED BY <1>4, <1>5, <1>6

\* Every transition leads to a match with fewer to come.
LEMMA AfterTransition ==
    ASSUME NEW m \in Matches, Going(m)
    PROVE  /\ After(m) \in Matches
           /\ Rank(After(m)) < Rank(m)
           /\ After(m) # m
<1>1. m.turn.status \in {"active", "resolved"}
  BY DEF Matches, MatchType
<1>2. After(m) \in Matches /\ Rank(After(m)) < Rank(m)
  <2>1. CASE m.turn.status = "resolved"
    BY <2>1, AfterReveal DEF After
  <2>2. CASE m.turn.status = "active" /\ "bot" \in m.turn.answered
    BY <2>2, AfterDeadline DEF After
  <2>3. CASE m.turn.status = "active" /\ "bot" \notin m.turn.answered
    BY <2>3, AfterBotAnswer DEF After
  <2> QED BY <1>1, <2>1, <2>2, <2>3
<1>3. Rank(m) \in Nat
  BY RankType
<1> QED BY <1>2, <1>3

\* NextTransition does what is due, and nothing else.
LEMMA Transition ==
    ASSUME NEW m \in Matches, NEW until \in Nat
    PROVE  NextTransition(m, until) = IF Going(m) /\ When(m) <= until THEN After(m) ELSE m
<1>1. /\ m \in MatchType /\ m.turn.status \in {"active", "resolved"}
      /\ m.turn.deadline \in Nat /\ m.turn.revealUntil \in Nat
      /\ TurnDuration \in Nat \ {0} /\ RevealDuration \in Nat \ {0}
  BY BotAssumption DEF Matches, MatchType
<1>2. CASE ~Going(m)
  BY <1>2 DEF NextTransition
<1>3. CASE Going(m) /\ m.turn.status = "active" /\ "bot" \notin m.turn.answered
  <2>1. DueAt(m) \in Nat /\ DueAt(m) < m.turn.deadline
    BY <1>1, <1>3, DueInTime
  <2>2. TickOnce(m, DueAt(m)) = m
    BY <1>1, <1>3, <2>1 DEF TickOnce
  <2>3. Tick(m, DueAt(m)) = m
    BY <1>1, <2>2, TickStays
  <2>4. When(m) = DueAt(m) /\ After(m) = BotAnswers(m)
    BY <1>3 DEF When, After
  <2>5. CASE DueAt(m) <= until
    <3>1. BotIsDue(m, until)
      BY <1>3, <2>5 DEF BotIsDue
    <3>2. NextTransition(m, until) = BotAnswers(m)
      BY <1>3, <2>3, <3>1 DEF NextTransition, BotAnswers
    <3> QED BY <1>3, <2>4, <2>5, <3>2
  <2>6. CASE ~(DueAt(m) <= until)
    <3>1. ~BotIsDue(m, until) /\ ~(until >= m.turn.deadline) /\ m.turn.status # "resolved"
      BY <1>1, <1>3, <2>1, <2>6 DEF BotIsDue
    <3>2. NextTransition(m, until) = m
      BY <1>3, <3>1 DEF NextTransition
    <3> QED BY <2>4, <2>6, <3>2
  <2> QED BY <2>5, <2>6
<1>4. CASE Going(m) /\ m.turn.status = "active" /\ "bot" \in m.turn.answered
  <2> DEFINE x == Resolve(m, m.turn.deadline)
  <2>1. /\ x \in Matches /\ x.turn.status = "resolved"
        /\ x.turn.revealUntil = m.turn.deadline + RevealDuration
    BY <1>4, AfterDeadline
  <2>2. TickOnce(m, m.turn.deadline) = x
    BY <1>1, <1>4 DEF TickOnce
  <2> HIDE DEF x
  <2>3. TickOnce(x, m.turn.deadline) = x
    <3>1. ~(m.turn.deadline >= x.turn.revealUntil)
      BY <1>1, <2>1
    <3> QED BY <2>1, <3>1 DEF TickOnce
  <2>4. Tick(m, m.turn.deadline) = x
    BY <1>1, <2>1, <2>2, <2>3, TickIsOnePass DEF Matches
  <2>5. When(m) = m.turn.deadline /\ After(m) = x /\ ~BotIsDue(m, until)
    BY <1>4 DEF When, After, BotIsDue, x
  <2>6. NextTransition(m, until) = IF until >= m.turn.deadline THEN x ELSE m
    BY <1>4, <2>4, <2>5 DEF NextTransition
  <2>7. until >= m.turn.deadline <=> m.turn.deadline <= until
    BY <1>1
  <2> QED BY <1>4, <2>5, <2>6, <2>7
<1>5. CASE Going(m) /\ m.turn.status = "resolved"
  <2> DEFINE x == NextTurn(m)
             at == m.turn.revealUntil
  <2>1. /\ x \in Matches
        /\ Going(x) => x.turn.status = "active" /\ x.turn.deadline = at + TurnDuration
    BY <1>5, AfterReveal
  <2>2. TickOnce(m, at) = x
    BY <1>1, <1>5 DEF TickOnce, NextTurn
  <2> HIDE DEF x
  <2>3. TickOnce(x, at) = x
    <3>1. CASE ~Going(x)
      BY <3>1 DEF TickOnce
    <3>2. CASE Going(x)
      <4>1. ~(at >= x.turn.deadline)
        BY <1>1, <2>1, <3>2
      <4> QED BY <2>1, <3>2, <4>1 DEF TickOnce
    <3> QED BY <3>1, <3>2
  <2>4. Tick(m, at) = x
    BY <1>1, <2>1, <2>2, <2>3, TickIsOnePass DEF Matches
  <2>5. When(m) = at /\ After(m) = x /\ ~BotIsDue(m, until)
    BY <1>5 DEF When, After, BotIsDue, x
  <2>6. NextTransition(m, until) = IF until >= at THEN x ELSE m
    BY <1>5, <2>4, <2>5 DEF NextTransition
  <2>7. until >= at <=> at <= until
    BY <1>1
  <2> QED BY <1>5, <2>5, <2>6, <2>7
<1> QED BY <1>1, <1>2, <1>3, <1>4, <1>5

-----------------------------------------------------------------------------
(* AdvanceBots *)

\* The passes of the loop, of which AdvanceBots makes all but the last.
IsRun(run, until) ==
    \A m \in MatchType :
       /\ run[0][m] = m
       /\ \A k \in Nat : run[k + 1][m] = IF NextTransition(m, until) = m
                                           THEN m ELSE run[k][NextTransition(m, until)]

LEMMA AdvanceRuns ==
    ASSUME NEW until
    PROVE  \E run : /\ \A m : AdvanceBots(m, until) = run[MaxTransitions - 1][m]
                    /\ IsRun(run, until)
BY AdvanceLoop, Zenon DEF IsRun

\* More passes than the rank do nothing.
LEMMA PassesSuffice ==
    ASSUME NEW until \in Nat, NEW run, IsRun(run, until)
    PROVE  \A k \in Nat : \A m \in Matches : Rank(m) <= k => run[k + 1][m] = run[k][m]
<1> DEFINE I == {k \in Nat : ~ \A m \in Matches : Rank(m) <= k => run[k + 1][m] = run[k][m]}
           N(m) == NextTransition(m, until)
<1> SUFFICES ASSUME I # {} PROVE FALSE
  BY DEF I
<1>1. PICK k \in I : \A j \in I : k <= j
  <2>1. I \subseteq Nat
    OBVIOUS
  <2> HIDE DEF I
  <2> QED BY <2>1, LeastNumber
<1>2. k \in Nat
  OBVIOUS
<1>3. PICK m \in Matches : Rank(m) <= k /\ run[k + 1][m] # run[k][m]
  OBVIOUS
<1>4. ASSUME k # 0, NEW x \in Matches, Rank(x) <= k - 1 PROVE run[k][x] = run[k - 1][x]
  <2>1. k - 1 \in Nat /\ ~(k <= k - 1) /\ (k - 1) + 1 = k
    BY <1>2, <1>4
  <2>2. k - 1 \notin I
    <3> HIDE DEF I
    <3> QED BY <1>1, <2>1
  <2> QED BY <1>4, <2>1, <2>2
<1>5. /\ m \in MatchType /\ Rank(m) \in Nat
      /\ run[0][m] = m
      /\ \A j \in Nat : run[j + 1][m] = IF N(m) = m THEN m ELSE run[j][N(m)]
  BY RankType DEF Matches, IsRun
<1> HIDE DEF I
<1>6. CASE N(m) = m
  <2>1. run[k + 1][m] = m
    BY <1>2, <1>5, <1>6
  <2>2. CASE k = 0
    BY <1>3, <1>5, <2>1, <2>2
  <2>3. CASE k # 0
    <3>1. k - 1 \in Nat /\ (k - 1) + 1 = k
      BY <1>2, <2>3
    <3>2. run[(k - 1) + 1][m] = m
      BY <1>5, <1>6, <3>1
    <3> QED BY <1>3, <2>1, <3>1, <3>2
  <2> QED BY <2>2, <2>3
<1>7. CASE N(m) # m
  <2> DEFINE x == N(m)
  <2>1. x \in Matches /\ Rank(x) < Rank(m)
    <3>1. Going(m) /\ x = After(m)
      BY <1>7, Transition
    <3> QED BY <3>1, AfterTransition
  <2> HIDE DEF x
  <2>2. Rank(x) \in Nat
    BY <2>1, RankType
  <2>3. k # 0 /\ Rank(x) <= k - 1 /\ k - 1 \in Nat /\ (k - 1) + 1 = k
    BY <1>2, <1>3, <1>5, <2>1, <2>2
  <2>4. run[k][x] = run[k - 1][x]
    BY <1>4, <2>1, <2>3
  <2>5. run[k + 1][m] = run[k][x]
    BY <1>2, <1>5, <1>7 DEF x
  <2>6. run[(k - 1) + 1][m] = run[k - 1][x]
    BY <1>5, <1>7, <2>3 DEF x
  <2> QED BY <1>3, <2>3, <2>4, <2>5, <2>6
<1> QED BY <1>6, <1>7

\* AdvanceBots, one transition at a time.
LEMMA AdvanceUnfolds ==
    ASSUME NEW m \in Matches, NEW until \in Nat
    PROVE  AdvanceBots(m, until) =
              IF Going(m) /\ When(m) <= until THEN AdvanceBots(After(m), until) ELSE m
<1> DEFINE N(x) == NextTransition(x, until)
           k == MaxTransitions - 2
<1>1. PICK run : /\ \A x : AdvanceBots(x, until) = run[MaxTransitions - 1][x]
                 /\ IsRun(run, until)
  BY AdvanceRuns
<1>2. k \in Nat /\ k + 1 = MaxTransitions - 1
  BY BotAssumption
<1>3. m \in MatchType
  BY DEF Matches
<1> HIDE DEF k
<1>4. run[k + 1][m] = IF N(m) = m THEN m ELSE run[k][N(m)]
  BY <1>1, <1>2, <1>3 DEF IsRun
<1>5. N(m) = IF Going(m) /\ When(m) <= until THEN After(m) ELSE m
  BY Transition
<1>6. CASE Going(m) /\ When(m) <= until
  <2>1. N(m) = After(m) /\ After(m) # m /\ After(m) \in Matches /\ Rank(After(m)) < Rank(m)
    BY <1>5, <1>6, AfterTransition
  <2>2. Rank(After(m)) <= k
    <3>1. /\ Rank(After(m)) \in Nat /\ Rank(m) \in Nat /\ MaxTransitions \in Nat
          /\ Rank(m) < MaxTransitions
      BY <2>1, RankType, BotAssumption
    <3> QED BY <2>1, <3>1 DEF k
  <2>3. run[k + 1][After(m)] = run[k][After(m)]
    BY <1>1, <1>2, <2>1, <2>2, PassesSuffice
  <2> QED BY <1>1, <1>2, <1>4, <1>6, <2>1, <2>3
<1>7. CASE ~(Going(m) /\ When(m) <= until)
  BY <1>1, <1>2, <1>4, <1>5, <1>7
<1> QED BY <1>6, <1>7

\* A claim about matches holds of all if it cannot first fail at some number of transitions
\* to come: X is where it fails.
LEMMA FewestTransitions ==
    ASSUME NEW X, X \subseteq Matches, X # {}
    PROVE  \E m \in X : \A x \in X : Rank(m) <= Rank(x)
<1> DEFINE I == {Rank(x) : x \in X}
<1>1. I \subseteq Nat
  BY RankType
<1>2. I # {}
  OBVIOUS
<1>3. PICK r \in I : \A s \in I : r <= s
  <2> HIDE DEF I
  <2> QED BY <1>1, <1>2, LeastNumber
<1> QED BY <1>3

\* What nothing is due of.
Settled(m, until) == Going(m) => until < When(m)

LEMMA WhenType == ASSUME NEW m \in Matches PROVE When(m) \in Nat
<1>1. /\ m.turn.deadline \in Nat /\ m.turn.revealUntil \in Nat
      /\ m.turn.status \in {"active", "resolved"}
  BY DEF Matches, MatchType
<1> QED BY <1>1, DueInTime DEF When

LEMMA SettledStays ==
    ASSUME NEW m \in Matches, NEW until \in Nat, Settled(m, until)
    PROVE  AdvanceBots(m, until) = m
<1>1. ~(Going(m) /\ When(m) <= until)
  BY WhenType DEF Settled
<1> QED BY <1>1, AdvanceUnfolds

\* Catching up ends, in a match of which nothing is due.
LEMMA CatchUpSettles ==
    ASSUME NEW until \in Nat
    PROVE  \A m \in Matches : /\ AdvanceBots(m, until) \in Matches
                              /\ Settled(AdvanceBots(m, until), until)
<1> DEFINE Claim(m) == /\ AdvanceBots(m, until) \in Matches
                       /\ Settled(AdvanceBots(m, until), until)
           X == {m \in Matches : ~Claim(m)}
<1> SUFFICES ASSUME X # {} PROVE FALSE
  BY DEF X
<1>1. PICK m \in X : \A x \in X : Rank(m) <= Rank(x)
  <2>1. X \subseteq Matches
    OBVIOUS
  <2> HIDE DEF X
  <2> QED BY <2>1, FewestTransitions
<1>2. m \in Matches /\ ~Claim(m)
  OBVIOUS
<1>3. CASE Going(m) /\ When(m) <= until
  <2>1. AdvanceBots(m, until) = AdvanceBots(After(m), until)
    BY <1>2, <1>3, AdvanceUnfolds
  <2>2. After(m) \in Matches /\ Rank(After(m)) < Rank(m)
    BY <1>2, <1>3, AfterTransition
  <2>3. Rank(m) \in Nat /\ Rank(After(m)) \in Nat
    BY <1>2, <2>2, RankType
  <2>4. ~(Rank(m) <= Rank(After(m)))
    BY <2>2, <2>3
  <2>5. Claim(After(m))
    BY <1>1, <2>2, <2>4
  <2> QED BY <1>2, <2>1, <2>5
<1>4. CASE ~(Going(m) /\ When(m) <= until)
  <2>1. AdvanceBots(m, until) = m
    BY <1>2, <1>4, AdvanceUnfolds
  <2>2. Settled(m, until)
    BY <1>2, <1>4, WhenType DEF Settled
  <2> QED BY <1>2, <2>1, <2>2
<1> QED BY <1>3, <1>4

\* Catching up on the way makes no difference.
LEMMA CatchUpComposes ==
    ASSUME NEW until \in Nat, NEW later \in Nat, until <= later
    PROVE  \A m \in Matches :
              AdvanceBots(AdvanceBots(m, until), later) = AdvanceBots(m, later)
<1> DEFINE Claim(m) == AdvanceBots(AdvanceBots(m, until), later) = AdvanceBots(m, later)
           X == {m \in Matches : ~Claim(m)}
<1> SUFFICES ASSUME X # {} PROVE FALSE
  BY DEF X
<1>1. PICK m \in X : \A x \in X : Rank(m) <= Rank(x)
  <2>1. X \subseteq Matches
    OBVIOUS
  <2> HIDE DEF X
  <2> QED BY <2>1, FewestTransitions
<1>2. m \in Matches /\ ~Claim(m)
  OBVIOUS
<1>3. CASE Going(m) /\ When(m) <= until
  <2>1. When(m) <= later
    BY <1>2, <1>3, WhenType
  <2>2. /\ AdvanceBots(m, until) = AdvanceBots(After(m), until)
        /\ AdvanceBots(m, later) = AdvanceBots(After(m), later)
    BY <1>2, <1>3, <2>1, AdvanceUnfolds
  <2>3. After(m) \in Matches /\ Rank(After(m)) < Rank(m)
    BY <1>2, <1>3, AfterTransition
  <2>4. Rank(m) \in Nat /\ Rank(After(m)) \in Nat
    BY <1>2, <2>3, RankType
  <2>5. ~(Rank(m) <= Rank(After(m)))
    BY <2>3, <2>4
  <2>6. Claim(After(m))
    BY <1>1, <2>3, <2>5
  <2> QED BY <1>2, <2>2, <2>6
<1>4. CASE ~(Going(m) /\ When(m) <= until)
  <2>1. AdvanceBots(m, until) = m
    BY <1>2, <1>4, AdvanceUnfolds
  <2> QED BY <1>2, <2>1
<1> QED BY <1>3, <1>4

LEMMA CatchUpIsDone ==
    ASSUME NEW m \in Matches, NEW until \in Nat PROVE Ends(m, until)
<1> DEFINE x == AdvanceBots(m, until)
<1>1. x \in Matches /\ Settled(x, until)
  BY CatchUpSettles
<1> HIDE DEF x
<1>2. NextTransition(x, until) = x
  BY <1>1, Transition, WhenType DEF Settled
<1> QED BY <1>2 DEF Ends, x

-----------------------------------------------------------------------------
(* The player's calls *)

\* The human's answer leaves nothing due: the bot's own answer is still to come, or the
\* reveal is.
LEMMA AnswerSettles ==
    ASSUME NEW m \in Matches, NEW at \in Nat, Settled(m, at), NEW turnId, NEW right \in BOOLEAN
    PROVE  LET x == Submit(Tick(m, at), "human", turnId, right, at)
           IN  x \in Matches /\ Settled(x, at)
<1> DEFINE x == Submit(Tick(m, at), "human", turnId, right, at)
<1>1. /\ m \in MatchType /\ m.turn.status \in {"active", "resolved"}
      /\ m.turn.deadline \in Nat /\ m.turn.revealUntil \in Nat /\ m.turn.startedAt \in Nat
      /\ RevealDuration \in Nat \ {0}
  BY BotAssumption DEF Matches, MatchType
<1>2. Tick(m, at) = m
  <2>1. TickOnce(m, at) = m
    <3>1. CASE ~Going(m)
      BY <3>1 DEF TickOnce
    <3>2. CASE Going(m) /\ m.turn.status = "resolved"
      <4>1. ~(at >= m.turn.revealUntil)
        BY <1>1, <3>2 DEF Settled, When
      <4> QED BY <3>2, <4>1 DEF TickOnce
    <3>3. CASE Going(m) /\ m.turn.status = "active"
      <4>1. When(m) <= m.turn.deadline
        BY <1>1, <3>3, DueInTime DEF When
      <4>2. ~(at >= m.turn.deadline)
        BY <1>1, <3>3, <4>1, WhenType DEF Settled
      <4> QED BY <3>3, <4>2 DEF TickOnce
    <3> QED BY <1>1, <3>1, <3>2, <3>3
  <2> QED BY <1>1, <2>1, TickStays
<1>3. x = Submit(m, "human", turnId, right, at)
  BY <1>2
<1> HIDE DEF x
<1>4. CASE /\ Going(m) /\ m.turn.id = turnId /\ m.turn.status = "active"
           /\ at \in m.turn.startedAt .. m.turn.deadline - 1 /\ "human" \notin m.turn.answered
  <2>1. "human" \in Actor
    BY DEF Actor
  <2>2. /\ x \in Matches
        /\ x.turn.id = m.turn.id /\ x.plan = m.plan
        /\ \/ /\ x.turn.status = "active"
              /\ x.turn.answered = m.turn.answered \cup {"human"}
              /\ x.turn.startedAt = m.turn.startedAt
              /\ x.turn.deadline = m.turn.deadline
           \/ /\ x.turn.status = "resolved"
              /\ x.turn.revealUntil = at + RevealDuration
    BY <1>3, <1>4, <2>1, SubmitOpen
  <2>3. CASE x.turn.status = "resolved"
    <3>1. at < When(x)
      BY <1>1, <2>2, <2>3 DEF When
    <3> QED BY <2>2, <3>1 DEF Settled, x
  <2>4. CASE x.turn.status # "resolved"
    <3>1. When(x) = When(m)
      BY <1>4, <2>2, <2>4 DEF When, DueAt
    <3> QED BY <1>4, <2>2, <3>1 DEF Settled, x
  <2> QED BY <2>3, <2>4
<1>5. CASE ~(/\ Going(m) /\ m.turn.id = turnId /\ m.turn.status = "active"
             /\ at \in m.turn.startedAt .. m.turn.deadline - 1 /\ "human" \notin m.turn.answered)
  <2>1. x = m
    BY <1>3, <1>5 DEF Submit
  <2> QED BY <2>1 DEF x
<1> QED BY <1>4, <1>5

\* A supplied question begins a turn, which the bot does not answer at once.
LEMMA ReplenishSettles ==
    ASSUME now \in Nat, NEW m \in Matches, m.awaiting, NEW n \in Supply(m)
    PROVE  Replenish(m, n) \in Matches /\ Settled(Replenish(m, n), now)
<1> DEFINE w == [m EXCEPT !.pool = @ + n]
           x == Replenish(m, n)
<1>1. /\ m \in MatchType /\ Good(m) /\ "bot" \in m.turn.answered
      /\ m.status = "tie_break" /\ m.next = m.pool /\ m.turn.status = "resolved"
      /\ m.pool \in 1 .. MaxPool /\ m.next \in 0 .. MaxPool
  BY DEF Matches, Good, MatchType
<1>2. n \in Nat \ {0} /\ m.pool + n \in 1 .. MaxPool /\ n <= PoolSize
  <2>1. MaxPool \in Nat /\ PoolSize \in Nat /\ n \in 1 .. Least(PoolSize, MaxPool - m.pool)
    BY BotAssumption DEF Supply
  <2> QED BY <1>1, <2>1 DEF Least
<1>3. /\ w \in MatchType /\ w.turn = m.turn /\ w.next = m.next /\ w.pool = m.pool + n
  BY <1>1, <1>2 DEF MatchType
<1>4. x = ScheduleTieBreak(w, now)
  BY DEF Replenish
<1> HIDE DEF w, x
<1>5. /\ w.next < w.pool /\ w.pool - w.next <= PoolSize
      /\ w.turn.id = MainTurns + w.next
  BY <1>1, <1>2, <1>3, BotAssumption DEF Good
<1>6. w.next <= w.pool /\ w.next # w.pool
  BY <1>1, <1>2, <1>3
<1>7. x \in Matches /\ x.turn = NewTurn(w.turn.id + 1, now)
  BY <1>1, <1>3, <1>4, <1>5, <1>6, Schedule
<1>8. w.turn.id + 1 \in AllTurns
  BY <1>1, <1>2, <1>3, <1>5, BotAssumption DEF AllTurns
<1>9. x.turn.status = "active" /\ x.turn.answered = {} /\ x.turn.startedAt = now
  BY <1>7, <1>8, NewTurnType
<1>10. When(x) = DueAt(x) /\ now < DueAt(x)
  BY <1>7, <1>9, DueInTime DEF When
<1> QED BY <1>7, <1>10 DEF Settled, x

-----------------------------------------------------------------------------
(* The inductive invariant *)

\* Both matches are well formed, and the stored one, brought up to date, is the prompt one.
IInv ==
    /\ now \in 0 .. MaxTime
    /\ match \in Matches
    /\ prompt \in Matches
    /\ PollingInvisible

LEMMA NowType == ASSUME IInv PROVE now \in Nat
BY BotAssumption DEF IInv

LEMMA StartedGood ==
    ASSUME NEW plan \in Plans
    PROVE  Started(plan) \in Matches /\ Settled(Started(plan), 0)
<1> DEFINE m == Started(plan)
           t == NewTurn(1, 0)
<1>1. 1 \in AllTurns /\ 0 \in Nat
  BY BotAssumption DEF AllTurns
<1>2. /\ t \in Turns /\ t.id = 1 /\ t.status = "active" /\ t.answered = {}
      /\ t.startedAt = 0 /\ t.deadline = 0 + TurnDuration
  BY <1>1, NewTurnType
<1>3. /\ m.plan = plan /\ m.status = "active" /\ m.turn = t
      /\ m.score = [p \in Actor |-> 0] /\ m.pool = FirstPool /\ m.next = 0 /\ ~m.awaiting
  BY DEF Started
<1>4. m \in MatchType
  <2> HIDE DEF t
  <2>1. [p \in Actor |-> 0] \in [Actor -> Nat] /\ FirstPool \in 1 .. MaxPool /\ 0 \in 0 .. MaxPool
    BY BotAssumption
  <2> QED BY <1>2, <2>1 DEF Started, MatchType, Turns, t
<1> HIDE DEF m, t
<1>5. Good(m)
  BY <1>2, <1>3, BotAssumption DEF Good, Actor
<1>6. m \in Matches
  BY <1>4, <1>5 DEF Matches
<1>7. When(m) = DueAt(m) /\ 0 < DueAt(m)
  BY <1>2, <1>3, <1>6, DueInTime DEF When
<1> QED BY <1>6, <1>7 DEF Settled, m

LEMMA InitInvariant == ASSUME Init PROVE IInv
<1>1. PICK plan \in Plans : match = Started(plan)
  BY DEF Init
<1>2. match \in Matches /\ Settled(match, 0)
  BY <1>1, StartedGood
<1>3. AdvanceBots(match, 0) = match
  BY <1>2, SettledStays
<1>4. now \in 0 .. MaxTime /\ now = 0 /\ prompt = match
  BY BotAssumption DEF Init
<1> QED BY <1>2, <1>3, <1>4 DEF IInv, PollingInvisible

\* What a call finds when it has caught up: the prompt match.
LEMMA CaughtUpIsPrompt ==
    ASSUME IInv, Playing(match)
    PROVE  /\ CaughtUp(match) = prompt /\ CaughtUp(prompt) = prompt
           /\ prompt \in Matches /\ Settled(prompt, now)
<1>1. now \in Nat /\ match \in Matches /\ AdvanceBots(match, now) = prompt
  BY NowType DEF IInv, PollingInvisible, Playing
<1>2. prompt \in Matches /\ Settled(prompt, now)
  BY <1>1, CatchUpSettles
<1> QED BY <1>1, <1>2, SettledStays DEF CaughtUp

\* A call that leaves both matches the same, with nothing due.
LEMMA SaveBoth ==
    ASSUME IInv, NEW x \in Matches, Settled(x, now), Save(x, x)
    PROVE  IInv'
<1>1. now \in Nat /\ now' = now /\ match' = x /\ prompt' = x
  BY NowType DEF Save
<1>2. AdvanceBots(x, now) = x
  BY <1>1, SettledStays
<1> QED BY <1>1, <1>2 DEF IInv, PollingInvisible

LEMMA SnapshotInvariant == ASSUME IInv, Snapshot PROVE IInv'
<1>1. /\ CaughtUp(match) = prompt /\ CaughtUp(prompt) = prompt
      /\ prompt \in Matches /\ Settled(prompt, now) /\ now \in Nat
  BY CaughtUpIsPrompt, NowType DEF Snapshot
<1>2. CASE Save(prompt, prompt)
  BY <1>1, <1>2, SaveBoth
<1>3. ASSUME prompt.awaiting, NEW n \in Supply(prompt),
             Save(CaughtUp(Replenish(prompt, n)), CaughtUp(Replenish(prompt, n)))
      PROVE  IInv'
  <2> DEFINE x == Replenish(prompt, n)
  <2>1. x \in Matches /\ Settled(x, now)
    BY <1>1, <1>3, ReplenishSettles
  <2>2. CaughtUp(x) = x
    BY <1>1, <2>1, SettledStays DEF CaughtUp
  <2>3. Save(x, x)
    BY <1>3, <2>2
  <2> HIDE DEF x
  <2> QED BY <2>1, <2>3, SaveBoth
<1> QED BY <1>1, <1>2, <1>3 DEF Snapshot

LEMMA AnswerInvariant ==
    ASSUME IInv, NEW turnId, NEW right \in BOOLEAN, Answer(turnId, right) PROVE IInv'
<1>1. /\ CaughtUp(match) = prompt /\ CaughtUp(prompt) = prompt
      /\ prompt \in Matches /\ Settled(prompt, now) /\ now \in Nat
  BY CaughtUpIsPrompt, NowType DEF Answer
<1>2. ASSUME Save(Answered(prompt, turnId, right), Answered(prompt, turnId, right))
      PROVE  IInv'
  <2> DEFINE x == Answered(prompt, turnId, right)
  <2>1. x \in Matches /\ Settled(x, now)
    BY <1>1, AnswerSettles DEF Answered
  <2> HIDE DEF x
  <2> QED BY <1>2, <2>1, SaveBoth DEF x
<1>3. ASSUME prompt.awaiting, NEW n \in Supply(prompt),
             Save(Replenish(prompt, n), Replenish(prompt, n))
      PROVE  IInv'
  <2> DEFINE x == Replenish(prompt, n)
  <2>1. x \in Matches /\ Settled(x, now)
    BY <1>1, <1>3, ReplenishSettles
  <2> HIDE DEF x
  <2> QED BY <1>3, <2>1, SaveBoth DEF x
<1> QED BY <1>1, <1>2, <1>3 DEF Answer

LEMMA ForfeitGood == ASSUME NEW m \in Matches PROVE ForfeitOf(m) \in Matches
<1> DEFINE x == ForfeitOf(m)
<1>1. CASE ~Playing(m)
  BY <1>1 DEF ForfeitOf
<1>2. CASE Playing(m)
  <2>1. m \in MatchType /\ Good(m)
    BY DEF Matches
  <2>2. x = [m EXCEPT !.status = "forfeited", !.awaiting = FALSE]
    BY <1>2 DEF ForfeitOf
  <2> HIDE DEF x
  <2>3. /\ x \in MatchType /\ x.status = "forfeited" /\ ~x.awaiting
        /\ x.turn = m.turn /\ x.pool = m.pool /\ x.next = m.next
    BY <2>1, <2>2 DEF MatchType
  <2>4. Good(x)
    BY <2>1, <2>3 DEF Good
  <2> QED BY <2>3, <2>4 DEF Matches, x
<1> QED BY <1>1, <1>2

LEMMA ForfeitInvariant == ASSUME IInv, Forfeit PROVE IInv'
<1>1. /\ now' = now /\ match' = ForfeitOf(match) /\ prompt' = ForfeitOf(prompt)
      /\ now \in 0 .. MaxTime /\ match \in Matches /\ prompt \in Matches
  BY DEF IInv, Forfeit, Save
<1>2. match'.status = "forfeited"
  <2>1. match \in MatchType /\ Playing(match)
    BY <1>1 DEF Matches, Forfeit
  <2> QED BY <1>1, <2>1 DEF ForfeitOf, MatchType
<1>3. match' \in Matches /\ prompt' \in Matches
  BY <1>1, ForfeitGood
<1> QED BY <1>1, <1>2, <1>3 DEF IInv, PollingInvisible

LEMMA AdvanceClockInvariant == ASSUME IInv, AdvanceClock PROVE IInv'
<1>1. /\ now \in Nat /\ now + 1 \in Nat /\ now <= now + 1
      /\ now' = now + 1 /\ now' \in 0 .. MaxTime
  BY NowType, BotAssumption DEF AdvanceClock, IInv
<1>2. /\ match \in Matches /\ match' = match /\ AdvanceBots(match, now) = prompt
      /\ prompt' = AdvanceBots(prompt, now + 1)
  BY DEF AdvanceClock, IInv, PollingInvisible, Playing
<1>3. prompt' \in Matches
  BY <1>1, <1>2, CatchUpSettles DEF IInv
<1>4. AdvanceBots(match, now + 1) = prompt'
  BY <1>1, <1>2, CatchUpComposes
<1> QED BY <1>1, <1>2, <1>3, <1>4 DEF IInv, PollingInvisible

LEMMA NextInvariant == ASSUME IInv, [Next]_vars PROVE IInv'
<1>1. CASE Snapshot
  BY <1>1, SnapshotInvariant
<1>2. ASSUME NEW turnId \in {match.turn.id, prompt.turn.id}, NEW right \in BOOLEAN,
             Answer(turnId, right)
      PROVE  IInv'
  BY <1>2, AnswerInvariant
<1>3. CASE Forfeit
  BY <1>3, ForfeitInvariant
<1>4. CASE AdvanceClock
  BY <1>4, AdvanceClockInvariant
<1>5. CASE UNCHANGED vars
  BY <1>5 DEF vars, IInv, PollingInvisible
<1> QED BY <1>1, <1>2, <1>3, <1>4, <1>5 DEF Next

-----------------------------------------------------------------------------
(* Theorems *)

\* The inductive invariant holds in every reachable state.
THEOREM Invariant == Spec => []IInv
BY InitInvariant, NextInvariant, PTL DEF Spec

\* Every state is well typed: no loop of Tick or AdvanceBots, however many transitions it
\* replays at once, takes a turn beyond the questions supplied.
THEOREM BotTypeCorrect == Spec => []TypeOK
<1>1. IInv => TypeOK
  BY DEF IInv, TypeOK, Matches
<1> QED BY <1>1, Invariant, PTL

\* "disconnecting or delaying a refresh cannot erase an answer that was due before the
\* deadline" (docs/game-rules.md): the match that AdvanceBots makes of what was stored when
\* the player last looked is the one it would be had it been advanced all the time.
THEOREM PollingStaysInvisible == Spec => []PollingInvisible
<1>1. IInv => PollingInvisible
  BY DEF IInv
<1> QED BY <1>1, Invariant, PTL

\* The bot answers every turn before it is resolved, even when everything is replayed at
\* once.
THEOREM BotAlwaysAnswers == Spec => []BotAnswersEveryTurn
<1>1. IInv => BotAnswersEveryTurn
  BY DEF IInv, Matches, Good, BotAnswersEveryTurn
<1> QED BY <1>1, Invariant, PTL

\* AdvanceBots never runs into maximumAutomaticTransitions, which would fail every call from
\* then on: however long the player was away, what is left of the match needs fewer.
THEOREM CatchUpAlwaysEnds == Spec => []CatchUpEnds
<1>1. IInv => CatchUpEnds
  BY NowType, CatchUpIsDone DEF IInv, CatchUpEnds
<1> QED BY <1>1, Invariant, PTL
=============================================================================
