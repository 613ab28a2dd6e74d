------------------------ MODULE MatchAggregateProofs ------------------------
(***************************************************************************)
(* Proofs about MatchAggregate, for every roster, mode, deck size and      *)
(* duration.  TypeCorrect comes first; the inductive invariant IInv is     *)
(* proved action by action, after lemmas about the two operators every     *)
(* stage ends in, ScheduleTieBreak and DecideChampion.  The schedule, the  *)
(* winning team, the action properties and the refinement of Contest rest  *)
(* on it; MatchCommands, the same match under idempotency keys, is last.   *)
(***************************************************************************)
EXTENDS MatchCommands, SequenceTheorems, FiniteSetTheorems, TLAPS

\* A started match has at least one turn.
LEMMA TurnsExist == DeckSize * Cardinality(Player) \in Nat \ {0}
<1>1. Cardinality(Player) \in Nat
  BY RosterAssumption, FS_CardinalityType
<1>2. Cardinality(Player) # 0
  BY RosterAssumption, FS_EmptySet
<1>3. DeckSize \in Nat \ {0}
  BY BoundsAssumption
<1>4. \A m, n \in Nat \ {0} : m * n \in Nat \ {0}
  OBVIOUS
<1> QED BY <1>1, <1>2, <1>3, <1>4

LEMMA PointsType ==
    ASSUME NEW r \in Nat PROVE Points(r) \in Nat
<1>1. (50 * r) \in Nat
  OBVIOUS
<1>2. (50 * r) \div TurnDuration \in Nat
  BY <1>1, BoundsAssumption
<1> QED BY <1>2 DEF Points

-----------------------------------------------------------------------------
(* Sums of scores *)

\* SumFunctionOnSet is defined by recursion on the set.  Instead of an induction principle
\* the proofs take a smallest set for which a claim would fail.

\* Among some subsets of a finite set there is a smallest one.
LEMMA SmallestSet ==
    ASSUME NEW S, IsFiniteSet(S), NEW A, A \subseteq SUBSET S, A # {}
    PROVE  \E U \in A : \A V \in A : V \subseteq U => V = U
<1>1. IsWellFoundedOn(StrictSubsetOrdering(S), FiniteSubsetsOf(S))
  BY FS_StrictSubsetOrderingWellFounded
<1>2. A \subseteq FiniteSubsetsOf(S)
  BY FS_Subset DEF FiniteSubsetsOf
<1>3. PICK U \in A : \A V \in A : ~(<<V, U>> \in StrictSubsetOrdering(S))
  BY <1>1, <1>2, WFMin
<1>4. ASSUME NEW V \in A, V \subseteq U, V # U PROVE FALSE
  BY <1>3, <1>4 DEF StrictSubsetOrdering
<1> QED BY <1>4

\* The element the sum takes first.
Pick(U) == CHOOSE x \in U : TRUE

LEMMA PickIn == \A U : U # {} => Pick(U) \in U
BY Zenon DEF Pick

\* The function by whose recursion SumFunctionOnSet(f, S) is defined.
IsSum(g, f, S) ==
    g = [T \in SUBSET S |-> IF T = {} THEN 0 ELSE f[Pick(T)] + g[T \ {Pick(T)}]]

LEMMA SumDef ==
    ASSUME NEW f, NEW S
    PROVE  SumFunctionOnSet(f, S) = (CHOOSE g : IsSum(g, f, S))[S]
BY Zenon DEF SumFunctionOnSet, FoldFunctionOnSet, MapThenFoldSet, IsSum, Pick

LEMMA IsSumAt ==
    ASSUME NEW f, NEW S, NEW g, IsSum(g, f, S), NEW T \in SUBSET S
    PROVE  /\ T = {} => g[T] = 0
           /\ T # {} => g[T] = f[Pick(T)] + g[T \ {Pick(T)}]
BY DEF IsSum

\* Such functions agree where both are defined.
LEMMA SumsAgree ==
    ASSUME NEW f, NEW S, IsFiniteSet(S), NEW R, NEW g, NEW h,
           IsSum(g, f, S), IsSum(h, f, R),
           NEW T, T \subseteq S, T \subseteq R
    PROVE  g[T] = h[T]
<1> DEFINE A == {U \in SUBSET T : g[U] # h[U]}
<1> SUFFICES ASSUME A # {} PROVE FALSE
  BY DEF A
<1>1. IsFiniteSet(T)
  BY FS_Subset
<1>2. PICK U \in A : \A V \in A : V \subseteq U => V = U
  <2>1. A \subseteq SUBSET T
    OBVIOUS
  <2> HIDE DEF A
  <2> QED BY <1>1, <2>1, SmallestSet
<1>3. U \in SUBSET S /\ U \in SUBSET R /\ g[U] # h[U]
  OBVIOUS
<1>4. U # {}
  <2> SUFFICES ASSUME U = {} PROVE FALSE
    OBVIOUS
  <2>1. g[U] = 0
    BY <1>3, IsSumAt
  <2>2. h[U] = 0
    BY <1>3, IsSumAt
  <2> QED BY <1>3, <2>1, <2>2
<1> DEFINE V == U \ {Pick(U)}
<1>5. V \subseteq U /\ V # U
  BY <1>4, PickIn
<1>6. g[V] = h[V]
  BY <1>2, <1>5
<1>7. g[U] = f[Pick(U)] + g[V] /\ h[U] = f[Pick(U)] + h[V]
  BY <1>3, <1>4, IsSumAt
<1> QED BY <1>3, <1>6, <1>7

\* There is one for every finite set.
LEMMA SumExists ==
    ASSUME NEW f, NEW S, IsFiniteSet(S)
    PROVE  \E g : IsSum(g, f, S)
<1> DEFINE A == {T \in SUBSET S : ~ \E g : IsSum(g, f, T)}
<1> SUFFICES ASSUME A # {} PROVE FALSE
  BY DEF A
<1>1. PICK U \in A : \A V \in A : V \subseteq U => V = U
  <2>1. A \subseteq SUBSET S
    OBVIOUS
  <2> HIDE DEF A
  <2> QED BY <2>1, SmallestSet
<1>2. IsFiniteSet(U) /\ ~ \E g : IsSum(g, f, U)
  BY FS_Subset
<1>3. ASSUME NEW V, V \subseteq U, V # U
      PROVE  \E g : IsSum(g, f, V)
  BY <1>1, <1>3
<1> DEFINE some(V) == CHOOSE g : IsSum(g, f, V)
           s(V) == some(V)[V]
<1>4. ASSUME NEW V, V \subseteq U, V # U
      PROVE  IsSum(some(V), f, V)
  BY <1>3, <1>4, Zenon
<1> HIDE DEF some
<1>5. ASSUME NEW V, V \subseteq U, V # U
      PROVE  s(V) = IF V = {} THEN 0 ELSE f[Pick(V)] + s(V \ {Pick(V)})
  <2>1. CASE V = {}
    BY <1>4, <1>5, <2>1, IsSumAt
  <2>2. CASE V # {}
    <3> DEFINE W == V \ {Pick(V)}
    <3>1. W \subseteq V /\ W \subseteq U /\ W # U
      BY <1>5
    <3>2. IsSum(some(V), f, V) /\ IsSum(some(W), f, W)
      BY <1>4, <1>5, <3>1
    <3>3. IsFiniteSet(V)
      BY <1>2, <1>5, FS_Subset
    <3> HIDE DEF W
    <3>4. some(V)[W] = some(W)[W]
      BY <3>1, <3>2, <3>3, SumsAgree
    <3>5. some(V)[V] = f[Pick(V)] + some(V)[W]
      BY <2>2, <3>2, IsSumAt DEF W
    <3> QED BY <2>2, <3>4, <3>5 DEF W
  <2> QED BY <2>1, <2>2
<1> HIDE DEF s
<1> DEFINE g == [T \in SUBSET U |-> IF T = {} THEN 0 ELSE f[Pick(T)] + s(T \ {Pick(T)})]
<1>6. ASSUME NEW T \in SUBSET U, T # {}
      PROVE  g[T \ {Pick(T)}] = s(T \ {Pick(T)})
  <2>1. T \ {Pick(T)} \in SUBSET U /\ T \ {Pick(T)} # U
    BY <1>6, PickIn
  <2> QED BY <1>5, <2>1
<1>7. IsSum(g, f, U)
  <2> DEFINE e == [T \in SUBSET U |-> IF T = {} THEN 0 ELSE f[Pick(T)] + g[T \ {Pick(T)}]]
  <2>1. \A T \in SUBSET U : g[T] = e[T]
    BY <1>6
  <2>2. g = e
    BY <2>1
  <2> QED BY <2>2, Zenon DEF IsSum
<1> QED BY <1>2, <1>7

\* The recursion of the sum, in terms of sums alone.
LEMMA SumStep ==
    ASSUME NEW f, NEW S, IsFiniteSet(S)
    PROVE  /\ S = {} => SumFunctionOnSet(f, S) = 0
           /\ S # {} => SumFunctionOnSet(f, S) =
                          f[Pick(S)] + SumFunctionOnSet(f, S \ {Pick(S)})
<1> DEFINE V == S \ {Pick(S)}
<1>1. PICK g : IsSum(g, f, S) /\ SumFunctionOnSet(f, S) = g[S]
  BY SumExists, SumDef, Zenon
<1>2. IsFiniteSet(V) /\ V \subseteq S
  BY FS_RemoveElement
<1>3. PICK h : IsSum(h, f, V) /\ SumFunctionOnSet(f, V) = h[V]
  <2> HIDE DEF V
  <2> QED BY <1>2, SumExists, SumDef, Zenon
<1>4. g[V] = h[V]
  <2> HIDE DEF V
  <2> QED BY <1>1, <1>2, <1>3, SumsAgree
<1>5. S = {} => g[S] = 0
  <2>1. IsSum(g, f, S)
    BY <1>1
  <2> QED BY <2>1 DEF IsSum
<1>6. S # {} => g[S] = f[Pick(S)] + g[V]
  BY <1>1, IsSumAt
<1> QED BY <1>1, <1>3, <1>4, <1>5, <1>6

\* A sum of naturals is a natural.
LEMMA SumNat ==
    ASSUME NEW S, IsFiniteSet(S), NEW f, \A x \in S : f[x] \in Nat
    PROVE  SumFunctionOnSet(f, S) \in Nat
<1> DEFINE A == {T \in SUBSET S : SumFunctionOnSet(f, T) \notin Nat}
<1> SUFFICES ASSUME A # {} PROVE FALSE
  BY DEF A
<1>1. PICK U \in A : \A V \in A : V \subseteq U => V = U
  <2>1. A \subseteq SUBSET S
    OBVIOUS
  <2> HIDE DEF A
  <2> QED BY <2>1, SmallestSet
<1>2. U \subseteq S /\ IsFiniteSet(U) /\ SumFunctionOnSet(f, U) \notin Nat
  BY FS_Subset
<1>3. U # {}
  <2> SUFFICES ASSUME U = {} PROVE FALSE
    OBVIOUS
  <2>1. SumFunctionOnSet(f, U) = 0
    BY <1>2, SumStep
  <2> QED BY <1>2, <2>1
<1> DEFINE V == U \ {Pick(U)}
<1>4. V \subseteq U /\ V # U /\ Pick(U) \in S
  BY <1>2, <1>3, PickIn
<1>5. SumFunctionOnSet(f, V) \in Nat
  BY <1>1, <1>2, <1>4
<1> QED BY <1>2, <1>3, <1>4, <1>5, SumStep

\* A change at one point changes the sum by as much, if the point is in the set.
LEMMA SumUpdate ==
    ASSUME NEW S, IsFiniteSet(S), NEW f, NEW g, NEW a,
           \A x \in S : f[x] \in Nat /\ g[x] \in Nat,
           \A x \in S : x # a => g[x] = f[x]
    PROVE  SumFunctionOnSet(g, S)
              = SumFunctionOnSet(f, S) + (IF a \in S THEN g[a] - f[a] ELSE 0)
<1> DEFINE s(T) == SumFunctionOnSet(f, T)
           r(T) == SumFunctionOnSet(g, T)
           change(T) == IF a \in T THEN g[a] - f[a] ELSE 0
           A == {T \in SUBSET S : r(T) # s(T) + change(T)}
<1> SUFFICES ASSUME A # {} PROVE FALSE
  BY DEF A
<1>1. PICK U \in A : \A V \in A : V \subseteq U => V = U
  <2>1. A \subseteq SUBSET S
    OBVIOUS
  <2> HIDE DEF A
  <2> QED BY <2>1, SmallestSet
<1>2. U \subseteq S /\ IsFiniteSet(U) /\ r(U) # s(U) + change(U)
  BY FS_Subset
<1>3. U # {}
  <2> SUFFICES ASSUME U = {} PROVE FALSE
    OBVIOUS
  <2>1. r(U) = 0 /\ s(U) = 0
    BY <1>2, SumStep
  <2> QED BY <1>2, <2>1
<1> DEFINE p == Pick(U)
           V == U \ {p}
<1>4. V \subseteq U /\ V # U /\ p \in U /\ p \in S /\ IsFiniteSet(V)
  BY <1>2, <1>3, PickIn, FS_RemoveElement
<1>5. r(V) = s(V) + change(V)
  BY <1>1, <1>2, <1>4
<1>6. r(U) = g[p] + r(V) /\ s(U) = f[p] + s(V)
  BY <1>2, <1>3, SumStep
<1>7. s(V) \in Nat /\ f[p] \in Nat /\ g[p] \in Nat /\ change(V) \in Int
  <2>1. V \subseteq S
    BY <1>2, <1>4
  <2>2. change(V) \in Int
    BY <2>1
  <2> HIDE DEF V, change
  <2> QED BY <1>4, <2>1, <2>2, SumNat
<1>8. IF p = a THEN change(V) = 0 /\ change(U) = g[p] - f[p]
              ELSE g[p] = f[p] /\ change(U) = change(V)
  BY <1>4
<1> HIDE DEF s, r, change, V, p
<1> QED BY <1>2, <1>5, <1>6, <1>7, <1>8

-----------------------------------------------------------------------------
(* Types *)

\* The records the operations build from nothing have their types.
LEMMA NoRequestType == NoRequest \in RequestType
BY DEF NoRequest, RequestType

LEMMA NoWinnerType == NoWinner \in WinnerType
BY DEF NoWinner, WinnerType

LEMMA DrawnType == Drawn \in WinnerType
BY DEF Drawn, WinnerType

LEMMA SoleWinnerType == \A p \in Player : SoleWinner(p) \in WinnerType
BY DEF SoleWinner, WinnerType

LEMMA NoTieBreakType == NoTieBreak \in TieBreakType
BY DEF NoTieBreak, TieBreakType

LEMMA FreshTieBreakType == \A n \in Nat : FreshTieBreak(n) \in TieBreakType
BY DEF FreshTieBreak, TieBreakType

LEMMA NoTurnType == NoTurn \in TurnType
BY DEF NoTurn, TurnType

LEMMA ResolveTurnType == \A t \in TurnType, at \in Nat : ResolveTurn(t, at) \in TurnType
<1> SUFFICES ASSUME NEW t \in TurnType, NEW at \in Nat PROVE ResolveTurn(t, at) \in TurnType
  OBVIOUS
<1>1. at + RevealDuration \in Nat
  BY BoundsAssumption
<1> QED BY <1>1 DEF ResolveTurn, TurnType

LEMMA ScheduleType ==
    ASSUME TypeOK, NEW tb \in TieBreakType, NEW at \in Nat, ScheduleTieBreak(tb, at)
    PROVE  /\ status' \in Statuses
           /\ tieBreak' \in TieBreakType
           /\ turn' \in TurnType
           /\ turnCount' \in Nat
           /\ current' \in Int
<1>1. status' \in Statuses
  BY DEF ScheduleTieBreak, Statuses
<1>2. CASE tb.next >= tb.pool
  <2>1. tieBreak' = [tb EXCEPT !.awaiting = TRUE] /\ UNCHANGED <<turn, turnCount, current>>
    BY <1>2 DEF ScheduleTieBreak, TieBreakType
  <2> QED BY <1>1, <2>1 DEF TypeOK, TieBreakType
<1>3. CASE tb.next < tb.pool
  <2>1. /\ tieBreak' = [tb EXCEPT !.next = @ + 1, !.awaiting = FALSE]
        /\ turn' = StartTurn("tie_break", tb.ids, at)
        /\ turnCount' = turnCount + 1
        /\ current' = turnCount
    BY <1>3 DEF ScheduleTieBreak, TieBreakType
  <2>2. tieBreak' \in TieBreakType
    <3>1. tb.next + 1 \in Nat
      BY DEF TieBreakType
    <3> QED BY <2>1, <3>1 DEF TieBreakType
  <2>3. turn' \in TurnType
    BY <2>1, BoundsAssumption DEF StartTurn, TurnType, TieBreakType
  <2> QED BY <1>1, <2>1, <2>2, <2>3 DEF TypeOK
<1> QED BY <1>2, <1>3 DEF TieBreakType

LEMMA CompleteType ==
    ASSUME TypeOK, NEW w \in WinnerType, Complete(w)
    PROVE  /\ status' \in Statuses
           /\ tieBreak' \in TieBreakType
           /\ turn' \in TurnType
           /\ turnCount' \in Nat
           /\ current' \in Int
           /\ winner' \in WinnerType
BY DEF Complete, TypeOK, Statuses, TieBreakType

LEMMA DecideChampionType ==
    ASSUME TypeOK, NEW w \in WinnerType, NEW leaders \in SUBSET Player, NEW at \in Nat,
           DecideChampion(w, leaders, at)
    PROVE  /\ status' \in Statuses
           /\ tieBreak' \in TieBreakType
           /\ turn' \in TurnType
           /\ turnCount' \in Nat
           /\ current' \in Int
           /\ winner' \in WinnerType
<1>1. CASE \E p \in Player :
              CompleteWinner([w EXCEPT !.id = p, !.ids = IF w.team = 0 THEN {p} ELSE @])
  <2>1. PICK p \in Player :
              CompleteWinner([w EXCEPT !.id = p, !.ids = IF w.team = 0 THEN {p} ELSE @])
    BY <1>1
  <2> DEFINE v == [[w EXCEPT !.id = p, !.ids = IF w.team = 0 THEN {p} ELSE @]
                     EXCEPT !.isTie = FALSE]
  <2>2. v \in WinnerType
    BY DEF WinnerType
  <2>3. Complete(v)
    BY <2>1 DEF CompleteWinner
  <2> HIDE DEF v
  <2> QED BY <2>2, <2>3, CompleteType
<1>2. CASE BeginChampionTieBreak(w, leaders, at)
  <2> DEFINE tb == [tieBreak EXCEPT !.active = TRUE, !.phase = "champion",
                                    !.teams = {}, !.ids = leaders]
  <2>1. tb \in TieBreakType
    BY DEF TypeOK, TieBreakType
  <2>2. winner' = w /\ ScheduleTieBreak(tb, at)
    BY <1>2 DEF BeginChampionTieBreak
  <2> HIDE DEF tb
  <2> QED BY <2>1, <2>2, ScheduleType
<1>3. CASE CompleteLegacyTie
  BY <1>3, DrawnType, CompleteType DEF CompleteLegacyTie
<1> QED BY <1>1, <1>2, <1>3 DEF DecideChampion

LEMMA DecideTeamType ==
    ASSUME TypeOK, NEW leaders \in SUBSET (1..2), NEW at \in Nat, DecideTeam(leaders, at)
    PROVE  /\ status' \in Statuses
           /\ tieBreak' \in TieBreakType
           /\ turn' \in TurnType
           /\ turnCount' \in Nat
           /\ current' \in Int
           /\ winner' \in WinnerType
<1>1. CASE \E t \in 1..2 :
              DecideChampion([winner EXCEPT !.team = t, !.ids = PlayersInTeams({t})],
                             LeadingPlayers(PlayersInTeams({t})), at)
  <2>1. PICK t \in 1..2 :
              DecideChampion([winner EXCEPT !.team = t, !.ids = PlayersInTeams({t})],
                             LeadingPlayers(PlayersInTeams({t})), at)
    BY <1>1
  <2> DEFINE w == [winner EXCEPT !.team = t, !.ids = PlayersInTeams({t})]
             L == LeadingPlayers(PlayersInTeams({t}))
  <2>2. w \in WinnerType /\ L \in SUBSET Player
    <3>1. PlayersInTeams({t}) \in SUBSET Player
      BY DEF PlayersInTeams
    <3>2. L \in SUBSET Player
      BY <3>1 DEF LeadingPlayers
    <3>3. w \in WinnerType
      <4>1. winner \in WinnerType /\ t \in 0..2
        BY DEF TypeOK
      <4> QED BY <3>1, <4>1 DEF WinnerType
    <3> QED BY <3>2, <3>3
  <2>3. DecideChampion(w, L, at)
    BY <2>1
  <2> HIDE DEF w, L
  <2> QED BY <2>2, <2>3, DecideChampionType
<1>2. CASE BeginTeamTieBreak(leaders, at)
  <2> DEFINE tb == [tieBreak EXCEPT !.active = TRUE, !.phase = "teams", !.teams = leaders,
                                    !.ids = PlayersInTeams(leaders)]
  <2>1. tb \in TieBreakType
    BY DEF TypeOK, TieBreakType, PlayersInTeams
  <2>2. winner' = winner /\ ScheduleTieBreak(tb, at)
    BY <1>2 DEF BeginTeamTieBreak
  <2> HIDE DEF tb
  <2> QED BY <2>1, <2>2, ScheduleType DEF TypeOK
<1>3. CASE CompleteLegacyTie
  BY <1>3, DrawnType, CompleteType DEF CompleteLegacyTie
<1> QED BY <1>1, <1>2, <1>3 DEF DecideTeam

\* What every returning call does to the call variables and the version.
LEMMA ReturnType ==
    ASSUME TypeOK, Return
    PROVE  /\ loop' \in {"idle", "running", "returning"}
           /\ changed' \in BOOLEAN
           /\ request' \in RequestType
           /\ VersionAfterTick \in Nat
<1>1. loop' = "idle" /\ changed' \in BOOLEAN
  BY DEF Return
<1>2. request' \in RequestType
  BY NoRequestType DEF Return
<1>3. VersionAfterTick \in Nat
  BY DEF TypeOK, VersionAfterTick
<1> QED BY <1>1, <1>2, <1>3

LEMMA FinishStageType ==
    ASSUME TypeOK, TickFinishStage
    PROVE  /\ status' \in Statuses
           /\ tieBreak' \in TieBreakType
           /\ turn' \in TurnType
           /\ turnCount' \in Nat
           /\ current' \in Int
           /\ winner' \in WinnerType
<1> DEFINE at == turn.revealUntil
<1>1. at \in Nat
  BY DEF TypeOK, TurnType
<1>2. ResolveTieBreak(at) \/ ResolveMain(at)
  BY DEF TickFinishStage
<1> HIDE DEF at
<1>3. ASSUME NEW S \in SUBSET Player, DecideChampion(winner, LeadingPlayers(S), at)
      PROVE  /\ status' \in Statuses
             /\ tieBreak' \in TieBreakType
             /\ turn' \in TurnType
             /\ turnCount' \in Nat
             /\ current' \in Int
             /\ winner' \in WinnerType
  <2>1. winner \in WinnerType /\ LeadingPlayers(S) \in SUBSET Player
    BY <1>3 DEF TypeOK, LeadingPlayers
  <2> QED BY <1>1, <1>3, <2>1, DecideChampionType
<1>4. ASSUME NEW T \in SUBSET (1..2), DecideTeam(LeadingTeams(T), at)
      PROVE  /\ status' \in Statuses
             /\ tieBreak' \in TieBreakType
             /\ turn' \in TurnType
             /\ turnCount' \in Nat
             /\ current' \in Int
             /\ winner' \in WinnerType
  <2>1. LeadingTeams(T) \in SUBSET (1..2)
    BY <1>4 DEF LeadingTeams
  <2> QED BY <1>1, <1>4, <2>1, DecideTeamType
<1>5. CASE CompleteLegacyTie
  BY <1>5, DrawnType, CompleteType DEF CompleteLegacyTie
<1>6. tieBreak.ids \in SUBSET Player /\ tieBreak.teams \in SUBSET (1..2)
      /\ {1, 2} \in SUBSET (1..2)
  BY DEF TypeOK, TieBreakType
<1> QED BY <1>2, <1>3, <1>4, <1>5, <1>6 DEF ResolveTieBreak, ResolveMain

LEMMA TypeInductive == TypeOK /\ [Next]_vars => TypeOK'
<1> SUFFICES ASSUME TypeOK, [Next]_vars PROVE TypeOK'
  OBVIOUS
<1> USE DEF TypeOK, Statuses, Playing
<1>1. CASE UNCHANGED vars
  BY <1>1 DEF vars, aggregate, call
<1>2. CASE Operation
  <2>1. ASSUME NEW p \in Player, NEW cards \in SUBSET Card, CommitDeck(p, cards)
        PROVE  TypeOK'
    BY <2>1 DEF CommitDeck, contest, call
  <2>2. ASSUME NEW p \in Player, NEW tb \in BOOLEAN, NEW n \in 1..MaxPool, Start(p, tb, n)
        PROVE  TypeOK'
    <3>1. tieBreak' \in TieBreakType
      BY <2>2, BoundsAssumption, NoTieBreakType, FreshTieBreakType DEF Start
    <3>2. turn' \in TurnType
      BY <2>2, BoundsAssumption DEF Start, StartTurn, TurnType
    <3>3. turnCount' \in Nat
      BY <2>2, TurnsExist DEF Start
    <3> QED BY <2>2, <3>1, <3>2, <3>3 DEF Start, call
  <2>3. ASSUME NEW p \in Player, NEW lag \in TurnLag, NEW right \in Outcomes,
               SubmitAnswer(p, current + lag, right)
        PROVE  TypeOK'
    <3>1. lag \in Int /\ right \in BOOLEAN
      BY BoundsAssumption
    <3>2. current + lag \in Int
      BY <3>1
    <3>3. request' \in RequestType
      BY <2>3, <3>1, <3>2 DEF SubmitAnswer, RequestType
    <3> QED BY <2>3, <3>3 DEF SubmitAnswer, aggregate
  <2>4. ASSUME NEW n \in 1..MaxPool, AddTieBreakQuestions(n)
        PROVE  TypeOK'
    <3> DEFINE tb == [tieBreak EXCEPT !.pool = @ + n]
    <3>1. tieBreak.pool + n \in Nat
      BY BoundsAssumption DEF TieBreakType
    <3>2. tb \in TieBreakType
      BY <3>1 DEF TieBreakType
    <3>3. ScheduleTieBreak(tb, now)
      BY <2>4 DEF AddTieBreakQuestions
    <3> HIDE DEF tb
    <3>4. /\ tieBreak' \in TieBreakType /\ turn' \in TurnType
          /\ status' \in Statuses /\ turnCount' \in Nat /\ current' \in Int
      BY <3>2, <3>3, ScheduleType
    <3> QED BY <2>4, <3>4 DEF AddTieBreakQuestions, call
  <2>5. ASSUME NEW p \in Player, Forfeit(p)
        PROVE  TypeOK'
    <3>1. tieBreak' \in TieBreakType
      BY <2>5 DEF Forfeit, TieBreakType
    <3>2. winner' \in WinnerType
      BY <2>5, NoWinnerType, SoleWinnerType DEF Forfeit
    <3> QED BY <2>5, <3>1, <3>2 DEF Forfeit, call
  <2>6. CASE Tick
    BY <2>6 DEF Tick, aggregate
  <2> QED BY <1>2, <2>1, <2>2, <2>3, <2>4, <2>5, <2>6 DEF Operation
<1>3. CASE LoopStep
  <2>1. CASE TickExpire
    <3>1. turn.deadline \in Nat
      BY DEF TurnType
    <3>2. turn' \in TurnType
      BY <2>1, <3>1, ResolveTurnType DEF TickExpire
    <3> QED BY <2>1, <3>2 DEF TickExpire
  <2>2. CASE TickNextTurn
    <3>1. turn' \in TurnType
      BY <2>2, BoundsAssumption DEF TickNextTurn, StartTurn, TurnType
    <3> QED BY <2>2, <3>1 DEF TickNextTurn
  <2>3. CASE TickFinishStage
    <3>1. loop' \in {"returning", "running"}
      BY <2>3 DEF TickFinishStage
    <3> QED BY <2>3, <3>1, FinishStageType DEF TickFinishStage
  <2>4. CASE TickReturn
    BY <2>4, ReturnType DEF TickReturn, contest
  <2>5. CASE AnswerAccepted
    <3>1. request.user \in Player
      BY <2>5, RosterAssumption DEF AnswerAccepted, Accepts, EligibleFor, TurnType
    <3>2. turn.deadline - now \in Nat
      BY <2>5 DEF AnswerAccepted, Accepts, TurnType
    <3>3. Points(turn.deadline - now) \in Nat
      BY <3>2, PointsType
    <3>4. score' \in [Player -> Nat]
      BY <2>5, <3>1, <3>3 DEF AnswerAccepted
    <3> DEFINE t == [turn EXCEPT !.answered = @ \cup {request.user}]
    <3>5. t \in TurnType
      BY <3>1 DEF TurnType
    <3>6. turn' = t \/ turn' = ResolveTurn(t, now)
      BY <2>5 DEF AnswerAccepted
    <3> HIDE DEF t
    <3>7. turn' \in TurnType
      BY <3>5, <3>6, ResolveTurnType
    <3> QED BY <2>5, <3>4, <3>7, ReturnType DEF AnswerAccepted
  <2>6. CASE AnswerRejected
    BY <2>6, ReturnType DEF AnswerRejected, contest
  <2> QED BY <1>3, <2>1, <2>2, <2>3, <2>4, <2>5, <2>6 DEF LoopStep
<1>4. CASE AdvanceClock
  BY <1>4 DEF AdvanceClock, aggregate, call
<1> QED BY <1>1, <1>2, <1>3, <1>4 DEF Next

LEMMA TypeInit == Init => TypeOK
<1> SUFFICES ASSUME Init PROVE TypeOK
  OBVIOUS
<1>1. turn \in TurnType /\ tieBreak \in TieBreakType /\ winner \in WinnerType
  BY NoTurnType, NoTieBreakType, NoWinnerType DEF Init
<1>2. request \in RequestType
  BY NoRequestType DEF Init
<1>3. changed \in BOOLEAN
  BY DEF Init
<1>4. deck \in [Player -> SUBSET Card] /\ score \in [Player -> Nat]
  BY DEF Init
<1>5. /\ status \in Statuses /\ loop \in {"idle", "running", "returning"}
      /\ now \in Nat /\ startedAt \in Nat /\ turnCount \in Nat /\ current \in Int /\ version \in Nat
  BY DEF Init, Statuses
<1> QED BY <1>1, <1>2, <1>3, <1>4, <1>5 DEF TypeOK

\* The aggregate's fields stay in their types, whatever the roster and the clock do.
THEOREM TypeCorrect == Spec => []TypeOK
BY TypeInit, TypeInductive, PTL DEF Spec

-----------------------------------------------------------------------------
(* Ranking *)

\* The leaders of a candidate set are level with each other and strictly ahead of
\* the other candidates.
LEMMA Leaders ==
    ASSUME TypeOK, NEW S \in SUBSET Player
    PROVE  /\ LeadingPlayers(S) \subseteq S
           /\ \A p, q \in LeadingPlayers(S) : score[p] = score[q]
           /\ \A q \in LeadingPlayers(S), p \in S \ LeadingPlayers(S) : score[p] < score[q]
<1>1. \A p \in S : score[p] \in Nat
  BY DEF TypeOK
<1>2. LeadingPlayers(S) \subseteq S
  BY DEF LeadingPlayers
<1>3. \A p, q \in LeadingPlayers(S) : score[p] = score[q]
  BY <1>1 DEF LeadingPlayers
<1>4. ASSUME NEW q \in LeadingPlayers(S), NEW p \in S \ LeadingPlayers(S)
      PROVE  score[p] < score[q]
  <2>1. PICK r \in S : ~(score[r] <= score[p])
    BY DEF LeadingPlayers
  <2>2. score[r] <= score[q]
    BY DEF LeadingPlayers
  <2> QED BY <1>1, <1>2, <2>1, <2>2
<1> QED BY <1>2, <1>3, <1>4

\* Scheduling a tie-break turn either waits for a question, the pool being used up,
\* or opens a turn for the contenders; the rest of the tie-break state stays.
LEMMA ScheduleCases ==
    ASSUME TypeOK, NEW tb \in TieBreakType, NEW at \in Nat, tb.next <= tb.pool,
           ScheduleTieBreak(tb, at)
    PROVE  /\ status' = "tie_break"
           /\ tieBreak' \in TieBreakType
           /\ tieBreak'.phase = tb.phase /\ tieBreak'.ids = tb.ids /\ tieBreak'.teams = tb.teams
           /\ tieBreak'.enabled = tb.enabled /\ tieBreak'.active = tb.active
           /\ tieBreak'.next <= tieBreak'.pool
           /\ \/ /\ tieBreak'.awaiting /\ tieBreak'.next = tieBreak'.pool
                 /\ turn' = turn /\ turnCount' = turnCount /\ current' = current
                 /\ tb.next = tb.pool
              \/ /\ ~tieBreak'.awaiting
                 /\ turn' = StartTurn("tie_break", tb.ids, at)
                 /\ turnCount' = turnCount + 1 /\ current' = turnCount
<1>0. status' = "tie_break" /\ tieBreak' \in TieBreakType
  BY ScheduleType DEF ScheduleTieBreak
<1>1. CASE tb.next >= tb.pool
  <2>1. /\ tieBreak' = [tb EXCEPT !.awaiting = TRUE]
        /\ turn' = turn /\ turnCount' = turnCount /\ current' = current
    BY <1>1 DEF ScheduleTieBreak, TieBreakType
  <2>2. /\ tieBreak'.phase = tb.phase /\ tieBreak'.ids = tb.ids /\ tieBreak'.teams = tb.teams
        /\ tieBreak'.enabled = tb.enabled /\ tieBreak'.active = tb.active
        /\ tieBreak'.next = tb.next /\ tieBreak'.pool = tb.pool /\ tieBreak'.awaiting
    BY <2>1 DEF TieBreakType
  <2>3. tb.next = tb.pool
    BY <1>1 DEF TieBreakType
  <2> QED BY <1>0, <2>1, <2>2, <2>3 DEF TieBreakType
<1>2. CASE tb.next < tb.pool
  <2>1. /\ tieBreak' = [tb EXCEPT !.next = @ + 1, !.awaiting = FALSE]
        /\ turn' = StartTurn("tie_break", tb.ids, at)
        /\ turnCount' = turnCount + 1 /\ current' = turnCount
    BY <1>2 DEF ScheduleTieBreak, TieBreakType
  <2>2. /\ tieBreak'.phase = tb.phase /\ tieBreak'.ids = tb.ids /\ tieBreak'.teams = tb.teams
        /\ tieBreak'.enabled = tb.enabled /\ tieBreak'.active = tb.active
        /\ tieBreak'.next = tb.next + 1 /\ tieBreak'.pool = tb.pool /\ ~tieBreak'.awaiting
    BY <2>1 DEF TieBreakType
  <2>3. tb.next + 1 <= tb.pool
    BY <1>2 DEF TieBreakType
  <2> QED BY <1>0, <2>1, <2>2, <2>3
<1> QED BY <1>1, <1>2 DEF TieBreakType

\* A draw is declared only where no pool was supplied.
LEMMA LegacyTieInv ==
    ASSUME TypeOK, ContestInv, ~tieBreak.enabled, CompleteLegacyTie, score' = score
    PROVE  ContestInv'
<1>1. /\ status' = "completed"
      /\ winner' = Drawn
      /\ tieBreak' = [tieBreak EXCEPT !.active = FALSE, !.awaiting = FALSE]
  BY DEF CompleteLegacyTie, Complete
<1>2. winner'.isTie /\ winner'.team = 0
  BY <1>1 DEF Drawn
<1>3. /\ ~tieBreak'.awaiting /\ ~tieBreak'.enabled
      /\ tieBreak'.next = tieBreak.next /\ tieBreak'.pool = tieBreak.pool
      /\ tieBreak'.phase = tieBreak.phase
      /\ tieBreak'.ids = tieBreak.ids /\ tieBreak'.teams = tieBreak.teams
  BY <1>1 DEF TypeOK, TieBreakType
<1>4. StageInv'
  BY <1>1, <1>2, <1>3 DEF ContestInv, StageInv, PlayersInTeams
<1>5. TurnInv' /\ DrawInv' /\ RankInv' /\ LevelInv' /\ ChampionLeadsField'
  BY <1>1, <1>2, <1>3 DEF TurnInv, DrawInv, RankInv, LevelInv, ChampionLeadsField, Playing
<1> QED BY <1>4, <1>5 DEF ContestInv

\* A stage that is over: the last turn has been revealed.
LEMMA DecideChampionInv ==
    ASSUME TypeOK, ContestInv, Playing, turn.status = "resolved", ~(current < turnCount - 1),
           NEW w \in WinnerType, NEW S \in SUBSET Player, NEW at \in Nat,
           DecideChampion(w, LeadingPlayers(S), at), score' = score,
           ~w.isTie, Mode # "team" => w.team = 0,
           S \subseteq FieldOf(w),
           \A q \in S, p \in FieldOf(w) \ S : score[p] < score[q]
    PROVE  ContestInv'
<1> DEFINE L == LeadingPlayers(S)
<1>0. /\ L \in SUBSET Player /\ L \subseteq S
      /\ \A p, q \in L : score[p] = score[q]
      /\ \A q \in L, p \in FieldOf(w) \ L : score[p] < score[q]
  BY Leaders
<1>1. CASE \E p \in Player : /\ L = {p}
                             /\ CompleteWinner([w EXCEPT !.id = p,
                                                 !.ids = IF w.team = 0 THEN {p} ELSE @])
  <2>1. PICK p \in Player : /\ L = {p}
                            /\ CompleteWinner([w EXCEPT !.id = p,
                                                 !.ids = IF w.team = 0 THEN {p} ELSE @])
    BY <1>1
  <2> HIDE DEF L
  <2>2. /\ status' = "completed"
        /\ winner'.id = p /\ winner'.team = w.team /\ ~winner'.isTie
        /\ tieBreak' = [tieBreak EXCEPT !.active = FALSE, !.awaiting = FALSE]
    BY <2>1 DEF CompleteWinner, Complete, WinnerType
  <2>3. /\ ~tieBreak'.awaiting
        /\ tieBreak'.next = tieBreak.next /\ tieBreak'.pool = tieBreak.pool
        /\ tieBreak'.phase = tieBreak.phase
        /\ tieBreak'.ids = tieBreak.ids /\ tieBreak'.teams = tieBreak.teams
    BY <2>2 DEF TypeOK, TieBreakType
  <2>4. StageInv'
    BY <2>2, <2>3 DEF ContestInv, StageInv, PlayersInTeams
  <2>5. TurnInv' /\ DrawInv' /\ RankInv' /\ LevelInv'
    BY <2>2, <2>3 DEF TurnInv, DrawInv, RankInv, LevelInv, Playing
  <2>6. Field' = FieldOf(w)
    BY <2>2 DEF Field, FieldOf, PlayersInTeams
  <2>7. ChampionLeadsField'
    BY <1>0, <2>1, <2>2, <2>6 DEF ChampionLeadsField
  <2> QED BY <2>4, <2>5, <2>7 DEF ContestInv
<1>2. CASE tieBreak.enabled /\ BeginChampionTieBreak(w, L, at)
  <2> DEFINE tb == [tieBreak EXCEPT !.active = TRUE, !.phase = "champion",
                                    !.teams = {}, !.ids = L]
  <2>1. /\ winner' = w
        /\ ScheduleTieBreak(tb, at)
    BY <1>2 DEF BeginChampionTieBreak
  <2> HIDE DEF L
  <2>2. /\ tb \in TieBreakType
        /\ tb.phase = "champion" /\ tb.ids = L /\ tb.enabled /\ tb.active
        /\ tb.next = tieBreak.next /\ tb.pool = tieBreak.pool
    BY <1>0, <1>2 DEF TypeOK, TieBreakType
  <2>3. tb.next <= tb.pool
    BY <2>2 DEF ContestInv, StageInv
  <2> HIDE DEF tb
  <2>4. /\ status' = "tie_break"
        /\ tieBreak' \in TieBreakType
        /\ tieBreak'.phase = "champion" /\ tieBreak'.ids = L
        /\ tieBreak'.enabled /\ tieBreak'.active
        /\ tieBreak'.next <= tieBreak'.pool
        /\ \/ /\ tieBreak'.awaiting /\ tieBreak'.next = tieBreak'.pool
              /\ turn' = turn /\ turnCount' = turnCount /\ current' = current
              /\ tieBreak.next = tieBreak.pool
           \/ /\ ~tieBreak'.awaiting
              /\ turn' = StartTurn("tie_break", L, at)
              /\ turnCount' = turnCount + 1 /\ current' = turnCount
    BY <2>1, <2>2, <2>3, ScheduleCases
  <2>5. turn'.kind = "tie_break" /\ (turn'.status = "active" => turn'.eligible = L)
    <3>1. CASE turn' = StartTurn("tie_break", L, at)
      BY <3>1 DEF StartTurn
    <3>2. CASE turn' = turn /\ tieBreak.next = tieBreak.pool
      BY <1>2, <3>2 DEF ContestInv, StageInv, Playing
    <3> QED BY <2>4, <3>1, <3>2
  <2>6. StageInv'
    BY <2>1, <2>4, <2>5 DEF StageInv
  <2>7. TurnInv'
    BY <2>4 DEF TurnInv, ContestInv, Playing, TypeOK
  <2>8. DrawInv'
    BY <2>1 DEF DrawInv
  <2>9. RankInv'
    <3>1. Field' = FieldOf(w)
      BY <2>1 DEF Field, FieldOf, PlayersInTeams
    <3> QED BY <1>0, <2>4, <3>1 DEF RankInv
  <2>10. LevelInv'
    BY <1>0, <2>4 DEF LevelInv
  <2>11. ChampionLeadsField'
    BY <2>4 DEF ChampionLeadsField
  <2> QED BY <2>6, <2>7, <2>8, <2>9, <2>10, <2>11 DEF ContestInv
<1>3. CASE ~tieBreak.enabled /\ CompleteLegacyTie
  BY <1>3, LegacyTieInv
<1> QED BY <1>1, <1>2, <1>3 DEF DecideChampion

LEMMA DecideTeamInv ==
    ASSUME TypeOK, ContestInv, Playing, turn.status = "resolved", ~(current < turnCount - 1),
           Mode = "team", NEW T \in SUBSET (1..2), NEW at \in Nat,
           DecideTeam(LeadingTeams(T), at), score' = score
    PROVE  ContestInv'
<1> DEFINE L == LeadingTeams(T)
<1>0. L \in SUBSET (1..2)
  BY DEF LeadingTeams
<1>1. CASE \E t \in 1..2 :
              DecideChampion([winner EXCEPT !.team = t, !.ids = PlayersInTeams({t})],
                             LeadingPlayers(PlayersInTeams({t})), at)
  <2>1. PICK t \in 1..2 :
              DecideChampion([winner EXCEPT !.team = t, !.ids = PlayersInTeams({t})],
                             LeadingPlayers(PlayersInTeams({t})), at)
    BY <1>1
  <2> DEFINE w == [winner EXCEPT !.team = t, !.ids = PlayersInTeams({t})]
             S == PlayersInTeams({t})
  <2>2. S \in SUBSET Player
    BY DEF PlayersInTeams
  <2>3. winner \in WinnerType /\ t \in 0..2
    BY DEF TypeOK
  <2>4. w \in WinnerType /\ w.team = t /\ w.isTie = winner.isTie
    BY <2>2, <2>3 DEF WinnerType
  <2>5. ~w.isTie
    BY <2>4 DEF ContestInv, DrawInv, Playing
  <2>6. FieldOf(w) = S
    BY <2>4 DEF FieldOf
  <2>7. DecideChampion(w, LeadingPlayers(S), at)
    BY <2>1
  <2> HIDE DEF w, S
  <2> QED BY <2>2, <2>4, <2>5, <2>6, <2>7, DecideChampionInv
<1>2. CASE tieBreak.enabled /\ BeginTeamTieBreak(L, at)
  <2> DEFINE tb == [tieBreak EXCEPT !.active = TRUE, !.phase = "teams", !.teams = L,
                                    !.ids = PlayersInTeams(L)]
  <2>1. winner' = winner /\ ScheduleTieBreak(tb, at)
    BY <1>2 DEF BeginTeamTieBreak
  <2> HIDE DEF L
  <2>2. PlayersInTeams(L) \in SUBSET Player
    BY DEF PlayersInTeams
  <2>3. /\ tb \in TieBreakType
        /\ tb.phase = "teams" /\ tb.teams = L /\ tb.ids = PlayersInTeams(L)
        /\ tb.enabled /\ tb.active
        /\ tb.next = tieBreak.next /\ tb.pool = tieBreak.pool
    BY <1>0, <1>2, <2>2 DEF TypeOK, TieBreakType
  <2>4. tb.next <= tb.pool
    BY <2>3 DEF ContestInv, StageInv
  <2> HIDE DEF tb
  <2>5. /\ status' = "tie_break"
        /\ tieBreak'.phase = "teams" /\ tieBreak'.teams = L
        /\ tieBreak'.ids = PlayersInTeams(L)
        /\ tieBreak'.enabled /\ tieBreak'.active
        /\ tieBreak'.next <= tieBreak'.pool
        /\ \/ /\ tieBreak'.awaiting /\ tieBreak'.next = tieBreak'.pool
              /\ turn' = turn /\ turnCount' = turnCount /\ current' = current
              /\ tieBreak.next = tieBreak.pool
           \/ /\ ~tieBreak'.awaiting
              /\ turn' = StartTurn("tie_break", PlayersInTeams(L), at)
              /\ turnCount' = turnCount + 1 /\ current' = turnCount
    BY <2>1, <2>3, <2>4, ScheduleCases
  <2>6. /\ turn'.kind = "tie_break"
        /\ turn'.status = "active" => turn'.eligible = PlayersInTeams(L)
    <3>1. CASE turn' = StartTurn("tie_break", PlayersInTeams(L), at)
      BY <3>1 DEF StartTurn
    <3>2. CASE turn' = turn /\ tieBreak.next = tieBreak.pool
      BY <1>2, <3>2 DEF ContestInv, StageInv, Playing
    <3> QED BY <2>5, <3>1, <3>2
  <2>8. StageInv'
    BY <2>1, <2>5, <2>6 DEF StageInv, PlayersInTeams
  <2>9. TurnInv'
    BY <2>5 DEF TurnInv, ContestInv, Playing, TypeOK
  <2>10. DrawInv'
    BY <2>1 DEF DrawInv, ContestInv, Playing
  <2>11. RankInv' /\ LevelInv' /\ ChampionLeadsField'
    BY <2>5 DEF RankInv, LevelInv, ChampionLeadsField
  <2> QED BY <2>8, <2>9, <2>10, <2>11 DEF ContestInv
<1>3. CASE ~tieBreak.enabled /\ CompleteLegacyTie
  BY <1>3, LegacyTieInv
<1> QED BY <1>1, <1>2, <1>3 DEF DecideTeam

LEMMA FinishStageInv ==
    ASSUME IInv, TickFinishStage PROVE ContestInv'
<1> DEFINE at == turn.revealUntil
<1>1. /\ TypeOK /\ ContestInv /\ Playing
      /\ turn.status = "resolved" /\ ~(current < turnCount - 1)
      /\ score' = score
  BY DEF IInv, LoopInv, TickFinishStage, RevealIsOver, TypeOK
<1>2. at \in Nat
  BY <1>1 DEF TypeOK, TurnType
<1>3. CASE turn.kind = "tie_break" /\ ResolveTieBreak(at)
  <2>1. status = "tie_break" /\ tieBreak.phase # "none"
    BY <1>1, <1>3 DEF ContestInv, StageInv, Playing
  <2>2. tieBreak \in TieBreakType /\ winner \in WinnerType /\ ~winner.isTie
    BY <1>1, <2>1 DEF TypeOK, ContestInv, DrawInv
  <2>3. CASE tieBreak.phase = "teams" /\ DecideTeam(LeadingTeams(tieBreak.teams), at)
    <3>1. Mode = "team" /\ tieBreak.teams \in SUBSET (1..2)
      BY <1>1, <2>2, <2>3 DEF ContestInv, StageInv, TieBreakType
    <3> HIDE DEF at
    <3> QED BY <1>1, <1>2, <2>3, <3>1, DecideTeamInv
  <2>4. CASE /\ tieBreak.phase = "champion"
             /\ DecideChampion(winner, LeadingPlayers(tieBreak.ids), at)
    <3>1. /\ tieBreak.ids \in SUBSET Player
          /\ Mode # "team" => winner.team = 0
      BY <1>1, <2>2 DEF ContestInv, StageInv, TieBreakType
    <3>2. /\ tieBreak.ids \subseteq FieldOf(winner)
          /\ \A q \in tieBreak.ids, p \in FieldOf(winner) \ tieBreak.ids : score[p] < score[q]
      BY <1>1, <2>1, <2>4 DEF ContestInv, RankInv, Field
    <3> HIDE DEF at
    <3> QED BY <1>1, <1>2, <2>2, <2>4, <3>1, <3>2, DecideChampionInv
  <2> QED BY <1>3, <2>1, <2>2, <2>3, <2>4 DEF ResolveTieBreak
<1>4. CASE turn.kind = "main" /\ ResolveMain(at)
  <2>1. winner \in WinnerType /\ ~winner.isTie /\ (Mode # "team" => winner.team = 0)
    BY <1>1 DEF TypeOK, ContestInv, DrawInv, StageInv, Playing
  <2>2. CASE Mode = "team" /\ DecideTeam(LeadingTeams({1, 2}), at)
    <3>1. {1, 2} \in SUBSET (1..2)
      OBVIOUS
    <3> HIDE DEF at
    <3> QED BY <1>1, <1>2, <2>2, <3>1, DecideTeamInv
  <2>3. CASE Mode # "team" /\ DecideChampion(winner, LeadingPlayers(Player), at)
    <3>1. FieldOf(winner) = Player /\ Player \in SUBSET Player
      BY <2>3 DEF FieldOf
    <3> HIDE DEF at
    <3> QED BY <1>1, <1>2, <2>1, <2>3, <3>1, DecideChampionInv
  <2> QED BY <1>4, <2>2, <2>3 DEF ResolveMain
<1> QED BY <1>1, <1>3, <1>4 DEF TickFinishStage, TypeOK, TurnType

-----------------------------------------------------------------------------
(* The inductive invariant *)

\* An operation that leaves these fields alone leaves ContestInv alone.
LEMMA ContestUnchanged ==
    ASSUME ContestInv, UNCHANGED <<status, contest>> PROVE ContestInv'
BY DEF contest, ContestInv, StageInv, TurnInv, DrawInv, RankInv, LevelInv, ChampionLeadsField,
       Field, FieldOf, PlayersInTeams, Playing

LEMMA StartInv ==
    ASSUME IInv, NEW p \in Player, NEW tb \in BOOLEAN, NEW n \in 1..MaxPool, Start(p, tb, n)
    PROVE  ContestInv'
<1>1. /\ status' = "active" /\ winner' = winner /\ winner.id = NoPlayer /\ ~winner.isTie
      /\ turn' = StartTurn("main", Player, now)
      /\ turnCount' = DeckSize * Cardinality(Player) /\ current' = 0
  BY DEF IInv, ContestInv, StageInv, DrawInv, Start
<1>2. /\ tieBreak'.phase = "none" /\ tieBreak'.next = 0 /\ ~tieBreak'.awaiting
      /\ tieBreak'.enabled => tieBreak'.pool > 0
      /\ tieBreak'.next <= tieBreak'.pool
  BY BoundsAssumption DEF Start, FreshTieBreak, NoTieBreak
<1>3. StageInv'
  BY <1>1, <1>2 DEF IInv, ContestInv, StageInv, StartTurn
<1>4. TurnInv'
  BY <1>1, <1>2, TurnsExist DEF TurnInv
<1>5. DrawInv' /\ RankInv' /\ LevelInv' /\ ChampionLeadsField'
  BY <1>1 DEF DrawInv, RankInv, LevelInv, ChampionLeadsField
<1> QED BY <1>3, <1>4, <1>5 DEF ContestInv

LEMMA AddQuestionsInv ==
    ASSUME IInv, NEW n \in 1..MaxPool, AddTieBreakQuestions(n) PROVE ContestInv'
<1> DEFINE tb == [tieBreak EXCEPT !.pool = @ + n]
<1>1. /\ status = "tie_break" /\ tieBreak.awaiting /\ tieBreak.enabled
      /\ ScheduleTieBreak(tb, now) /\ score' = score /\ winner' = winner
  BY DEF AddTieBreakQuestions
<1>2. tieBreak \in TieBreakType /\ n \in Nat /\ now \in Nat /\ TypeOK
  BY BoundsAssumption DEF IInv, TypeOK
<1>3. tieBreak.pool + n \in Nat
  BY <1>2 DEF TieBreakType
<1>4. /\ tb \in TieBreakType
      /\ tb.phase = tieBreak.phase /\ tb.ids = tieBreak.ids /\ tb.teams = tieBreak.teams
      /\ tb.enabled = tieBreak.enabled /\ tb.active = tieBreak.active
      /\ tb.next = tieBreak.next /\ tb.pool = tieBreak.pool + n
  BY <1>2, <1>3 DEF TieBreakType
<1> HIDE DEF tb
<1>5. tb.next <= tb.pool /\ tb.next # tb.pool
  BY <1>1, <1>2, <1>4 DEF IInv, ContestInv, TurnInv, TieBreakType
<1>6. /\ status' = "tie_break"
      /\ tieBreak'.phase = tieBreak.phase /\ tieBreak'.ids = tieBreak.ids
      /\ tieBreak'.teams = tieBreak.teams
      /\ tieBreak'.enabled = tieBreak.enabled /\ tieBreak'.active = tieBreak.active
      /\ tieBreak'.next <= tieBreak'.pool
      /\ ~tieBreak'.awaiting
      /\ turn' = StartTurn("tie_break", tieBreak.ids, now)
      /\ turnCount' = turnCount + 1 /\ current' = turnCount
  BY <1>1, <1>2, <1>4, <1>5, ScheduleCases
<1>7. turn'.kind = "tie_break" /\ turn'.eligible = tieBreak.ids
  BY <1>6 DEF StartTurn
<1>8. StageInv'
  BY <1>1, <1>6, <1>7 DEF IInv, ContestInv, StageInv, PlayersInTeams
<1>9. TurnInv'
  BY <1>1, <1>2, <1>6 DEF IInv, ContestInv, TurnInv, Playing, TypeOK
<1>10. DrawInv' /\ ChampionLeadsField'
  BY <1>1, <1>6 DEF IInv, ContestInv, DrawInv, ChampionLeadsField
<1>11. RankInv' /\ LevelInv'
  BY <1>1, <1>6 DEF IInv, ContestInv, RankInv, LevelInv, Field, FieldOf, PlayersInTeams
<1> QED BY <1>8, <1>9, <1>10, <1>11 DEF ContestInv

LEMMA ForfeitInv ==
    ASSUME IInv, NEW p \in Player, Forfeit(p) PROVE ContestInv'
<1>1. /\ status' = "forfeited" /\ turn' = turn
      /\ tieBreak' = [tieBreak EXCEPT !.active = FALSE, !.awaiting = FALSE]
  BY DEF Forfeit
<1>2. ~winner'.isTie /\ winner'.team = 0
  BY DEF Forfeit, SoleWinner, NoWinner
<1>3. /\ ~tieBreak'.awaiting
      /\ tieBreak'.next = tieBreak.next /\ tieBreak'.pool = tieBreak.pool
      /\ tieBreak'.phase = tieBreak.phase
      /\ tieBreak'.ids = tieBreak.ids /\ tieBreak'.teams = tieBreak.teams
  BY <1>1 DEF IInv, TypeOK, TieBreakType
<1>4. StageInv'
  BY <1>1, <1>2, <1>3 DEF IInv, ContestInv, StageInv, PlayersInTeams
<1>5. TurnInv' /\ DrawInv' /\ RankInv' /\ LevelInv' /\ ChampionLeadsField'
  BY <1>1, <1>2, <1>3 DEF TurnInv, DrawInv, RankInv, LevelInv, ChampionLeadsField, Playing
<1> QED BY <1>4, <1>5 DEF ContestInv

\* Points raise the score of a contender only, so nobody dropped catches up.
LEMMA AnswerInv ==
    ASSUME IInv, AnswerAccepted PROVE ContestInv'
<1> DEFINE u == request.user
           t == [turn EXCEPT !.answered = @ \cup {u}]
<1>1. /\ TypeOK /\ ContestInv /\ Playing
      /\ turn.status = "active" /\ u \in EligibleFor(turn)
      /\ UNCHANGED <<status, turnCount, current, tieBreak, winner>>
  BY DEF IInv, AnswerAccepted, Accepts, TypeOK
<1>2. u \in Player /\ turn \in TurnType
  BY <1>1, RosterAssumption DEF EligibleFor, TurnType, TypeOK
<1>3. PICK d \in Nat : score' = [score EXCEPT ![u] = @ + d]
  <2>1. turn.deadline - now \in Nat
    BY <1>1, <1>2 DEF AnswerAccepted, Accepts, TurnType, TypeOK
  <2>2. Points(turn.deadline - now) \in Nat
    BY <2>1, PointsType
  <2> QED BY <2>2 DEF AnswerAccepted
<1>4. turn' = t \/ turn' = ResolveTurn(t, now)
  BY DEF AnswerAccepted
<1>5. /\ turn'.kind = turn.kind /\ turn'.eligible = turn.eligible
      /\ turn'.answered # {}
  BY <1>2, <1>4 DEF ResolveTurn, TurnType
<1> HIDE DEF t
<1>6. ~tieBreak.awaiting
  BY <1>1 DEF ContestInv, TurnInv
<1>7. StageInv'
  BY <1>1, <1>5 DEF ContestInv, StageInv, PlayersInTeams
<1>8. TurnInv' /\ DrawInv' /\ LevelInv'
  BY <1>1, <1>5, <1>6 DEF ContestInv, TurnInv, DrawInv, LevelInv, Playing
<1>9. RankInv'
  <2> SUFFICES ASSUME status = "tie_break", tieBreak.phase = "champion"
               PROVE  /\ tieBreak.ids \subseteq Field
                      /\ \A q \in tieBreak.ids, p \in Field \ tieBreak.ids : score'[p] < score'[q]
    BY <1>1 DEF RankInv, Field, FieldOf, PlayersInTeams
  <2>1. /\ tieBreak.ids \subseteq Field /\ Field \subseteq Player
        /\ \A q \in tieBreak.ids, p \in Field \ tieBreak.ids : score[p] < score[q]
    BY <1>1 DEF ContestInv, RankInv, Field, FieldOf, PlayersInTeams
  <2>2. tieBreak.ids # {} => u \in tieBreak.ids
    BY <1>1 DEF ContestInv, StageInv, EligibleFor
  <2>3. \A p \in Player : /\ score[p] \in Nat
                          /\ score'[p] = IF p = u THEN score[p] + d ELSE score[p]
    BY <1>1, <1>2, <1>3 DEF TypeOK
  <2> QED BY <2>1, <2>2, <2>3
<1>10. ChampionLeadsField'
  BY <1>1 DEF ChampionLeadsField, Playing
<1> QED BY <1>7, <1>8, <1>9, <1>10 DEF ContestInv

\* A stage that is over opens a tie-break or completes the match.
LEMMA FinishStatus ==
    ASSUME TickFinishStage PROVE status' \in {"tie_break", "completed"}
<1>1. ASSUME NEW tb, NEW at, ScheduleTieBreak(tb, at) PROVE status' = "tie_break"
  BY <1>1 DEF ScheduleTieBreak
<1>2. ASSUME NEW w, Complete(w) PROVE status' = "completed"
  BY <1>2 DEF Complete
<1>3. ASSUME NEW w, NEW S, NEW at, DecideChampion(w, S, at)
      PROVE  status' \in {"tie_break", "completed"}
  BY <1>1, <1>2, <1>3 DEF DecideChampion, CompleteWinner, BeginChampionTieBreak, CompleteLegacyTie
<1>4. ASSUME NEW T, NEW at, DecideTeam(T, at) PROVE status' \in {"tie_break", "completed"}
  BY <1>1, <1>2, <1>3, <1>4 DEF DecideTeam, BeginTeamTieBreak, CompleteLegacyTie
<1>5. ResolveTieBreak(turn.revealUntil) \/ ResolveMain(turn.revealUntil)
  BY DEF TickFinishStage
<1> QED BY <1>2, <1>3, <1>4, <1>5 DEF ResolveTieBreak, ResolveMain, CompleteLegacyTie

LEMMA InvInductive == IInv /\ [Next]_vars => IInv'
<1> SUFFICES ASSUME IInv, [Next]_vars PROVE LoopInv' /\ ContestInv'
  BY TypeInductive DEF IInv
<1> USE DEF IInv
<1>1. CASE UNCHANGED vars
  <2>1. UNCHANGED <<status, contest, loop>>
    BY <1>1 DEF vars, aggregate, contest, call
  <2> QED BY <2>1, ContestUnchanged DEF LoopInv, Playing
<1>2. CASE Operation
  <2>1. ASSUME NEW p \in Player, NEW cards \in SUBSET Card, CommitDeck(p, cards)
        PROVE  LoopInv' /\ ContestInv'
    BY <2>1, ContestUnchanged DEF CommitDeck, call, LoopInv, Playing
  <2>2. ASSUME NEW p \in Player, NEW tb \in BOOLEAN, NEW n \in 1..MaxPool, Start(p, tb, n)
        PROVE  LoopInv' /\ ContestInv'
    BY <2>2, StartInv DEF Start, call, LoopInv
  <2>3. ASSUME NEW p \in Player, NEW lag \in TurnLag, NEW right \in Outcomes,
               SubmitAnswer(p, current + lag, right)
        PROVE  LoopInv' /\ ContestInv'
    BY <2>3, ContestUnchanged DEF SubmitAnswer, aggregate, contest, LoopInv, Playing
  <2>4. ASSUME NEW n \in 1..MaxPool, AddTieBreakQuestions(n)
        PROVE  LoopInv' /\ ContestInv'
    BY <2>4, AddQuestionsInv DEF AddTieBreakQuestions, call, LoopInv
  <2>5. ASSUME NEW p \in Player, Forfeit(p)
        PROVE  LoopInv' /\ ContestInv'
    BY <2>5, ForfeitInv DEF Forfeit, call, LoopInv
  <2>6. CASE Tick
    BY <2>6, ContestUnchanged DEF Tick, aggregate, contest, LoopInv, Playing
  <2> QED BY <1>2, <2>1, <2>2, <2>3, <2>4, <2>5, <2>6 DEF Operation
<1>3. CASE LoopStep
  <2>1. CASE TickExpire
    <3>1. /\ turn'.kind = turn.kind /\ turn'.status = "resolved"
          /\ UNCHANGED <<status, score, turnCount, current, tieBreak, winner, loop>>
      BY <2>1 DEF TickExpire, ResolveTurn, TypeOK, TurnType
    <3>2. ~tieBreak.awaiting
      BY <2>1 DEF TickExpire, ContestInv, TurnInv
    <3> QED BY <3>1, <3>2 DEF LoopInv, ContestInv, StageInv, TurnInv, DrawInv, RankInv, LevelInv,
                              ChampionLeadsField, Field, FieldOf, PlayersInTeams, Playing
  <2>2. CASE TickNextTurn
    <3>1. /\ turn' = StartTurn("main", Player, turn.revealUntil)
          /\ current < turnCount - 1 /\ current' = current + 1 /\ loop = "running"
          /\ UNCHANGED <<status, score, turnCount, tieBreak, winner, loop>>
      BY <2>2 DEF TickNextTurn
    <3>2. turn'.kind = "main"
      BY <3>1 DEF StartTurn
    <3>3. status = "active"
      BY <3>1 DEF LoopInv, ContestInv, TurnInv, Playing, TypeOK
    <3> QED BY <3>1, <3>2, <3>3 DEF LoopInv, ContestInv, StageInv, TurnInv, DrawInv, RankInv,
                              LevelInv, ChampionLeadsField, Field, FieldOf, PlayersInTeams, Playing,
                              TypeOK
  <2>3. CASE TickFinishStage
    <3>1. LoopInv'
      BY <2>3, FinishStatus DEF LoopInv, Playing, TickFinishStage
    <3> QED BY <2>3, <3>1, FinishStageInv
  <2>4. CASE TickReturn
    BY <2>4, ContestUnchanged DEF TickReturn, Return, LoopInv
  <2>5. CASE AnswerAccepted
    BY <2>5, AnswerInv DEF AnswerAccepted, Return, LoopInv
  <2>6. CASE AnswerRejected
    BY <2>6, ContestUnchanged DEF AnswerRejected, Return, LoopInv
  <2> QED BY <1>3, <2>1, <2>2, <2>3, <2>4, <2>5, <2>6 DEF LoopStep
<1>4. CASE AdvanceClock
  BY <1>4, ContestUnchanged DEF AdvanceClock, aggregate, contest, call, LoopInv, Playing
<1> QED BY <1>1, <1>2, <1>3, <1>4 DEF Next

LEMMA IInvInit == Init => IInv
<1> SUFFICES ASSUME Init PROVE LoopInv /\ ContestInv
  BY TypeInit DEF IInv
<1>1. LoopInv /\ TurnInv
  BY DEF Init, LoopInv, TurnInv, NoTieBreak, Playing
<1>2. StageInv
  BY DEF Init, StageInv, NoTieBreak, NoWinner
<1>3. DrawInv /\ RankInv /\ LevelInv /\ ChampionLeadsField
  BY DEF Init, DrawInv, RankInv, LevelInv, ChampionLeadsField, NoWinner
<1> QED BY <1>1, <1>2, <1>3 DEF ContestInv

\* The inductive invariant holds of every match.
THEOREM InvCorrect == Spec => []IInv
<1> QED BY IInvInit, InvInductive, PTL DEF Spec

\* The recorded winner outscores everyone in his field (resolveMain, resolveTieBreak,
\* resolveChampion), after any number of tie-break rounds.
THEOREM ChampionLeads == Spec => []ChampionLeadsField
<1>1. IInv => ChampionLeadsField
  BY DEF IInv, ContestInv
<1> QED BY <1>1, InvCorrect, PTL

\* A match started with a question pool (StartWithTieBreak) never ends in a draw.
THEOREM NoDrawWithPool == Spec => []DrawOnlyWithoutPool
<1>1. IInv => DrawOnlyWithoutPool
  BY DEF IInv, ContestInv, DrawInv, DrawOnlyWithoutPool
<1> QED BY <1>1, InvCorrect, PTL

\* A match waits for questions only when its pool is used up and its last turn over,
\* and an open tie-break turn is for exactly the contenders (scheduleTieBreak).
THEOREM TieBreakCorrect == Spec => []TieBreakConsistent
<1>1. IInv => TieBreakConsistent
  BY DEF IInv, ContestInv, StageInv, TurnInv, TieBreakConsistent
<1> QED BY <1>1, InvCorrect, PTL

\* The contenders of a champion tie-break are level when a turn of it opens.
THEOREM LevelAtOpening == Spec => []LevelStart
<1>1. IInv => LevelStart
  BY DEF IInv, ContestInv, LevelInv, LevelStart
<1> QED BY <1>1, InvCorrect, PTL

-----------------------------------------------------------------------------
(* The schedule of the main turns *)

\* How long the current turn is open and shown, and where the main turns lie.
ScheduleInv ==
    /\ turn.status = "active" => turn.deadline = turn.startedAt + TurnDuration
    /\ status = "active" =>
          /\ turn.status # "pending"
          /\ turn.startedAt <= startedAt + current * (TurnDuration + RevealDuration)
          /\ turn.startedAt >= startedAt + current * RevealDuration
          /\ turn.status = "resolved" =>
                /\ turn.revealUntil >= turn.startedAt + RevealDuration
                /\ turn.revealUntil <= turn.startedAt + (TurnDuration + RevealDuration)

\* One window more.
LEMMA NextWindow ==
    ASSUME NEW n \in Int, NEW w \in Nat
    PROVE  n * w \in Int /\ (n + 1) * w = n * w + w
OBVIOUS

LEMMA SameSchedule ==
    ASSUME ScheduleInv, UNCHANGED <<status, startedAt, current, turn>> PROVE ScheduleInv'
BY DEF ScheduleInv

\* Whatever is decided when a stage ends, the turn stays or a tie-break turn opens.
LEMMA FinishTurn ==
    ASSUME TickFinishStage
    PROVE  \/ turn' = turn
           \/ turn'.status = "active" /\ turn'.deadline = turn'.startedAt + TurnDuration
<1> DEFINE Fine == \/ turn' = turn
                   \/ turn'.status = "active" /\ turn'.deadline = turn'.startedAt + TurnDuration
<1>1. ASSUME NEW tb, NEW at, ScheduleTieBreak(tb, at) PROVE Fine
  BY <1>1 DEF ScheduleTieBreak, StartTurn
<1>2. ASSUME NEW w, Complete(w) PROVE Fine
  BY <1>2 DEF Complete
<1> HIDE DEF Fine
<1>3. ASSUME NEW w, NEW S, NEW at, DecideChampion(w, S, at) PROVE Fine
  BY <1>1, <1>2, <1>3 DEF DecideChampion, CompleteWinner, BeginChampionTieBreak, CompleteLegacyTie
<1>4. ASSUME NEW T, NEW at, DecideTeam(T, at) PROVE Fine
  BY <1>1, <1>2, <1>3, <1>4 DEF DecideTeam, BeginTeamTieBreak, CompleteLegacyTie
<1>5. ResolveTieBreak(turn.revealUntil) \/ ResolveMain(turn.revealUntil)
  BY DEF TickFinishStage
<1>6. Fine
  BY <1>2, <1>3, <1>4, <1>5 DEF ResolveTieBreak, ResolveMain, CompleteLegacyTie
<1> QED BY <1>6 DEF Fine

LEMMA ScheduleInductive == IInv /\ ScheduleInv /\ [Next]_vars => ScheduleInv'
<1> SUFFICES ASSUME IInv, ScheduleInv, [Next]_vars PROVE ScheduleInv'
  OBVIOUS
<1> DEFINE D == TurnDuration
           R == RevealDuration
<1>0. /\ D \in Nat /\ R \in Nat /\ D + R \in Nat
      /\ turn \in TurnType /\ now \in Nat /\ startedAt \in Nat /\ current \in Int
  BY BoundsAssumption DEF IInv, TypeOK
<1>1. CASE UNCHANGED vars
  BY <1>1, SameSchedule DEF vars, aggregate
<1>2. CASE Operation
  <2>1. ASSUME NEW p \in Player, NEW cards \in SUBSET Card, CommitDeck(p, cards)
        PROVE  ScheduleInv'
    BY <2>1, SameSchedule DEF CommitDeck, contest
  <2>2. ASSUME NEW p \in Player, NEW tb \in BOOLEAN, NEW n \in 1..MaxPool, Start(p, tb, n)
        PROVE  ScheduleInv'
    <3>1. /\ turn'.status = "active" /\ turn'.startedAt = now /\ turn'.deadline = now + D
          /\ startedAt' = now /\ current' = 0
      BY <2>2 DEF Start, StartTurn
    <3>2. 0 * (D + R) = 0 /\ 0 * R = 0
      BY <1>0
    <3> QED BY <1>0, <3>1, <3>2 DEF ScheduleInv
  <2>3. ASSUME NEW p \in Player, NEW lag \in TurnLag, NEW right \in Outcomes,
               SubmitAnswer(p, current + lag, right)
        PROVE  ScheduleInv'
    BY <2>3, SameSchedule DEF SubmitAnswer, aggregate
  <2>4. ASSUME NEW n \in 1..MaxPool, AddTieBreakQuestions(n)
        PROVE  ScheduleInv'
    <3>1. PICK tb : ScheduleTieBreak(tb, now)
      BY <2>4 DEF AddTieBreakQuestions
    <3>2. /\ status' = "tie_break"
          /\ \/ turn' = turn
             \/ turn'.deadline = turn'.startedAt + D
      BY <3>1 DEF ScheduleTieBreak, StartTurn
    <3> QED BY <3>2 DEF ScheduleInv
  <2>5. ASSUME NEW p \in Player, Forfeit(p)
        PROVE  ScheduleInv'
    BY <2>5 DEF Forfeit, ScheduleInv
  <2>6. CASE Tick
    BY <2>6, SameSchedule DEF Tick, aggregate
  <2> QED BY <1>2, <2>1, <2>2, <2>3, <2>4, <2>5, <2>6 DEF Operation
<1>3. CASE LoopStep
  <2>1. CASE TickExpire
    <3>1. /\ turn.status = "active"
          /\ turn'.status = "resolved" /\ turn'.startedAt = turn.startedAt
          /\ turn'.revealUntil = turn.deadline + R
          /\ UNCHANGED <<status, startedAt, current>>
      BY <1>0, <2>1 DEF TickExpire, ResolveTurn, TurnType
    <3>2. turn.startedAt \in Nat /\ turn.deadline \in Nat
      BY <1>0 DEF TurnType
    <3>3. turn'.revealUntil = turn.startedAt + (D + R)
      BY <1>0, <3>1, <3>2 DEF ScheduleInv
    <3>4. /\ turn'.revealUntil >= turn.startedAt + R
          /\ turn'.revealUntil <= turn.startedAt + (D + R)
      BY <1>0, <3>2, <3>3
    <3> QED BY <3>1, <3>4 DEF ScheduleInv
  <2>2. CASE TickNextTurn
    <3>1. /\ turn.status = "resolved"
          /\ turn'.status = "active" /\ turn'.startedAt = turn.revealUntil
          /\ turn'.deadline = turn.revealUntil + D
          /\ current' = current + 1
          /\ UNCHANGED <<status, startedAt>>
      BY <2>2 DEF TickNextTurn, RevealIsOver, StartTurn
    <3>2. status = "active"
      BY <2>2 DEF TickNextTurn, IInv, LoopInv, ContestInv, TurnInv, Playing, TypeOK
    <3>3. /\ turn.startedAt <= startedAt + current * (D + R)
          /\ turn.startedAt >= startedAt + current * R
          /\ turn.revealUntil >= turn.startedAt + R
          /\ turn.revealUntil <= turn.startedAt + (D + R)
      BY <3>1, <3>2 DEF ScheduleInv
    <3>4. turn.startedAt \in Nat /\ turn.revealUntil \in Nat
      BY <1>0 DEF TurnType
    <3> DEFINE m == current * (D + R)
               n == current * R
    <3>5. /\ m \in Int /\ n \in Int
          /\ (current + 1) * (D + R) = m + (D + R) /\ (current + 1) * R = n + R
      BY <1>0, NextWindow
    <3>6. turn.revealUntil <= startedAt + (m + (D + R)) /\ turn.revealUntil >= startedAt + (n + R)
      <4> HIDE DEF m, n
      <4>1. /\ turn.startedAt <= startedAt + m
            /\ turn.startedAt >= startedAt + n
        BY <3>3 DEF m, n
      <4> QED BY <1>0, <3>3, <3>4, <3>5, <4>1
    <3>7. /\ turn'.startedAt <= startedAt' + current' * (D + R)
          /\ turn'.startedAt >= startedAt' + current' * R
      BY <3>1, <3>5, <3>6
    <3> QED BY <3>1, <3>7 DEF ScheduleInv
  <2>3. CASE TickFinishStage
    BY <2>3, FinishStatus, FinishTurn DEF ScheduleInv
  <2>4. CASE TickReturn \/ AnswerRejected
    BY <2>4, SameSchedule DEF TickReturn, AnswerRejected, contest
  <2>5. CASE AnswerAccepted
    <3>1. /\ turn.status = "active" /\ now >= turn.startedAt /\ now < turn.deadline
          /\ UNCHANGED <<status, startedAt, current>>
      BY <2>5 DEF AnswerAccepted, Accepts
    <3> DEFINE t == [turn EXCEPT !.answered = @ \cup {request.user}]
    <3>2. turn' = t \/ turn' = ResolveTurn(t, now)
      BY <2>5 DEF AnswerAccepted
    <3>3. /\ turn'.startedAt = turn.startedAt /\ turn'.deadline = turn.deadline
          /\ \/ turn'.status = "active"
             \/ turn'.status = "resolved" /\ turn'.revealUntil = now + R
      BY <1>0, <3>1, <3>2 DEF ResolveTurn, TurnType
    <3>4. turn.startedAt \in Nat /\ turn.deadline = turn.startedAt + D
      BY <1>0, <3>1 DEF TurnType, ScheduleInv
    <3>5. now + R >= turn.startedAt + R /\ now + R <= turn.startedAt + (D + R)
      BY <1>0, <3>1, <3>4
    <3> QED BY <3>1, <3>3, <3>5 DEF ScheduleInv
  <2> QED BY <1>3, <2>1, <2>2, <2>3, <2>4, <2>5 DEF LoopStep
<1>4. CASE AdvanceClock
  BY <1>4, SameSchedule DEF AdvanceClock, aggregate
<1> QED BY <1>1, <1>2, <1>3, <1>4 DEF Next

LEMMA ScheduleCorrect == Spec => []ScheduleInv
<1>1. Init => ScheduleInv
  BY DEF Init, ScheduleInv, NoTurn
<1> QED BY <1>1, ScheduleInductive, InvCorrect, PTL DEF Spec

\* Main turn k starts no later than k full windows after the match and no earlier than k
\* reveal windows after it, whoever polls when (Tick takes a turn's end and not the
\* time of the call for the start of the next one).
THEOREM ScheduleKept == Spec => []MainScheduleKept
<1>1. IInv /\ ScheduleInv => MainScheduleKept
  BY DEF IInv, ContestInv, StageInv, ScheduleInv, MainScheduleKept, Playing
<1> QED BY <1>1, InvCorrect, ScheduleCorrect, PTL

\* The bonus is at most half of the points of a right answer.
LEMMA PointsBounds ==
    ASSUME NEW r \in Nat, r <= TurnDuration PROVE Points(r) \in 100..150
<1> DEFINE b == (50 * r) \div TurnDuration
<1>1. TurnDuration \in Nat \ {0}
  BY BoundsAssumption
<1>2. ASSUME NEW d \in Nat \ {0}, NEW x \in Nat, x <= 50 * d PROVE x \div d \in 0..50
  <2> DEFINE q == x \div d
  <2>1. q \in Nat /\ q * d <= x
    BY <1>2
  <2> HIDE DEF q
  <2>2. ASSUME q > 50 PROVE FALSE
    <3>1. PICK e \in Nat : q = 51 + e
      <4>1. q - 51 \in Nat /\ q = 51 + (q - 51)
        BY <2>1, <2>2
      <4> QED BY <4>1
    <3>2. q * d = 51 * d + e * d /\ e * d \in Nat
      BY <3>1
    <3> HIDE DEF q
    <3> QED BY <1>2, <2>1, <3>2
  <2>3. q \in 0..50
    BY <2>1, <2>2
  <2> QED BY <2>3 DEF q
<1>3. 50 * r \in Nat /\ 50 * r <= 50 * TurnDuration
  BY <1>1
<1>4. b \in 0..50
  BY <1>1, <1>2, <1>3
<1> HIDE DEF b
<1>5. Points(r) = 100 + b
  BY DEF Points, b
<1> QED BY <1>4, <1>5

-----------------------------------------------------------------------------
(* The winning team *)

\* The winning team is known: its members play on, or the match is won.
TeamDecided ==
    \/ status = "tie_break" /\ tieBreak.phase = "champion"
    \/ status = "completed" /\ ~winner.isTie

\* The team that was decided leads, and somebody always contends: an empty set of
\* contenders would let everyone answer (EligibleFor), the other team too.
TeamInv ==
    Mode = "team" =>
        /\ status \in {"active", "tie_break", "completed"} => ValidRoster
        /\ tieBreak.phase = "teams" => tieBreak.teams = {1, 2}
        /\ status = "tie_break" => tieBreak.ids # {}
        /\ TeamDecided =>
              /\ winner.team \in {1, 2}
              /\ TeamScore(3 - winner.team) < TeamScore(winner.team)

\* Of finitely many someone is highest.
LEMMA Highest ==
    ASSUME NEW S, IsFiniteSet(S), S # {}, NEW f, \A x \in S : f[x] \in Int
    PROVE  \E x \in S : \A y \in S : f[y] <= f[x]
<1> DEFINE above(x) == {y \in S : f[y] > f[x]}
           A == {above(x) : x \in S}
<1>1. A \subseteq SUBSET S /\ A # {}
  OBVIOUS
<1>2. PICK U \in A : \A V \in A : V \subseteq U => V = U
  <2>1. IsFiniteSet(S)
    OBVIOUS
  <2> HIDE DEF A
  <2> QED BY ONLY <1>1, <2>1, SmallestSet
<1>3. PICK x \in S : U = above(x)
  BY <1>2
<1>4. ASSUME NEW y \in above(x) PROVE FALSE
  <2>1. y \in S /\ f[y] > f[x] /\ above(y) \in A
    BY <1>4
  <2>2. above(y) \subseteq above(x)
    BY <1>3, <2>1
  <2>3. y \in above(x) /\ y \notin above(y)
    BY <1>4, <2>1
  <2> HIDE DEF above, A
  <2> QED BY <1>2, <1>3, <2>1, <2>2, <2>3
<1> QED BY <1>3, <1>4

LEMMA LeadersExist ==
    ASSUME TypeOK, NEW S \in SUBSET Player, S # {} PROVE LeadingPlayers(S) # {}
<1>1. IsFiniteSet(S)
  BY RosterAssumption, FS_Subset
<1>2. \A p \in S : score[p] \in Int
  BY DEF TypeOK
<1>3. PICK p \in S : \A q \in S : score[q] <= score[p]
  BY <1>1, <1>2, Highest
<1> QED BY <1>3 DEF LeadingPlayers

LEMMA TeamsFinite == \A T : IsFiniteSet(PlayersInTeams(T)) /\ PlayersInTeams(T) \subseteq Player
<1>1. \A T : PlayersInTeams(T) \subseteq Player
  BY DEF PlayersInTeams
<1> QED BY <1>1, RosterAssumption, FS_Subset

LEMMA TeamScoreType == ASSUME TypeOK, NEW t PROVE TeamScore(t) \in Nat
<1> DEFINE S == PlayersInTeams({t})
<1>1. IsFiniteSet(S) /\ S \subseteq Player
  BY TeamsFinite
<1>2. \A p \in S : score[p] \in Nat
  BY <1>1 DEF TypeOK
<1> HIDE DEF S
<1>3. SumFunctionOnSet(score, S) \in Nat
  BY <1>1, <1>2, SumNat
<1> QED BY <1>3 DEF TeamScore, S

\* In a valid roster of a team arena both teams have members.
LEMMA TeamsHaveMembers ==
    ASSUME ValidRoster, Mode = "team", NEW t \in {1, 2} PROVE PlayersInTeams({t}) # {}
<1>1. /\ Cardinality(PlayersInTeams({1})) = Cardinality(PlayersInTeams({2}))
      /\ PlayersInTeams({1}) # {}
  BY DEF ValidRoster
<1>2. PlayersInTeams({2}) # {}
  <2> SUFFICES ASSUME PlayersInTeams({2}) = {} PROVE FALSE
    OBVIOUS
  <2>1. Cardinality(PlayersInTeams({1})) = 0
    BY <1>1, FS_EmptySet
  <2> QED BY <1>1, <2>1, TeamsFinite, FS_EmptySet
<1> QED BY <1>1, <1>2

\* Either one team is strictly ahead of the other or they are level.
LEMMA TeamLeaders ==
    ASSUME TypeOK
    PROVE  /\ \A t \in {1, 2} : LeadingTeams({1, 2}) = {t} => TeamScore(3 - t) < TeamScore(t)
           /\ LeadingTeams({1, 2}) \in {{1}, {2}, {1, 2}}
<1> DEFINE a == TeamScore(1)
           b == TeamScore(2)
           L == LeadingTeams({1, 2})
<1>1. a \in Nat /\ b \in Nat
  BY TeamScoreType
<1>2. (1 \in L <=> b <= a) /\ (2 \in L <=> a <= b) /\ L \subseteq {1, 2}
  BY <1>1 DEF LeadingTeams
<1>3. 3 - 1 = 2 /\ 3 - 2 = 1
  OBVIOUS
<1> HIDE DEF L
<1>4. \A t \in {1, 2} : L = {t} => TeamScore(3 - t) < TeamScore(t)
  <2>1. ASSUME L = {1} PROVE TeamScore(3 - 1) < TeamScore(1)
    BY <1>1, <1>2, <1>3, <2>1
  <2>2. ASSUME L = {2} PROVE TeamScore(3 - 2) < TeamScore(2)
    BY <1>1, <1>2, <1>3, <2>2
  <2> QED BY <2>1, <2>2
<1>5. L \in {{1}, {2}, {1, 2}}
  <2>1. CASE a < b
    <3>1. 1 \notin L /\ 2 \in L
      BY <1>1, <1>2, <2>1
    <3> QED BY <1>2, <3>1
  <2>2. CASE b < a
    <3>1. 1 \in L /\ 2 \notin L
      BY <1>1, <1>2, <2>2
    <3> QED BY <1>2, <3>1
  <2>3. CASE a = b
    <3>1. 1 \in L /\ 2 \in L
      BY <1>1, <1>2, <2>3
    <3> QED BY <1>2, <3>1
  <2> QED BY <1>1, <2>1, <2>2, <2>3
<1> QED BY <1>4, <1>5 DEF L

LEMMA SameTeamScores ==
    ASSUME UNCHANGED score PROVE \A t : TeamScore(t)' = TeamScore(t)
BY DEF TeamScore

LEMMA SameTeams ==
    ASSUME TeamInv, UNCHANGED <<status, tieBreak, winner, score>> PROVE TeamInv'
BY SameTeamScores DEF TeamInv, TeamDecided

\* A champion is crowned, or the leaders of a team that is ahead play on.
LEMMA DecideChampionTeam ==
    ASSUME TypeOK, Mode = "team", ValidRoster, tieBreak.next <= tieBreak.pool,
           NEW w \in WinnerType, w.team \in {1, 2}, TeamScore(3 - w.team) < TeamScore(w.team),
           NEW leaders \in SUBSET Player, leaders # {}, NEW at \in Nat,
           tieBreak.phase = "teams" => tieBreak.teams = {1, 2},
           UNCHANGED score, DecideChampion(w, leaders, at)
    PROVE  TeamInv'
<1>0. tieBreak \in TieBreakType /\ \A t : TeamScore(t)' = TeamScore(t)
  BY SameTeamScores DEF TypeOK
<1>1. ASSUME NEW v, Complete(v), v.isTie \/ v.team = w.team PROVE TeamInv'
  <2>1. /\ status' = "completed" /\ winner' = v
        /\ tieBreak'.phase = tieBreak.phase /\ tieBreak'.teams = tieBreak.teams
    BY <1>0, <1>1 DEF Complete, TieBreakType
  <2> QED BY <1>0, <1>1, <2>1 DEF TeamInv, TeamDecided
<1>2. CASE \E p \in Player :
              CompleteWinner([w EXCEPT !.id = p, !.ids = IF w.team = 0 THEN {p} ELSE @])
  <2>1. PICK p \in Player :
              CompleteWinner([w EXCEPT !.id = p, !.ids = IF w.team = 0 THEN {p} ELSE @])
    BY <1>2
  <2> DEFINE v == [[w EXCEPT !.id = p, !.ids = IF w.team = 0 THEN {p} ELSE @]
                     EXCEPT !.isTie = FALSE]
  <2>2. v.team = w.team
    BY DEF WinnerType
  <2>3. Complete(v)
    BY <2>1 DEF CompleteWinner
  <2> HIDE DEF v
  <2> QED BY <1>1, <2>2, <2>3
<1>3. CASE BeginChampionTieBreak(w, leaders, at)
  <2> DEFINE tb == [tieBreak EXCEPT !.active = TRUE, !.phase = "champion",
                                    !.teams = {}, !.ids = leaders]
  <2>1. /\ tb \in TieBreakType /\ tb.next <= tb.pool
        /\ tb.phase = "champion" /\ tb.ids = leaders
    BY <1>0 DEF TieBreakType
  <2>2. winner' = w /\ ScheduleTieBreak(tb, at)
    BY <1>3 DEF BeginChampionTieBreak
  <2> HIDE DEF tb
  <2>3. status' = "tie_break" /\ tieBreak'.phase = "champion" /\ tieBreak'.ids = leaders
    BY <2>1, <2>2, ScheduleCases
  <2> QED BY <1>0, <2>2, <2>3 DEF TeamInv, TeamDecided
<1>4. CASE CompleteLegacyTie
  <2>1. Complete(Drawn) /\ Drawn.isTie
    BY <1>4 DEF CompleteLegacyTie, Drawn
  <2> QED BY <1>1, <2>1
<1> QED BY <1>2, <1>3, <1>4 DEF DecideChampion

\* The team ahead is decided, or both teams play on.
LEMMA DecideTeamTeam ==
    ASSUME TypeOK, Mode = "team", ValidRoster, tieBreak.next <= tieBreak.pool, NEW at \in Nat,
           tieBreak.phase = "teams" => tieBreak.teams = {1, 2},
           UNCHANGED score, DecideTeam(LeadingTeams({1, 2}), at)
    PROVE  TeamInv'
<1> DEFINE L == LeadingTeams({1, 2})
<1>0. tieBreak \in TieBreakType /\ winner \in WinnerType
  BY DEF TypeOK
<1>1. CASE \E t \in 1..2 :
              /\ L = {t}
              /\ DecideChampion([winner EXCEPT !.team = t, !.ids = PlayersInTeams({t})],
                                LeadingPlayers(PlayersInTeams({t})), at)
  <2>1. PICK t \in 1..2 :
              /\ L = {t}
              /\ DecideChampion([winner EXCEPT !.team = t, !.ids = PlayersInTeams({t})],
                                LeadingPlayers(PlayersInTeams({t})), at)
    BY <1>1
  <2> DEFINE S == PlayersInTeams({t})
             w == [winner EXCEPT !.team = t, !.ids = S]
  <2>2. t \in {1, 2} /\ TeamScore(3 - t) < TeamScore(t)
    BY <2>1, TeamLeaders
  <2>3. S \in SUBSET Player /\ S # {}
    BY <2>2, TeamsFinite, TeamsHaveMembers
  <2>4. LeadingPlayers(S) \in SUBSET Player /\ LeadingPlayers(S) # {}
    <3> HIDE DEF S
    <3> QED BY <2>3, LeadersExist DEF LeadingPlayers
  <2>5. w \in WinnerType /\ w.team = t
    <3> HIDE DEF S
    <3>1. t \in 0..2
      BY <2>1
    <3> QED BY <1>0, <2>3, <3>1 DEF WinnerType
  <2>6. DecideChampion(w, LeadingPlayers(S), at)
    BY <2>1
  <2> HIDE DEF w, S
  <2> QED BY <2>2, <2>4, <2>5, <2>6, DecideChampionTeam
<1>2. CASE /\ \A t \in 1..2 : L # {t}
           /\ BeginTeamTieBreak(L, at)
  <2>1. L = {1, 2}
    BY <1>2, TeamLeaders
  <2> DEFINE tb == [tieBreak EXCEPT !.active = TRUE, !.phase = "teams", !.teams = {1, 2},
                                    !.ids = PlayersInTeams({1, 2})]
  <2>2. ScheduleTieBreak(tb, at)
    BY <1>2, <2>1 DEF BeginTeamTieBreak
  <2>3. PlayersInTeams({1, 2}) \in SUBSET Player /\ PlayersInTeams({1, 2}) # {}
    <3>1. PlayersInTeams({1}) \subseteq PlayersInTeams({1, 2})
      BY DEF PlayersInTeams
    <3> QED BY <3>1, TeamsFinite, TeamsHaveMembers
  <2>4. /\ tb \in TieBreakType /\ tb.next <= tb.pool
        /\ tb.phase = "teams" /\ tb.teams = {1, 2} /\ tb.ids = PlayersInTeams({1, 2})
    <3>1. {1, 2} \in SUBSET (1..2)
      OBVIOUS
    <3> QED BY <1>0, <2>3, <3>1 DEF TieBreakType
  <2> HIDE DEF tb
  <2>5. /\ status' = "tie_break" /\ tieBreak'.phase = "teams" /\ tieBreak'.teams = {1, 2}
        /\ tieBreak'.ids # {}
    BY <2>2, <2>3, <2>4, ScheduleCases
  <2> QED BY <2>5 DEF TeamInv, TeamDecided
<1>3. CASE CompleteLegacyTie
  <2>1. /\ status' = "completed" /\ winner'.isTie
        /\ tieBreak'.phase = tieBreak.phase /\ tieBreak'.teams = tieBreak.teams
    BY <1>0, <1>3 DEF CompleteLegacyTie, Complete, Drawn, TieBreakType
  <2> QED BY <2>1 DEF TeamInv, TeamDecided
<1> QED BY <1>1, <1>2, <1>3 DEF DecideTeam

LEMMA FinishStageTeam ==
    ASSUME IInv, TeamInv, TickFinishStage PROVE TeamInv'
<1> SUFFICES ASSUME Mode = "team" PROVE TeamInv'
  BY DEF TeamInv
<1> DEFINE at == turn.revealUntil
<1>1. /\ TypeOK /\ Playing /\ ValidRoster /\ UNCHANGED score
      /\ tieBreak.next <= tieBreak.pool
      /\ tieBreak.phase = "teams" => tieBreak.teams = {1, 2}
  BY DEF IInv, LoopInv, ContestInv, StageInv, TeamInv, TickFinishStage, Playing
<1>2. at \in Nat /\ tieBreak \in TieBreakType /\ winner \in WinnerType
  BY <1>1 DEF TypeOK, TurnType
<1>3. turn.kind = "tie_break" => status = "tie_break" /\ tieBreak.phase # "none"
  BY <1>1 DEF IInv, ContestInv, StageInv, Playing
<1>4. ResolveMain(at) \/ (turn.kind = "tie_break" /\ ResolveTieBreak(at))
  BY DEF TickFinishStage
<1> HIDE DEF at
<1>5. CASE DecideTeam(LeadingTeams({1, 2}), at)
  BY <1>1, <1>2, <1>5, DecideTeamTeam
<1>6. CASE /\ status = "tie_break" /\ tieBreak.phase = "champion"
           /\ DecideChampion(winner, LeadingPlayers(tieBreak.ids), at)
  <2>1. /\ winner.team \in {1, 2} /\ TeamScore(3 - winner.team) < TeamScore(winner.team)
        /\ tieBreak.ids # {}
    BY <1>6 DEF TeamInv, TeamDecided
  <2>2. LeadingPlayers(tieBreak.ids) \in SUBSET Player /\ LeadingPlayers(tieBreak.ids) # {}
    <3>1. tieBreak.ids \in SUBSET Player
      BY <1>2 DEF TieBreakType
    <3> QED BY <1>1, <2>1, <3>1, LeadersExist DEF LeadingPlayers
  <2> QED BY <1>1, <1>2, <1>6, <2>1, <2>2, DecideChampionTeam
<1> QED BY <1>1, <1>3, <1>4, <1>5, <1>6 DEF ResolveMain, ResolveTieBreak

\* Only members of the winning team score in a champion tie-break.
LEMMA AnswerTeam ==
    ASSUME IInv, TeamInv, AnswerAccepted PROVE TeamInv'
<1> SUFFICES ASSUME Mode = "team" PROVE TeamInv'
  BY DEF TeamInv
<1> DEFINE u == request.user
<1>1. /\ TypeOK /\ ContestInv /\ Playing
      /\ turn.status = "active" /\ u \in EligibleFor(turn)
      /\ UNCHANGED <<status, tieBreak, winner>>
  BY DEF IInv, AnswerAccepted, Accepts
<1>2. u \in Player /\ score \in [Player -> Nat]
  BY <1>1, RosterAssumption DEF EligibleFor, TurnType, TypeOK
<1>3. PICK d \in Nat : score' = [score EXCEPT ![u] = @ + d]
  <2>1. turn.deadline - now \in Nat
    BY <1>1 DEF AnswerAccepted, Accepts, TurnType, TypeOK
  <2>2. Points(turn.deadline - now) \in Nat
    BY <2>1, PointsType
  <2> QED BY <2>2 DEF AnswerAccepted
<1>4. SUFFICES ASSUME status = "tie_break", tieBreak.phase = "champion"
               PROVE  /\ winner.team \in {1, 2}
                      /\ TeamScore(3 - winner.team)' < TeamScore(winner.team)'
  <2>1. ~(status = "completed")
    BY <1>1 DEF Playing
  <2>2. TeamDecided' => status = "tie_break" /\ tieBreak.phase = "champion"
    BY <1>1, <2>1 DEF TeamDecided
  <2> QED BY <1>1, <1>4, <2>2 DEF TeamInv
<1> DEFINE w == winner.team
           v == 3 - winner.team
           S(t) == PlayersInTeams({t})
<1>5. /\ w \in {1, 2} /\ v \in {1, 2} /\ v # w /\ TeamScore(v) < TeamScore(w)
      /\ tieBreak.ids # {}
  BY <1>4 DEF TeamInv, TeamDecided
<1>6. u \in S(w)
  <2>1. u \in tieBreak.ids
    BY <1>1, <1>4, <1>5 DEF ContestInv, StageInv, EligibleFor
  <2>2. tieBreak.ids \subseteq S(w)
    BY <1>1, <1>4 DEF ContestInv, RankInv, Field, FieldOf
  <2> QED BY <2>1, <2>2
<1>7. u \notin S(v)
  BY <1>5, <1>6 DEF PlayersInTeams
<1>8. \A t : IsFiniteSet(S(t)) /\ S(t) \subseteq Player
  BY TeamsFinite
<1>9. \A p \in Player : /\ score[p] \in Nat /\ score'[p] \in Nat
                        /\ p # u => score'[p] = score[p]
  BY <1>2, <1>3
<1>10. score'[u] = score[u] + d
  BY <1>2, <1>3
<1> HIDE DEF u, w, v, S
<1>11. ASSUME NEW T, IsFiniteSet(T), T \subseteq Player
       PROVE  SumFunctionOnSet(score', T)
                 = SumFunctionOnSet(score, T) + (IF u \in T THEN score'[u] - score[u] ELSE 0)
  BY <1>9, <1>11, SumUpdate
<1>12. /\ SumFunctionOnSet(score', S(v)) = SumFunctionOnSet(score, S(v)) + 0
       /\ SumFunctionOnSet(score', S(w))
             = SumFunctionOnSet(score, S(w)) + (score'[u] - score[u])
  BY <1>6, <1>7, <1>8, <1>11
<1>13. /\ TeamScore(v)' = TeamScore(v) /\ TeamScore(v) \in Nat
       /\ TeamScore(w)' = TeamScore(w) + score'[u] - score[u] /\ TeamScore(w) \in Nat
  <2>1. /\ TeamScore(v) = SumFunctionOnSet(score, S(v))
        /\ TeamScore(w) = SumFunctionOnSet(score, S(w))
        /\ TeamScore(v)' = SumFunctionOnSet(score', S(v))
        /\ TeamScore(w)' = SumFunctionOnSet(score', S(w))
    BY <1>1 DEF TeamScore, S, v, w
  <2>2. u \in Player /\ score[u] \in Nat /\ score'[u] \in Nat
    BY <1>2, <1>9 DEF u
  <2> QED BY <1>1, <1>12, <2>1, <2>2, TeamScoreType
<1>14. TeamScore(v)' < TeamScore(w)'
  BY <1>2, <1>5, <1>9, <1>10, <1>13
<1> QED BY <1>1, <1>5, <1>14 DEF v, w

LEMMA TeamInductive == IInv /\ TeamInv /\ [Next]_vars => TeamInv'
<1> SUFFICES ASSUME IInv, TeamInv, [Next]_vars PROVE TeamInv'
  OBVIOUS
<1>0. tieBreak \in TieBreakType /\ TypeOK
  BY DEF IInv, TypeOK
<1>1. CASE UNCHANGED vars
  BY <1>1, SameTeams DEF vars, aggregate
<1>2. CASE Operation
  <2>1. ASSUME NEW p \in Player, NEW cards \in SUBSET Card, CommitDeck(p, cards)
        PROVE  TeamInv'
    BY <2>1, SameTeams DEF CommitDeck, contest
  <2>2. ASSUME NEW p \in Player, NEW tb \in BOOLEAN, NEW n \in 1..MaxPool, Start(p, tb, n)
        PROVE  TeamInv'
    <3>1. status' = "active" /\ ValidRoster /\ tieBreak'.phase = "none"
      BY <2>2 DEF Start, FreshTieBreak, NoTieBreak
    <3> QED BY <3>1 DEF TeamInv, TeamDecided
  <2>3. ASSUME NEW p \in Player, NEW lag \in TurnLag, NEW right \in Outcomes,
               SubmitAnswer(p, current + lag, right)
        PROVE  TeamInv'
    BY <2>3, SameTeams DEF SubmitAnswer, aggregate
  <2>4. ASSUME NEW n \in 1..MaxPool, AddTieBreakQuestions(n)
        PROVE  TeamInv'
    <3> DEFINE tb == [tieBreak EXCEPT !.pool = @ + n]
    <3>1. /\ status = "tie_break" /\ ScheduleTieBreak(tb, now)
          /\ UNCHANGED <<score, winner>>
      BY <2>4 DEF AddTieBreakQuestions
    <3>2. n \in Nat /\ tieBreak.pool + n \in Nat /\ now \in Nat
      BY <1>0, BoundsAssumption DEF TypeOK, TieBreakType
    <3>3. /\ tb \in TieBreakType /\ tb.next <= tb.pool
          /\ tb.phase = tieBreak.phase /\ tb.ids = tieBreak.ids /\ tb.teams = tieBreak.teams
      BY <1>0, <3>2 DEF TieBreakType, IInv, ContestInv, StageInv
    <3> HIDE DEF tb
    <3>4. /\ status' = status /\ tieBreak'.phase = tieBreak.phase
          /\ tieBreak'.ids = tieBreak.ids /\ tieBreak'.teams = tieBreak.teams
      BY <1>0, <3>1, <3>2, <3>3, ScheduleCases
    <3> QED BY <3>1, <3>4, SameTeamScores DEF TeamInv, TeamDecided
  <2>5. ASSUME NEW p \in Player, Forfeit(p)
        PROVE  TeamInv'
    <3>1. /\ status' = "forfeited"
          /\ tieBreak'.phase = tieBreak.phase /\ tieBreak'.teams = tieBreak.teams
      BY <1>0, <2>5 DEF Forfeit, TieBreakType
    <3> QED BY <3>1 DEF TeamInv, TeamDecided
  <2>6. CASE Tick
    BY <2>6, SameTeams DEF Tick, aggregate
  <2> QED BY <1>2, <2>1, <2>2, <2>3, <2>4, <2>5, <2>6 DEF Operation
<1>3. CASE LoopStep
  <2>1. CASE TickExpire \/ TickNextTurn
    BY <2>1, SameTeams DEF TickExpire, TickNextTurn
  <2>2. CASE TickFinishStage
    BY <2>2, FinishStageTeam
  <2>3. CASE TickReturn \/ AnswerRejected
    BY <2>3, SameTeams DEF TickReturn, AnswerRejected, contest
  <2>4. CASE AnswerAccepted
    BY <2>4, AnswerTeam
  <2> QED BY <1>3, <2>1, <2>2, <2>3, <2>4 DEF LoopStep
<1>4. CASE AdvanceClock
  BY <1>4, SameTeams DEF AdvanceClock, aggregate
<1> QED BY <1>1, <1>2, <1>3, <1>4 DEF Next

\* The winning team's total is strictly ahead of the other's, through any number of
\* rounds that only its members play (resolveMain, resolveTieBreak, resolveChampion).
THEOREM WinningTeamStaysAhead == Spec => []WinningTeamLeads
<1>1. Init => TeamInv
  BY DEF Init, TeamInv, TeamDecided, NoTieBreak
<1>2. Spec => []TeamInv
  BY <1>1, TeamInductive, InvCorrect, PTL DEF Spec
<1>3. TeamInv => WinningTeamLeads
  BY DEF TeamInv, TeamDecided, WinningTeamLeads
<1> QED BY <1>2, <1>3, PTL

-----------------------------------------------------------------------------
(* Action properties *)

\* No operation and no late Tick writes a terminal aggregate.
THEOREM TerminalStaysFrozen == Spec => TerminalFrozen
<1>1. ASSUME IInv, [Next]_vars, status \in Terminal
      PROVE  /\ UNCHANGED <<status, deck, startedAt, contest>>
             /\ loop = "idle" => UNCHANGED version
  <2> USE DEF Terminal
  <2>1. ~Playing /\ loop # "running" /\ status # "collecting_decks" /\ status # "tie_break"
    BY <1>1 DEF IInv, LoopInv, Playing
  <2>2. CASE UNCHANGED vars
    BY <2>2 DEF vars, aggregate, contest
  <2>3. CASE Operation
    BY <1>1, <2>1, <2>3 DEF Operation, CommitDeck, Start, SubmitAnswer, AddTieBreakQuestions, Forfeit, Tick
  <2>4. CASE TickReturn \/ AnswerRejected
    BY <2>4, <2>1 DEF TickReturn, AnswerRejected, LoopIsOver
  <2>5. CASE LoopStep
    BY <2>1, <2>4, <2>5 DEF LoopStep, TickExpire, TickNextTurn, TickFinishStage, AnswerAccepted, Accepts
  <2>6. CASE AdvanceClock
    BY <2>1, <2>6 DEF AdvanceClock
  <2> QED BY <1>1, <2>2, <2>3, <2>5, <2>6 DEF Next
<1>2. ASSUME IInv, [Next]_vars
      PROVE  [(status \in Terminal) =>
                 /\ UNCHANGED <<status, deck, startedAt, contest>>
                 /\ loop = "idle" => UNCHANGED version]_vars
  BY <1>1, <1>2
<1> QED BY <1>2, InvCorrect, PTL DEF Spec, TerminalFrozen

\* Between calls nothing is left of the last Tick.
IdleInv == loop = "idle" => ~changed

LEMMA IdleCorrect == Spec => []IdleInv
<1>1. Init => IdleInv
  BY DEF Init, IdleInv
<1>2. IdleInv /\ [Next]_vars => IdleInv'
  <2> SUFFICES ASSUME IdleInv, [Next]_vars PROVE IdleInv'
    OBVIOUS
  <2>1. CASE UNCHANGED vars
    BY <2>1 DEF vars, call, IdleInv
  <2>2. CASE Operation
    BY <2>2 DEF Operation, CommitDeck, Start, SubmitAnswer, AddTieBreakQuestions, Forfeit, Tick,
                call, IdleInv
  <2>3. CASE LoopStep
    BY <2>3 DEF LoopStep, TickExpire, TickNextTurn, TickFinishStage, TickReturn, AnswerAccepted,
                AnswerRejected, Return, IdleInv
  <2>4. CASE AdvanceClock
    BY <2>4 DEF AdvanceClock, call, IdleInv
  <2> QED BY <2>1, <2>2, <2>3, <2>4 DEF Next
<1> QED BY <1>1, <1>2, PTL DEF Spec

\* Every call that changed the aggregate raises the version its compare-and-set
\* goes by (Version++ in each operation, Tick's changed).
THEOREM VersionCovers == Spec => VersionCoversChanges
<1> DEFINE A == /\ version' >= version
                /\ <<status, deck, contest>>' # <<status, deck, contest>>
                      => version' > version \/ (loop # "idle" /\ changed')
                /\ changed /\ loop' = "idle" => version' > version
<1>1. ASSUME TypeOK, IdleInv, [Next]_vars PROVE A \/ UNCHANGED vars
  <2>0. version \in Nat /\ changed \in BOOLEAN
    BY <1>1 DEF TypeOK
  <2>1. CASE Operation
    <3>1. CASE \/ \E p \in Player, cards \in SUBSET Card : CommitDeck(p, cards)
               \/ \E p \in Player, tb \in BOOLEAN, n \in 1..MaxPool : Start(p, tb, n)
               \/ \E n \in 1..MaxPool : AddTieBreakQuestions(n)
               \/ \E p \in Player : Forfeit(p)
      <4>1. version' = version + 1
        BY <3>1 DEF CommitDeck, Start, AddTieBreakQuestions, Forfeit
      <4> QED BY <2>0, <4>1
    <3>2. CASE \/ \E p \in Player, lag \in TurnLag, right \in Outcomes :
                      SubmitAnswer(p, current + lag, right)
               \/ Tick
      BY <2>0, <3>2 DEF SubmitAnswer, Tick, aggregate, contest
    <3> QED BY <2>1, <3>1, <3>2 DEF Operation
  <2>2. CASE TickExpire \/ TickNextTurn \/ TickFinishStage
    BY <2>0, <2>2 DEF TickExpire, TickNextTurn, TickFinishStage
  <2>3. CASE TickReturn \/ AnswerRejected
    BY <2>0, <2>3 DEF TickReturn, AnswerRejected, LoopIsOver, Return, VersionAfterTick, contest
  <2>4. CASE AnswerAccepted
    BY <2>0, <2>4 DEF AnswerAccepted, VersionAfterTick
  <2>5. CASE AdvanceClock
    BY <1>1, <2>0, <2>5 DEF AdvanceClock, aggregate, contest, IdleInv
  <2> QED BY <1>1, <2>1, <2>2, <2>3, <2>4, <2>5 DEF Next, LoopStep
<1>2. ASSUME TypeOK, IdleInv, [Next]_vars PROVE [A]_vars
  <2> HIDE DEF A
  <2> QED BY <1>1, <1>2
<1> QED BY <1>2, TypeCorrect, IdleCorrect, PTL DEF Spec, VersionCoversChanges

\* Points go to one eligible player, once per turn and while it is open (submitAnswer
\* judges what Tick has brought up to date).
THEOREM ScoringStaysDisciplined == Spec => ScoringDisciplined
<1> DEFINE A == score' # score =>
                  \E p \in Player :
                    /\ \A q \in Player \ {p} : score'[q] = score[q]
                    /\ score'[p] - score[p] \in 100..150
                    /\ p \in EligibleFor(turn) /\ p \notin turn.answered /\ p \in turn'.answered
                    /\ turn.status = "active"
                    /\ now \in turn.startedAt..(turn.deadline - 1)
<1>1. ASSUME TypeOK, ScheduleInv, [Next]_vars, score' # score PROVE A
  <2>1. AnswerAccepted
    BY <1>1 DEF Next, Operation, LoopStep, CommitDeck, Start, SubmitAnswer, AddTieBreakQuestions,
                Forfeit, Tick, TickExpire, TickNextTurn, TickFinishStage, TickReturn,
                AnswerRejected, AdvanceClock, vars, aggregate, contest
  <2> DEFINE u == request.user
             r == turn.deadline - now
             points == IF request.correct THEN Points(r) ELSE 0
             t == [turn EXCEPT !.answered = @ \cup {u}]
  <2>2. /\ turn.status = "active" /\ now >= turn.startedAt /\ now < turn.deadline
        /\ u \in EligibleFor(turn) /\ u \notin turn.answered
        /\ score' = [score EXCEPT ![u] = @ + points]
        /\ turn' = t \/ turn' = ResolveTurn(t, now)
    BY <2>1 DEF AnswerAccepted, Accepts
  <2>3. /\ turn \in TurnType /\ score \in [Player -> Nat] /\ now \in Nat
        /\ turn.startedAt \in Nat /\ turn.deadline = turn.startedAt + TurnDuration
        /\ TurnDuration \in Nat
    BY <1>1, <2>2, BoundsAssumption DEF TypeOK, TurnType, ScheduleInv
  <2>4. u \in Player
    BY <2>2, <2>3 DEF EligibleFor, TurnType
  <2>5. u \in turn'.answered
    <3>1. t \in TurnType /\ u \in t.answered
      BY <2>3, <2>4 DEF TurnType
    <3> HIDE DEF t
    <3>2. ResolveTurn(t, now).answered = t.answered
      BY <3>1 DEF ResolveTurn, TurnType
    <3> QED BY <2>2, <3>1, <3>2
  <2>6. r \in Nat /\ r <= TurnDuration
    BY <2>2, <2>3
  <2>7. Points(r) \in 100..150
    <3> HIDE DEF r
    <3> QED BY <2>6, PointsBounds
  <2>8. now \in turn.startedAt..(turn.deadline - 1)
    BY <2>2, <2>3
  <2> HIDE DEF u, r, t
  <2>9. request.correct
    <3> SUFFICES ASSUME ~request.correct PROVE score' = score
      BY <1>1
    <3>1. score' = [score EXCEPT ![u] = score[u] + 0]
      BY <2>2, <2>3, <2>4
    <3>2. score[u] + 0 = score[u]
      BY <2>3, <2>4
    <3> QED BY <2>3, <2>4, <3>1, <3>2
  <2>10. /\ \A q \in Player \ {u} : score'[q] = score[q]
         /\ score'[u] = score[u] + Points(r)
    BY <2>2, <2>3, <2>4, <2>9
  <2>11. score'[u] - score[u] \in 100..150
    BY <2>3, <2>4, <2>7, <2>10
  <2> QED BY <2>2, <2>4, <2>5, <2>8, <2>10, <2>11
<1>2. ASSUME TypeOK, ScheduleInv, [Next]_vars PROVE [A]_vars
  <2> HIDE DEF A
  <2>1. CASE score' = score
    BY <2>1 DEF A
  <2>2. CASE score' # score
    BY <1>1, <1>2, <2>2
  <2> QED BY <2>1, <2>2
<1> QED BY <1>2, TypeCorrect, ScheduleCorrect, PTL DEF Spec, ScoringDisciplined

-----------------------------------------------------------------------------
(* Refinement: every step of the aggregate is a step of Contest or a stutter *)

\* A step that leaves these alone is invisible in the abstract contest.
LEMMA ContestStutters ==
    ASSUME UNCHANGED <<status, tieBreak, winner>> PROVE UNCHANGED C!contestVars
BY DEF C!contestVars, contestPhase, contestContenders

LEMMA LegacyTieMaps ==
    ASSUME TypeOK, Playing, ~winner.isTie, CompleteLegacyTie PROVE C!Draw
<1>1. /\ status' = "completed" /\ winner'.isTie /\ winner'.id = NoPlayer
      /\ tieBreak'.phase = tieBreak.phase /\ tieBreak'.ids = tieBreak.ids
  BY DEF CompleteLegacyTie, Complete, Drawn, TypeOK, TieBreakType
<1> QED BY <1>1 DEF C!Draw, C!Undecided, contestPhase, contestContenders, Playing

\* Deciding among contenders crowns one of them or narrows the field to the leaders.
LEMMA DecideChampionMaps ==
    ASSUME TypeOK, Playing, ~winner.isTie,
           NEW w \in WinnerType, w.id = winner.id, ~w.isTie,
           NEW S \in SUBSET Player, S \subseteq contestContenders, NEW at \in Nat,
           tieBreak.next <= tieBreak.pool,
           DecideChampion(w, LeadingPlayers(S), at)
    PROVE  C!Next
<1> DEFINE L == LeadingPlayers(S)
<1>0. L \in SUBSET Player /\ L \subseteq contestContenders
  BY Leaders
<1>1. CASE \E p \in Player : /\ L = {p}
                             /\ CompleteWinner([w EXCEPT !.id = p,
                                                 !.ids = IF w.team = 0 THEN {p} ELSE @])
  <2>1. PICK p \in Player : /\ L = {p}
                            /\ CompleteWinner([w EXCEPT !.id = p,
                                                 !.ids = IF w.team = 0 THEN {p} ELSE @])
    BY <1>1
  <2> HIDE DEF L
  <2>2. /\ status' = "completed" /\ winner'.id = p /\ ~winner'.isTie
        /\ tieBreak' = [tieBreak EXCEPT !.active = FALSE, !.awaiting = FALSE]
    BY <2>1 DEF CompleteWinner, Complete, WinnerType
  <2>3. tieBreak'.phase = tieBreak.phase /\ tieBreak'.ids = tieBreak.ids
    BY <2>2 DEF TypeOK, TieBreakType
  <2>4. p \in contestContenders
    BY <1>0, <2>1
  <2>5. /\ contestPhase \in {"open", "deciding"} /\ contestPhase' = "won"
        /\ contestContenders' = contestContenders
    BY <2>2, <2>3 DEF contestPhase, contestContenders, Playing
  <2>6. C!Crown(p)
    BY <2>2, <2>4, <2>5 DEF C!Crown, C!Undecided
  <2> QED BY <2>6 DEF C!Next
<1>2. CASE BeginChampionTieBreak(w, L, at)
  <2> DEFINE tb == [tieBreak EXCEPT !.active = TRUE, !.phase = "champion",
                                    !.teams = {}, !.ids = L]
  <2>1. winner' = w /\ ScheduleTieBreak(tb, at)
    BY <1>2 DEF BeginChampionTieBreak
  <2> HIDE DEF L
  <2>2. /\ tb \in TieBreakType /\ tb.phase = "champion" /\ tb.ids = L
        /\ tb.next = tieBreak.next /\ tb.pool = tieBreak.pool
    BY <1>0 DEF TypeOK, TieBreakType
  <2> HIDE DEF tb
  <2>3. status' = "tie_break" /\ tieBreak'.phase = "champion" /\ tieBreak'.ids = L
    BY <2>1, <2>2, ScheduleCases
  <2>4. C!Narrow(L)
    BY <1>0, <2>1, <2>3 DEF C!Narrow, C!Undecided, contestPhase, contestContenders, Playing
  <2> QED BY <1>0, <2>4 DEF C!Next
<1>3. CASE CompleteLegacyTie
  BY <1>3, LegacyTieMaps DEF C!Next
<1> QED BY <1>1, <1>2, <1>3 DEF DecideChampion

LEMMA DecideTeamMaps ==
    ASSUME TypeOK, Playing, ~winner.isTie, NEW T \in SUBSET (1..2),
           PlayersInTeams(T) \subseteq contestContenders, NEW at \in Nat,
           tieBreak.next <= tieBreak.pool,
           DecideTeam(LeadingTeams(T), at)
    PROVE  C!Next
<1> DEFINE L == LeadingTeams(T)
<1>0. L \in SUBSET (1..2) /\ PlayersInTeams(L) \in SUBSET Player
      /\ PlayersInTeams(L) \subseteq contestContenders
  BY DEF LeadingTeams, PlayersInTeams
<1>1. CASE \E t \in 1..2 :
              /\ L = {t}
              /\ DecideChampion([winner EXCEPT !.team = t, !.ids = PlayersInTeams({t})],
                                LeadingPlayers(PlayersInTeams({t})), at)
  <2>1. PICK t \in 1..2 :
              /\ L = {t}
              /\ DecideChampion([winner EXCEPT !.team = t, !.ids = PlayersInTeams({t})],
                                LeadingPlayers(PlayersInTeams({t})), at)
    BY <1>1
  <2> DEFINE w == [winner EXCEPT !.team = t, !.ids = PlayersInTeams({t})]
             S == PlayersInTeams({t})
  <2>2. S \in SUBSET Player /\ S \subseteq contestContenders
    BY <1>0, <2>1 DEF PlayersInTeams
  <2>3. winner \in WinnerType /\ t \in 0..2
    BY DEF TypeOK
  <2>4. w \in WinnerType /\ w.id = winner.id /\ w.isTie = winner.isTie
    BY <2>2, <2>3 DEF WinnerType
  <2>5. DecideChampion(w, LeadingPlayers(S), at)
    BY <2>1
  <2> HIDE DEF w, S
  <2> QED BY <2>2, <2>4, <2>5, DecideChampionMaps
<1>2. CASE BeginTeamTieBreak(L, at)
  <2> DEFINE tb == [tieBreak EXCEPT !.active = TRUE, !.phase = "teams", !.teams = L,
                                    !.ids = PlayersInTeams(L)]
  <2>1. winner' = winner /\ ScheduleTieBreak(tb, at)
    BY <1>2 DEF BeginTeamTieBreak
  <2> HIDE DEF L
  <2>2. /\ tb \in TieBreakType /\ tb.phase = "teams" /\ tb.ids = PlayersInTeams(L)
        /\ tb.next = tieBreak.next /\ tb.pool = tieBreak.pool
    BY <1>0 DEF TypeOK, TieBreakType
  <2> HIDE DEF tb
  <2>3. /\ status' = "tie_break" /\ tieBreak'.phase = "teams"
        /\ tieBreak'.ids = PlayersInTeams(L)
    BY <2>1, <2>2, ScheduleCases
  <2>4. C!Narrow(PlayersInTeams(L))
    BY <1>0, <2>1, <2>3 DEF C!Narrow, C!Undecided, contestPhase, contestContenders, Playing
  <2> QED BY <1>0, <2>4 DEF C!Next
<1>3. CASE CompleteLegacyTie
  BY <1>3, LegacyTieMaps DEF C!Next
<1> QED BY <1>1, <1>2, <1>3 DEF DecideTeam

LEMMA FinishStageMaps ==
    ASSUME IInv, TickFinishStage PROVE C!Next
<1> DEFINE at == turn.revealUntil
<1>1. /\ TypeOK /\ Playing /\ ~winner.isTie /\ tieBreak.next <= tieBreak.pool
  BY DEF IInv, LoopInv, ContestInv, StageInv, DrawInv, TickFinishStage, Playing
<1>2. at \in Nat /\ winner \in WinnerType /\ tieBreak \in TieBreakType
  BY <1>1 DEF TypeOK, TurnType
<1>3. CASE turn.kind = "tie_break" /\ ResolveTieBreak(at)
  <2>1. status = "tie_break" /\ tieBreak.phase # "none"
    BY <1>1, <1>3 DEF IInv, ContestInv, StageInv, Playing
  <2>2. contestContenders = tieBreak.ids
    BY <2>1 DEF contestContenders
  <2>3. CASE tieBreak.phase = "teams" /\ DecideTeam(LeadingTeams(tieBreak.teams), at)
    <3>1. /\ tieBreak.teams \in SUBSET (1..2)
          /\ PlayersInTeams(tieBreak.teams) \subseteq contestContenders
      BY <1>2, <2>2, <2>3 DEF IInv, ContestInv, StageInv, TieBreakType
    <3> HIDE DEF at
    <3> QED BY <1>1, <1>2, <2>3, <3>1, DecideTeamMaps
  <2>4. CASE /\ tieBreak.phase = "champion"
             /\ DecideChampion(winner, LeadingPlayers(tieBreak.ids), at)
    <3>1. tieBreak.ids \in SUBSET Player
      BY <1>2 DEF TieBreakType
    <3> HIDE DEF at
    <3> QED BY <1>1, <1>2, <2>2, <2>4, <3>1, DecideChampionMaps
  <2> QED BY <1>3, <2>1, <2>3, <2>4 DEF ResolveTieBreak
<1>4. CASE turn.kind = "main" /\ ResolveMain(at)
  <2>1. contestContenders = Player \/ turn.kind # "main"
    BY <1>1 DEF IInv, ContestInv, StageInv, contestContenders, Playing
  <2>2. CASE Mode = "team" /\ DecideTeam(LeadingTeams({1, 2}), at)
    <3>1. {1, 2} \in SUBSET (1..2) /\ PlayersInTeams({1, 2}) \subseteq contestContenders
      BY <1>4, <2>1 DEF PlayersInTeams
    <3> HIDE DEF at
    <3> QED BY <1>1, <1>2, <2>2, <3>1, DecideTeamMaps
  <2>3. CASE DecideChampion(winner, LeadingPlayers(Player), at)
    <3>1. Player \in SUBSET Player /\ Player \subseteq contestContenders
      BY <1>4, <2>1
    <3> HIDE DEF at
    <3> QED BY <1>1, <1>2, <2>3, <3>1, DecideChampionMaps
  <2> QED BY <1>4, <2>2, <2>3 DEF ResolveMain
<1> QED BY <1>1, <1>3, <1>4 DEF TickFinishStage, TypeOK, TurnType

LEMMA ForfeitMaps ==
    ASSUME IInv, NEW p \in Player, Forfeit(p) PROVE C!Next
<1>1. /\ status' = "forfeited" /\ winner'.id \in Player \cup {NoPlayer}
      /\ tieBreak' = [tieBreak EXCEPT !.active = FALSE, !.awaiting = FALSE]
  BY DEF Forfeit, SoleWinner, NoWinner
<1>2. tieBreak'.phase = tieBreak.phase /\ tieBreak'.ids = tieBreak.ids
  BY <1>1 DEF IInv, TypeOK, TieBreakType
<1>3. contestPhase \in {"open", "deciding"}
  BY DEF IInv, TypeOK, Statuses, Forfeit, Terminal, contestPhase
<1>4. C!Cancel(winner'.id)
  BY <1>1, <1>2, <1>3 DEF C!Cancel, C!Undecided, contestPhase, contestContenders
<1> QED BY <1>1, <1>4 DEF C!Next

LEMMA StepMaps == IInv /\ [Next]_vars => [C!Next]_(C!contestVars)
<1> SUFFICES ASSUME IInv, [Next]_vars PROVE C!Next \/ UNCHANGED C!contestVars
  OBVIOUS
<1>1. CASE UNCHANGED vars
  BY <1>1, ContestStutters DEF vars, aggregate
<1>2. CASE Operation
  <2>1. ASSUME NEW p \in Player, NEW tb \in BOOLEAN, NEW n \in 1..MaxPool, Start(p, tb, n)
        PROVE  UNCHANGED C!contestVars
    <3>1. /\ status = "collecting_decks" /\ status' = "active" /\ winner' = winner
          /\ tieBreak.phase = "none" /\ tieBreak'.phase = "none"
      BY <2>1 DEF Start, FreshTieBreak, NoTieBreak, IInv, ContestInv, StageInv
    <3> QED BY <3>1 DEF C!contestVars, contestPhase, contestContenders
  <2>2. ASSUME NEW n \in 1..MaxPool, AddTieBreakQuestions(n)
        PROVE  UNCHANGED C!contestVars
    <3> DEFINE tb == [tieBreak EXCEPT !.pool = @ + n]
    <3>1. /\ TypeOK /\ tieBreak \in TieBreakType /\ n \in Nat /\ now \in Nat
          /\ status = "tie_break" /\ winner' = winner /\ ScheduleTieBreak(tb, now)
      BY <2>2, BoundsAssumption DEF IInv, TypeOK, AddTieBreakQuestions
    <3>2. tieBreak.pool + n \in Nat /\ tieBreak.next <= tieBreak.pool + n
      BY <3>1 DEF IInv, ContestInv, StageInv, TieBreakType
    <3>3. /\ tb \in TieBreakType /\ tb.next <= tb.pool
          /\ tb.phase = tieBreak.phase /\ tb.ids = tieBreak.ids
      BY <3>1, <3>2 DEF TieBreakType
    <3> HIDE DEF tb
    <3>4. /\ status' = "tie_break"
          /\ tieBreak'.phase = tieBreak.phase /\ tieBreak'.ids = tieBreak.ids
      BY <3>1, <3>3, ScheduleCases
    <3> QED BY <3>1, <3>4 DEF C!contestVars, contestPhase, contestContenders
  <2>3. ASSUME NEW p \in Player, Forfeit(p) PROVE C!Next
    BY <2>3, ForfeitMaps
  <2>4. ASSUME NEW p \in Player, NEW cards \in SUBSET Card, CommitDeck(p, cards)
        PROVE  UNCHANGED C!contestVars
    BY <2>4, ContestStutters DEF CommitDeck, contest
  <2>5. ASSUME NEW p \in Player, NEW lag \in TurnLag, NEW right \in Outcomes,
               SubmitAnswer(p, current + lag, right)
        PROVE  UNCHANGED C!contestVars
    BY <2>5, ContestStutters DEF SubmitAnswer, aggregate
  <2>6. CASE Tick
    BY <2>6, ContestStutters DEF Tick, aggregate
  <2> QED BY <1>2, <2>1, <2>2, <2>3, <2>4, <2>5, <2>6 DEF Operation
<1>3. CASE LoopStep
  <2>1. CASE TickFinishStage
    BY <2>1, FinishStageMaps
  <2>2. CASE TickExpire \/ TickNextTurn \/ AnswerAccepted
    BY <2>2, ContestStutters DEF TickExpire, TickNextTurn, AnswerAccepted
  <2>3. CASE TickReturn \/ AnswerRejected
    BY <2>3, ContestStutters DEF TickReturn, AnswerRejected, contest
  <2> QED BY <1>3, <2>1, <2>2, <2>3 DEF LoopStep
<1>4. CASE AdvanceClock
  BY <1>4, ContestStutters DEF AdvanceClock, aggregate
<1> QED BY <1>1, <1>2, <1>3, <1>4 DEF Next

\* The aggregate implements Contest: in every mode, contenders only ever narrow, the
\* champion comes from those still contending, and a result is final.
THEOREM Refinement == Spec => ImplementsContest
<1>1. Init => C!Init
  BY DEF Init, C!Init, NoTieBreak, NoWinner, contestPhase, contestContenders
<1> QED BY <1>1, StepMaps, InvCorrect, PTL DEF Spec, ImplementsContest, C!Spec

-----------------------------------------------------------------------------
(* Commands under idempotency keys *)

CommandRecord == [id : Key, user : Player, action : Action]

\* A client makes up a key for one command: no other player and no other action has it.
KeysAreOwn ==
    \A k \in Key, p, q \in Player, a, b \in Action :
        UsesKey(k, p, a) /\ UsesKey(k, q, b) => p = q /\ a = b

\* The log is what took effect last.
LogIsSuffix ==
    /\ Len(processed) = IF Len(applied) < MaxProcessed THEN Len(applied) ELSE MaxProcessed
    /\ \A i \in 1..Len(processed) : processed[i] = applied[Len(applied) - Len(processed) + i]

AppliedAllowed ==
    \A i \in 1..Len(applied) : UsesKey(applied[i].id, applied[i].user, applied[i].action)

NotLogged(k, p, a) == \A i \in 1..Len(processed) : processed[i] # Command(k, p, a)

\* An answer whose Tick is running was not in the log when it was looked up, and nothing
\* is recorded in the meantime.
AnswerPending ==
    request # NoRequest =>
        /\ loop # "idle"
        /\ key \in Key /\ request.user \in Player
        /\ UsesKey(key, request.user, "answer")
        /\ KeysAreOwn => NotLogged(key, request.user, "answer")

LogInv ==
    /\ processed \in Seq(CommandRecord) /\ applied \in Seq(CommandRecord)
    /\ LogIsSuffix
    /\ AppliedAllowed
    /\ KeysAreOwn => AtMostOnceInWindow

\* Of finitely many places there is a first one.
LEMMA MinOf ==
    ASSUME NEW S, S \subseteq Nat, IsFiniteSet(S), S # {}
    PROVE  Min(S) \in S
<1> DEFINE f == [x \in S |-> 0 - x]
<1>1. \A x \in S : f[x] \in Int
  OBVIOUS
<1>2. PICK x \in S : \A y \in S : f[y] <= f[x]
  <2> HIDE DEF f
  <2> QED BY <1>1, Highest
<1>3. \A y \in S : x <= y
  BY <1>2
<1> QED BY <1>3, Zenon DEF Min

\* What CommandSeen says of the log.
LEMMA SeenIsLogged ==
    ASSUME processed \in Seq(CommandRecord), NEW k, NEW p, NEW a
    PROVE  /\ CommandSeen(k, p, a) =>
                 \E i \in 1..Len(processed) : processed[i] = Command(k, p, a)
           /\ (\E i \in 1..Len(processed) : processed[i].id = k) =>
                 \E i \in 1..Len(processed) :
                     /\ processed[i].id = k
                     /\ processed[i] = Command(k, p, a) => CommandSeen(k, p, a)
<1> DEFINE I == {i \in 1..Len(processed) : processed[i].id = k}
<1>1. CommandSeen(k, p, a) <=>
        LET first == IF I # {} THEN Min(I) ELSE 0
        IN  first # 0 /\ processed[first] = Command(k, p, a)
  BY DEF CommandSeen, SelectInSeq
<1>2. I # {} => Min(I) \in I
  <2>1. Len(processed) \in Nat
    BY LenProperties
  <2>2. IsFiniteSet(1..Len(processed))
    BY <2>1, FS_Interval
  <2>3. I \subseteq Nat /\ IsFiniteSet(I)
    BY <2>1, <2>2, FS_Subset
  <2> HIDE DEF I
  <2> QED BY <2>3, MinOf
<1>3. \A i \in I : i # 0 /\ i \in 1..Len(processed) /\ processed[i].id = k
  BY LenProperties
<1>4. CommandSeen(k, p, a) => I # {} /\ processed[Min(I)] = Command(k, p, a)
  <2> HIDE DEF I
  <2> QED BY <1>1
<1>5. I # {} /\ processed[Min(I)] = Command(k, p, a) => CommandSeen(k, p, a)
  <2> HIDE DEF I
  <2> QED BY <1>1, <1>2, <1>3
<1>6. (\E i \in 1..Len(processed) : processed[i].id = k) => I # {}
  OBVIOUS
<1> HIDE DEF I
<1> QED BY <1>2, <1>3, <1>4, <1>5, <1>6

\* Whoever acknowledges a command without effect has it in the log, and so it took effect.
LEMMA ReplayGenuine ==
    ASSUME LogInv, NEW k, NEW p, NEW a, CommandSeen(k, p, a)
    PROVE  \E i \in DOMAIN applied : applied[i] = Command(k, p, a)
<1>1. PICK i \in 1..Len(processed) : processed[i] = Command(k, p, a)
  BY SeenIsLogged DEF LogInv
<1> DEFINE n == Len(applied)
           m == Len(processed)
<1>2. n \in Nat /\ m \in Nat /\ m <= n
  BY CommandAssumption, LenProperties DEF LogInv, LogIsSuffix
<1>3. n - m + i \in 1..n
  BY <1>2
<1>4. applied[n - m + i] = Command(k, p, a) /\ DOMAIN applied = 1..n
  BY <1>1, LenProperties DEF LogInv, LogIsSuffix
<1> QED BY <1>3, <1>4

\* A command with a key of its own that is not seen is nowhere in the log.
LEMMA UnseenIsNew ==
    ASSUME LogInv, KeysAreOwn, NEW k \in Key, NEW p \in Player, NEW a \in Action,
           UsesKey(k, p, a), ~CommandSeen(k, p, a)
    PROVE  NotLogged(k, p, a)
<1> SUFFICES ASSUME NEW i \in 1..Len(processed), processed[i] = Command(k, p, a) PROVE FALSE
  BY DEF NotLogged
<1>1. processed[i].id = k
  BY DEF Command
<1>2. PICK j \in 1..Len(processed) :
          /\ processed[j].id = k
          /\ processed[j] = Command(k, p, a) => CommandSeen(k, p, a)
  BY <1>1, SeenIsLogged DEF LogInv
<1> DEFINE n == Len(applied)
           m == Len(processed)
           c == processed[j]
<1>3. n \in Nat /\ m \in Nat /\ m <= n
  BY CommandAssumption, LenProperties DEF LogInv, LogIsSuffix
<1>4. n - m + j \in 1..n /\ c = applied[n - m + j]
  BY <1>3 DEF LogInv, LogIsSuffix
<1>5. c \in CommandRecord /\ UsesKey(c.id, c.user, c.action)
  BY <1>4, ElementOfSeq DEF LogInv, AppliedAllowed
<1>6. c.user = p /\ c.action = a
  BY <1>2, <1>5 DEF KeysAreOwn, CommandRecord
<1>7. c = Command(k, p, a)
  BY <1>2, <1>5, <1>6 DEF Command, CommandRecord
<1> QED BY <1>2, <1>7

\* What is left of a sequence without its first element.
LEMMA WithoutFirst ==
    ASSUME NEW S, NEW s \in Seq(S), NEW m \in Nat \ {0}, Len(s) = m + 1
    PROVE  /\ SubSeq(s, 2, m + 1) \in Seq(S)
           /\ Len(SubSeq(s, 2, m + 1)) = m
           /\ \A i \in 1..m : SubSeq(s, 2, m + 1)[i] = s[i + 1]
<1> DEFINE first == 2
           last == m + 1
<1>1. first \in Int /\ last \in Int /\ first <= last /\ last - first + 1 = m
  OBVIOUS
<1>2. \A i \in first..last : s[i] \in S
  <2>1. first..last \subseteq 1..Len(s)
    OBVIOUS
  <2> QED BY <2>1, ElementOfSeq
<1>3. \A i \in 1..m : first + i - 1 = i + 1
  OBVIOUS
<1> HIDE DEF first, last
<1>4. /\ SubSeq(s, first, last) \in Seq(S)
      /\ Len(SubSeq(s, first, last)) = IF first <= last THEN last - first + 1 ELSE 0
      /\ \A i \in 1..(last - first + 1) : SubSeq(s, first, last)[i] = s[first + i - 1]
  BY <1>1, <1>2, SubSeqProperties
<1> QED BY <1>1, <1>3, <1>4 DEF first, last

\* What recording does to the two sequences.
LEMMA RecordedLog ==
    ASSUME LogInv, NEW k, NEW p, NEW a, Command(k, p, a) \in CommandRecord,
           RecordCommand(k, p, a)
    PROVE  /\ processed' \in Seq(CommandRecord) /\ applied' \in Seq(CommandRecord)
           /\ Len(applied') = Len(applied) + 1
           /\ \A i \in 1..Len(applied) : applied'[i] = applied[i]
           /\ applied'[Len(applied) + 1] = Command(k, p, a)
           /\ LogIsSuffix'
<1> DEFINE n == Len(applied)
           m == Len(processed)
           c == Command(k, p, a)
           log == Append(processed, c)
<1>1. processed \in Seq(CommandRecord) /\ applied \in Seq(CommandRecord)
  BY DEF LogInv
<1>2. n \in Nat /\ m \in Nat /\ MaxProcessed \in Nat \ {0}
  BY <1>1, CommandAssumption, LenProperties
<1>3. m = IF n < MaxProcessed THEN n ELSE MaxProcessed
  BY DEF LogInv, LogIsSuffix
<1>4. \A i \in 1..m : processed[i] = applied[n - m + i]
  BY DEF LogInv, LogIsSuffix
<1>5. /\ applied' \in Seq(CommandRecord)
      /\ Len(applied') = n + 1
      /\ \A i \in 1..n : applied'[i] = applied[i]
      /\ applied'[n + 1] = c
  BY <1>1, AppendProperties DEF RecordCommand
<1>6. /\ log \in Seq(CommandRecord)
      /\ Len(log) = m + 1
      /\ \A i \in 1..m : log[i] = processed[i]
      /\ log[m + 1] = c
  BY <1>1, AppendProperties
<1>7. processed' = IF Len(log) > MaxProcessed
                     THEN SubSeq(log, Len(log) - MaxProcessed + 1, Len(log)) ELSE log
  BY DEF RecordCommand
<1> HIDE DEF n, m, c, log
<1>8. CASE m + 1 > MaxProcessed
  <2>1. m = MaxProcessed /\ m <= n
    BY <1>2, <1>3, <1>8
  <2>2. Len(log) > MaxProcessed /\ Len(log) - MaxProcessed + 1 = 2 /\ Len(log) = m + 1
    BY <1>2, <1>6, <1>8, <2>1
  <2>3. processed' = SubSeq(log, Len(log) - MaxProcessed + 1, Len(log))
    BY <1>7, <2>2
  <2>4. processed' = SubSeq(log, 2, m + 1)
    BY <2>2, <2>3
  <2>5. m \in Nat \ {0}
    BY <1>2, <2>1
  <2>6. /\ processed' \in Seq(CommandRecord)
        /\ Len(processed') = m
        /\ \A i \in 1..m : processed'[i] = log[i + 1]
    BY <1>6, <2>2, <2>4, <2>5, WithoutFirst
  <2>7. ASSUME NEW i \in 1..m PROVE processed'[i] = applied'[n + 1 - m + i]
    <3>1. CASE i = m
      BY <1>2, <1>5, <1>6, <2>6, <3>1
    <3>2. CASE i # m
      <4>1. i + 1 \in 1..m /\ n - m + (i + 1) = n + 1 - m + i /\ n + 1 - m + i \in 1..n
        BY <1>2, <2>1, <3>2
      <4>2. log[i + 1] = applied[n - m + (i + 1)]
        BY <1>4, <1>6, <4>1
      <4> QED BY <1>5, <2>6, <4>1, <4>2
    <3> QED BY <3>1, <3>2
  <2>8. m = IF n + 1 < MaxProcessed THEN n + 1 ELSE MaxProcessed
    BY <1>2, <2>1
  <2>9. LogIsSuffix'
    <3>1. Len(processed') = IF Len(applied') < MaxProcessed THEN Len(applied') ELSE MaxProcessed
      BY <1>5, <2>6, <2>8
    <3>2. \A i \in 1..Len(processed') :
              processed'[i] = applied'[Len(applied') - Len(processed') + i]
      <4>1. Len(applied') = n + 1 /\ Len(processed') = m
        BY <1>5, <2>6
      <4>2. Len(applied') - Len(processed') = n + 1 - m
        BY <1>2, <4>1
      <4>3. ASSUME NEW i \in 1..Len(processed')
            PROVE  processed'[i] = applied'[Len(applied') - Len(processed') + i]
        <5>1. processed'[i] = applied'[n + 1 - m + i]
          BY <2>7, <4>1
        <5> QED BY <4>2, <5>1
      <4> QED BY <4>3
    <3> QED BY <3>1, <3>2 DEF LogIsSuffix
  <2> QED BY <1>5, <2>6, <2>9 DEF n, c
<1>9. CASE ~(m + 1 > MaxProcessed)
  <2>1. m = n /\ n + 1 <= MaxProcessed
    BY <1>2, <1>3, <1>9
  <2>2. processed' = log
    BY <1>6, <1>7, <1>9
  <2>3. ASSUME NEW i \in 1..(n + 1) PROVE log[i] = applied'[n + 1 - (n + 1) + i]
    <3>1. n + 1 - (n + 1) + i = i /\ (i \in 1..n \/ i = n + 1)
      BY <1>2
    <3>2. CASE i \in 1..n
      <4>1. n - m + i = i
        BY <1>2, <2>1
      <4> QED BY <1>4, <1>5, <1>6, <2>1, <3>1, <3>2, <4>1
    <3>3. CASE i = n + 1
      BY <1>5, <1>6, <2>1, <3>1, <3>3
    <3> QED BY <3>1, <3>2, <3>3
  <2>4. n + 1 = IF n + 1 < MaxProcessed THEN n + 1 ELSE MaxProcessed
    BY <1>2, <2>1
  <2>5. LogIsSuffix'
    <3>1. Len(processed') = IF Len(applied') < MaxProcessed THEN Len(applied') ELSE MaxProcessed
      BY <1>5, <1>6, <2>1, <2>2, <2>4
    <3>2. \A i \in 1..Len(processed') :
              processed'[i] = applied'[Len(applied') - Len(processed') + i]
      <4>1. Len(applied') = n + 1 /\ Len(processed') = n + 1
        BY <1>5, <1>6, <2>1, <2>2
      <4>2. Len(applied') - Len(processed') = n + 1 - (n + 1)
        BY <1>2, <4>1
      <4>3. ASSUME NEW i \in 1..Len(processed')
            PROVE  processed'[i] = applied'[Len(applied') - Len(processed') + i]
        <5>1. processed'[i] = applied'[n + 1 - (n + 1) + i]
          BY <2>2, <2>3, <4>1
        <5> QED BY <4>2, <5>1
      <4> QED BY <4>3
    <3> QED BY <3>1, <3>2 DEF LogIsSuffix
  <2> QED BY <1>5, <1>6, <2>2, <2>5 DEF n, c
<1> QED BY <1>8, <1>9

\* A command that is not in the log was, if ever, applied before everything the log holds.
LEMMA RecordStep ==
    ASSUME LogInv, NEW k \in Key, NEW p \in Player, NEW a \in Action, UsesKey(k, p, a),
           KeysAreOwn => NotLogged(k, p, a), RecordCommand(k, p, a)
    PROVE  LogInv'
<1> DEFINE n == Len(applied)
           m == Len(processed)
           c == Command(k, p, a)
<1>1. c \in CommandRecord /\ c.id = k /\ c.user = p /\ c.action = a
  BY DEF Command, CommandRecord
<1>2. /\ processed' \in Seq(CommandRecord) /\ applied' \in Seq(CommandRecord)
      /\ Len(applied') = n + 1
      /\ \A i \in 1..n : applied'[i] = applied[i]
      /\ applied'[n + 1] = c
      /\ LogIsSuffix'
  BY <1>1, RecordedLog
<1>3. n \in Nat /\ m \in Nat /\ MaxProcessed \in Nat \ {0}
  BY CommandAssumption, LenProperties DEF LogInv
<1>4. DOMAIN applied = 1..n /\ DOMAIN applied' = 1..(n + 1)
  BY <1>2, LenProperties DEF LogInv
<1>5. /\ m = IF n < MaxProcessed THEN n ELSE MaxProcessed
      /\ \A i \in 1..m : processed[i] = applied[n - m + i]
  BY DEF LogInv, LogIsSuffix
<1>6. \A i \in 1..n : UsesKey(applied[i].id, applied[i].user, applied[i].action)
  BY DEF LogInv, AppliedAllowed
<1>7. KeysAreOwn => \A i \in 1..m : processed[i] # c
  BY DEF NotLogged
<1>8. KeysAreOwn => \A i, j \in 1..n : i < j /\ applied[i] = applied[j] => j - i > MaxProcessed
  BY <1>4 DEF LogInv, AtMostOnceInWindow
<1> HIDE DEF n, m, c
<1>9. AppliedAllowed'
  <2>1. \A i \in 1..(n + 1) : i \in 1..n \/ i = n + 1
    BY <1>3
  <2> QED BY <1>1, <1>2, <1>6, <2>1 DEF AppliedAllowed
<1>10. KeysAreOwn => AtMostOnceInWindow'
  <2> SUFFICES ASSUME KeysAreOwn, NEW i \in 1..(n + 1), NEW j \in 1..(n + 1),
                      i < j, applied'[i] = applied'[j]
               PROVE  j - i > MaxProcessed
    BY <1>4 DEF AtMostOnceInWindow
  <2>1. i \in 1..n /\ (j \in 1..n \/ j = n + 1)
    BY <1>3
  <2>2. CASE j \in 1..n
    BY <1>2, <1>8, <2>1, <2>2
  <2>3. CASE j = n + 1
    <3>1. applied[i] = c
      BY <1>2, <2>1, <2>3
    <3>2. i <= n - m
      <4> SUFFICES ASSUME i > n - m PROVE FALSE
        BY <1>3, <2>1
      <4>1. i - (n - m) \in 1..m /\ n - m + (i - (n - m)) = i
        BY <1>3, <2>1
      <4> QED BY <1>5, <1>7, <3>1, <4>1
    <3>3. m = MaxProcessed
      BY <1>3, <1>5, <2>1, <3>2
    <3> QED BY <1>3, <2>1, <2>3, <3>2, <3>3
  <2> QED BY <2>1, <2>2, <2>3
<1> QED BY <1>2, <1>9, <1>10 DEF LogInv

\* Every command is an operation of the match, or none.
LEMMA CommandsAreOperations == [CommandNext]_commandVars => [Next]_vars
<1> SUFFICES ASSUME [CommandNext]_commandVars PROVE [Next]_vars
  OBVIOUS
<1>1. ASSUME NEW k \in Key, NEW p \in Player, NEW cards \in SUBSET Card,
             CommitDeckCommand(k, p, cards)
      PROVE  Next
  BY <1>1 DEF CommitDeckCommand, Next, Operation
<1>2. ASSUME NEW k \in Key, NEW p \in Player, StartCommand(k, p, MaxPool)
      PROVE  Next
  <2>1. MaxPool \in 1..MaxPool /\ TRUE \in BOOLEAN
    BY BoundsAssumption
  <2>2. Start(p, TRUE, MaxPool)
    BY <1>2 DEF StartCommand
  <2> QED BY <2>1, <2>2 DEF Next, Operation
<1>3. ASSUME NEW k \in Key, NEW p \in Player, NEW lag \in TurnLag, NEW right \in Outcomes,
             AnswerCommand(k, p, current + lag, right)
      PROVE  Next
  <2>1. SubmitAnswer(p, current + lag, right)
    BY <1>3 DEF AnswerCommand
  <2> QED BY <2>1 DEF Next, Operation
<1>4. ASSUME NEW k \in Key, NEW p \in Player, ForfeitCommand(k, p)
      PROVE  Next
  BY <1>4 DEF ForfeitCommand, Next, Operation
<1>5. CASE AnswerApplied
  BY <1>5 DEF AnswerApplied, Next, LoopStep
<1>6. CASE AnswerRefused
  BY <1>6 DEF AnswerRefused, Next, LoopStep
<1>7. CASE WithoutCommand
  BY <1>7 DEF WithoutCommand, Next, Operation, LoopStep
<1>8. CASE UNCHANGED commandVars
  BY <1>8 DEF commandVars
<1> QED BY <1>1, <1>2, <1>3, <1>4, <1>5, <1>6, <1>7, <1>8 DEF CommandNext

\* Keys only hold commands back: whatever clients send again, and under whatever key,
\* the match does what it does without keys, so that every theorem above holds of
\* matches played under keys too.
THEOREM CommandsKeepTheRules == CommandSpec => Spec
<1>1. CommandInit => Init
  BY DEF CommandInit
<1> QED BY <1>1, CommandsAreOperations, PTL DEF CommandSpec, Spec

\* Nothing is recorded where nothing is applied.
LEMMA LogSame ==
    ASSUME LogInv, UNCHANGED <<processed, applied>>
    PROVE  LogInv'
BY DEF LogInv, LogIsSuffix, AppliedAllowed, AtMostOnceInWindow

LEMMA PendingSame ==
    ASSUME AnswerPending, UNCHANGED <<processed, key, request>>, loop' # "idle" \/ loop' = loop
    PROVE  AnswerPending'
BY DEF AnswerPending, NotLogged

LEMMA NonePending ==
    ASSUME request' = NoRequest
    PROVE  AnswerPending'
BY DEF AnswerPending, NoRequest

\* A command that is recorded when it is applied.
LEMMA RecordAtOnce ==
    ASSUME LogInv, AnswerPending, loop = "idle", UNCHANGED request,
           NEW k \in Key, NEW p \in Player, NEW a \in Action,
           UsesKey(k, p, a), ~CommandSeen(k, p, a), RecordCommand(k, p, a)
    PROVE  LogInv' /\ AnswerPending'
<1>1. KeysAreOwn => NotLogged(k, p, a)
  BY UnseenIsNew
<1>2. LogInv'
  BY <1>1, RecordStep
<1>3. request' = NoRequest
  BY DEF AnswerPending
<1> QED BY <1>2, <1>3, NonePending

LEMMA AnswerSent ==
    ASSUME LogInv, NEW k \in Key, NEW p \in Player, NEW turnId, NEW correct,
           UsesKey(k, p, "answer"), AnswerCommand(k, p, turnId, correct)
    PROVE  LogInv' /\ AnswerPending'
<1>1. ~CommandSeen(k, p, "answer")
  BY DEF AnswerCommand
<1>2. KeysAreOwn => NotLogged(k, p, "answer")
  BY <1>1, UnseenIsNew DEF Action
<1>3. UNCHANGED <<processed, applied>> /\ key' = k
  BY DEF AnswerCommand
<1>4. loop' = "running" /\ request' = [user |-> p, turnId |-> turnId, correct |-> correct]
  BY DEF AnswerCommand, SubmitAnswer
<1>5. request'.user = p
  BY <1>4
<1>6. KeysAreOwn => NotLogged(k, p, "answer")'
  BY <1>2, <1>3 DEF NotLogged
<1>7. AnswerPending'
  BY <1>3, <1>4, <1>5, <1>6 DEF AnswerPending, NotLogged
<1> QED BY <1>3, <1>7, LogSame

LEMMA WithoutCommandLog ==
    ASSUME LogInv, AnswerPending, WithoutCommand
    PROVE  LogInv' /\ AnswerPending'
<1>1. UNCHANGED <<processed, key, applied>>
  BY DEF WithoutCommand
<1>2. LogInv'
  BY <1>1, LogSame
<1>3. \/ request' = request /\ (loop' # "idle" \/ loop' = loop)
      \/ request' = NoRequest
  BY DEF WithoutCommand, AddTieBreakQuestions, Tick, TickExpire, TickNextTurn,
         TickFinishStage, TickReturn, Return, AdvanceClock, call
<1>4. AnswerPending'
  BY <1>1, <1>3, PendingSame, NonePending
<1> QED BY <1>2, <1>4

LEMMA CommandInductive ==
    LogInv /\ AnswerPending /\ [CommandNext]_commandVars => LogInv' /\ AnswerPending'
<1> SUFFICES ASSUME LogInv, AnswerPending, [CommandNext]_commandVars
             PROVE  LogInv' /\ AnswerPending'
  OBVIOUS
<1>1. ASSUME NEW k \in Key, NEW p \in Player, NEW cards \in SUBSET Card,
             UsesKey(k, p, "commit_deck"), CommitDeckCommand(k, p, cards)
      PROVE  LogInv' /\ AnswerPending'
  <2>1. loop = "idle" /\ UNCHANGED request
    BY <1>1 DEF CommitDeckCommand, CommitDeck, call
  <2>2. ~CommandSeen(k, p, "commit_deck") /\ RecordCommand(k, p, "commit_deck")
    BY <1>1 DEF CommitDeckCommand
  <2>3. "commit_deck" \in Action
    BY DEF Action
  <2> QED BY <1>1, <2>1, <2>2, <2>3, RecordAtOnce
<1>2. ASSUME NEW k \in Key, NEW p \in Player,
             UsesKey(k, p, "start"), StartCommand(k, p, MaxPool)
      PROVE  LogInv' /\ AnswerPending'
  <2>1. loop = "idle" /\ UNCHANGED request
    BY <1>2 DEF StartCommand, Start, call
  <2>2. ~CommandSeen(k, p, "start") /\ RecordCommand(k, p, "start")
    BY <1>2 DEF StartCommand
  <2>3. "start" \in Action
    BY DEF Action
  <2> QED BY <1>2, <2>1, <2>2, <2>3, RecordAtOnce
<1>3. ASSUME NEW k \in Key, NEW p \in Player, NEW lag \in TurnLag, NEW right \in Outcomes,
             UsesKey(k, p, "answer"), AnswerCommand(k, p, current + lag, right)
      PROVE  LogInv' /\ AnswerPending'
  BY <1>3, AnswerSent
<1>4. ASSUME NEW k \in Key, NEW p \in Player,
             UsesKey(k, p, "forfeit"), ForfeitCommand(k, p)
      PROVE  LogInv' /\ AnswerPending'
  <2>1. loop = "idle" /\ UNCHANGED request
    BY <1>4 DEF ForfeitCommand, Forfeit, call
  <2>2. ~CommandSeen(k, p, "forfeit") /\ RecordCommand(k, p, "forfeit")
    BY <1>4 DEF ForfeitCommand
  <2>3. "forfeit" \in Action
    BY DEF Action
  <2> QED BY <1>4, <2>1, <2>2, <2>3, RecordAtOnce
<1>5. CASE AnswerApplied
  <2>1. request # NoRequest /\ request' = NoRequest
    BY <1>5 DEF AnswerApplied, AnswerAccepted, Return
  <2>2. RecordCommand(key, request.user, "answer") /\ "answer" \in Action
    BY <1>5 DEF AnswerApplied, Action
  <2>3. /\ key \in Key /\ request.user \in Player
        /\ UsesKey(key, request.user, "answer")
        /\ KeysAreOwn => NotLogged(key, request.user, "answer")
    BY <2>1 DEF AnswerPending
  <2>4. LogInv'
    BY <2>2, <2>3, RecordStep
  <2> QED BY <2>1, <2>4, NonePending
<1>6. CASE AnswerRefused
  <2>1. UNCHANGED <<processed, applied>> /\ request' = NoRequest
    BY <1>6 DEF AnswerRefused, AnswerRejected, Return
  <2> QED BY <2>1, LogSame, NonePending
<1>7. CASE WithoutCommand
  BY <1>7, WithoutCommandLog
<1>8. CASE UNCHANGED commandVars
  <2>1. UNCHANGED <<processed, applied, key, request, loop>>
    BY <1>8 DEF commandVars, vars, call
  <2> QED BY <2>1, LogSame, PendingSame
<1> QED BY <1>1, <1>2, <1>3, <1>4, <1>5, <1>6, <1>7, <1>8 DEF CommandNext

LEMMA CommandInvInit == CommandInit => LogInv /\ AnswerPending
<1> SUFFICES ASSUME CommandInit PROVE LogInv /\ AnswerPending
  OBVIOUS
<1>1. processed = <<>> /\ applied = <<>>
  BY DEF CommandInit
<1>2. processed \in Seq(CommandRecord) /\ applied \in Seq(CommandRecord)
  BY <1>1, EmptySeq
<1>3. Len(processed) = 0 /\ Len(applied) = 0
  BY <1>1, EmptySeq
<1>4. LogIsSuffix
  BY <1>3, CommandAssumption DEF LogIsSuffix
<1>5. AppliedAllowed
  BY <1>3 DEF AppliedAllowed
<1>6. AtMostOnceInWindow
  BY <1>1 DEF AtMostOnceInWindow
<1>7. request = NoRequest
  BY DEF CommandInit, Init
<1> QED BY <1>2, <1>4, <1>5, <1>6, <1>7 DEF LogInv, AnswerPending

LEMMA CommandInvCorrect == CommandSpec => [](LogInv /\ AnswerPending)
BY CommandInvInit, CommandInductive, PTL DEF CommandSpec

\* No command is swallowed by somebody else's key: what commandSeen acknowledges without
\* effect is in the log under this key, player and action, and the log is a suffix of
\* what took effect.  This needs nothing of the keys.
THEOREM ReplaysAreGenuine == CommandSpec => []ReplayIsGenuine
<1>1. LogInv => ReplayIsGenuine
  BY ReplayGenuine DEF ReplayIsGenuine
<1> QED BY <1>1, CommandInvCorrect, PTL

\* With keys that belong to one player's one action, as the client makes them up, a
\* command that arrives again has no second effect before MaxProcessed others took
\* effect, across the Tick during which an answer waits to be recorded too.
THEOREM OnceInWindow == ASSUME KeysAreOwn PROVE CommandSpec => []AtMostOnceInWindow
<1>1. LogInv => AtMostOnceInWindow
  BY DEF LogInv
<1> QED BY <1>1, CommandInvCorrect, PTL
=============================================================================
