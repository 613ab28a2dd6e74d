--------------------------- MODULE MatchAggregate ---------------------------
(***************************************************************************)
(* The battle aggregate of domain/match: one match, from deck collection   *)
(* through timed main turns and tie-break turns to its result.             *)
(*                                                                         *)
(* Time is lazy in this code: nothing runs in the background, every call   *)
(* first replays (Tick) the deadlines and reveal windows that went by.     *)
(* Tick is a loop over an in-memory object that its caller has locked, so  *)
(* one iteration of it is one step here and, while loop # "idle", no other *)
(* operation and no clock step can happen.                                 *)
(*                                                                         *)
(* Abstractions: of Turns only the current one is kept (no operation       *)
(* writes another one), a turn is named by its position, an option is      *)
(* right or wrong, and the question pool is its length.  The log of        *)
(* processed commands only suppresses replays, a stuttering step here;     *)
(* MatchCommands adds it.                                                  *)
(***************************************************************************)
EXTENDS Integers, FiniteSets, Functions

CONSTANTS
    Player,          \* the frozen roster (UserIDs)
    Owner,           \* OwnerID
    NoPlayer,        \* WinnerID = 0
    Mode,            \* "duel", "open" or "team"
    TeamOf,          \* Player.Team: 1 or 2 in a team arena, else 0
    Card,            \* card IDs
    CardOwner,       \* CardSnapshot.OwnerID
    DeckSize, TurnDuration, RevealDuration,
    MaxTime,         \* bound: the clock stops here
    MaxPool,         \* bound: questions the bank can supply in all
    MaxCommits,      \* bound: accepted deck commits
    TurnLag,         \* bound: how far from the current turn is the turn a client names
    Outcomes,        \* bound: whether clients give right answers, wrong ones or both
    MaxVersion       \* bound: Version, for polls of a match that awaits a question

ASSUME RosterAssumption ==
    /\ IsFiniteSet(Player)
    /\ Owner \in Player
    /\ NoPlayer \notin Player
    /\ Mode \in {"duel", "open", "team"}
    /\ TeamOf \in [Player -> 0..2]
    /\ CardOwner \in [Card -> Player]

ASSUME BoundsAssumption ==
    /\ DeckSize \in Nat \ {0}
    /\ TurnDuration \in Nat \ {0}
    /\ RevealDuration \in Nat \ {0}
    /\ MaxTime \in Nat
    /\ MaxPool \in Nat \ {0}
    /\ MaxCommits \in Nat
    /\ MaxVersion \in Nat
    /\ TurnLag \subseteq Int
    /\ Outcomes \subseteq BOOLEAN

VARIABLES
    now,        \* the server clock an operation is given
    status, deck, score,
    startedAt,  \* StartedAt of the match
    turnCount,  \* len(Turns)
    current,    \* CurrentTurn
    turn,       \* Turns[CurrentTurn]
    tieBreak,   \* TieBreak
    winner,     \* WinnerID, WinnerTeam, WinnerIDs, IsTie
    version,
    loop,       \* where the running call is in Tick: idle, running, returning
    changed,    \* Tick's local of that name
    request     \* arguments of the SubmitAnswer that called Tick

aggregate == <<status, deck, score, startedAt, turnCount, current, turn,
               tieBreak, winner, version>>
contest == <<score, turnCount, current, turn, tieBreak, winner>>
call == <<loop, changed, request>>
vars == <<now, aggregate, call>>

NoRequest == [user |-> NoPlayer, turnId |-> -1, correct |-> FALSE]
NoWinner == [id |-> NoPlayer, team |-> 0, ids |-> {}, isTie |-> FALSE]
SoleWinner(p) == [id |-> p, team |-> 0, ids |-> {p}, isTie |-> FALSE]
Drawn == [id |-> NoPlayer, team |-> 0, ids |-> {}, isTie |-> TRUE]
NoTieBreak == [enabled |-> FALSE, active |-> FALSE, phase |-> "none", ids |-> {},
               teams |-> {}, pool |-> 0, next |-> 0, awaiting |-> FALSE]
FreshTieBreak(questions) ==
    [enabled |-> TRUE, active |-> FALSE, phase |-> "none", ids |-> {},
     teams |-> {}, pool |-> questions, next |-> 0, awaiting |-> FALSE]
NoTurn == [kind |-> "main", status |-> "pending", eligible |-> {}, answered |-> {},
           startedAt |-> 0, deadline |-> 0, revealUntil |-> 0]

Terminal == {"completed", "forfeited"}
Playing == status \in {"active", "tie_break"}

Statuses == {"collecting_decks", "active", "tie_break", "completed", "forfeited"}
TurnType ==
    [kind : {"main", "tie_break"}, status : {"pending", "active", "resolved"},
     eligible : SUBSET Player, answered : SUBSET Player,
     startedAt : Nat, deadline : Nat, revealUntil : Nat]
TieBreakType ==
    [enabled : BOOLEAN, active : BOOLEAN, phase : {"none", "teams", "champion"},
     ids : SUBSET Player, teams : SUBSET (1..2), pool : Nat, next : Nat, awaiting : BOOLEAN]
WinnerType ==
    [id : Player \cup {NoPlayer}, team : 0..2, ids : SUBSET Player, isTie : BOOLEAN]
RequestType == [user : Player \cup {NoPlayer}, turnId : Int, correct : BOOLEAN]

TypeOK ==
    /\ now \in Nat
    /\ status \in Statuses
    /\ deck \in [Player -> SUBSET Card]
    /\ score \in [Player -> Nat]
    /\ startedAt \in Nat
    /\ turnCount \in Nat
    /\ current \in Int
    /\ turn \in TurnType
    /\ tieBreak \in TieBreakType
    /\ winner \in WinnerType
    /\ version \in Nat
    /\ loop \in {"idle", "running", "returning"}
    /\ changed \in BOOLEAN
    /\ request \in RequestType

-----------------------------------------------------------------------------
(* Roster, ranking and turns *)

PlayersInTeams(teams) == {p \in Player : TeamOf[p] \in teams}
TeamScore(team) == SumFunctionOnSet(score, PlayersInTeams({team}))

\* Mutants: the ranking is cut after its first entry.
FirstLeader(ids) == {CHOOSE p \in ids : \A q \in ids : score[q] <= score[p]}
FirstTeam(teams) == {CHOOSE t \in teams : \A u \in teams : TeamScore(u) <= TeamScore(t)}

\* The candidates whom nobody among the candidates beats.
LeadingPlayers(ids) == {p \in ids : \A q \in ids : score[q] <= score[p]}
LeadingTeams(teams) == {t \in teams : \A u \in teams : TeamScore(u) <= TeamScore(t)}

ValidRoster ==
    CASE Mode = "duel" -> Cardinality(Player) = 2
      [] Mode = "open" -> Cardinality(Player) \in 2..8
      [] Mode = "team" -> /\ PlayersInTeams({1, 2}) = Player
                          /\ Cardinality(PlayersInTeams({1})) = Cardinality(PlayersInTeams({2}))
                          /\ PlayersInTeams({1}) # {}

\* The whole percent-like speed bonus: 100 for a right answer plus up to 50.
Points(remaining) == 100 + (50 * remaining) \div TurnDuration

StartTurn(kind, eligible, at) ==
    [kind |-> kind, status |-> "active", eligible |-> eligible, answered |-> {},
     startedAt |-> at, deadline |-> at + TurnDuration, revealUntil |-> 0]
ResolveTurn(t, at) ==
    [t EXCEPT !.status = "resolved", !.revealUntil = at + RevealDuration]
EligibleFor(t) == IF t.eligible # {} THEN t.eligible ELSE Player

Init ==
    /\ now = 0
    /\ status = "collecting_decks"
    /\ deck = [p \in Player |-> {}]
    /\ score = [p \in Player |-> 0]
    /\ startedAt = 0
    /\ turnCount = 0
    /\ current = -1
    /\ turn = NoTurn
    /\ tieBreak = NoTieBreak
    /\ winner = NoWinner
    /\ version = 1
    /\ loop = "idle"
    /\ changed = FALSE
    /\ request = NoRequest

-----------------------------------------------------------------------------
(* Collecting decks *)

\* MaxCommits bounds re-commits: before the start, Version counts the commits.
CommitDeck(p, cards) ==
    /\ loop = "idle"
    /\ status = "collecting_decks"
    /\ version <= MaxCommits
    /\ Cardinality(cards) = DeckSize
    /\ \A c \in cards : CardOwner[c] = p
    /\ \A q \in Player \ {p} : deck[q] \cap cards = {}
    /\ deck' = [deck EXCEPT ![p] = cards]
    /\ version' = version + 1
    /\ UNCHANGED <<now, status, startedAt, contest, call>>

\* withTieBreak is StartWithTieBreak; the legacy Start leaves the pool empty.
Start(p, withTieBreak, questions) ==
    /\ loop = "idle"
    /\ status = "collecting_decks"
    /\ p = Owner
    /\ ValidRoster
    /\ \A q \in Player : Cardinality(deck[q]) = DeckSize
    /\ tieBreak' = IF withTieBreak THEN FreshTieBreak(questions) ELSE NoTieBreak
    /\ status' = "active"
    /\ startedAt' = now
    /\ turnCount' = DeckSize * Cardinality(Player)
    /\ current' = 0
    /\ turn' = StartTurn("main", Player, now)
    /\ version' = version + 1
    /\ UNCHANGED <<now, deck, score, winner, call>>

-----------------------------------------------------------------------------
(* Deciding: finishStage and what it calls.  Each operator fixes the next    *)
(* values of status, winner, tieBreak, turn, turnCount and current.          *)

\* Mutant: awaiting is not reset.
ScheduleStillAwaiting(tb, at) ==
    /\ status' = "tie_break"
    /\ \/ /\ tb.next >= tb.pool
          /\ tieBreak' = [tb EXCEPT !.awaiting = TRUE]
          /\ UNCHANGED <<turn, turnCount, current>>
       \/ /\ tb.next < tb.pool
          /\ tieBreak' = [tb EXCEPT !.next = @ + 1]
          /\ turn' = StartTurn("tie_break", tb.ids, at)
          /\ turnCount' = turnCount + 1
          /\ current' = turnCount

ScheduleTieBreak(tb, at) ==
    /\ status' = "tie_break"
    /\ \/ /\ tb.next >= tb.pool
          /\ tieBreak' = [tb EXCEPT !.awaiting = TRUE]
          /\ UNCHANGED <<turn, turnCount, current>>
       \/ /\ tb.next < tb.pool
          /\ tieBreak' = [tb EXCEPT !.next = @ + 1, !.awaiting = FALSE]
          /\ turn' = StartTurn("tie_break", tb.ids, at)
          /\ turnCount' = turnCount + 1
          /\ current' = turnCount

BeginTeamTieBreak(teams, at) ==
    /\ winner' = winner
    /\ ScheduleTieBreak([tieBreak EXCEPT !.active = TRUE, !.phase = "teams", !.teams = teams,
                                         !.ids = PlayersInTeams(teams)], at)

Complete(w) ==
    /\ status' = "completed"
    /\ winner' = w
    /\ tieBreak' = [tieBreak EXCEPT !.active = FALSE, !.awaiting = FALSE]
    /\ UNCHANGED <<turn, turnCount, current>>
CompleteWinner(w) == Complete([w EXCEPT !.isTie = FALSE])
CompleteLegacyTie == Complete(Drawn)

\* Mutants: a drawn round ends the match, or everybody plays the next one.
DrawAfterLevelRound(w, players, at) == CompleteLegacyTie
BeginWithEverybody(w, players, at) ==
    /\ winner' = w
    /\ ScheduleTieBreak([tieBreak EXCEPT !.active = TRUE, !.phase = "champion", !.teams = {},
                             !.ids = Player], at)

BeginChampionTieBreak(w, players, at) ==
    /\ winner' = w
    /\ ScheduleTieBreak([tieBreak EXCEPT !.active = TRUE, !.phase = "champion",
                                         !.teams = {}, !.ids = players], at)

\* One leader wins; several play on if a pool was supplied, else the match is drawn.
DecideChampion(w, leaders, at) ==
    \/ \E p \in Player :
          /\ leaders = {p}
          /\ CompleteWinner([w EXCEPT !.id = p, !.ids = IF w.team = 0 THEN {p} ELSE @])
    \/ /\ \A p \in Player : leaders # {p}
       /\ tieBreak.enabled
       /\ BeginChampionTieBreak(w, leaders, at)
    \/ /\ \A p \in Player : leaders # {p}
       /\ ~tieBreak.enabled
       /\ CompleteLegacyTie

DecideTeam(leaders, at) ==
    \/ \E t \in 1..2 :
          /\ leaders = {t}
          /\ DecideChampion([winner EXCEPT !.team = t, !.ids = PlayersInTeams({t})],
                            LeadingPlayers(PlayersInTeams({t})), at)
    \/ /\ \A t \in 1..2 : leaders # {t}
       /\ tieBreak.enabled
       /\ BeginTeamTieBreak(leaders, at)
    \/ /\ \A t \in 1..2 : leaders # {t}
       /\ ~tieBreak.enabled
       /\ CompleteLegacyTie

ResolveMain(at) ==
    \/ /\ Mode = "team"
       /\ DecideTeam(LeadingTeams({1, 2}), at)
    \/ /\ Mode # "team"
       /\ DecideChampion(winner, LeadingPlayers(Player), at)

\* Mutant: a champion tie-break is decided among all players.
ResolveAmongAll(at) ==
    \/ /\ tieBreak.phase = "teams"
       /\ DecideTeam(LeadingTeams(tieBreak.teams), at)
    \/ /\ tieBreak.phase = "champion"
       /\ DecideChampion(winner, LeadingPlayers(Player), at)

ResolveTieBreak(at) ==
    \/ /\ tieBreak.phase = "teams"
       /\ DecideTeam(LeadingTeams(tieBreak.teams), at)
    \/ /\ tieBreak.phase = "champion"
       /\ DecideChampion(winner, LeadingPlayers(tieBreak.ids), at)
    \/ /\ tieBreak.phase = "none"
       /\ CompleteLegacyTie

-----------------------------------------------------------------------------
(* Tick *)

\* A poll: Tick called on its own.  A Tick that finds nothing due stutters.
Tick ==
    /\ loop = "idle"
    /\ Playing
    /\ version < MaxVersion
    /\ loop' = "running"
    /\ UNCHANGED <<now, aggregate, changed, request>>

\* Mutant: a turn expires when somebody notices.
TickExpireNow ==
    /\ loop = "running"
    /\ turn.status = "active"
    /\ now >= turn.deadline
    /\ turn' = ResolveTurn(turn, now)
    /\ changed' = TRUE
    /\ UNCHANGED <<now, status, deck, score, startedAt, turnCount, current, tieBreak,
                   winner, version, loop, request>>

TickExpire ==
    /\ loop = "running"
    /\ turn.status = "active"
    /\ now >= turn.deadline
    /\ turn' = ResolveTurn(turn, turn.deadline)
    /\ changed' = TRUE
    /\ UNCHANGED <<now, status, deck, score, startedAt, turnCount, current, tieBreak,
                   winner, version, loop, request>>

\* Mutant: off by one against the loop's exit.
RevealIsLongOver == turn.status = "resolved" /\ now > turn.revealUntil
RevealIsOver == turn.status = "resolved" /\ now >= turn.revealUntil

TickNextTurn ==
    /\ loop = "running"
    /\ RevealIsOver
    /\ current < turnCount - 1
    /\ current' = current + 1
    /\ turn' = StartTurn("main", Player, turn.revealUntil)
    /\ changed' = TRUE
    /\ UNCHANGED <<now, status, deck, score, startedAt, turnCount, tieBreak, winner,
                   version, loop, request>>

\* The loop ends after a stage that completes the match or drains the pool.
TickFinishStage ==
    /\ loop = "running"
    /\ RevealIsOver
    /\ current >= turnCount - 1
    /\ IF turn.kind = "tie_break" THEN ResolveTieBreak(turn.revealUntil)
                                  ELSE ResolveMain(turn.revealUntil)
    /\ changed' = TRUE
    /\ loop' = IF tieBreak'.awaiting \/ status' = "completed" THEN "returning" ELSE "running"
    /\ UNCHANGED <<now, deck, score, startedAt, version, request>>

\* The conditions under which Tick's loop returns.
LoopIsOver ==
    \/ loop = "returning"
    \/ /\ loop = "running"
       /\ \/ turn.status = "active" /\ now < turn.deadline
          \/ turn.status = "resolved" /\ now < turn.revealUntil

\* Mutant: what Tick did is not versioned.
VersionIgnoresTick == version
VersionAfterTick == IF changed THEN version + 1 ELSE version

Return ==
    /\ loop' = "idle"
    /\ changed' = FALSE
    /\ request' = NoRequest

TickReturn ==
    /\ LoopIsOver
    /\ request = NoRequest
    /\ Return
    /\ version' = VersionAfterTick
    /\ UNCHANGED <<now, status, deck, startedAt, contest>>

-----------------------------------------------------------------------------
(* SubmitAnswer: the checks before Tick, Tick, then the rest *)

SubmitAnswer(p, turnId, correct) ==
    /\ loop = "idle"
    /\ Playing
    /\ version < MaxVersion
    /\ loop' = "running"
    /\ request' = [user |-> p, turnId |-> turnId, correct |-> correct]
    /\ UNCHANGED <<now, aggregate, changed>>

\* Mutant: a second answer to the same turn counts.
AcceptsAgain(r) ==
    /\ Playing
    /\ r.turnId = current
    /\ turn.status = "active"
    /\ now >= turn.startedAt
    /\ r.user \in EligibleFor(turn)
    /\ now < turn.deadline

\* What submitAnswer requires of the aggregate that Tick brought up to date.
Accepts(r) ==
    /\ Playing
    /\ r.turnId = current
    /\ turn.status = "active"
    /\ now >= turn.startedAt
    /\ r.user \in EligibleFor(turn)
    /\ now < turn.deadline
    /\ r.user \notin turn.answered

AnswerAccepted ==
    /\ LoopIsOver
    /\ request # NoRequest
    /\ Accepts(request)
    /\ LET points == IF request.correct THEN Points(turn.deadline - now) ELSE 0
           answered == [turn EXCEPT !.answered = @ \cup {request.user}]
       IN  /\ score' = [score EXCEPT ![request.user] = @ + points]
           /\ turn' = IF answered.answered = EligibleFor(turn)
                        THEN ResolveTurn(answered, now) ELSE answered
    /\ version' = VersionAfterTick + 1
    /\ Return
    /\ UNCHANGED <<now, status, deck, startedAt, turnCount, current, tieBreak, winner>>

AnswerRejected ==
    /\ LoopIsOver
    /\ request # NoRequest
    /\ ~Accepts(request)
    /\ version' = VersionAfterTick
    /\ Return
    /\ UNCHANGED <<now, status, deck, startedAt, contest>>

-----------------------------------------------------------------------------
(* The remaining operations *)

\* MaxPool bounds what the question bank can add.
AddTieBreakQuestions(questions) ==
    /\ loop = "idle"
    /\ status = "tie_break"
    /\ tieBreak.enabled
    /\ tieBreak.awaiting
    /\ tieBreak.pool + questions <= MaxPool
    /\ ScheduleTieBreak([tieBreak EXCEPT !.pool = @ + questions], now)
    /\ version' = version + 1
    /\ UNCHANGED <<now, deck, score, startedAt, winner, call>>

\* Mutant: a match that is over can be forfeited.
ForfeitAnytime(p) ==
    /\ loop = "idle"
    /\ Mode # "duel" => p = Owner
    /\ version < MaxVersion
    /\ status' = "forfeited"
    /\ \/ /\ Cardinality(Player) = 2
          /\ \E other \in Player \ {p} :
                winner' = SoleWinner(other)
       \/ /\ Cardinality(Player) # 2
          /\ winner' = NoWinner
    /\ tieBreak' = [tieBreak EXCEPT !.active = FALSE, !.awaiting = FALSE]
    /\ version' = version + 1
    /\ UNCHANGED <<now, deck, score, startedAt, turnCount, current, turn, call>>

\* Forfeit does not Tick: it judges the status last persisted.
Forfeit(p) ==
    /\ loop = "idle"
    /\ Mode # "duel" => p = Owner
    /\ status \notin Terminal
    /\ status' = "forfeited"
    /\ \/ /\ Cardinality(Player) = 2
          /\ \E other \in Player \ {p} :
                winner' = SoleWinner(other)
       \/ /\ Cardinality(Player) # 2
          /\ winner' = NoWinner
    /\ tieBreak' = [tieBreak EXCEPT !.active = FALSE, !.awaiting = FALSE]
    /\ version' = version + 1
    /\ UNCHANGED <<now, deck, score, startedAt, turnCount, current, turn, call>>

\* Nothing reads the clock before the start: it stands still until then.
AdvanceClock ==
    /\ loop = "idle"
    /\ Playing
    /\ now < MaxTime
    /\ now' = now + 1
    /\ UNCHANGED <<aggregate, call>>

Operation ==
    \/ \E p \in Player, cards \in SUBSET Card : CommitDeck(p, cards)
    \/ \E p \in Player, tb \in BOOLEAN, n \in 1..MaxPool : Start(p, tb, n)
    \/ \E p \in Player, lag \in TurnLag, right \in Outcomes :
          SubmitAnswer(p, current + lag, right)
    \/ \E n \in 1..MaxPool : AddTieBreakQuestions(n)
    \/ \E p \in Player : Forfeit(p)
    \/ Tick

LoopStep ==
    \/ TickExpire
    \/ TickNextTurn
    \/ TickFinishStage
    \/ TickReturn
    \/ AnswerAccepted
    \/ AnswerRejected

Next == Operation \/ LoopStep \/ AdvanceClock

Spec == Init /\ [][Next]_vars

\* A call that began finishes; time passes (strong fairness, for the model stops
\* the clock during a call and no sequence of calls stops real time); some client
\* keeps polling the match, as the battle page does.  Nobody has to answer or start.
Fairness == WF_vars(LoopStep) /\ SF_vars(AdvanceClock) /\ WF_vars(Tick)
FairSpec == Spec /\ Fairness

-----------------------------------------------------------------------------
(* Properties *)

\* Of a completed match that is not a draw, the winner beats everyone in his
\* field outright: every other player of a duel or open arena, every other member of
\* the winning team in a team arena.  It takes all tie-break rounds with shrinking
\* contender sets to get this right (resolveMain, resolveTieBreak, resolveChampion).
FieldOf(w) == IF Mode = "team" THEN PlayersInTeams({w.team}) ELSE Player
Field == FieldOf(winner)
ChampionLeadsField ==
    status = "completed" /\ ~winner.isTie =>
        /\ winner.id \in Field
        /\ \A p \in Field \ {winner.id} : score[p] < score[winner.id]

\* The winning team's total stays strictly ahead, although only its own members
\* play the champion tie-break.
WinningTeamLeads ==
    status = "completed" /\ Mode = "team" /\ ~winner.isTie =>
        /\ winner.team \in {1, 2}
        /\ TeamScore(3 - winner.team) < TeamScore(winner.team)

\* A draw exists only for matches started without a question pool.
DrawOnlyWithoutPool == winner.isTie => ~tieBreak.enabled

\* The schedule of the main turns does not depend on when anybody polls or
\* answers late: turn k starts no later than k full windows after the start, and no
\* earlier than k reveal windows after it.
MainScheduleKept ==
    Playing /\ turn.kind = "main" =>
        /\ turn.startedAt <= startedAt + current * (TurnDuration + RevealDuration)
        /\ turn.startedAt >= startedAt + current * RevealDuration

\* A match that waits for a question has used its pool up and shows a resolved
\* last turn; one in tie-break that does not wait has a tie-break turn of exactly the
\* contenders.
TieBreakConsistent ==
    /\ tieBreak.awaiting =>
          /\ status = "tie_break"
          /\ tieBreak.next = tieBreak.pool
          /\ turn.status = "resolved"
          /\ current = turnCount - 1
    /\ status = "tie_break" =>
          /\ tieBreak.active
          /\ turn.kind = "tie_break"
          /\ turn.status = "active" => turn.eligible = tieBreak.ids

\* Contenders are level when their tie-break turn opens: nobody carries an
\* advantage into it.
LevelStart ==
    (status = "tie_break" /\ tieBreak.phase = "champion"
        /\ turn.status = "active" /\ turn.answered = {})
    => \A p, q \in tieBreak.ids : score[p] = score[q]

\* A terminal aggregate is never written again, so that a settlement which
\* reads it and a late Update can not contradict each other.  (The call that made
\* it terminal still raises the version as it returns.)
TerminalFrozen ==
    [][(status \in Terminal) =>
        /\ UNCHANGED <<status, deck, startedAt, contest>>
        /\ loop = "idle" => UNCHANGED version]_vars

\* Points go to one eligible player at a time, once per turn, only while the
\* turn is open, whichever Tick ran in between.
ScoringDisciplined ==
    [][score' # score =>
        \E p \in Player :
            /\ \A q \in Player \ {p} : score'[q] = score[q]
            /\ score'[p] - score[p] \in 100..150
            /\ p \in EligibleFor(turn) /\ p \notin turn.answered /\ p \in turn'.answered
            /\ turn.status = "active"
            /\ now \in turn.startedAt..(turn.deadline - 1)]_vars

\* A call that has returned having changed the aggregate has raised the
\* version, which is what the repository's compare-and-set goes by.
VersionCoversChanges ==
    [][/\ version' >= version
       /\ <<status, deck, contest>>' # <<status, deck, contest>>
             => version' > version \/ (loop # "idle" /\ changed')
       /\ changed /\ loop' = "idle" => version' > version]_vars

\* The aggregate implements the abstract contest: a player dropped from a tie-break
\* never comes back to win, and nothing leaves a terminal status.
contestPhase ==
    IF status \in {"collecting_decks", "active"} THEN "open"
    ELSE IF status = "tie_break" THEN "deciding"
    ELSE IF status = "forfeited" THEN "cancelled"
    ELSE IF winner.isTie THEN "drawn" ELSE "won"
contestContenders == IF tieBreak.phase = "none" THEN Player ELSE tieBreak.ids
C == INSTANCE Contest WITH phase <- contestPhase, contenders <- contestContenders,
                           champion <- winner.id
ImplementsContest == C!Spec

\* A started match leaves the main stage, even if nobody answers.
MainStageEnds == status = "active" ~> status # "active"

-----------------------------------------------------------------------------
(* The inductive invariant the proofs rest on, in parts *)

LoopInv == loop = "running" => Playing

StageInv ==
    /\ status \in {"collecting_decks", "active"} =>
          /\ tieBreak.phase = "none"
          /\ tieBreak.next = 0
          /\ ~tieBreak.awaiting
          /\ winner.id = NoPlayer
    /\ status = "active" =>
          /\ turn.kind = "main"
          /\ tieBreak.enabled => tieBreak.pool > 0
    /\ status = "tie_break" =>
          /\ tieBreak.phase # "none"
          /\ tieBreak.enabled
          /\ tieBreak.active
          /\ turn.kind = "tie_break"
          /\ turn.status = "active" => turn.eligible = tieBreak.ids
    /\ tieBreak.next <= tieBreak.pool
    /\ tieBreak.phase = "teams" => Mode = "team" /\ tieBreak.ids = PlayersInTeams(tieBreak.teams)
    /\ Mode # "team" => winner.team = 0

TurnInv ==
    /\ Playing => 0 <= current /\ current < turnCount
    /\ status = "tie_break" => current = turnCount - 1
    /\ tieBreak.awaiting =>
          /\ status = "tie_break"
          /\ tieBreak.next = tieBreak.pool
          /\ turn.status = "resolved"
          /\ current = turnCount - 1

DrawInv == winner.isTie => status = "completed" /\ ~tieBreak.enabled

\* Whoever was dropped on the way trails everyone who still contends.
RankInv ==
    status = "tie_break" /\ tieBreak.phase = "champion" =>
        /\ tieBreak.ids \subseteq Field
        /\ \A q \in tieBreak.ids, p \in Field \ tieBreak.ids : score[p] < score[q]

LevelInv ==
    (status = "tie_break" /\ tieBreak.phase = "champion"
        /\ (tieBreak.awaiting \/ (turn.status = "active" /\ turn.answered = {})))
    => \A p, q \in tieBreak.ids : score[p] = score[q]

ContestInv ==
    /\ StageInv
    /\ TurnInv
    /\ DrawInv
    /\ RankInv
    /\ LevelInv
    /\ ChampionLeadsField

IInv == TypeOK /\ LoopInv /\ ContestInv
=============================================================================
