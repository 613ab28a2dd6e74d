# QuizBattle in TLA+

QuizBattle is a Go server for a card-collecting quiz game. Players own cards, each of which
stands for a question; they meet in a lobby, lock a deck of their cards into a match, answer the
questions of all decks turn by turn, break ties, and are paid coins. Coins and cards move over a
market and in direct trades. The state is in MongoDB (multi-document transactions), and the
browser follows it by polling and over websockets.

This directory holds the verification project: TLA+ modules translated from the Go code, TLC
configurations, and proofs for TLAPS. Source paths below are relative to `src/src/`, documents to
`src/docs/`.

## 1. The system

| Component | State | Operations | Talks to |
|---|---|---|---|
| **Match aggregate** `domain/match/match.go` | status, roster, decks, turns, scores, tie-break, result, version, command log | NewWithMode, CommitDeck, Start(WithTieBreak), SubmitAnswer, Tick, AddTieBreakQuestions, Forfeit, Rewards | pure; called by the match service |
| **Bot opponent** `domain/match/bot.go` | the bot's seat, seed and score history inside the aggregate | AdvanceBots, bot schedule and decision | the aggregate's Tick and submitAnswer |
| **Match service / repository** `service/match.go`, `repository/mongomatch.go` | Matches, Game.State, a mutex per game and process | Prepare, CommitDeck, Start, Answer, Forfeit, Snapshot (poll), replenishTieBreak | aggregate, Cards, Games, settlement, event publisher |
| **Settlement and rewards** `service/reward.go`, `repository/mongoeconomy.go`, `domain/match/reward.go` | Match.rewardsSettled, wallets, ledger, daily quotas, minted cards | SettleMatchRewards, reserveDailyReward | Matches, Cards, Wallets |
| **Economy** `domain/economy`, `service/economy.go`, `repository/mongo{economy,market,trade}.go` | Wallets (balance, locked), Cards (owner, status, lockRef), Listings, Trades, Ledger | EnsureStarter, Create/Buy/Cancel/ExpireListing, Create/Accept/Reject/Cancel/ExpireTrade | Cards shared with matches |
| **Lobbies** `service/game.go`, `repository/mongogame.go` | Games: owner, joined users, capacity, state, isActive, matchId | create with quota, Join, Exit, Close | frozen by Prepare, followed by Update |
| **Session revocation** `api/controller/base.go`, `repository/mongosession.go` | RevokedSessions, a cache per process | SessionActive, Revoke | websocket registry |
| **Realtime** `websockets/{hub,client,socket}.go` | a hub per game and one per process, clients, registry, send buffers | register, broadcast, revoke, discard, close, lobby notifier | match events, sessions |
| **World chat** `service/chat.go`, `repository/mongochat.go` | ChatMessages | Save with pruning, ListRecent | hub broadcast |
| **Snapshots** `domain/match/snapshot.go` | none | projection of the aggregate for one viewer | match service |
| **Question bank** `service/questionbank.go`, ... | Questions | selection by rank | decks, tie-break pool |
| **Accounts, avatars, HTTP layer, data store set-up, browser, tools** | users, images | sequential request handling | everything else |

How they interact:

* A lobby's owner prepares a match: `Prepare` creates the aggregate and, in one transaction, freezes
  the lobby's roster. From then on `Game.State` follows the match status, written in the same
  transaction as every `Update` of the match.
* `CommitDeck` reads the chosen cards, runs the domain operation on a copy of the match, and in one
  transaction releases the deck that is replaced, locks the new one and replaces the match if its
  version is still the loaded one. Cards are shared with market and trades, which lock them
  with statuses of their own.
* Nothing runs in the background. Every poll or answer first lets the aggregate `Tick`: replay all
  the deadlines and reveal windows that have passed. The poll that ends the match settles it in a second
  transaction; if that did not happen, any later poll does.

### What is hard

1. *Lazy time.* One late call has to reproduce what prompt polling would have done: deadlines,
   reveals, tie-break rounds, an exhausted question pool, and only then the answer it carries.
2. *Narrowing tie-breaks.* Teams first, then the members of the winning team; the contender set shrinks
   over any number of rounds while scores go on growing. A player dropped early must not come out on top, and the
   winning team's lead must survive a round only its members play.
3. *Optimistic concurrency over a copy.* A request works on what it loaded. The per-game mutex is local
   to a process; between processes only `version` decides, and the settlement writes the match
   without raising it.
4. *Two transactions per result.* Ending and paying are separate; servers crash in between, or race.
5. *Shared cards.* A lock is a field of the card, a deck is a field of the match, and four subsystems
   write the former.
6. *Retries under idempotency keys*, with a bounded log.
7. *Reserved and unreserved promises.* An offer reserves its sender's cards and coins but only names the
   receiver's; whatever else the receiver does meanwhile must make the acceptance fail as a whole.
8. *The starter grant* looks for the wallet in one step, reads in another and writes in a third.
9. *Counts that several settlements share.* The daily quota and the cards a user owns are read and written by the settlements of
   many matches; the match that is paid may have ended days ago, and the cards are traded meanwhile.
10. *Locks of one process only.* A lobby is read, judged and written under mutexes of one server; what another server did meanwhile
   must be in the filter of the write.
11. *Bots without a goroutine.* What the bot answered, and when, is worked out afterwards and must come out as if it had
   been done in time.
12. *Caches of a revocation.* A lookup that found the session active may answer after the logout, on this server or on another.
13. *Hub life cycles.* A socket is admitted to a room in several steps, while its user leaves, joins again, the room's hub is
   discarded as unused, or the battle is closed.
14. In parts not modelled: coalesced lobby notifications, deferred pruning of the chat.

`PROJECT.json` lists each hazard at its line with the properties aimed at it; two have none, and section 5 names the modules
planned for them.

### What makes each component correct

| Component | Properties |
|---|---|
| Aggregate | the champion beats his field; the winning team leads; contenders are level when their round opens; a pool is used up before the match waits; results are final; the schedule does not depend on polling; points are given once, to an eligible player, in time; a change is versioned; a command takes effect once |
| Match service, settlement | lost updates are impossible; game and match agree; a card is locked exactly while an unsettled deck holds it; the settlement can always go through, happens once and pays by the result |
| Economy | coins conserved up to fee, grants and rewards; locked coins are those of pending offers and never exceed the balance; a card is escrowed exactly for the open listing, offer or match that names it; nobody loses a card he neither pledged nor gave in return; a wallet comes with its starter cards, once |
| Lobbies | while a match is played its players are the lobby's members; no more members than places; the owner's quota, exact on one server and exceeded by at most one battle per further server |
| Rewards | whatever settlements race, a day's results are granted exactly the day's places as long as they are settled while the day's quota document is kept; a minted card is a new edition for its owner, and a further one only if he lacks no question |
| Bot | the match is the same whenever it is looked at, but for the waits for questions; the bot answers every turn |
| Sessions | a server that ended a session never admits it again, also after a restart; others within a lookup and the life of a cached answer, and open sockets within another check |
| Realtime | only members listen in a room, members are not kept out, no hub is leaked, a channel is closed once, leavers are cut off in the end |
| Chat *(not modelled)* | the newest hundred survive every cut-off |
| Lobby notifier *(not modelled)* | the last change is announced |
| Snapshots *(not modelled)* | neither opponents' decks nor right answers are shown before the turn is resolved |

## 2. The modules

| Module | Models | Kind |
|---|---|---|
| `Contest` | what a battle promises its players: contenders narrow, the champion is one of them, a result is final | abstract specification |
| `MatchAggregate` | `domain/match/match.go` | detailed specification, implements `Contest` |
| `MatchAggregateProofs` | theorems about `MatchAggregate` and `MatchCommands` | proofs |
| `MatchCommands` | `MatchAggregate` with its log of processed commands and clients that retry | composition |
| `MatchRecord` | what service and repository promise about one match: serial operations, one payout | abstract specification |
| `MatchStore` | `service/match.go` over `mongomatch.go`, `SettleMatchRewards`, the market's effect on cards; several servers, crashes | detailed specification, implements `MatchRecord` |
| `MatchStoreProofs` | theorems about `MatchStore` | proofs |
| `Ownership` | what the economy promises about cards: one holder, at most one pledge, pledges kept or honoured as a whole | abstract specification |
| `Economy` | `domain/economy`, `service/economy.go`, `mongo{economy,market,trade}.go`: grants, market, trades, what matches do to cards and wallets | detailed specification, implements `Ownership` |
| `EconomyProofs` | theorems about `Economy` | proofs |
| `BotMatch` | `domain/match/bot.go` with the service calls that run it, beside the same match advanced at every instant | two copies of one system, compared |
| `BotMatchProofs` | theorems about `BotMatch` | proofs |
| `DailyRewards` | `SettleMatchRewards` over many matches: quotas, receipts, minted cards, snapshots that conflict with each other and with trades | detailed specification |
| `DailyRewardsProofs` | theorems about `DailyRewards` | proofs |
| `GameLobby` | `service/game.go`, `mongogame.go`, `Prepare` and `CreateForGame`; several servers | detailed specification |
| `GameLobbyProofs` | theorems about `GameLobby` | proofs |
| `BattleRoom` | the room of one battle: membership commands, registry, hubs, sockets | concurrent goroutines, detailed |
| `BattleRoomProofs` | theorems about `BattleRoom` | proofs |
| `SessionRevocation` | `base.go`'s session checks and cache, `mongosession.go`, logout, the session's sockets; several servers, restarts | concurrent goroutines with timers |
| `SessionRevocationProofs` | theorems about `SessionRevocation` | proofs |
| `MC*` | instances for TLC | model-checking only |

Operators whose comment begins with "Mutant" are plausible mistakes in the definition that follows
them. No specification uses them; they document which property notices which mistake (`PROJECT.json`, "mutants").

### MatchAggregate and the code

| Model | Code |
|---|---|
| `status`, `deck`, `score`, `winner`, `tieBreak`, `version` | the fields of `Aggregate` and `Player`; `winner` gathers WinnerID, WinnerTeam, WinnerIDs and IsTie |
| `turn`, `current`, `turnCount` | `Turns[CurrentTurn]`, `CurrentTurn`, `len(Turns)`: no operation writes a turn that is not the current one |
| `tieBreak.pool`, `tieBreak.next` | length of the question pool and the next index into it |
| `loop`, `changed`, `request` | the running call: where it is in `Tick`, `Tick`'s local `changed`, the arguments of the answer that called it |
| `CommitDeck`, `Start`, `AddTieBreakQuestions`, `Forfeit` | the methods of these names |
| `Tick`, `TickExpire`, `TickNextTurn`, `TickFinishStage`, `TickReturn` | `Tick`: entry, the three things an iteration can do, return |
| `SubmitAnswer`, `AnswerAccepted`, `AnswerRejected` | `submitAnswer` up to its `Tick`, and after it |
| `ResolveMain`, `ResolveTieBreak`, `DecideTeam`, `DecideChampion`, `BeginTeamTieBreak`, `BeginChampionTieBreak`, `ScheduleTieBreak`, `Complete` | `finishStage` and the functions it calls |
| `AdvanceClock` | the server's clock, `now` |

An iteration of `Tick`'s loop is one step. Its caller has the aggregate to itself, so while `loop` is not
`"idle"` no other operation and no clock step is enabled. That keeps the loop a loop: there is no recursive
operator, TLC sees the intermediate states, and the proofs are about single iterations.

An option is right or wrong; the speed bonus is computed as in the code, in the model's time unit. An operation the code
refuses changes nothing and is a stuttering step, with one exception: an answer that is refused after its
`Tick`, which may have changed the aggregate (`AnswerRejected`). Time does not pass before the start because no operation
reads the clock until then.

### MatchCommands and the code

`CommandSeen` looks at the first log entry with the key only, as `commandSeen` does, and `RecordCommand` appends
and trims. `applied` is a history variable: every command that took effect. `UsesKey` says which commands clients send under
which key, so one module serves both the run with random keys and the run with clashing keys.

### MatchStore and the code

A server holds the per-game mutex during a request, so one request per server is under way: `request[r]` is
`idle`, `loaded` (the copy is in memory), `cards_read` (CommitDeck has read the cards) or `settling`.
Each transaction is one step: `CommitDeck`, `Update` (inside `Start`, `Play`, `Finish`, `Forfeit`), `Settle`.
That is what a MongoDB transaction gives, since every document these transactions read is one they also write.
How a match is played is `MatchAggregate`'s subject; here a playing match goes on or ends with any result.
Starting a started match, committing after the start and so on are refused by the domain and are `Refuse`.
`ListCard` and `Delist` are what the market and trades do to a card: it goes into escrow and comes back to the same or another
owner.

A deck re-commit may overlap the previous deck; the release and the lock of the same transaction then touch the
same card, which `DeckAvailable` says with `c \in Previous(r)`.

### Economy and the code

| Model | Code |
|---|---|
| `wallet`, `card`, `listing`, `trade` | the collections; `wallet[u].open` says that the document exists, a card `"unminted"` that it does not; of a listing or offer that ended only the status is kept, as nothing reads the rest but replays |
| `ledger` | the sum of CoinDelta over a user's ledger entries |
| `granted`, `sink`, `rewarded` | history: starter cards inserted, fees, match rewards |
| `AskStarter`, `StarterSnapshot`, `GrantStarter` | `ensureStarter` finding no wallet, `EnsureStarter`'s snapshot, its commit |
| `AskToBuy`, `BuyListing`; `AskToAccept`, `AcceptTrade` | wallet check and clock; the transaction |
| `CreateListing`, `CancelListing`, `ExpireListing`, `CreateTrade`, `RejectTrade`, `CancelTrade`, `ExpireTrade` | the transactions of these names; reject and cancel are `CloseTrade` |
| `LockForMatch`, `SettleMatch` | a deck commit and `SettleMatchRewards`, seen from the wallets and cards |
| `Elapse`, `Fail` | a deadline passes; a request is refused, rolled back or lost |

A transaction is one step where it writes, or compares the version of, what it reads. Two do not: `CreateTrade` only reads
the requested cards, which is harmless because `AcceptTrade` checks them again; and `EnsureStarter` only reads
the wallet and the cards it finds, so its snapshot and its commit are two steps. A second `EnsureStarter` whose snapshot has no wallet fails
on the unique index; there is no such index on a user's starter cards. A sweep is its single `ExpireListing` and `ExpireTrade` steps:
each candidate is a transaction of its own that looks at the document again. That none can fail on its cards or coins
(`EscrowMatches`, `LockedBacksOffers`) is why a sweep, which stops at the first failure, is never stuck.

Coins of a settlement go to one player, with at most one new card, whose question and edition are chosen as in
`selectRewardQuestion` up to the rank; several payouts of one settlement are `MatchStore`'s subject, the daily quota is `DailyRewards`'s.

### BotMatch and the code

| Model | Code |
|---|---|
| a match's `plan` | `PlanBotDecision`: a function of the seed and the turn, hence chosen once, at the start; any delay, right or wrong |
| `match`, `prompt` | the stored aggregate; the same aggregate, brought up to date at every instant and given the same commands and questions |
| `TickOnce`, `Tick`, `Submit`, `ScheduleTieBreak`, `FinishStage` | the aggregate's functions, as `MatchAggregate` has them, for two actors |
| `NextTransition`, `AdvanceBots`, `Ends` | one turn of `AdvanceBots`' loop; the loop; whether it ends within `maximumAutomaticTransitions` (512) turns |
| `PoolSize`, `Supply` | `tieBreakQuestionPoolSize` (50): how many questions a supply may bring |
| `Snapshot`, `Answer`, `Forfeit` | the service's calls, each loaded, advanced and saved under the service's lock |

A call advances with one value of `now`; `CaughtUp` is that value's `AdvanceBots`. `prompt` is advanced, not polled: the code brings
questions to a match that has run out of them at a poll (`replenishTieBreak`), so while it waits for some `prompt` waits for the same call as the
stored match does. How long a match waits for questions therefore does depend on its player; `PollingInvisible` says that nothing else does. A forfeit works on the aggregate as it was
stored, without `AdvanceBots`: `PollingInvisible` leaves forfeited matches out. (`game-rules.md:23` says that bot automation
runs before human commands are handled; for a forfeit the code does not do it. Nothing is paid for a forfeit either way.) The two loops
are recursive functions of the number of iterations that are left, which stop at a match of which nothing is due. A call whose
catch-up runs into the limit fails and saves nothing, which is the guard `Ends` of `Snapshot` and `Answer`. `BotAssumption` asks of the constants what the
code's have: a delay is positive (two seconds and more), a turn longer than the least unit of time, and three transitions for each main turn and each
question of one supply are fewer than the limit (3 * (10 + 50) < 512).

### DailyRewards and the code

| Model | Code |
|---|---|
| `match` | Matches: status, completedAt (`day`), the players' results (`outcome`), `rewardReceipts`, `rewardsSettled`; `settledOn` is history |
| `quota` | the quota documents by source, user and day, each with its count and its expiry |
| `wallet`, `card` | the wallets' versions, which whoever replaces a wallet raises; the cards with their edition and the match, or the starter grant, that they come from |
| `tx[s]` | the transaction of server s: the match and everything it read of quotas, wallets and cards |
| `Complete` | the command or poll that ends a match, at the latest deadline it finds passed, which may be days ago |
| `Begin`, `Settle`, `Abort` | the start, commit and roll-back of `SettleMatchRewards`' transaction |
| `Exchange` | a purchase (`BuyListing`) or an accepted trade (`AcceptTrade`) between two users: any of their cards change hands, and both wallets are replaced |
| `Expire` | MongoDB's TTL index on `expiresAt` |

Snapshot isolation is modelled as such: what a settlement decides, it decides on what it read at `Begin`, and it commits unless a
document that it *writes* has changed. The cards it read are not among those. That two settlements of one user cannot choose
the same card, nor one choose for cards that were sold or bought since, is a consequence of the wallet, which every winner's settlement
and every purchase and trade writes (`MintsUnownedFirst`). It is a claim about the step that mints: later the owner may trade his cards as he likes. What
a purchase needs, and what becomes of coins, is `Economy`'s subject.

A quota document is kept at least `Ttl` days after its day. A match that is settled later still (matches never expire, and one that is
polled again is completed as of its old deadline) finds no document and is granted a place of a new one. `game-rules.md:30` and `:33` state the daily
limits without any condition; **the code keeps them for the results that are settled before `day + Ttl`, and exceeds them for later ones.** `QuotaExact` is
the limit with that condition (`settledOn` is the day of the settlement's snapshot), and `LateGrantsBounded` says what is left of it without: since
a late document is kept for another day (`minimumExpiry`, `mongoeconomy.go:461-463`), fewer than twice the limit are granted on any one day for one day of play.

## 3. The runs

| Run | Question | Bounds and why they are enough |
|---|---|---|
| `duel` (MCMatchDuel) | Does the aggregate keep all its rules when answers come right, wrong, late, repeated, or for a turn not yet open, at every moment of every turn? Does it get past its main turns if nobody answers? | 2 players, a card each, 2 main turns; turns of 2 units with 1 of reveal, so that an answer can come at once, midway, or at the deadline; pool of up to 2, so a tie-break is won, is tied again, runs dry, is refilled, runs dry for good; 12 time units are all of two main turns and two rounds |
| `team_arena` (MCMatchTeam) | Does the winning team stay ahead, is every round level among its contenders, and does the aggregate implement `Contest`? | 2 against 2, pool 2; the clock reaches the end of a champion round that follows a team round, after main turns that nobody or somebody answers |
| `commands` (MCMatchCommands) | Does a command whose key its client made up for it take effect once within the log's window, and is none swallowed? | log of 2 instead of 256, seven keys over both players and all four actions; three of them are commits, so that a commit is pushed out of the log and retried |
| `shared_keys` (MCSharedKeys) | Does a key take effect at most once whatever keys clients use? | **violated**, see the finding |
| `match_store` (MCMatchStore) | Two servers, interleaved and crashing: is there a lost update, a wrong lock, a stuck or a double settlement? Is an ended match settled although the server that ended it may crash? Does it implement `MatchRecord`? | 2 players with a card each, 2 servers, 1 crash, 5 versions = two commits, a change of deck or a forfeit, start, end; no symmetry, since there is a liveness property |
| `economy` (MCEconomy) | Two requests at a time, of two users, and a match: is a card ever escrowed for nobody, handed over by accident, a wallet opened without its cards, a coin lost? Does it implement `Ownership`? | 2 users with one starter card each, 3 cards (the third is a reward or a second grant), a listing and an offer with a card and coins each way, one reward; prices of 10, whose fee is the minimum of a coin, and of 410, whose 5% are 20.5; 410 and 400 coins against a balance of 600, so that a second expense is covered only after an income. Users with their starters, cards and requests are interchangeable |
| `starter_grant` (MCStarterGrant) | Is a starter card granted once? | **violated**, see the findings |
| `bot` (MCBotMatch) | Is the match the same whenever its player looks, and has the bot answered every turn of it? | 2 main turns of 3 units, two possible delays, every plan of right and wrong answers; up to 2 tie-break turns, the second of which must be supplied; 13 transitions at most, the least that `BotAssumption` allows; 13 units, so that one look can replay the whole match |
| `rewards` (MCDailyRewards) | Do racing settlements grant exactly the day's places while its document is kept, and boundedly many later? Is every minted card right for what its winner holds, however settlements and trades overlap? | 2 users, 3 matches, 2 servers; a limit of 1 for bots and 2 for people, so that three results exceed both; quota documents are kept 1 day instead of 8, so that on the second day one expires and is made anew; one day of play, since those of different days have quotas of their own; 2 questions of which one is owned; two wallets whose versions add up to less than 2 may be traded, so that a snapshot is overtaken by a settlement, a trade, or both |
| `lobby` (MCGameLobby) | Do rosters, places and the quota survive what other servers do between a request's read and its write? | 3 users for 2 places, 2 battles against a quota of 1, 2 servers, 2 requests at a time, human and bot battles |
| `battle_room` (MCBattleRoom) | Is the room the members', whatever joins, exits, closings, full buffers and disconnections come together? Are leavers cut off? | the owner with one socket, a guest with two (the second is refused while the first is in the room); 2 hubs, so that one is started while the other ends |
| `sessions` (MCSessionRevocation) | Is a session over at once where it was ended, and soon elsewhere? | 2 servers, one socket, one hub, a restart; one tick for the cache and the period, none for operations: lookups and upgrades still interleave with everything inside the tick |

`sessions` and `lobby` are checked for deadlock: their bounds never stop them. The other runs switch the check off: a match that is over has nothing left to do,
and the bounds stop every behaviour; a closed battle room whose sockets are gone has nothing left to do either.

The type invariants are not listed in the configurations, where they would only add to the time: each module has its `TypeOK`, any
configuration can name it, and those of `MatchAggregate`, `MatchStore`, `GameLobby`, `Economy`, `BotMatch`, `DailyRewards`, `BattleRoom` and `SessionRevocation`
are proved (that of `DailyRewards` as `TypesOK`, a part of its invariant).

Bounds that are not in the code: `MaxTime`, `MaxPool`, `MaxCommits`, `MaxVersion`, `MaxCrashes`, `MaxRestarts`, `TurnLag` (how far
from the current turn is the one a client names), `Outcomes`, in `Economy` `Price`, `Coins` and `MaxRewards`, in `DailyRewards` `LastPlay`,
`MaxDay` and `MaxVersions`, in `SessionRevocation` `OperationTime`. `OperationTime` stands for the time-outs of requests;
the others are conjuncts of guards only, so they remove behaviours and add none. The theorems hold for all values.

### Fairness

`MatchAggregate!FairSpec`: a call that began finishes (`WF LoopStep`); somebody polls (`WF Tick`), as the battle page does every second
(`static/battle.js:1867`); time passes. The clock needs strong fairness because the model stops it during a call, so it is
enabled again and again, not always; real time is not held up by calls. Nobody is assumed to answer, to start or to forfeit.

`MatchStore!FairSpec`: a request that began ends (`WF Step`, not `Crash`); a page of some player polls a match that
ended and is not settled, as it does while the reward is pending (`WF Poll`); and of the requests that find the match in that state not
all are ones the domain refuses (`SF SettleOnly`), since a poll is never refused. Crashes are bounded.

`BattleRoom!FairSpec`: goroutines run. A command that wrote its document goes on to the registry and the hub; a request that was given a
hub registers or is refused; a pump whose connection was closed returns and is forgotten; a hub that was told to close does. No browser is
assumed to leave, to join or to read, and no tombstone to expire.

### Findings

`shared_keys`: `commandSeen` (`domain/match/match.go:1038`) compares user and action with the *first* log entry that has the key.
If two players' clients use the same key, the second one's command is recorded behind the first one's and its retry
is not recognised: it takes effect again. `mvp-domain-design.md:88` says "A command idempotency key takes
effect at most once." Clients make up random keys; for those the property holds within the window of the log (run `commands`),
and no command is ever swallowed because of somebody else's key (`ReplayIsGenuine`, which holds for shared keys too).

`starter_grant`: `ensureStarter` (`service/economy.go:155`) looks for the wallet outside the transaction, and
`EnsureStarter` (`repository/mongoeconomy.go:88`) upserts every starter card under its present owner even when it finds
a wallet. Of two first requests of a user the slower one may be overtaken by the whole grant and by the sale of a starter
card; it then finds the wallet, misses the card and grants it again. `game-rules.md:63` says "Starter grant: 600 coins
and ten cards." The coins are granted once (`CoinsConserved`); an early return in the transaction when the wallet
exists would do the same for the cards.

## 4. The proofs

### MatchAggregate

`MatchAggregateProofs` proves, for every roster, every mode, every deck size, all durations and bounds:

| Theorem | Statement |
|---|---|
| `TypeCorrect` | `Spec => []TypeOK` |
| `InvCorrect` | `Spec => []IInv`, the inductive invariant |
| `ChampionLeads` | `Spec => []ChampionLeadsField` |
| `NoDrawWithPool` | `Spec => []DrawOnlyWithoutPool` |
| `TieBreakCorrect` | `Spec => []TieBreakConsistent` |
| `LevelAtOpening` | `Spec => []LevelStart` |
| `ScheduleKept` | `Spec => []MainScheduleKept` |
| `WinningTeamStaysAhead` | `Spec => []WinningTeamLeads` |
| `ScoringStaysDisciplined` | `Spec => ScoringDisciplined` |
| `TerminalStaysFrozen` | `Spec => TerminalFrozen` |
| `VersionCovers` | `Spec => VersionCoversChanges` |
| `Refinement` | `Spec => ImplementsContest` |
| `CommandsKeepTheRules` | `CommandSpec => Spec` |
| `ReplaysAreGenuine` | `CommandSpec => []ReplayIsGenuine` |
| `OnceInWindow` | `KeysAreOwn` yields `CommandSpec => []AtMostOnceInWindow` |

They assume `RosterAssumption` (a finite roster that contains the owner; modes; cards have owners among the players) and
`BoundsAssumption` (positive deck size and durations, natural bounds), which TLC evaluates in every run.

The argument. That the champion is strictly ahead of his field is not inductive: when a tie-break round is
decided, `resolveChampion` compares the contenders only, and says nothing of players dropped before. What carries the
property through the rounds is `RankInv`: in a champion tie-break, everyone of the field who is not a contender trails every
contender. It is established when the leaders are cut off (`Leaders`: whoever is not among the leaders is strictly
behind each of them), it survives an answer because only contenders can score
in a tie-break turn (`StageInv`: the eligible players of an active tie-break turn are exactly the contenders) and scores
do not fall, and it gives `ChampionLeadsField` when one contender remains. `LevelInv` is the same for the level start: it also covers
the time during which the match waits for questions, since the turn opens later. `StageInv` and `TurnInv` tie the
status, the kind of the turn, the phase and the position together; without them `ResolveTieBreak`'s fallback for
an unknown phase, which ends the match as a draw, could not be excluded, and `DrawInv` would fail. `LoopInv` says that
`Tick`'s loop runs only over a match in play, on which `TerminalFrozen` rests. `IdleInv` (`Tick`'s `changed` is
false between calls) is what `VersionCovers` needs in addition.

The proof that steps preserve the invariant has one step per action; the two actions that decide a stage share the lemmas
`ScheduleCases`, `DecideChampionInv`, `DecideTeamInv` and `FinishStageInv`, after the functions of the code. `Refinement` uses the
same split (`DecideChampionMaps`, ...): a decision narrows, crowns or draws; a forfeit cancels; everything else stutters.

Two more invariants are proved on top of `IInv`. `ScheduleInv` bounds where a turn lies in the fixed schedule: the next turn starts when the last one's
reveal ended, and not when a call noticed it, and a turn that is resolved early only moves the rest forward. It is inductive because of what
`ResolveTurn` is given, the deadline or an answer's earlier time. `TeamInv` says that the team that is ahead stays ahead through the champion
tie-break of its members. Only they can score, so the team's sum can only grow, and the sums of the others do not change (`SumUpdate`);
and the set of contenders is never empty, since of finitely many scores one is the highest (`Highest`): of an empty
set `EligibleFor` would make everybody. `ScoringDisciplined` rests on the length of an open turn, a part of `ScheduleInv`, and on what the
points of such a turn are at least and at most (`PointsBounds`).

Under idempotency keys every command is an operation of the match or none (`CommandsAreOperations`), so all these
theorems hold of matches played under keys. `LogInv` says that the log is the end of what took effect (`LogIsSuffix`) and that what
took effect was sent under its key. A command is acknowledged without effect only for an entry of the log, which is `ReplaysAreGenuine`, for any
clients. `OnceInWindow` has a hypothesis, `KeysAreOwn`: no client sends two different commands under one key. The browser client makes
up a random key for each command; without the hypothesis the statement is false (the run with shared keys), since `commandSeen` looks at
the first entry with a key only. An answer is looked up before its `Tick` and recorded after it; `AnswerPending` carries across the
steps in between that the command is still not in the log.

### MatchStore

`MatchStoreProofs` proves, for any number of players, cards, servers, versions and crashes:

| Theorem | Statement |
|---|---|
| `StoreTypeCorrect` | `Spec => []TypeOK` |
| `StoreCorrect` | `Spec => []StoreInv`, the inductive invariant |
| `LocksFollowDecks` | `Spec => []LocksMatchDecks` |
| `SettlementStaysPossible` | `Spec => []SettlementNeverStuck` |
| `PaidOnce` | `Spec => []PaidExactlyOnce` |
| `LobbyShowsMatch` | `Spec => []GameFollowsMatch` |
| `StoreRefinesRecord` | `Spec => ImplementsRecord` |

They assume `StoreAssumption` (the owner plays, `NoOne` does not, cards are finitely many and have owners among the players).

The argument. None of the properties is inductive, because all of them hang on what a request may do with an old copy. `CopyInv` says
it: a copy whose version is the stored one *is* the stored match, but for the settled marker, and there only if the match has ended.
Settling writes without raising the version, so without that exception the invariant would be false, and with it `PaidExactlyOnce` still
follows: an operation that replaces the match refuses a terminal copy, so what it replaces is the stored match itself (`CopyIsStored`)
and no marker is overwritten. `OthersAreStale` is the other half: a write that raises the version leaves every other copy behind. `LockInv` states the
lock of a card and the decks together with the owner, which is what the release of a replaced deck needs, and `ChosenInv` keeps what
`CommitDeck` checked on its copy, so that a card cannot end up in two decks. `SettlementNeverStuck` is proved as equality of the two sets of cards, which needs no
counting.

### GameLobby

`GameLobbyProofs` proves, for any number of users, battles, servers, places and requests:

| Theorem | Statement |
|---|---|
| `LobbyTypeCorrect` | `Spec => []TypeOK` |
| `LobbyCorrect` | `Spec => []LobbyInv`, the inductive invariant |
| `RosterStaysFrozen` | `Spec => []RosterFrozen` |
| `PlacesStayHeld` | `Spec => []PlacesHeld` |
| `QuotaStaysHeld` | `Spec => []QuotaHeld` |

They assume `LobbyAssumption`. `CreateForGame` compares two rosters by their lengths and by membership of one in the other; that this is
equality of the sets rests on neither having repetitions (`SameRoster`), which the invariant keeps for the stored list and for what every request
has read. The quota is a count followed by an insert: `QuotaInv` splits an owner's unfinished battles into those the latest count saw, fewer
than the quota, and those added since, each by a server of its own that has no further creation for him under way; `CreateInv` (the mutex of
creation) says that one server has one such request at a time.

### Economy

`EconomyProofs` proves, for any number of users, cards, listings, offers and concurrent requests:

| Theorem | Statement |
|---|---|
| `WellFormedAlways` | `Spec => []WellFormed`, the invariant the others rest on |
| `TypeCorrect` | `Spec => []TypeOK` |
| `NoOverdraftHolds` | `Spec => []NoOverdraft` |
| `EscrowHolds` | `Spec => []EscrowMatches` |
| `LockedHolds` | `Spec => []LockedBacksOffers` |
| `CoinsConservedHolds` | `Spec => []CoinsConserved` |
| `StarterCompleteHolds` | `Spec => []StarterComplete` |
| `OwnershipImplemented` | `Spec => ImplementsOwnership` |

They assume `EconomyAssumption`: finite users, cards and offers, references of listings, offers and matches that differ, prices within the code's
bounds (`MinimumPrice` is why a fee is never more than the price), coins within them.

The argument. `WellFormed` says what a document or a request may refer to: an active listing has a card and a seller, a pending offer two different users
and an open wallet of its sender, a request that came past the wallet check the wallet of its user, and an owned card an owner with a wallet. It does not
depend on the escrow, so `NoOverdraft`, `EscrowMatches` and `CoinsConserved` are then each proved by an induction of their own. A
transaction is described once, by what it does to the collections (`Grants`, `Buys`, `Accepts`, `EndsOffer`, `Settles`), and the later proofs use
these descriptions. `NoOverdraft` is inductive on `WellFormed` alone, because each transaction that spends judges the wallet it writes. For
`EscrowMatches` the point is that a card leaves a pledge only together with the document that names it: an offer of several cards and the
requested cards of an acceptance are set updates, and `OfferEndKeepsEscrow` shows that no card of another offer is among them. `LockedBacksOffers`
and `CoinsConserved` compare a wallet, or all wallets, with a sum. The community modules define that sum by recursion over a set;
How it changes when one or two values change (`SumUpdate`, `SumUpdateTwo`) is derived without an induction principle, by taking a smallest set
for which the claim would fail; `MatchAggregateProofs` does the same for a team's points. The refinement maps grants, purchases, acceptances, match rewards to `Ownership`'s actions, pledges to the card's lock;
its proof has a lemma per transaction, and needs `EscrowMatches` to know that what an offer's sender pledged is what is handed over.

### BotMatch

`BotMatchProofs` proves, for any number of turns, any durations, any supply of questions and every plan of the bot:

| Theorem | Statement |
|---|---|
| `Invariant` | `Spec => []IInv`, the inductive invariant |
| `BotTypeCorrect` | `Spec => []TypeOK` |
| `PollingStaysInvisible` | `Spec => []PollingInvisible` |
| `BotAlwaysAnswers` | `Spec => []BotAnswersEveryTurn` |
| `CatchUpAlwaysEnds` | `Spec => []CatchUpEnds`: `AdvanceBots` never runs into `maximumAutomaticTransitions` |

They assume `BotAssumption`, described above. `CatchUpEnds` is not among the properties of the run, where `PollingInvisible` would fail too if the limit
were met: a match that was left alone would fall behind the one that was not.

The argument. A loop is a function that is defined by recursion on a number, and the proof system knows nothing about such a function beyond its
defining equation, provided that the equation has a solution: `LoopExists` constructs one, from the solutions for finitely many iterations, and
takes a least number for which there would be none instead of using an induction principle. `TickLoop` and `AdvanceLoop` apply this to the two loops.
A match that is going has exactly one next transition, `After`, at one instant, `When`: `Transition` shows that this is what an iteration of
`AdvanceBots` does, and in particular that the `Tick` it calls makes one step and no more, because a reveal and a turn take time. Each transition
lowers `Rank`, which is less than the limit (`RankType`), hence `AdvanceUnfolds`: `AdvanceBots` applies `After` for as long as `When` is not
later than the time asked for. From there on every claim is shown for a match of least rank for which it would fail: the catch-up
ends with nothing due (`CatchUpSettles`), and catching up to one time and then to a later one is catching up to the later one
(`CatchUpComposes`). The second is what keeps `PollingInvisible` while the clock advances; the first, with `AnswerSettles` and `ReplenishSettles`
(after an answer or a supply nothing is due at that instant), is what keeps it over a call. The invariant has to say of a match, beside its types, how the
turn's number, the stage and the questions used so far hang together (`Good`), or the rank would not be bounded.

### DailyRewards

`DailyRewardsProofs` proves, for any number of users, matches, servers, questions and days and any limits:

| Theorem | Statement |
|---|---|
| `RewardInvariant` | `Spec => []RewardInv`, the inductive invariant |
| `QuotaExactHolds` | `Spec => []QuotaExact` |
| `LateGrantsBoundedHolds` | `Spec => []LateGrantsBounded` |
| `MintsUnownedFirstHolds` | `Spec => MintsUnownedFirst`, an action property |

They assume `RewardAssumption` (finite users, matches and questions, positive limits and life of a quota document, no match that is called like a starter
grant).

The argument is about what a transaction may conclude from its snapshot, as it writes only some of what it read. `StillTrue` is the core: every
grant, purchase and trade writes the wallet, so one that is as the snapshot shows it (`Fresh`) proves that nothing whatsoever was granted to that user
or traded by him since, and hence that he holds exactly the cards of the snapshot and that a quota document missing in it was never made. As the
winner's wallet is among what a settlement writes, a settlement that commits has a fresh wallet, and what it chose from the snapshot is right.
`CardsMinted` (only a settled match has minted cards) tells the cards of the step from the older ones. `Counted`, `QuotasTrue` and
`NothingForgotten` relate the
quota documents to the settled matches over the removal of documents: one that was created late counts less than was granted, and is recognised
by its expiry. That an edition is new needs the maximum of a set, which exists because the set is finite and bounded (`MaxOf`,
`NextNumber`); again there is no induction over the data.

`LateGrantsBounded` needs a second invariant, `DayInv`, on top of the first: what a document's count says about the grants of the current day
(`DayCounted`). Where there is no document, fewer than the limit were granted that day. One whose life is over on this day counts at least one grant of an
earlier day. One that outlives the day may follow another that was removed that day, and so all its places come on top of fewer than the limit. The same is
true of a snapshot as of its own day, while the wallet is fresh.

### BattleRoom

`BattleRoomProofs` proves, for any number of users, sockets and hubs:

| Theorem | Statement |
|---|---|
| `RoomInvariant` | `Spec => []RoomInv`, the inductive invariant |
| `RoomTypeCorrect` | `Spec => []TypeOK` |
| `NoPanicHolds` | `Spec => []NoPanic` |
| `NoHubLeaksHolds` | `Spec => []NoHubLeaks` |
| `RoomIsForMembersHolds` | `Spec => []RoomIsForMembers` |
| `MembersNotShutOutHolds` | `Spec => []MembersNotShutOut` |

They assume `RoomAssumption` (the owner is a user, sockets are finitely many, `None` is no hub).

The argument. The properties speak of moments at which no command is under way; what holds in between is the invariant. `LeaversHeld` follows a leaver
through the exit: a socket that passed its check is held back by the tombstone or by the command that has yet to set it, one in the game's hub
by the command that has yet to revoke it. `JoinersFreed` is its mirror image for a member who came back. Both rest on `OneCommand`, which is
`lockBattle`: without it an exit's revocation could come after the grant of the next join. `CountsExact` (the registry's count of
a hub is the number of its sockets) makes the discarding of a hub right: the count comes to zero exactly when the last socket is forgotten, so no hub
with a socket on its way is closed and none without one goes on (`HubWanted`, `HubsServed`). `ClientsPlaced` and `ChannelsPlaced` say that a client is in one
hub, the one it was given, and that only who was taken out has its channel closed, which is `NoPanic`.

### SessionRevocation

`SessionRevocationProofs` proves, for any number of servers, hubs, sockets and restarts and any time-outs:

| Theorem | Statement |
|---|---|
| `SessionInvariant` | `Spec => []SessionInv`, the inductive invariant |
| `SessionTypeCorrect` | `Spec => []TypeOK` |
| `LogoutIsImmediateHolds` | `Spec => []LogoutIsImmediate` |
| `StaleAnswersEndHolds` | `Spec => []StaleAnswersEnd` |
| `RevokedSocketsEndHolds` | `Spec => []RevokedSocketsEnd` |

They assume `SessionAssumption` (sockets are finitely many and have a server and a hub; the cache's life and the check period are positive).

The invariant has two halves. *Who may still slip in* where the session is over: while the server remembers the revocation, nobody who passed his checks is
without a tombstone in his way and nobody waits for an answer that could admit him (`Remembered`); after a restart only what the database said since
is left (`Restarted`); and open sockets are those whose hub the logout has yet to tell (`OpenToldOf`), which it does because the registry's counts are
exact (`CountsExact`). *How old an answer may be* elsewhere: the time since the revocation and the time the answer has left never add up to more than
the bound (`LookupsFresh`, `EntriesFresh`, `SocketsFresh`). A tick adds to one and takes from the other, each hand-over (lookup to cache, cache to socket)
spends one of the terms of `StaleBound` and `Bound`.

### What is only model-checked

* *Liveness* (`MainStageEnds`, `EventuallySettled`, `LeaversAreDisconnected`): fairness and ENABLED are beyond the proof system.

`AtMostOnce` and `StarterGrantedOnce` are no theorems because the code does not keep them (the two violation runs). All other invariants and action properties
of the runs are theorems, and so are the three refinements of abstract specifications. The proofs cover more than the runs, too: `ChampionLeadsField`,
`LevelStart` and the rest are proved for every mode, the open arena among them, which no run has. `GameFollowsMatch`, that the lobby shows the match's
status, is a theorem only: match and game are written in one transaction, and a run would find no more.

## 5. Plan

The core and the components around it are modelled, and every invariant and action property of the passing runs is a theorem. What is left:

1. `LobbyNotifier` (`websockets/socket.go`): changes of the lobby are coalesced through a channel of one place; the last
   change must still be announced.
2. `ChatRetention` (`repository/mongochat.go`): servers insert and prune concurrently; the newest hundred messages must survive every cut-off.
3. `Snapshot` (`domain/match/snapshot.go`): what a player is shown of a turn that is not resolved.
## 6. Not modelled

* *World chat* (`service/chat.go`, `repository/mongochat.go`) and the *lobby notifier* (`websockets/socket.go`): planned, section 5.
* *Snapshots for players*: a projection without state.
* *Connection quotas and rate limiters, voice signalling, `DisconnectUser` (nothing calls it), `Registry.Close` (the process ends with it)*: beside the
  rooms' state, or at the end of everything.
* *Question bank, accounts, tokens, avatars, HTTP parsing, configuration, seed data, the browser's rendering, deployment and tools*: sequential code over one
  document or pure computation, better served by unit tests. What the other modules take from them is an input: how many
  questions a selection returns, which of a group has the best private rank, which rarity a roll desires.
* *Rarity, mastery and the statistics of cards* inside the settlement: arithmetic on one document.
* In `DailyRewards`, team matches, the draws and policy-free matches of older versions, the locks of cards (`MatchStore`, `Economy`; there, any
  card may be traded at any time) and starter cards that are granted a second time (finding `starter_grant`): such a grant writes no wallet, so
  `MintsUnownedFirst` says nothing of a settlement that one overtakes.

`NewWithMode`'s validation of the roster appears as `RosterAssumption` and as `ValidRoster` in `Start`.
MongoDB's transactions, unique indexes, TTL indexes and the clock are taken as given.
