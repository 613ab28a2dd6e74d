----------------------------- MODULE DailyRewards -----------------------------
(***************************************************************************)
(* The settlements of many matches that share their users: the daily       *)
(* quotas, wallets and minted cards of SettleMatchRewards                  *)
(* (repository/mongoeconomy.go), which MatchStore leaves out of the        *)
(* settlement of its one match.                                            *)
(*                                                                         *)
(* A settlement is one MongoDB transaction with snapshot reads: it starts  *)
(* from a snapshot, and commits all its writes unless a document it writes *)
(* has changed, appeared or gone since.  The code repeats an aborted one,  *)
(* at once or at the next poll of the match: either is a new Begin.        *)
(*                                                                         *)
(* Purchases and trades move the users' cards meanwhile; Economy has them  *)
(* in full.  Time is the UTC day.  Left out: team matches, the draws and   *)
(* the matches without a policy of older versions, deck locks (MatchStore),*)
(* amounts of coins, and starter cards granted a second time (Economy).    *)
(***************************************************************************)
EXTENDS Integers, FiniteSets, FiniteSetsExt

CONSTANTS
    User,
    Match,
    NoMatch,       \* a server that settles nothing
    Server,
    Question,      \* the active question bank
    Difficulty,    \* of each question
    Starter,       \* the questions of the cards every user starts with
    Limit,         \* BotDailyRewardLimit and PVPDailyRewardLimit, by source
    Ttl,           \* days a quota document is kept: 8
    LastPlay,      \* bound: the last day on which a match ends
    MaxDay,        \* bound: the last day
    MaxVersions    \* bound: no purchase or trade once two wallets' versions add up to it

ASSUME RewardAssumption ==
    /\ IsFiniteSet(User) /\ IsFiniteSet(Match) /\ IsFiniteSet(Question)
    /\ NoMatch \notin Match /\ \A u \in User : <<"starter", u>> \notin Match
    /\ Starter \subseteq Question
    /\ DOMAIN Difficulty = Question
    /\ Limit \in [{"bot", "pvp"} -> Nat \ {0}]
    /\ Ttl \in Nat \ {0}
    /\ LastPlay \in Nat /\ MaxDay \in Nat /\ MaxVersions \in Nat

VARIABLES
    match,      \* the Matches collection
    quota,      \* the quota documents: key -> [used, expiresAt]
    wallet,     \* the version of each wallet: whatever replaces the document raises it
    card,       \* the Cards collection; "from" is the match, or the user's starter
                \* grant, that the card comes from
    today,
    tx          \* each server's transaction: the match it settles, and its snapshot

vars == <<match, quota, wallet, card, today, tx>>

\* How a match may end, for each of its human players; a bot match that is not won
\* grants nothing, whether lost, drawn or forfeited.
Outcomes(source) ==
    IF source = "bot"
    THEN UNION {[{u} -> {"champion", "loss"}] : u \in User}
    ELSE UNION {[pair -> {"champion", "loss", "forfeit"}] : pair \in kSubset(2, User)}
PossibleEnd(source, outcome) ==
    LET of(o) == {p \in DOMAIN outcome : outcome[p] = o}
    IN  source = "pvp" =>
          \/ Cardinality(of("champion")) = 1 /\ Cardinality(of("loss")) = 1
          \/ of("forfeit") = DOMAIN outcome

Playing == [source |-> "pvp", outcome |-> << >>, day |-> 0, status |-> "playing",
            receipt |-> << >>, settledOn |-> 0]
NoTx == [match |-> NoMatch]

Init ==
    /\ match = [m \in Match |-> Playing]
    /\ quota = << >>
    /\ wallet = [u \in User |-> 0]
    /\ card = {[owner |-> u, question |-> q, edition |-> 1, from |-> <<"starter", u>>] :
                 u \in User, q \in Starter}
    /\ today = 0
    /\ tx = [s \in Server |-> NoTx]

-----------------------------------------------------------------------------
(* RewardCandidates *)

GrantsCard(outcome) == outcome = "champion"
GrantsCoins(source, outcome) == GrantsCard(outcome) \/ (source = "pvp" /\ outcome = "loss")

\* Results that take a place of the daily quota.
Counts(m, u) ==
    IF m.source = "bot" THEN GrantsCard(m.outcome[u])
    ELSE GrantsCoins("pvp", m.outcome[u])

-----------------------------------------------------------------------------
(* reserveDailyReward, on the snapshot "seen" of its transaction *)

\* Mutant: the day on which the match is settled.
KeyOfToday(m, u) == <<m.source, u, today>>

Key(m, u) == <<m.source, u, m.day>>

Reserves(m, u, seen) ==
    LET key == Key(m, u)
    IN  Counts(m, u) /\ (key \in DOMAIN seen.quota =>
                            seen.quota[key].used < Limit[m.source])

Receipt(m, u, seen) ==
    IF Counts(m, u)
    THEN IF Reserves(m, u, seen) THEN "granted" ELSE "capped"
    ELSE "ineligible"

\* Mutant: a document is kept until some days after the day of play, even if they are over.
ReservedAsOfPlay(key, m, seen) ==
    IF key \in DOMAIN seen.quota THEN [seen.quota[key] EXCEPT !.used = @ + 1]
    ELSE [used |-> 1, expiresAt |-> m.day + Ttl]

Reserved(key, m, seen) ==
    IF key \in DOMAIN seen.quota THEN [seen.quota[key] EXCEPT !.used = @ + 1]
    ELSE [used |-> 1,
          expiresAt |-> Max({m.day + Ttl, seen.now + 1})]

-----------------------------------------------------------------------------
(* mintRewardCard *)

Owned(u, seen) == {c.question : c \in {d \in seen.card : d.owner = u}}

\* The first non-empty group; the private rank may put any member of it first.
RewardQuestions(u, desired, seen) ==
    LET of == {q \in Question : Difficulty[q] = desired}
        new == Question \ Owned(u, seen)
    IN  CASE of \cap new # {} -> of \cap new
          [] of \cap new = {} /\ new # {} -> new
          [] new = {} /\ of # {} -> of
          [] OTHER -> Question

NextEdition(u, q, seen) ==
    1 + Max({0} \cup {c.edition : c \in {d \in seen.card : d.owner = u /\ d.question = q}})

\* A card for each of the winners, whatever rarity the private roll desires.
Minted(m, winners, seen) ==
    LET Desired == {Difficulty[q] : q \in Question}
        Choice == [winners -> Question]
    IN  {{[owner |-> u, question |-> pick[u], edition |-> NextEdition(u, pick[u], seen),
           from |-> m] : u \in winners} :
           pick \in {c \in Choice : \A u \in winners : \E desired \in Desired :
                       c[u] \in RewardQuestions(u, desired, seen)}}

-----------------------------------------------------------------------------
(* Actions *)

\* The last command or poll of a match completes it, as of the moment it was over,
\* which a late poll finds days ago.
Complete(m) ==
    /\ match[m].status = "playing"
    /\ \E source \in {"bot", "pvp"}, day \in {d \in 0..LastPlay : d <= today} :
         \E outcome \in Outcomes(source) :
           /\ PossibleEnd(source, outcome)
           /\ match' = [match EXCEPT ![m] =
                           [@ EXCEPT !.status = "over", !.source = source,
                                     !.outcome = outcome, !.day = day]]
    /\ UNCHANGED <<quota, wallet, card, today, tx>>

\* The transaction finds the match not settled and reads on from its snapshot.
Begin(s, m) ==
    /\ tx[s].match = NoMatch
    /\ match[m].status = "over"
    /\ LET players == DOMAIN match[m].outcome
           keys == {Key(match[m], u) : u \in players} \cap DOMAIN quota
       IN  tx' = [tx EXCEPT ![s] =
                    [match |-> m, now |-> today,
                     quota |-> [k \in keys |-> quota[k]],
                     wallet |-> [u \in players |-> wallet[u]],
                     card |-> {c \in card : c.owner \in players}]]
    /\ UNCHANGED <<match, quota, wallet, card, today>>

\* Mutant: the coins are added to whatever the wallet has become.
QuotasUnchanged(m, reserving, paid, seen) ==
    /\ match[m].status = "over"
    /\ \A k \in reserving :
          /\ k \in DOMAIN quota <=> k \in DOMAIN seen.quota
          /\ k \in DOMAIN quota => quota[k] = seen.quota[k]

\* Documents written by a transaction are as its snapshot shows them.
NothingChanged(m, reserving, paid, seen) ==
    /\ match[m].status = "over"
    /\ \A k \in reserving :
          /\ k \in DOMAIN quota <=> k \in DOMAIN seen.quota
          /\ k \in DOMAIN quota => quota[k] = seen.quota[k]
    /\ \A u \in paid : wallet[u] = seen.wallet[u]

Settle(s) ==
    LET seen == tx[s]
        id == seen.match
        m == match[id]
        players == DOMAIN m.outcome
        receipt == [u \in players |-> Receipt(m, u, seen)]
        paid == {u \in players : receipt[u] = "granted"}
        winners == {u \in paid : GrantsCard(m.outcome[u])}
        reserving == {Key(m, u) : u \in paid}
    IN  /\ id # NoMatch
        /\ NothingChanged(id, reserving, paid, seen)
        /\ match' = [match EXCEPT ![id] = [@ EXCEPT !.status = "settled",
                                            !.receipt = receipt, !.settledOn = seen.now]]
        /\ quota' = [k \in DOMAIN quota \cup reserving |->
                       IF k \in reserving THEN Reserved(k, m, seen) ELSE quota[k]]
        /\ wallet' = [u \in User |->
                        IF u \in paid /\ GrantsCoins(m.source, m.outcome[u])
                        THEN wallet[u] + 1 ELSE wallet[u]]
        /\ \E new \in Minted(id, winners, seen) : card' = card \cup new
        /\ tx' = [tx EXCEPT ![s] = NoTx]
        /\ UNCHANGED today

\* A conflict, a crash, or a match that another server has settled.
Abort(s) ==
    /\ tx[s].match # NoMatch
    /\ tx' = [tx EXCEPT ![s] = NoTx]
    /\ UNCHANGED <<match, quota, wallet, card, today>>

\* A purchase or an accepted trade hands cards over and replaces both wallets.
Exchange(u, v, cards) ==
    /\ wallet[u] + wallet[v] < MaxVersions
    /\ wallet' = [wallet EXCEPT ![u] = @ + 1, ![v] = @ + 1]
    /\ card' = (card \ cards) \cup
                 {[c EXCEPT !.owner = IF @ = u THEN v ELSE u] : c \in cards}
    /\ UNCHANGED <<match, quota, today, tx>>

\* The TTL index removes a quota document.
Expire(k) ==
    /\ quota[k].expiresAt <= today
    /\ quota' = [key \in DOMAIN quota \ {k} |-> quota[key]]
    /\ UNCHANGED <<match, wallet, card, today, tx>>

NextDay ==
    /\ today < MaxDay
    /\ today' = today + 1
    /\ UNCHANGED <<match, quota, wallet, card, tx>>

Next ==
    \/ \E m \in Match : Complete(m)
    \/ \E s \in Server, m \in Match : Begin(s, m)
    \/ \E s \in Server : Settle(s) \/ Abort(s)
    \/ \E u, v \in User : /\ u # v
                          /\ \E cards \in SUBSET {c \in card : c.owner \in {u, v}} :
                               Exchange(u, v, cards)
    \/ \E k \in DOMAIN quota : Expire(k)
    \/ NextDay

Spec == Init /\ [][Next]_vars

-----------------------------------------------------------------------------
(* Properties *)

\* The settled matches that took one of u's places of a day.
Granted(u, source, day) ==
    {m \in Match :
       /\ match[m].status = "settled" /\ match[m].source = source /\ match[m].day = day
       /\ u \in DOMAIN match[m].receipt /\ match[m].receipt[u] = "granted"}

\* Whichever servers settle them and in whichever order, the results of one day of
\* play grant a user at most the day's limit, as long as they are settled while the
\* quota document is kept (docs/game-rules.md states the limit without this condition);
\* and no result is refused while places are left.
QuotaExact ==
    \A u \in User, source \in {"bot", "pvp"}, day \in 0..today :
      /\ Cardinality({m \in Granted(u, source, day) : match[m].settledOn < day + Ttl})
           <= Limit[source]
      /\ (\E m \in Match : /\ match[m].source = source /\ match[m].day = day
                           /\ u \in DOMAIN match[m].receipt
                           /\ match[m].receipt[u] = "capped")
         => Cardinality(Granted(u, source, day)) >= Limit[source]

\* Results that are settled later find their day's quota document removed and start a new
\* count, beyond the day's limit.  But a new document is kept for a day at least, so that
\* what is granted on any one day, for whichever day of play, stays below twice the limit,
\* however documents are removed and made again.
LateGrantsBounded ==
    \A u \in User, source \in {"bot", "pvp"}, day, on \in 0..today :
      Cardinality({m \in Granted(u, source, day) : match[m].settledOn = on})
        < 2 * Limit[source]

\* The card of a win is chosen from what a snapshot showed, without those cards being
\* written.  However settlements, purchases and trades overlap, it is right for the cards
\* its owner holds when it is minted: the newest of its question, and not a further
\* edition while he lacks an active question.
MintedRightly(m) ==
    \A c \in card' : c.from = m =>
      /\ \A d \in card : d.owner = c.owner /\ d.question = c.question => d.edition < c.edition
      /\ c.edition > 1 =>
           \A q \in Question : \E d \in card : d.owner = c.owner /\ d.question = q
MintsUnownedFirst ==
    [][\A m \in Match : match[m].status = "over" /\ match'[m].status = "settled"
                          => MintedRightly(m)]_vars
===============================================================================
