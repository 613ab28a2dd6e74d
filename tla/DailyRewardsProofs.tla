-------------------------- MODULE DailyRewardsProofs --------------------------
(***************************************************************************)
(* Proofs about DailyRewards, for every set of users, matches, servers and *)
(* questions and every limit: however the settlements of many matches      *)
(* overlap with each other and with purchases and trades, no day's limit   *)
(* is exceeded while its document is kept, no place is refused while one   *)
(* is left, and every card is right when it is minted.                     *)
(*                                                                         *)
(* The inductive invariant RewardInv relates the quota documents and the   *)
(* snapshots of the transactions under way to the matches that were        *)
(* settled.  Its core is that every grant, purchase and trade writes its   *)
(* user's wallet: one that is as a snapshot shows it says that nothing was *)
(* granted to its owner or traded by him since, so that the snapshot's     *)
(* quota and cards are his latest too.                                     *)
(***************************************************************************)
EXTENDS DailyRewards, FiniteSetTheorems, TLAPS

Sources == {"bot", "pvp"}
Keys == Sources \X User \X Nat
QuotaDocument == [used : Nat, expiresAt : Nat]
Outcome == UNION {[S -> {"champion", "loss", "forfeit"}] : S \in SUBSET User}
Receipts == UNION {[S -> {"granted", "capped", "ineligible"}] : S \in SUBSET User}
MatchType ==
    [source : Sources, outcome : Outcome, day : Nat, status : {"playing", "over", "settled"},
     receipt : Receipts, settledOn : Nat]
CardType == [owner : User, question : Question, edition : Nat,
             from : Match \cup {"starter"} \X User]

TypesOK ==
    /\ match \in [Match -> MatchType]
    /\ DOMAIN quota \subseteq Keys /\ \A k \in DOMAIN quota : quota[k] \in QuotaDocument
    /\ wallet \in [User -> Nat]
    /\ card \subseteq CardType
    /\ today \in Nat
    /\ DOMAIN tx = Server

\* A match is over before it is settled, and neither lies ahead.
MatchesPlaced ==
    \A m \in Match :
        /\ match[m].day <= today
        /\ match[m].status = "settled" => match[m].settledOn <= today
        /\ match[m].status # "settled" => DOMAIN match[m].receipt = {}

\* The settled matches that took a place of the quota k, and those that did so in time.
GrantedFor(k) == Granted(k[2], k[1], k[3])
InTime(k) == {m \in GrantedFor(k) : match[m].settledOn < k[3] + Ttl}

\* A quota document never counts more than was granted; created in time it misses nothing
\* that was granted in time, and created late it shows so by its expiry.
Counted(doc, k) ==
    /\ doc.used <= Cardinality(GrantedFor(k))
    /\ doc.expiresAt >= k[3] + Ttl
QuotasTrue ==
    \A k \in DOMAIN quota :
        /\ Counted(quota[k], k)
        /\ quota[k].expiresAt = k[3] + Ttl => Cardinality(InTime(k)) <= quota[k].used
        /\ quota[k].expiresAt # k[3] + Ttl => today >= k[3] + Ttl
\* Without a document nothing was granted yet, or its time is over.
NothingForgotten ==
    \A k \in Keys : k \notin DOMAIN quota /\ today < k[3] + Ttl => GrantedFor(k) = {}
LimitKept == \A k \in Keys : Cardinality(InTime(k)) <= Limit[k[1]]
CappedIn(m) ==
    \A u \in DOMAIN match[m].receipt :
        match[m].receipt[u] = "capped" =>
            Cardinality(Granted(u, match[m].source, match[m].day)) >= Limit[match[m].source]
CappedRightly == \A m \in Match : CappedIn(m)

\* A transaction's snapshot is older than what is stored.  As every grant and every trade
\* writes the wallet, one that is as the snapshot shows it (Fresh) says that its owner was
\* granted nothing since, and that he holds the cards the snapshot shows.
CardsOf(u, cards) == {c \in cards : c.owner = u}
Players(s) == DOMAIN match[tx[s].match].outcome
KeyIn(s, u) == Key(match[tx[s].match], u)
Fresh(s, u) == wallet[u] = tx[s].wallet[u]
SnapshotTyped(s) ==
    /\ tx[s].match \in Match /\ match[tx[s].match].status \in {"over", "settled"}
    /\ tx[s].now \in Nat /\ tx[s].now <= today
    /\ DOMAIN tx[s].quota \subseteq Keys
    /\ \A k \in DOMAIN tx[s].quota :
          /\ tx[s].quota[k] \in QuotaDocument
          /\ Counted(tx[s].quota[k], k)
          /\ tx[s].quota[k].expiresAt # k[3] + Ttl => tx[s].now >= k[3] + Ttl
    /\ \A u \in Players(s) : tx[s].wallet[u] \in Nat /\ tx[s].wallet[u] <= wallet[u]
    /\ tx[s].card \subseteq CardType
StillTrue(s, u) ==
    Fresh(s, u) =>
        /\ KeyIn(s, u) \notin DOMAIN tx[s].quota =>
              (tx[s].now < KeyIn(s, u)[3] + Ttl => GrantedFor(KeyIn(s, u)) = {})
        /\ CardsOf(u, card) = CardsOf(u, tx[s].card)
SnapshotsOK ==
    \A s \in Server : tx[s].match # NoMatch =>
        SnapshotTyped(s) /\ \A u \in Players(s) : StillTrue(s, u)

EditionsBounded == \E n \in Nat : \A c \in card : c.edition <= n
\* Only a match that is settled has minted cards.
CardsMinted == \A c \in card, m \in Match : c.from = m => match[m].status = "settled"

RewardInv ==
    /\ TypesOK
    /\ MatchesPlaced
    /\ QuotasTrue
    /\ NothingForgotten
    /\ LimitKept
    /\ CappedRightly
    /\ SnapshotsOK
    /\ EditionsBounded
    /\ CardsMinted

-----------------------------------------------------------------------------
(* The largest of finitely many numbers *)

\* Among some subsets of a finite set there is a smallest one.
LEMMA SmallestSet ==
    ASSUME NEW S, IsFiniteSet(S), NEW A, A \subseteq SUBSET S, A # {}
    PROVE  \E U \in A : \A V \in A : V \subseteq U => V = U
<1>1. IsWellFoundedOn(StrictSubsetOrdering(S), FiniteSubsetsOf(S))
  BY FS_StrictSubsetOrderingWellFounded
<1>2. A \subseteq FiniteSubsetsOf(S)
  BY FS_Subset DEF FiniteSubsetsOf
<1>3. PICK U \in A : \A V \in A : ~(<<V, U>> \in StrictSubsetOrdering(S))
  BY <1>1, <1>2, WFMin
<1>4. ASSUME NEW V \in A, V \subseteq U, V # U PROVE FALSE
  BY <1>3, <1>4 DEF StrictSubsetOrdering
<1> QED BY <1>4

LEMMA MaxOf ==
    ASSUME NEW S, S \subseteq Nat, IsFiniteSet(S), S # {}
    PROVE  Max(S) \in S /\ \A y \in S : Max(S) >= y
<1> DEFINE above(y) == {x \in S : x > y}
           A == {above(y) : y \in S}
<1>1. A \subseteq SUBSET S
  OBVIOUS
<1>0. A # {}
  OBVIOUS
<1>2. PICK U \in A : \A V \in A : V \subseteq U => V = U
  <2>1. IsFiniteSet(S)
    OBVIOUS
  <2> HIDE DEF A
  <2> QED BY ONLY <1>0, <1>1, <2>1, SmallestSet
<1>3. PICK y \in S : U = above(y)
  BY <1>2
<1>4. ASSUME NEW z \in above(y) PROVE FALSE
  <2>1. z \in S /\ above(z) \in A
    BY <1>4
  <2>2. above(z) \subseteq above(y)
    <3>1. z > y /\ z \in Nat /\ y \in Nat
      BY <1>3, <1>4
    <3>2. \A x \in S : x > z => x > y
      BY <3>1
    <3> QED BY <3>2
  <2>3. z \in above(y) /\ z \notin above(z)
    BY <1>4
  <2> QED BY <2>1, <2>2, <2>3, <1>2, <1>3
<1>5. \A x \in S : y >= x
  BY <1>4, <1>3
<1> HIDE DEF A, above
<1>6. \E x \in S : \A z \in S : x >= z
  BY <1>3, <1>5
<1> QED BY <1>6, Zenon DEF Max

LEMMA MaxOfTwo ==
    ASSUME NEW a \in Nat, NEW b \in Nat
    PROVE  Max({a, b}) \in {a, b} /\ Max({a, b}) >= a /\ Max({a, b}) >= b
<1>1. IsFiniteSet({a}) /\ {a, b} = {a} \cup {b}
  BY FS_Singleton
<1>2. IsFiniteSet({a, b})
  BY <1>1, FS_AddElement
<1> QED BY <1>2, MaxOf

\* A number greater than all of some numbers with a bound.
LEMMA NextNumber ==
    ASSUME NEW S, S \subseteq Nat, NEW n \in Nat, \A x \in S : x <= n
    PROVE  /\ 1 + Max({0} \cup S) \in 1 .. n + 1
           /\ \A x \in S : x < 1 + Max({0} \cup S)
           /\ S = {} => 1 + Max({0} \cup S) = 1
<1> DEFINE T == {0} \cup S
<1>1. T \subseteq 0 .. n /\ T # {} /\ T \subseteq Nat
  OBVIOUS
<1>2. IsFiniteSet(T)
  <2>1. IsFiniteSet(0 .. n)
    BY FS_Interval
  <2> HIDE DEF T
  <2> QED BY <1>1, <2>1, FS_Subset
<1>3. Max(T) \in T /\ \A y \in T : Max(T) >= y
  <2> HIDE DEF T
  <2> QED BY <1>1, <1>2, MaxOf
<1>4. Max(T) \in 0 .. n /\ \A x \in S : Max(T) >= x
  BY <1>1, <1>3
<1>5. S = {} => Max(T) = 0
  BY <1>3
<1> HIDE DEF T
<1>6. /\ 1 + Max(T) \in 1 .. n + 1
      /\ \A x \in S : x < 1 + Max(T)
      /\ S = {} => 1 + Max(T) = 1
  BY <1>4, <1>5
<1> QED BY <1>6 DEF T

-----------------------------------------------------------------------------
(* Constants, types and frames *)

LEMMA Consts ==
    /\ IsFiniteSet(Match) /\ NoMatch \notin Match
    /\ Ttl \in Nat /\ Ttl > 0
    /\ \A source \in Sources : Limit[source] \in Nat /\ Limit[source] > 0
BY RewardAssumption DEF Sources

LEMMA KeysAre ==
    /\ \A k \in Keys : k[1] \in Sources /\ k[2] \in User /\ k[3] \in Nat
    /\ \A source \in Sources, u \in User, day \in Nat :
          /\ <<source, u, day>> \in Keys
          /\ GrantedFor(<<source, u, day>>) = Granted(u, source, day)
BY DEF Keys, GrantedFor

LEMMA GrantedFinite ==
    \A k : /\ IsFiniteSet(GrantedFor(k)) /\ Cardinality(GrantedFor(k)) \in Nat
           /\ IsFiniteSet(InTime(k)) /\ Cardinality(InTime(k)) \in Nat
<1> SUFFICES ASSUME NEW k
             PROVE  /\ IsFiniteSet(GrantedFor(k)) /\ Cardinality(GrantedFor(k)) \in Nat
                    /\ IsFiniteSet(InTime(k)) /\ Cardinality(InTime(k)) \in Nat
  OBVIOUS
<1>1. GrantedFor(k) \subseteq Match /\ InTime(k) \subseteq Match
  BY DEF GrantedFor, Granted, InTime
<1> QED BY <1>1, Consts, FS_Subset, FS_CardinalityType

\* What is true of every match.
LEMMA MatchIs ==
    ASSUME TypesOK, NEW m \in Match
    PROVE  /\ match[m] \in MatchType
           /\ match[m].source \in Sources /\ match[m].day \in Nat
           /\ match[m].status \in {"playing", "over", "settled"} /\ match[m].settledOn \in Nat
           /\ DOMAIN match[m].outcome \subseteq User /\ DOMAIN match[m].receipt \subseteq User
<1>1. match[m] \in MatchType
  BY DEF TypesOK
<1>2. match[m].outcome \in Outcome /\ match[m].receipt \in Receipts
  BY <1>1 DEF MatchType
<1> QED BY <1>1, <1>2 DEF MatchType, Outcome, Receipts

LEMMA KeyTyped ==
    ASSUME TypesOK, NEW m \in Match, NEW u \in User
    PROVE  /\ Key(match[m], u) \in Keys
           /\ Key(match[m], u)[1] = match[m].source /\ Key(match[m], u)[2] = u
           /\ Key(match[m], u)[3] = match[m].day
BY MatchIs DEF Key, Keys

\* Results that take a place of the quota pay coins.
LEMMA CountsPays ==
    ASSUME NEW m, m.source \in Sources, NEW u, Counts(m, u)
    PROVE  GrantsCoins(m.source, m.outcome[u])
BY DEF Counts, GrantsCoins, GrantsCard, Sources

\* One match changes.
LEMMA MatchChanges ==
    ASSUME TypesOK, NEW id \in Match, NEW next \in MatchType,
           match' = [match EXCEPT ![id] = next]
    PROVE  /\ match' \in [Match -> MatchType] /\ match'[id] = next
           /\ \A m \in Match : m # id => match'[m] = match[m]
BY DEF TypesOK

\* As long as no match is settled the grants are the same.
LEMMA SameGrants ==
    ASSUME \A m \in Match : \/ match'[m] = match[m]
                            \/ match[m].status # "settled" /\ match'[m].status # "settled"
    PROVE  \A k : GrantedFor(k)' = GrantedFor(k) /\ InTime(k)' = InTime(k)
<1> SUFFICES ASSUME NEW k
             PROVE  GrantedFor(k)' = GrantedFor(k) /\ InTime(k)' = InTime(k)
  OBVIOUS
<1>1. GrantedFor(k)' = GrantedFor(k)
  BY DEF GrantedFor, Granted
<1>2. \A m \in GrantedFor(k) : match[m].status = "settled" /\ m \in Match
  BY DEF GrantedFor, Granted
<1>3. InTime(k)' = InTime(k)
  BY <1>1, <1>2 DEF InTime
<1> QED BY <1>1, <1>3

LEMMA GrantsGrow ==
    ASSUME NEW k, GrantedFor(k) \subseteq GrantedFor(k)', NEW n \in Nat,
           n <= Cardinality(GrantedFor(k))
    PROVE  n <= Cardinality(GrantedFor(k)')
<1>1. GrantedFor(k)' \subseteq Match
  BY DEF GrantedFor, Granted
<1>2. IsFiniteSet(GrantedFor(k)') /\ Cardinality(GrantedFor(k)') \in Nat
  BY <1>1, Consts, FS_Subset, FS_CardinalityType
<1>3. Cardinality(GrantedFor(k)) <= Cardinality(GrantedFor(k)')
  BY <1>2, FS_Subset
<1> QED BY <1>2, <1>3, GrantedFinite

\* A snapshot stays true while versions and grants only grow, and a user whose wallet stays
\* as it is keeps his cards and is granted nothing.
LEMMA SnapshotStays ==
    ASSUME TypesOK, TypesOK', NEW t \in Server, tx'[t] = tx[t],
           SnapshotTyped(t), \A u \in Players(t) : StillTrue(t, u),
           today <= today',
           LET old == match[tx[t].match]
               new == match'[tx[t].match]
           IN  /\ new.source = old.source /\ new.outcome = old.outcome /\ new.day = old.day
               /\ new.status \in {"over", "settled"},
           \A u \in User : wallet[u] <= wallet'[u],
           \A k : GrantedFor(k) \subseteq GrantedFor(k)',
           \A u \in User : wallet'[u] = wallet[u] =>
               /\ CardsOf(u, card') = CardsOf(u, card)
               /\ \A k \in Keys : k[2] = u => GrantedFor(k)' = GrantedFor(k)
    PROVE  SnapshotTyped(t)' /\ \A u \in Players(t)' : StillTrue(t, u)'
<1>1. PICK id \in Match : id = tx[t].match /\ id = tx'[t].match
  BY DEF SnapshotTyped
<1>2. /\ Players(t)' = Players(t) /\ Players(t) = DOMAIN match[id].outcome
      /\ Players(t) \subseteq User
      /\ \A u \in User : /\ KeyIn(t, u)' = KeyIn(t, u) /\ KeyIn(t, u) \in Keys
                         /\ KeyIn(t, u)[2] = u
  <2>1. Players(t) \subseteq User
    BY <1>1, MatchIs DEF Players
  <2>2. \A u \in User : KeyIn(t, u) \in Keys /\ KeyIn(t, u)[2] = u
    BY <1>1, KeyTyped DEF KeyIn
  <2>3. Players(t)' = Players(t) /\ Players(t) = DOMAIN match[id].outcome
    BY <1>1 DEF Players
  <2>4. \A u \in User : KeyIn(t, u)' = KeyIn(t, u)
    BY <1>1 DEF KeyIn, Key
  <2> QED BY <2>1, <2>2, <2>3, <2>4
<1>3. SnapshotTyped(t)'
  <2>1. tx[t].now \in Nat /\ tx[t].now <= today'
    BY DEF SnapshotTyped, TypesOK
  <2>2. ASSUME NEW k \in DOMAIN tx[t].quota
        PROVE  /\ k \in Keys
               /\ tx[t].quota[k] \in QuotaDocument
               /\ tx[t].quota[k].used <= Cardinality(GrantedFor(k)')
               /\ tx[t].quota[k].expiresAt >= k[3] + Ttl
               /\ tx[t].quota[k].expiresAt # k[3] + Ttl => tx[t].now >= k[3] + Ttl
    <3>1. /\ k \in Keys
          /\ tx[t].quota[k] \in QuotaDocument
          /\ tx[t].quota[k].used <= Cardinality(GrantedFor(k))
          /\ tx[t].quota[k].expiresAt >= k[3] + Ttl
          /\ tx[t].quota[k].expiresAt # k[3] + Ttl => tx[t].now >= k[3] + Ttl
      BY DEF SnapshotTyped, Counted
    <3>2. tx[t].quota[k].used \in Nat
      BY <3>1 DEF QuotaDocument
    <3> QED BY <3>1, <3>2, GrantsGrow
  <2>3. ASSUME NEW u \in Players(t) PROVE tx[t].wallet[u] \in Nat /\ tx[t].wallet[u] <= wallet'[u]
    <3>1. u \in User /\ tx[t].wallet[u] \in Nat /\ tx[t].wallet[u] <= wallet[u]
      BY <1>2 DEF SnapshotTyped
    <3>2. wallet[u] \in Nat /\ wallet'[u] \in Nat /\ wallet[u] <= wallet'[u]
      BY <3>1 DEF TypesOK
    <3> QED BY <3>1, <3>2
  <2>4. tx[t].card \subseteq CardType
    BY DEF SnapshotTyped
  <2> QED BY <1>1, <1>2, <2>1, <2>2, <2>3, <2>4 DEF SnapshotTyped, Counted
<1>4. ASSUME NEW u \in Players(t) PROVE StillTrue(t, u)'
  <2>1. u \in User /\ tx[t].wallet[u] \in Nat /\ tx[t].wallet[u] <= wallet[u]
    BY <1>2 DEF SnapshotTyped
  <2>2. wallet[u] \in Nat /\ wallet'[u] \in Nat /\ wallet[u] <= wallet'[u]
    BY <2>1 DEF TypesOK
  <2>3. Fresh(t, u)' => wallet'[u] = wallet[u] /\ Fresh(t, u)
    BY <2>1, <2>2 DEF Fresh
  <2>4. KeyIn(t, u)' = KeyIn(t, u) /\ KeyIn(t, u) \in Keys /\ KeyIn(t, u)[2] = u
    BY <1>2, <2>1
  <2> SUFFICES ASSUME Fresh(t, u)'
               PROVE  /\ KeyIn(t, u) \notin DOMAIN tx[t].quota =>
                            (tx[t].now < KeyIn(t, u)[3] + Ttl => GrantedFor(KeyIn(t, u))' = {})
                      /\ CardsOf(u, card') = CardsOf(u, tx[t].card)
    BY <2>4 DEF StillTrue
  <2>5. StillTrue(t, u) /\ Fresh(t, u) /\ wallet'[u] = wallet[u]
    BY <2>3
  <2>6. PICK k \in Keys : k = KeyIn(t, u) /\ k = KeyIn(t, u)' /\ k[2] = u
    BY <2>4
  <2>7. GrantedFor(k)' = GrantedFor(k)
    BY <2>1, <2>5, <2>6
  <2>8. k \notin DOMAIN tx[t].quota => (tx[t].now < k[3] + Ttl => GrantedFor(k)' = {})
    BY <2>5, <2>6, <2>7 DEF StillTrue
  <2>9. GrantedFor(KeyIn(t, u))' = GrantedFor(k)'
    BY <2>6
  <2>10. CardsOf(u, card') = CardsOf(u, tx[t].card)
    BY <2>1, <2>5 DEF StillTrue
  <2> QED BY <2>6, <2>8, <2>9, <2>10
<1> QED BY <1>2, <1>3, <1>4

\* What the quotas say stays true while nothing is granted and time passes.
LEMMA QuotasStay ==
    ASSUME TypesOK, QuotasTrue, NothingForgotten, LimitKept,
           \A k : GrantedFor(k)' = GrantedFor(k) /\ InTime(k)' = InTime(k),
           today' \in Nat, today <= today',
           DOMAIN quota' \subseteq DOMAIN quota,
           \A k \in DOMAIN quota' : quota'[k] = quota[k],
           \A k \in DOMAIN quota : k \notin DOMAIN quota' => today' >= k[3] + Ttl
    PROVE  QuotasTrue' /\ NothingForgotten' /\ LimitKept'
<1>1. today \in Nat /\ Ttl \in Nat /\ \A k \in DOMAIN quota : k[3] \in Nat /\ k \in Keys
  BY Consts, KeysAre DEF TypesOK
<1>2. QuotasTrue'
  <2> SUFFICES ASSUME NEW k \in DOMAIN quota'
               PROVE  /\ quota'[k].used <= Cardinality(GrantedFor(k)')
                      /\ quota'[k].expiresAt >= k[3] + Ttl
                      /\ quota'[k].expiresAt = k[3] + Ttl =>
                            Cardinality(InTime(k)') <= quota'[k].used
                      /\ quota'[k].expiresAt # k[3] + Ttl => today' >= k[3] + Ttl
    BY DEF QuotasTrue, Counted
  <2>1. k \in DOMAIN quota /\ quota'[k] = quota[k]
    OBVIOUS
  <2>2. GrantedFor(k)' = GrantedFor(k) /\ InTime(k)' = InTime(k)
    OBVIOUS
  <2>3. /\ quota[k].used <= Cardinality(GrantedFor(k))
        /\ quota[k].expiresAt >= k[3] + Ttl
        /\ quota[k].expiresAt = k[3] + Ttl => Cardinality(InTime(k)) <= quota[k].used
        /\ quota[k].expiresAt # k[3] + Ttl => today >= k[3] + Ttl
    BY <2>1 DEF QuotasTrue, Counted
  <2>4. quota[k].expiresAt # k[3] + Ttl => today' >= k[3] + Ttl
    BY <2>1, <2>3, <1>1
  <2> QED BY <2>1, <2>2, <2>3, <2>4
<1>3. NothingForgotten'
  <2> SUFFICES ASSUME NEW k \in Keys, k \notin DOMAIN quota', today' < k[3] + Ttl
               PROVE  GrantedFor(k)' = {}
    BY DEF NothingForgotten
  <2>1. k[3] \in Nat
    BY KeysAre
  <2>2. k \notin DOMAIN quota /\ today < k[3] + Ttl
    BY <2>1, <1>1
  <2> QED BY <2>2 DEF NothingForgotten
<1>4. LimitKept'
  BY DEF LimitKept
<1> QED BY <1>2, <1>3, <1>4

\* So do the refusals while grants only grow.
LEMMA CappedStays ==
    ASSUME TypesOK, NEW m \in Match, CappedIn(m),
           match'[m] = match[m] \/ DOMAIN match'[m].receipt = {},
           \A k : GrantedFor(k) \subseteq GrantedFor(k)'
    PROVE  CappedIn(m)'
<1> SUFFICES ASSUME match'[m] = match[m],
                    NEW u \in DOMAIN match[m].receipt, match[m].receipt[u] = "capped"
             PROVE  Cardinality(Granted(u, match[m].source, match[m].day)')
                        >= Limit[match[m].source]
  <2>1. CASE match'[m] # match[m]
    BY <2>1 DEF CappedIn
  <2>2. CASE match'[m] = match[m]
    BY <2>2 DEF CappedIn, Granted
  <2> QED BY <2>1, <2>2
<1>1. u \in User /\ match[m].source \in Sources /\ match[m].day \in Nat
  BY MatchIs
<1>2. PICK k \in Keys : k = <<match[m].source, u, match[m].day>>
  BY <1>1 DEF Keys
<1>3. /\ GrantedFor(k) = Granted(u, match[m].source, match[m].day)
      /\ GrantedFor(k)' = Granted(u, match[m].source, match[m].day)'
  BY <1>2 DEF GrantedFor, Granted
<1>4. Limit[match[m].source] \in Nat
  BY <1>1, Consts
<1>5. Limit[match[m].source] <= Cardinality(GrantedFor(k))
  BY <1>3, <1>4, GrantedFinite DEF CappedIn
<1>6. Limit[match[m].source] <= Cardinality(GrantedFor(k)')
  BY <1>4, <1>5, GrantsGrow
<1>7. GrantedFor(k)' \subseteq Match
  BY DEF GrantedFor, Granted
<1>8. Cardinality(GrantedFor(k)') \in Nat
  BY <1>7, Consts, FS_Subset, FS_CardinalityType
<1> QED BY <1>3, <1>4, <1>6, <1>8

-----------------------------------------------------------------------------
(* Initially, and the steps that settle nothing *)

LEMMA InitReward == Init => RewardInv
<1> SUFFICES ASSUME Init PROVE RewardInv
  OBVIOUS
<1>1. \A m \in Match : match[m] = Playing
  BY DEF Init
<1>2. Playing \in MatchType /\ DOMAIN Playing.receipt = {} /\ Playing.status = "playing"
      /\ Playing.day = 0
  <2>1. << >> \in [{} -> {"champion", "loss", "forfeit"}]
        /\ << >> \in [{} -> {"granted", "capped", "ineligible"}]
    OBVIOUS
  <2>2. << >> \in Outcome /\ << >> \in Receipts
    BY <2>1 DEF Outcome, Receipts
  <2> QED BY <2>2 DEF Playing, MatchType, Sources
<1>3. TypesOK
  <2>1. card \subseteq CardType
    BY RewardAssumption DEF Init, CardType
  <2>2. DOMAIN quota = {}
    BY DEF Init
  <2> QED BY <2>1, <2>2, <1>2 DEF Init, TypesOK
<1>4. MatchesPlaced
  BY <1>1, <1>2 DEF MatchesPlaced, Init
<1>5. \A k : GrantedFor(k) = {} /\ InTime(k) = {}
  BY <1>1, <1>2 DEF GrantedFor, Granted, InTime
<1>6. QuotasTrue /\ NothingForgotten
  BY <1>5 DEF QuotasTrue, NothingForgotten, Init
<1>7. LimitKept
  BY <1>5, FS_EmptySet, Consts, KeysAre DEF LimitKept
<1>8. CappedRightly
  BY <1>1, <1>2 DEF CappedRightly, CappedIn
<1>9. SnapshotsOK
  BY DEF SnapshotsOK, Init, NoTx
<1>10. EditionsBounded
  <2>1. \A c \in card : c.edition <= 1
    BY DEF Init
  <2> QED BY <2>1 DEF EditionsBounded
<1>11. CardsMinted
  <2>1. \A c \in card : \E u \in User : c.from = <<"starter", u>>
    BY DEF Init
  <2> QED BY <2>1, RewardAssumption DEF CardsMinted
<1> QED BY <1>3, <1>4, <1>6, <1>7, <1>8, <1>9, <1>10, <1>11 DEF RewardInv

LEMMA CompleteReward ==
    ASSUME RewardInv, NEW id \in Match, Complete(id)
    PROVE  RewardInv'
<1> USE DEF RewardInv
<1>1. /\ match[id].status = "playing"
      /\ UNCHANGED <<quota, wallet, card, today, tx>>
  BY DEF Complete
<1>2. PICK source \in {"bot", "pvp"}, day \in {d \in 0..LastPlay : d <= today} :
         \E outcome \in Outcomes(source) :
             match' = [match EXCEPT ![id] =
                           [@ EXCEPT !.status = "over", !.source = source,
                                     !.outcome = outcome, !.day = day]]
  BY DEF Complete
<1>3. PICK outcome \in Outcomes(source) :
             match' = [match EXCEPT ![id] =
                           [@ EXCEPT !.status = "over", !.source = source,
                                     !.outcome = outcome, !.day = day]]
  BY <1>2
<1>4. outcome \in Outcome
  <2>1. CASE source = "bot"
    <3>1. PICK u \in User : outcome \in [{u} -> {"champion", "loss"}]
      BY <2>1 DEF Outcomes
    <3>2. outcome \in [{u} -> {"champion", "loss", "forfeit"}] /\ {u} \in SUBSET User
      BY <3>1
    <3> QED BY <3>2 DEF Outcome
  <2>2. CASE source # "bot"
    BY <2>2 DEF Outcomes, Outcome, kSubset
  <2> QED BY <2>1, <2>2
<1> DEFINE next == [match[id] EXCEPT !.status = "over", !.source = source,
                                     !.outcome = outcome, !.day = day]
<1>5. /\ next \in MatchType /\ next.status = "over" /\ next.receipt = match[id].receipt
      /\ next.day = day /\ day <= today
  <2>1. match[id] \in MatchType /\ day \in Nat
    BY MatchIs
  <2> QED BY <2>1, <1>4 DEF MatchType, Sources
<1>6. match' = [match EXCEPT ![id] = next]
  BY <1>3
<1> HIDE DEF next
<1>7. /\ match' \in [Match -> MatchType] /\ match'[id] = next
      /\ \A m \in Match : m # id => match'[m] = match[m]
  BY <1>5, <1>6, MatchChanges
<1>8. TypesOK'
  BY <1>1, <1>7 DEF TypesOK
<1>9. \A k : GrantedFor(k)' = GrantedFor(k) /\ InTime(k)' = InTime(k)
  BY <1>1, <1>5, <1>7, SameGrants
<1>10. MatchesPlaced'
  BY <1>1, <1>5, <1>7 DEF MatchesPlaced
<1>11. QuotasTrue' /\ NothingForgotten' /\ LimitKept'
  BY <1>1, <1>9, QuotasStay DEF TypesOK
<1>12. CappedRightly'
  <2>1. \A m \in Match : match'[m] = match[m] \/ DOMAIN match'[m].receipt = {}
    BY <1>1, <1>5, <1>7 DEF MatchesPlaced
  <2> QED BY <2>1, <1>9, CappedStays DEF CappedRightly
<1>13. SnapshotsOK'
  <2> SUFFICES ASSUME NEW t \in Server, tx[t].match # NoMatch
               PROVE  SnapshotTyped(t)' /\ \A u \in Players(t)' : StillTrue(t, u)'
    BY <1>1 DEF SnapshotsOK
  <2>1. SnapshotTyped(t) /\ \A u \in Players(t) : StillTrue(t, u)
    BY DEF SnapshotsOK
  <2>2. /\ match'[tx[t].match] = match[tx[t].match]
        /\ match[tx[t].match].status \in {"over", "settled"}
    BY <2>1, <1>1, <1>7 DEF SnapshotTyped
  <2>3. tx'[t] = tx[t] /\ today <= today' /\ card' = card
        /\ \A u \in User : wallet[u] <= wallet'[u]
    BY <1>1 DEF TypesOK
  <2> QED BY <2>1, <2>2, <2>3, <1>8, <1>9, SnapshotStays
<1>14. EditionsBounded' /\ CardsMinted'
  BY <1>1, <1>7 DEF EditionsBounded, CardsMinted
<1> QED BY <1>8, <1>10, <1>11, <1>12, <1>13, <1>14

\* The other transactions, and all of them where only time passes or documents expire.
LEMMA SnapshotsUndisturbed ==
    ASSUME RewardInv, TypesOK', UNCHANGED <<match, wallet, card>>, today <= today',
           NEW t \in Server, tx'[t] = tx[t], tx[t].match # NoMatch
    PROVE  SnapshotTyped(t)' /\ \A u \in Players(t)' : StillTrue(t, u)'
<1>1. TypesOK /\ SnapshotTyped(t) /\ \A u \in Players(t) : StillTrue(t, u)
  BY DEF RewardInv, SnapshotsOK
<1>2. \A k : GrantedFor(k)' = GrantedFor(k)
  BY SameGrants
<1>3. match[tx[t].match].status \in {"over", "settled"}
  BY <1>1 DEF SnapshotTyped
<1>4. \A u \in User : wallet[u] <= wallet'[u]
  BY <1>1 DEF TypesOK
<1> QED BY <1>1, <1>2, <1>3, <1>4, SnapshotStays

LEMMA QuietReward ==
    ASSUME RewardInv, TypesOK', UNCHANGED match, today' \in Nat, today <= today',
           \A c \in card' : \E d \in card : c.edition = d.edition /\ c.from = d.from,
           DOMAIN quota' \subseteq DOMAIN quota,
           \A k \in DOMAIN quota' : quota'[k] = quota[k],
           \A k \in DOMAIN quota : k \notin DOMAIN quota' => today' >= k[3] + Ttl,
           SnapshotsOK'
    PROVE  RewardInv'
<1> USE DEF RewardInv
<1>1. \A k : GrantedFor(k)' = GrantedFor(k) /\ InTime(k)' = InTime(k)
  BY SameGrants
<1>2. QuotasTrue' /\ NothingForgotten' /\ LimitKept'
  BY <1>1, QuotasStay
<1>3. CappedRightly'
  BY <1>1, CappedStays DEF CappedRightly
<1>4. MatchesPlaced'
  <2> SUFFICES ASSUME NEW m \in Match
               PROVE  /\ match[m].day <= today'
                      /\ match[m].status = "settled" => match[m].settledOn <= today'
                      /\ match[m].status # "settled" => DOMAIN match[m].receipt = {}
    BY DEF MatchesPlaced
  <2>1. match[m].day \in Nat /\ match[m].settledOn \in Nat /\ today \in Nat
    BY MatchIs DEF TypesOK
  <2> QED BY <2>1 DEF MatchesPlaced
<1>5. EditionsBounded'
  <2>1. PICK n \in Nat : \A d \in card : d.edition <= n
    BY DEF EditionsBounded
  <2>2. \A c \in card' : c.edition <= n
    BY <2>1
  <2> QED BY <2>2 DEF EditionsBounded
<1>6. CardsMinted'
  BY DEF CardsMinted
<1> QED BY <1>2, <1>3, <1>4, <1>5, <1>6

LEMMA BeginReward ==
    ASSUME RewardInv, NEW s \in Server, NEW id \in Match, Begin(s, id)
    PROVE  RewardInv'
<1> USE DEF RewardInv
<1> DEFINE players == DOMAIN match[id].outcome
           keys == {Key(match[id], u) : u \in players} \cap DOMAIN quota
           snapshot == [match |-> id, now |-> today,
                        quota |-> [k \in keys |-> quota[k]],
                        wallet |-> [u \in players |-> wallet[u]],
                        card |-> {c \in card : c.owner \in players}]
<1>1. /\ match[id].status = "over"
      /\ tx' = [tx EXCEPT ![s] = snapshot]
      /\ UNCHANGED <<match, quota, wallet, card, today>>
  BY DEF Begin
<1>2. tx'[s] = snapshot /\ \A t \in Server : t # s => tx'[t] = tx[t]
  BY <1>1 DEF TypesOK
<1>3. TypesOK'
  BY <1>1 DEF TypesOK
<1>4. players \subseteq User
  BY MatchIs
<1>5. /\ tx'[s].match = id /\ tx'[s].now = today
      /\ DOMAIN tx'[s].quota = keys /\ \A k \in keys : tx'[s].quota[k] = quota[k]
      /\ \A u \in players : tx'[s].wallet[u] = wallet[u]
      /\ tx'[s].card = {c \in card : c.owner \in players}
  BY <1>2
<1>6. Players(s)' = players
  BY <1>1, <1>5 DEF Players
<1>7. \A k : GrantedFor(k)' = GrantedFor(k)
  BY <1>1, SameGrants
<1>8. keys \subseteq DOMAIN quota /\ keys \subseteq Keys
  BY DEF TypesOK
<1> HIDE DEF snapshot
<1>9. SnapshotTyped(s)'
  <2>1. ASSUME NEW k \in keys
        PROVE  /\ quota[k] \in QuotaDocument
               /\ quota[k].used <= Cardinality(GrantedFor(k)')
               /\ quota[k].expiresAt >= k[3] + Ttl
               /\ quota[k].expiresAt # k[3] + Ttl => today >= k[3] + Ttl
    BY <1>7, <1>8 DEF TypesOK, QuotasTrue, Counted
  <2>2. ASSUME NEW u \in players PROVE wallet[u] \in Nat /\ wallet[u] <= wallet'[u]
    BY <1>1, <1>4 DEF TypesOK
  <2>3. today \in Nat /\ today <= today' /\ tx'[s].card \subseteq CardType
    BY <1>1, <1>5 DEF TypesOK
  <2> HIDE DEF keys, players
  <2> QED BY <1>1, <1>5, <1>6, <1>8, <2>1, <2>2, <2>3 DEF SnapshotTyped, Counted
<1>10. ASSUME NEW u \in players PROVE StillTrue(s, u)'
  <2>1. KeyIn(s, u)' = Key(match[id], u)
    BY <1>1, <1>5 DEF KeyIn, Key
  <2>2. PICK k \in Keys : k = Key(match[id], u)
    BY <1>4, KeyTyped
  <2>3. k \notin keys => k \notin DOMAIN quota
    BY <2>2
  <2>4. k \notin keys => (today < k[3] + Ttl => GrantedFor(k)' = {})
    BY <2>3, <1>7 DEF NothingForgotten
  <2>5. GrantedFor(KeyIn(s, u))' = GrantedFor(k)'
    BY <2>1, <2>2
  <2>6. CardsOf(u, card') = CardsOf(u, tx'[s].card)
    BY <1>1, <1>5 DEF CardsOf
  <2> HIDE DEF keys, players
  <2> QED BY <1>5, <2>1, <2>2, <2>4, <2>5, <2>6 DEF StillTrue
<1>11. SnapshotsOK'
  <2> SUFFICES ASSUME NEW t \in Server, tx'[t].match # NoMatch
               PROVE  SnapshotTyped(t)' /\ \A u \in Players(t)' : StillTrue(t, u)'
    BY DEF SnapshotsOK
  <2>1. CASE t = s
    BY <2>1, <1>6, <1>9, <1>10
  <2>2. CASE t # s
    BY <2>2, <1>1, <1>2, <1>3, SnapshotsUndisturbed DEF TypesOK
  <2> QED BY <2>1, <2>2
<1> QED BY <1>1, <1>3, <1>11, QuietReward DEF TypesOK

LEMMA AbortReward ==
    ASSUME RewardInv, NEW s \in Server, Abort(s)
    PROVE  RewardInv'
<1> USE DEF RewardInv
<1>1. /\ UNCHANGED <<match, quota, wallet, card, today>>
      /\ tx'[s] = NoTx /\ \A t \in Server : t # s => tx'[t] = tx[t]
  BY DEF Abort, TypesOK
<1>2. TypesOK'
  BY <1>1 DEF Abort, TypesOK
<1>3. SnapshotsOK'
  <2> SUFFICES ASSUME NEW t \in Server, tx'[t].match # NoMatch
               PROVE  SnapshotTyped(t)' /\ \A u \in Players(t)' : StillTrue(t, u)'
    BY DEF SnapshotsOK
  <2>1. t # s /\ today <= today'
    BY <1>1 DEF NoTx, TypesOK
  <2> QED BY <2>1, <1>1, <1>2, SnapshotsUndisturbed
<1> QED BY <1>1, <1>2, <1>3, QuietReward DEF TypesOK

LEMMA ExpireReward ==
    ASSUME RewardInv, NEW k \in DOMAIN quota, Expire(k)
    PROVE  RewardInv'
<1> USE DEF RewardInv
<1>1. /\ UNCHANGED <<match, wallet, card, today, tx>> /\ quota[k].expiresAt <= today
      /\ DOMAIN quota' = DOMAIN quota \ {k}
      /\ \A key \in DOMAIN quota' : quota'[key] = quota[key]
  BY DEF Expire
<1>2. TypesOK'
  BY <1>1 DEF TypesOK
<1>3. today' >= k[3] + Ttl /\ today <= today'
  <2>1. k \in Keys /\ quota[k] \in QuotaDocument /\ quota[k].expiresAt >= k[3] + Ttl
    BY DEF TypesOK, QuotasTrue, Counted
  <2>2. k[3] \in Nat /\ quota[k].expiresAt \in Nat /\ today \in Nat
    BY <2>1, KeysAre DEF QuotaDocument, TypesOK
  <2> QED BY <2>1, <2>2, <1>1, Consts
<1>4. SnapshotsOK'
  BY <1>1, <1>2, <1>3, SnapshotsUndisturbed DEF SnapshotsOK
<1> QED BY <1>1, <1>2, <1>3, <1>4, QuietReward DEF TypesOK

\* A purchase or a trade raises the wallets of the two users whose cards move.
LEMMA ExchangeReward ==
    ASSUME RewardInv, NEW u \in User, NEW v \in User, u # v,
           NEW cards \in SUBSET {c \in card : c.owner \in {u, v}}, Exchange(u, v, cards)
    PROVE  RewardInv'
<1> USE DEF RewardInv
<1> DEFINE moved(c) == [c EXCEPT !.owner = IF @ = u THEN v ELSE u]
<1>1. /\ UNCHANGED <<match, quota, today, tx>>
      /\ wallet' = [wallet EXCEPT ![u] = @ + 1, ![v] = @ + 1]
      /\ card' = (card \ cards) \cup {moved(c) : c \in cards}
  BY DEF Exchange
<1>2. \A w \in User : /\ wallet[w] \in Nat /\ wallet'[w] \in Nat /\ wallet[w] <= wallet'[w]
                      /\ wallet'[w] = wallet[w] => w # u /\ w # v
  BY <1>1 DEF TypesOK
<1>3. ASSUME NEW c \in cards
      PROVE  /\ moved(c) \in CardType /\ moved(c).owner \in {u, v}
             /\ moved(c).edition = c.edition /\ moved(c).from = c.from
  <2>1. c \in CardType
    BY DEF TypesOK
  <2> QED BY <2>1 DEF CardType
<1> HIDE DEF moved
<1>4. TypesOK'
  <2>1. wallet' \in [User -> Nat]
    BY <1>1, <1>2 DEF TypesOK
  <2>2. card' \subseteq CardType
    BY <1>1, <1>3 DEF TypesOK
  <2> QED BY <2>1, <2>2, <1>1 DEF TypesOK
<1>5. \A c \in card' : \E d \in card : c.edition = d.edition /\ c.from = d.from
  BY <1>1, <1>3
<1>6. ASSUME NEW w \in User, wallet'[w] = wallet[w] PROVE CardsOf(w, card') = CardsOf(w, card)
  <2>1. w \notin {u, v} /\ \A c \in cards : c.owner \in {u, v}
    BY <1>2, <1>6
  <2> QED BY <2>1, <1>1, <1>3 DEF CardsOf
<1>7. \A k : GrantedFor(k)' = GrantedFor(k)
  BY <1>1, SameGrants
<1>8. SnapshotsOK'
  <2> SUFFICES ASSUME NEW t \in Server, tx[t].match # NoMatch
               PROVE  SnapshotTyped(t)' /\ \A w \in Players(t)' : StillTrue(t, w)'
    BY <1>1 DEF SnapshotsOK
  <2>1. SnapshotTyped(t) /\ \A w \in Players(t) : StillTrue(t, w)
    BY DEF SnapshotsOK
  <2>2. match[tx[t].match].status \in {"over", "settled"}
    BY <2>1 DEF SnapshotTyped
  <2>3. tx'[t] = tx[t] /\ today <= today'
    BY <1>1 DEF TypesOK
  <2> QED BY <2>1, <2>2, <2>3, <1>1, <1>2, <1>4, <1>6, <1>7, SnapshotStays
<1> QED BY <1>1, <1>4, <1>5, <1>8, QuietReward DEF TypesOK

LEMMA NextDayReward ==
    ASSUME RewardInv, NextDay
    PROVE  RewardInv'
<1> USE DEF RewardInv
<1>1. UNCHANGED <<match, quota, wallet, card, tx>> /\ today' \in Nat /\ today <= today'
  BY DEF NextDay, TypesOK
<1>2. TypesOK'
  BY <1>1 DEF TypesOK
<1>3. SnapshotsOK'
  BY <1>1, <1>2, SnapshotsUndisturbed DEF SnapshotsOK
<1> QED BY <1>1, <1>2, <1>3, QuietReward

-----------------------------------------------------------------------------
(* A settlement: who is paid *)

ReceiptsOf(s) == [u \in Players(s) |-> Receipt(match[tx[s].match], u, tx[s])]
Paid(s) == {u \in Players(s) : ReceiptsOf(s)[u] = "granted"}
Winners(s) == {u \in Paid(s) : GrantsCard(match[tx[s].match].outcome[u])}
Reserving(s) == {KeyIn(s, u) : u \in Paid(s)}

\* Settle, step by step.
LEMMA SettleIs ==
    ASSUME NEW s, Settle(s)
    PROVE  /\ tx[s].match # NoMatch
           /\ NothingChanged(tx[s].match, Reserving(s), Paid(s), tx[s])
           /\ match' = [match EXCEPT ![tx[s].match] =
                           [@ EXCEPT !.status = "settled", !.receipt = ReceiptsOf(s),
                                     !.settledOn = tx[s].now]]
           /\ quota' = [k \in DOMAIN quota \cup Reserving(s) |->
                          IF k \in Reserving(s) THEN Reserved(k, match[tx[s].match], tx[s])
                          ELSE quota[k]]
           /\ wallet' = [u \in User |->
                           IF /\ u \in Paid(s)
                              /\ GrantsCoins(match[tx[s].match].source,
                                             match[tx[s].match].outcome[u])
                           THEN wallet[u] + 1 ELSE wallet[u]]
           /\ \E new \in Minted(tx[s].match, Winners(s), tx[s]) : card' = card \cup new
           /\ tx' = [tx EXCEPT ![s] = NoTx]
           /\ today' = today
BY Zenon DEF Settle, Players, ReceiptsOf, Paid, Winners, Reserving, KeyIn

\* The snapshot is closed and the clock stands still.
LEMMA SettleEnds ==
    ASSUME NEW s, Settle(s)
    PROVE  tx[s].match # NoMatch /\ tx' = [tx EXCEPT ![s] = NoTx] /\ today' = today
BY SettleIs

\* The quota that is written is the one the snapshot saw.
LEMMA SettleWrites ==
    ASSUME NEW s, Settle(s), NEW k \in Reserving(s)
    PROVE  /\ quota'[k] = Reserved(k, match[tx[s].match], tx[s]) /\ k \in DOMAIN quota'
           /\ k \in DOMAIN quota <=> k \in DOMAIN tx[s].quota
           /\ k \in DOMAIN quota => quota[k] = tx[s].quota[k]
<1>1. quota' = [x \in DOMAIN quota \cup Reserving(s) |->
                  IF x \in Reserving(s) THEN Reserved(x, match[tx[s].match], tx[s])
                  ELSE quota[x]]
  BY SettleIs
<1>2. NothingChanged(tx[s].match, Reserving(s), Paid(s), tx[s])
  BY SettleIs
<1>3. quota'[k] = Reserved(k, match[tx[s].match], tx[s]) /\ k \in DOMAIN quota'
  BY <1>1
<1>4. /\ k \in DOMAIN quota <=> k \in DOMAIN tx[s].quota
      /\ k \in DOMAIN quota => quota[k] = tx[s].quota[k]
  BY <1>2 DEF NothingChanged
<1> QED BY <1>3, <1>4

\* Whoever is paid took a place of his quota, and nothing was granted to him since the
\* snapshot.
LEMMA PaidAre ==
    ASSUME RewardInv, NEW s \in Server, Settle(s)
    PROVE  /\ tx[s].match \in Match /\ match[tx[s].match].status = "over"
           /\ \A u \in Paid(s) :
                 /\ u \in User /\ u \in Players(s) /\ Fresh(s, u)
                 /\ Reserves(match[tx[s].match], u, tx[s])
                 /\ KeyIn(s, u) \in Keys /\ KeyIn(s, u) \in Reserving(s)
                 /\ wallet'[u] \in Nat /\ wallet'[u] > wallet[u]
           /\ \A u \in User : wallet'[u] \in Nat /\ wallet'[u] >= wallet[u]
           /\ \A u \in User : u \notin Paid(s) => wallet'[u] = wallet[u]
<1> USE DEF RewardInv
<1>1. PICK id \in Match : id = tx[s].match
  BY SettleIs DEF SnapshotsOK, SnapshotTyped
<1>2. match[id].status = "over"
  BY <1>1, SettleIs DEF NothingChanged
<1>3. ASSUME NEW u \in Paid(s)
      PROVE  /\ u \in User /\ u \in Players(s) /\ Fresh(s, u)
             /\ Reserves(match[id], u, tx[s])
             /\ KeyIn(s, u) \in Keys /\ KeyIn(s, u) \in Reserving(s)
             /\ wallet'[u] \in Nat /\ wallet'[u] > wallet[u]
  <2>1. u \in Players(s) /\ Receipt(match[id], u, tx[s]) = "granted"
    BY <1>1 DEF Paid, ReceiptsOf
  <2>2. u \in User
    BY <2>1, <1>1, MatchIs DEF Players
  <2>3. Reserves(match[id], u, tx[s]) /\ Counts(match[id], u)
    BY <2>1 DEF Receipt
  <2>4. Fresh(s, u)
    BY SettleIs DEF NothingChanged, Fresh
  <2>5. KeyIn(s, u) \in Keys /\ KeyIn(s, u) \in Reserving(s)
    BY <1>1, <2>2, KeyTyped DEF KeyIn, Reserving
  <2>6. GrantsCoins(match[id].source, match[id].outcome[u])
    BY <2>3, CountsPays, MatchIs
  <2>7. wallet'[u] = wallet[u] + 1
    BY <1>1, <2>2, <2>6, SettleIs
  <2>8. wallet[u] \in Nat
    BY <2>2 DEF TypesOK
  <2> QED BY <2>1, <2>2, <2>3, <2>4, <2>5, <2>6, <2>7, <2>8
<1>4. ASSUME NEW u \in User, u \notin Paid(s) PROVE wallet'[u] = wallet[u]
  <2>1. wallet' = [v \in User |->
                     IF /\ v \in Paid(s)
                        /\ GrantsCoins(match[tx[s].match].source,
                                       match[tx[s].match].outcome[v])
                     THEN wallet[v] + 1 ELSE wallet[v]]
    BY SettleIs
  <2> QED BY <2>1, <1>4
<1>5. \A u \in User : wallet'[u] \in Nat /\ wallet'[u] >= wallet[u]
  <2> SUFFICES ASSUME NEW u \in User PROVE wallet'[u] \in Nat /\ wallet'[u] >= wallet[u]
    OBVIOUS
  <2>1. wallet[u] \in Nat
    BY DEF TypesOK
  <2> QED BY <2>1, <1>3, <1>4
<1> QED BY <1>1, <1>2, <1>3, <1>4, <1>5

\* The match is settled with its receipts; the others stay as they are.
LEMMA SettledMatch ==
    ASSUME RewardInv, NEW s \in Server, Settle(s), NEW id \in Match, id = tx[s].match
    PROVE  /\ match' \in [Match -> MatchType]
           /\ match'[id].source = match[id].source /\ match'[id].day = match[id].day
           /\ match'[id].outcome = match[id].outcome /\ match'[id].status = "settled"
           /\ match'[id].receipt = ReceiptsOf(s) /\ match'[id].settledOn = tx[s].now
           /\ \A m \in Match : m # id => match'[m] = match[m]
<1> USE DEF RewardInv
<1> DEFINE next == [match[id] EXCEPT !.status = "settled", !.receipt = ReceiptsOf(s),
                                     !.settledOn = tx[s].now]
<1>1. tx[s].now \in Nat
  BY SettleIs DEF SnapshotsOK, SnapshotTyped
<1>2. ReceiptsOf(s) \in Receipts
  <2>1. Players(s) \in SUBSET User
    BY MatchIs DEF Players
  <2>2. ReceiptsOf(s) \in [Players(s) -> {"granted", "capped", "ineligible"}]
    BY DEF ReceiptsOf, Receipt
  <2> QED BY <2>1, <2>2 DEF Receipts
<1>3. /\ next \in MatchType /\ next.source = match[id].source /\ next.day = match[id].day
      /\ next.outcome = match[id].outcome /\ next.status = "settled"
      /\ next.receipt = ReceiptsOf(s) /\ next.settledOn = tx[s].now
  <2>1. match[id] \in MatchType
    BY MatchIs
  <2> QED BY <1>1, <1>2, <2>1 DEF MatchType
<1>4. match' = [match EXCEPT ![id] = next]
  BY SettleIs
<1> HIDE DEF next
<1> QED BY <1>3, <1>4, MatchChanges

\* The grants of the quotas that are reserved have one match more, the others none.
LEMMA SettledGrants ==
    ASSUME RewardInv, NEW s \in Server, Settle(s), NEW id \in Match, id = tx[s].match
    PROVE  /\ \A k : GrantedFor(k) \subseteq GrantedFor(k)' /\ id \notin GrantedFor(k)
           /\ \A k \in Keys :
                 /\ k \notin Reserving(s) => /\ GrantedFor(k)' = GrantedFor(k)
                                             /\ InTime(k)' = InTime(k)
                 /\ k \in Reserving(s) => GrantedFor(k)' = GrantedFor(k) \cup {id}
                 /\ k \in Reserving(s) /\ tx[s].now < k[3] + Ttl =>
                       InTime(k)' = InTime(k) \cup {id}
                 /\ k \in Reserving(s) /\ ~(tx[s].now < k[3] + Ttl) =>
                       InTime(k)' = InTime(k)
<1>1. /\ match[id].status = "over"
      /\ \A u \in Paid(s) : u \in Players(s)
  BY PaidAre
<1>2. /\ match'[id].source = match[id].source /\ match'[id].day = match[id].day
      /\ match'[id].status = "settled" /\ match'[id].receipt = ReceiptsOf(s)
      /\ match'[id].settledOn = tx[s].now
      /\ \A m \in Match : m # id => match'[m] = match[m]
  BY SettledMatch
<1>3. \A k : GrantedFor(k) \subseteq GrantedFor(k)' /\ id \notin GrantedFor(k)
  BY <1>1, <1>2 DEF GrantedFor, Granted
<1>4. ASSUME NEW k \in Keys
      PROVE  id \in GrantedFor(k)' <=> k \in Reserving(s)
  <2>1. id \in GrantedFor(k)' <=> /\ match[id].source = k[1] /\ match[id].day = k[3]
                                  /\ k[2] \in Players(s) /\ ReceiptsOf(s)[k[2]] = "granted"
    BY <1>2 DEF GrantedFor, Granted, ReceiptsOf
  <2>2. k = <<k[1], k[2], k[3]>>
    BY DEF Keys
  <2>3. k \in Reserving(s) <=> \E u \in Paid(s) : k = <<match[id].source, u, match[id].day>>
    BY DEF Reserving, KeyIn, Key
  <2> QED BY <2>1, <2>2, <2>3 DEF Paid
<1>5. \A k, m : m # id => (m \in GrantedFor(k)' <=> m \in GrantedFor(k))
  BY <1>2 DEF GrantedFor, Granted
<1>6. \A k, m : m # id => (m \in InTime(k)' <=> m \in InTime(k))
  <2> SUFFICES ASSUME NEW k, NEW m, m # id
               PROVE  m \in InTime(k)' <=> m \in InTime(k)
    OBVIOUS
  <2>1. m \in GrantedFor(k) => m \in Match
    BY DEF GrantedFor, Granted
  <2> QED BY <2>1, <1>2, <1>5 DEF InTime
<1>7. ASSUME NEW k \in Keys
      PROVE  /\ id \in InTime(k)' <=> id \in GrantedFor(k)' /\ tx[s].now < k[3] + Ttl
             /\ id \notin InTime(k)
  BY <1>2, <1>3 DEF InTime
<1>8. ASSUME NEW k \in Keys, k \notin Reserving(s)
      PROVE  GrantedFor(k)' = GrantedFor(k) /\ InTime(k)' = InTime(k)
  <2>1. id \notin GrantedFor(k)' /\ id \notin GrantedFor(k)
    BY <1>3, <1>4, <1>8
  <2>2. GrantedFor(k)' = GrantedFor(k)
    BY <2>1, <1>5
  <2>3. id \notin InTime(k)' /\ id \notin InTime(k)
    BY <2>1, <1>7
  <2>4. \A m : m \in InTime(k)' <=> m \in InTime(k)
    BY <2>3, <1>6
  <2> QED BY <2>2, <2>4
<1>9. ASSUME NEW k \in Keys, k \in Reserving(s)
      PROVE  /\ GrantedFor(k)' = GrantedFor(k) \cup {id}
             /\ tx[s].now < k[3] + Ttl => InTime(k)' = InTime(k) \cup {id}
             /\ ~(tx[s].now < k[3] + Ttl) => InTime(k)' = InTime(k)
  <2>1. id \in GrantedFor(k)'
    BY <1>4, <1>9
  <2>2. GrantedFor(k)' = GrantedFor(k) \cup {id}
    BY <2>1, <1>5
  <2>3. tx[s].now < k[3] + Ttl => InTime(k)' = InTime(k) \cup {id}
    BY <2>1, <1>6, <1>7
  <2>4. ASSUME ~(tx[s].now < k[3] + Ttl) PROVE InTime(k)' = InTime(k)
    <3>1. id \notin InTime(k)' /\ id \notin InTime(k)
      BY <2>4, <1>7
    <3>2. \A m : m \in InTime(k)' <=> m \in InTime(k)
      BY <3>1, <1>6
    <3> QED BY <3>2
  <2> QED BY <2>2, <2>3, <2>4
<1> QED BY <1>3, <1>8, <1>9

-----------------------------------------------------------------------------
(* A settlement: the quotas *)

\* One more place is taken, of a quota that counts what was granted so far.
LEMMA ReservedQuota ==
    ASSUME RewardInv, NEW s \in Server, Settle(s), NEW k \in Reserving(s)
    PROVE  /\ k \in Keys
           /\ quota'[k] \in QuotaDocument
           /\ quota'[k].used <= Cardinality(GrantedFor(k)')
           /\ quota'[k].expiresAt >= k[3] + Ttl
           /\ quota'[k].expiresAt = k[3] + Ttl => Cardinality(InTime(k)') <= quota'[k].used
           /\ quota'[k].expiresAt # k[3] + Ttl => today >= k[3] + Ttl
           /\ Cardinality(InTime(k)') <= Limit[k[1]]
<1> USE DEF RewardInv
<1>1. PICK id \in Match : id = tx[s].match
  BY PaidAre
<1>2. PICK u \in Paid(s) : k = KeyIn(s, u)
  BY DEF Reserving
<1>3. /\ u \in User /\ u \in Players(s) /\ Fresh(s, u) /\ Reserves(match[id], u, tx[s])
      /\ k \in Keys /\ k = Key(match[id], u)
  BY <1>1, <1>2, PaidAre DEF KeyIn
<1>4. k[1] = match[id].source /\ k[3] = match[id].day /\ k[3] \in Nat /\ k[1] \in Sources
  BY <1>3, KeyTyped, KeysAre
<1>5. /\ quota'[k] = Reserved(k, match[id], tx[s])
      /\ k \in DOMAIN quota <=> k \in DOMAIN tx[s].quota
      /\ k \in DOMAIN quota => quota[k] = tx[s].quota[k]
  BY <1>1, SettleWrites
<1>6. SnapshotTyped(s) /\ StillTrue(s, u)
  BY <1>3, SettleIs DEF SnapshotsOK
<1>7. tx[s].now \in Nat /\ tx[s].now <= today /\ today \in Nat /\ Ttl \in Nat /\ Ttl > 0
      /\ Limit[k[1]] \in Nat /\ Limit[k[1]] > 0
  BY <1>4, <1>6, Consts DEF SnapshotTyped, TypesOK
<1>8. /\ id \notin GrantedFor(k) /\ GrantedFor(k)' = GrantedFor(k) \cup {id}
      /\ tx[s].now < k[3] + Ttl => InTime(k)' = InTime(k) \cup {id}
      /\ ~(tx[s].now < k[3] + Ttl) => InTime(k)' = InTime(k)
  BY <1>1, <1>3, SettledGrants
<1>9. id \notin InTime(k)
  BY <1>8 DEF InTime
<1>10. /\ Cardinality(GrantedFor(k)') = Cardinality(GrantedFor(k)) + 1
       /\ tx[s].now < k[3] + Ttl => Cardinality(InTime(k)') = Cardinality(InTime(k)) + 1
       /\ ~(tx[s].now < k[3] + Ttl) => Cardinality(InTime(k)') = Cardinality(InTime(k))
       /\ Cardinality(GrantedFor(k)) \in Nat /\ Cardinality(InTime(k)) \in Nat
  BY <1>8, <1>9, GrantedFinite, FS_AddElement
<1>11. Cardinality(InTime(k)) <= Limit[k[1]]
  BY <1>3 DEF LimitKept
<1>12. CASE k \in DOMAIN quota
  <2>1. /\ quota[k] \in QuotaDocument /\ quota[k].used \in Nat /\ quota[k].expiresAt \in Nat
        /\ quota[k].used < Limit[k[1]]
    BY <1>3, <1>4, <1>5, <1>12 DEF TypesOK, QuotaDocument, Reserves
  <2>2. quota'[k] = [quota[k] EXCEPT !.used = @ + 1]
    BY <1>5, <1>12 DEF Reserved
  <2>3. /\ quota'[k] \in QuotaDocument
        /\ quota'[k].used = quota[k].used + 1 /\ quota'[k].expiresAt = quota[k].expiresAt
    BY <2>1, <2>2 DEF QuotaDocument
  <2>4. /\ quota[k].used <= Cardinality(GrantedFor(k))
        /\ quota[k].expiresAt >= k[3] + Ttl
        /\ quota[k].expiresAt = k[3] + Ttl => Cardinality(InTime(k)) <= quota[k].used
        /\ quota[k].expiresAt # k[3] + Ttl => tx[s].now >= k[3] + Ttl
    BY <1>5, <1>6, <1>12 DEF QuotasTrue, Counted, SnapshotTyped
  <2>5. Cardinality(InTime(k)') <= Limit[k[1]]
    BY <1>4, <1>7, <1>10, <1>11, <2>1, <2>4
  <2>6. quota'[k].expiresAt = k[3] + Ttl => Cardinality(InTime(k)') <= quota'[k].used
    BY <1>4, <1>7, <1>10, <2>1, <2>3, <2>4
  <2> QED BY <1>3, <1>4, <1>7, <1>10, <2>1, <2>3, <2>4, <2>5, <2>6
<1>13. CASE k \notin DOMAIN quota
  <2> DEFINE expiry == Max({match[id].day + Ttl, tx[s].now + 1})
  <2>1. quota'[k] = [used |-> 1, expiresAt |-> expiry]
    BY <1>5, <1>13 DEF Reserved
  <2>2. /\ expiry \in {match[id].day + Ttl, tx[s].now + 1}
        /\ expiry >= match[id].day + Ttl /\ expiry >= tx[s].now + 1
    <3>1. match[id].day + Ttl \in Nat /\ tx[s].now + 1 \in Nat
      BY <1>4, <1>7
    <3> QED BY <3>1, MaxOfTwo
  <2> HIDE DEF expiry
  <2>3. quota'[k] \in QuotaDocument /\ quota'[k].used = 1 /\ quota'[k].expiresAt = expiry
    BY <1>4, <1>7, <2>1, <2>2 DEF QuotaDocument
  <2>4. expiry >= k[3] + Ttl /\ (expiry # k[3] + Ttl => today >= k[3] + Ttl)
    BY <1>4, <1>7, <2>2
  <2>5. tx[s].now < k[3] + Ttl => Cardinality(InTime(k)) = 0
    <3>1. tx[s].now < k[3] + Ttl => GrantedFor(k) = {}
      BY <1>2, <1>3, <1>5, <1>6, <1>13 DEF StillTrue
    <3>2. InTime(k) \subseteq GrantedFor(k)
      BY DEF InTime
    <3> QED BY <3>1, <3>2, FS_EmptySet
  <2>6. expiry = k[3] + Ttl => tx[s].now < k[3] + Ttl
    BY <1>4, <1>7, <2>2
  <2>7. Cardinality(InTime(k)') <= Limit[k[1]]
    BY <1>7, <1>10, <1>11, <2>5
  <2> QED BY <1>3, <1>10, <2>3, <2>4, <2>5, <2>6, <2>7
<1> QED BY <1>12, <1>13

LEMMA SettledQuotas ==
    ASSUME RewardInv, NEW s \in Server, Settle(s)
    PROVE  /\ DOMAIN quota' \subseteq Keys /\ \A k \in DOMAIN quota' : quota'[k] \in QuotaDocument
           /\ QuotasTrue' /\ NothingForgotten' /\ LimitKept'
<1> USE DEF RewardInv
<1>1. PICK id \in Match : id = tx[s].match
  BY PaidAre
<1>2. /\ DOMAIN quota' = DOMAIN quota \cup Reserving(s)
      /\ \A k \in DOMAIN quota : k \notin Reserving(s) => quota'[k] = quota[k]
      /\ today' = today
  <2>1. /\ today' = today
        /\ quota' = [k \in DOMAIN quota \cup Reserving(s) |->
                       IF k \in Reserving(s) THEN Reserved(k, match[tx[s].match], tx[s])
                       ELSE quota[k]]
    BY SettleIs
  <2> QED BY <2>1
<1>3. \A k \in Keys : k \notin Reserving(s) =>
         GrantedFor(k)' = GrantedFor(k) /\ InTime(k)' = InTime(k)
  BY <1>1, SettledGrants
<1>4. Reserving(s) \subseteq Keys
  BY ReservedQuota
<1>5. DOMAIN quota' \subseteq Keys
  BY <1>2, <1>4 DEF TypesOK
<1>6. ASSUME NEW k \in DOMAIN quota'
      PROVE  /\ quota'[k] \in QuotaDocument
             /\ quota'[k].used <= Cardinality(GrantedFor(k)')
             /\ quota'[k].expiresAt >= k[3] + Ttl
             /\ quota'[k].expiresAt = k[3] + Ttl => Cardinality(InTime(k)') <= quota'[k].used
             /\ quota'[k].expiresAt # k[3] + Ttl => today' >= k[3] + Ttl
  <2>1. CASE k \in Reserving(s)
    BY <2>1, <1>2, ReservedQuota
  <2>2. CASE k \notin Reserving(s)
    <3>1. k \in DOMAIN quota /\ quota'[k] = quota[k] /\ k \in Keys
      BY <2>2, <1>2, <1>5
    <3>2. GrantedFor(k)' = GrantedFor(k) /\ InTime(k)' = InTime(k)
      BY <2>2, <3>1, <1>3
    <3> QED BY <3>1, <3>2, <1>2 DEF TypesOK, QuotasTrue, Counted
  <2> QED BY <2>1, <2>2
<1>7. QuotasTrue'
  BY <1>6 DEF QuotasTrue, Counted
<1>8. NothingForgotten'
  BY <1>2, <1>3 DEF NothingForgotten
<1>9. LimitKept'
  BY <1>3, ReservedQuota DEF LimitKept
<1> QED BY <1>5, <1>6, <1>7, <1>8, <1>9

\* Whoever is refused finds the quota used up, by what was granted.
LEMMA SettledCapped ==
    ASSUME RewardInv, NEW s \in Server, Settle(s)
    PROVE  CappedRightly'
<1> USE DEF RewardInv
<1>1. PICK id \in Match : id = tx[s].match
  BY PaidAre
<1>2. /\ match'[id].source = match[id].source /\ match'[id].day = match[id].day
      /\ match'[id].receipt = ReceiptsOf(s)
      /\ \A m \in Match : m # id => match'[m] = match[m]
  BY <1>1, SettledMatch
<1>3. \A k : GrantedFor(k) \subseteq GrantedFor(k)'
  BY <1>1, SettledGrants
<1>4. ASSUME NEW u \in Players(s), ReceiptsOf(s)[u] = "capped"
      PROVE  Cardinality(Granted(u, match[id].source, match[id].day)') >= Limit[match[id].source]
  <2>1. u \in User /\ match[id].source \in Sources /\ match[id].day \in Nat
    BY <1>1, MatchIs DEF Players
  <2>2. PICK k \in Keys : k = Key(match[id], u)
    BY <2>1, KeyTyped
  <2>3. Receipt(match[id], u, tx[s]) = "capped"
    BY <1>1, <1>4 DEF ReceiptsOf
  <2>4. k \in DOMAIN tx[s].quota /\ ~(tx[s].quota[k].used < Limit[match[id].source])
    BY <2>2, <2>3 DEF Receipt, Reserves
  <2>5. /\ tx[s].quota[k].used <= Cardinality(GrantedFor(k))
        /\ tx[s].quota[k].used \in Nat /\ Limit[match[id].source] \in Nat
    BY <2>1, <2>4, SettleIs, Consts DEF SnapshotsOK, SnapshotTyped, Counted, QuotaDocument
  <2>6. Limit[match[id].source] <= Cardinality(GrantedFor(k))
    BY <2>4, <2>5, GrantedFinite
  <2>7. Limit[match[id].source] <= Cardinality(GrantedFor(k)')
    BY <2>5, <2>6, <1>3, GrantsGrow
  <2>8. GrantedFor(k)' = Granted(u, match[id].source, match[id].day)'
    BY <1>2, <2>2 DEF GrantedFor, Granted, Key
  <2>9. GrantedFor(k)' \subseteq Match
    BY DEF GrantedFor, Granted
  <2>10. Cardinality(GrantedFor(k)') \in Nat
    BY <2>9, Consts, FS_Subset, FS_CardinalityType
  <2> QED BY <2>5, <2>7, <2>8, <2>10
<1>5. CappedIn(id)'
  BY <1>2, <1>4 DEF CappedIn, ReceiptsOf, Granted
<1>6. ASSUME NEW m \in Match, m # id PROVE CappedIn(m)'
  BY <1>2, <1>3, <1>6, CappedStays DEF CappedRightly
<1> QED BY <1>5, <1>6 DEF CappedRightly

-----------------------------------------------------------------------------
(* A settlement: the cards *)

\* A winner's next edition of a question is newer than all he has.
LEMMA EditionIsNew ==
    ASSUME RewardInv, NEW s \in Server, tx[s].match # NoMatch,
           NEW u \in Players(s), Fresh(s, u), NEW q \in Question,
           NEW n \in Nat, \A c \in card : c.edition <= n
    PROVE  /\ NextEdition(u, q, tx[s]) \in 1 .. n + 1
           /\ \A d \in card : d.owner = u /\ d.question = q =>
                 d.edition < NextEdition(u, q, tx[s])
           /\ q \notin Owned(u, tx[s]) => NextEdition(u, q, tx[s]) = 1
<1> DEFINE of == {d \in tx[s].card : d.owner = u /\ d.question = q}
           editions == {c.edition : c \in of}
<1>1. \A c : c.owner = u => (c \in card <=> c \in tx[s].card)
  BY DEF RewardInv, SnapshotsOK, StillTrue, CardsOf
<1>2. \A c \in card : c.edition \in Nat
  BY DEF RewardInv, TypesOK, CardType
<1>3. editions \subseteq Nat /\ \A x \in editions : x <= n
  BY <1>1, <1>2
<1>4. \A d \in card : d.owner = u /\ d.question = q => d.edition \in editions
  BY <1>1
<1>5. q \notin Owned(u, tx[s]) => editions = {}
  BY DEF Owned
<1>6. NextEdition(u, q, tx[s]) = 1 + Max({0} \cup editions)
  BY DEF NextEdition
<1> HIDE DEF editions
<1>7. /\ 1 + Max({0} \cup editions) \in 1 .. n + 1
      /\ \A x \in editions : x < 1 + Max({0} \cup editions)
      /\ editions = {} => 1 + Max({0} \cup editions) = 1
  BY <1>3, NextNumber
<1> QED BY <1>4, <1>5, <1>6, <1>7

\* A question the winner owns is chosen only when he owns them all.
LEMMA ChosenOwned ==
    ASSUME NEW u, NEW desired, NEW seen, NEW q \in RewardQuestions(u, desired, seen),
           q \in Owned(u, seen)
    PROVE  Question \subseteq Owned(u, seen)
<1> DEFINE of == {r \in Question : Difficulty[r] = desired}
           new == Question \ Owned(u, seen)
<1>1. q \notin new
  OBVIOUS
<1>2. new = {}
  <2>1. CASE of \cap new # {}
    BY <1>1, <2>1 DEF RewardQuestions
  <2>2. CASE of \cap new = {} /\ new # {}
    BY <1>1, <2>2 DEF RewardQuestions
  <2> QED BY <2>1, <2>2
<1> QED BY <1>2

\* The cards that are minted, one for each winner.
NewCard(s, u, q) ==
    [owner |-> u, question |-> q, edition |-> NextEdition(u, q, tx[s]), from |-> tx[s].match]

LEMMA SettledCards ==
    ASSUME RewardInv, NEW s \in Server, Settle(s)
    PROVE  /\ card' \subseteq CardType /\ card \subseteq card'
           /\ \A c \in card' : c \in card \/ c.owner \in Paid(s)
           /\ EditionsBounded' /\ CardsMinted' /\ MintedRightly(tx[s].match)
<1> USE DEF RewardInv
<1>1. PICK n \in Nat : \A c \in card : c.edition <= n
  BY DEF EditionsBounded
<1>2. PICK new \in Minted(tx[s].match, Winners(s), tx[s]) : card' = card \cup new
  BY SettleIs
<1>3. PICK pick \in [Winners(s) -> Question] :
         /\ \A u \in Winners(s) : \E desired \in {Difficulty[q] : q \in Question} :
               pick[u] \in RewardQuestions(u, desired, tx[s])
         /\ new = {NewCard(s, u, pick[u]) : u \in Winners(s)}
  BY <1>2 DEF Minted, NewCard
<1>4. tx[s].match # NoMatch /\ tx[s].match \in Match /\ match[tx[s].match].status = "over"
  BY SettleIs, PaidAre
<1>5. ASSUME NEW u \in Winners(s)
      PROVE  /\ u \in User /\ u \in Paid(s) /\ pick[u] \in Question
             /\ NextEdition(u, pick[u], tx[s]) \in 1 .. n + 1
             /\ \A d \in card : d.owner = u /\ d.question = pick[u] =>
                   d.edition < NextEdition(u, pick[u], tx[s])
             /\ NextEdition(u, pick[u], tx[s]) > 1 => Question \subseteq Owned(u, tx[s])
  <2>1. u \in Paid(s) /\ pick[u] \in Question
    BY <1>3 DEF Winners
  <2>2. u \in User /\ u \in Players(s) /\ Fresh(s, u)
    BY <2>1, PaidAre
  <2>3. /\ NextEdition(u, pick[u], tx[s]) \in 1 .. n + 1
        /\ \A d \in card : d.owner = u /\ d.question = pick[u] =>
              d.edition < NextEdition(u, pick[u], tx[s])
        /\ pick[u] \notin Owned(u, tx[s]) => NextEdition(u, pick[u], tx[s]) = 1
    BY <1>1, <1>4, <2>1, <2>2, EditionIsNew
  <2>4. pick[u] \in Owned(u, tx[s]) => Question \subseteq Owned(u, tx[s])
    BY <1>3, ChosenOwned
  <2> QED BY <2>1, <2>2, <2>3, <2>4
<1>6. ASSUME NEW c \in new
      PROVE  \E u \in Winners(s) : c = NewCard(s, u, pick[u])
  BY <1>3
<1>7. \A u, q : /\ NewCard(s, u, q).owner = u /\ NewCard(s, u, q).question = q
                /\ NewCard(s, u, q).edition = NextEdition(u, q, tx[s])
  BY DEF NewCard
<1>8. card' \subseteq CardType
  <2>1. ASSUME NEW u \in Winners(s) PROVE NewCard(s, u, pick[u]) \in CardType
    BY <1>4, <1>5 DEF NewCard, CardType
  <2> QED BY <2>1, <1>2, <1>6 DEF TypesOK
<1>9. \A c \in card' : c \in card \/ c.owner \in Paid(s)
  BY <1>2, <1>5, <1>6, <1>7
<1>10. EditionsBounded'
  <2>1. \A c \in card : c.edition \in Nat
    BY DEF TypesOK, CardType
  <2>2. \A c \in card' : c.edition <= n + 1
    BY <2>1, <1>1, <1>2, <1>5, <1>6, <1>7
  <2> QED BY <2>2 DEF EditionsBounded
<1>11. CardsMinted'
  <2>1. PICK id \in Match : id = tx[s].match
    BY <1>4
  <2>2. match'[id].status = "settled" /\ \A m \in Match : m # id => match'[m] = match[m]
    BY <2>1, SettledMatch
  <2>3. \A c \in new : c.from = id
    BY <2>1, <1>6 DEF NewCard
  <2> QED BY <2>2, <2>3, <1>2 DEF CardsMinted
<1>12. ASSUME NEW c \in card', c.from = tx[s].match
       PROVE  /\ \A d \in card : d.owner = c.owner /\ d.question = c.question =>
                    d.edition < c.edition
              /\ c.edition > 1 =>
                    \A q \in Question : \E d \in card : d.owner = c.owner /\ d.question = q
  <2>1. c \in new
    BY <1>2, <1>4, <1>12 DEF CardsMinted
  <2>2. PICK u \in Winners(s) : c = NewCard(s, u, pick[u])
    BY <2>1, <1>6
  <2>3. u \in Players(s) /\ Fresh(s, u)
    BY <1>5, PaidAre
  <2>4. ASSUME c.edition > 1, NEW q \in Question
        PROVE  \E d \in card : d.owner = c.owner /\ d.question = q
    <3>1. q \in Owned(u, tx[s])
      BY <2>2, <2>4, <1>5, <1>7
    <3>2. PICK d \in tx[s].card : d.owner = u /\ d.question = q
      BY <3>1 DEF Owned
    <3>3. d \in card
      BY <3>2, <2>3, <1>4 DEF SnapshotsOK, StillTrue, CardsOf
    <3> QED BY <3>2, <3>3, <2>2, <1>7
  <2> QED BY <2>2, <2>4, <1>5, <1>7
<1>13. MintedRightly(tx[s].match)
  BY <1>12 DEF MintedRightly
<1> QED BY <1>2, <1>8, <1>9, <1>10, <1>11, <1>13

LEMMA SettleReward ==
    ASSUME RewardInv, NEW s \in Server, Settle(s)
    PROVE  RewardInv'
<1> USE DEF RewardInv
<1>1. PICK id \in Match : id = tx[s].match
  BY PaidAre
<1>2. /\ match' \in [Match -> MatchType]
      /\ match'[id].source = match[id].source /\ match'[id].day = match[id].day
      /\ match'[id].outcome = match[id].outcome /\ match'[id].status = "settled"
      /\ match'[id].settledOn = tx[s].now
      /\ \A m \in Match : m # id => match'[m] = match[m]
  BY <1>1, SettledMatch
<1>3. today' = today
  BY SettleIs
<1>4. tx'[s] = NoTx /\ DOMAIN tx' = Server /\ \A t \in Server : t # s => tx'[t] = tx[t]
  <2>1. tx' = [tx EXCEPT ![s] = NoTx] /\ DOMAIN tx = Server
    BY SettleEnds DEF TypesOK
  <2> QED BY <2>1
<1>5. \A u \in User : /\ wallet'[u] \in Nat /\ wallet[u] \in Nat /\ wallet[u] <= wallet'[u]
                      /\ wallet'[u] = wallet[u] => u \notin Paid(s)
  BY PaidAre DEF TypesOK
<1>6. TypesOK'
  <2>1. wallet' \in [User -> Nat]
    BY <1>5, SettleIs
  <2> QED BY <2>1, <1>2, <1>3, <1>4, SettledQuotas, SettledCards DEF TypesOK
<1>7. MatchesPlaced'
  <2>1. tx[s].now <= today
    BY SettleIs DEF SnapshotsOK, SnapshotTyped
  <2>2. ASSUME NEW m \in Match
        PROVE  /\ match'[m].day <= today'
               /\ match'[m].status = "settled" => match'[m].settledOn <= today'
               /\ match'[m].status # "settled" => DOMAIN match'[m].receipt = {}
    <3>1. CASE m = id
      BY <3>1, <2>1, <1>2, <1>3 DEF MatchesPlaced
    <3>2. CASE m # id
      BY <3>2, <1>2, <1>3 DEF MatchesPlaced
    <3> QED BY <3>1, <3>2
  <2> QED BY <2>2 DEF MatchesPlaced
<1>8. SnapshotsOK'
  <2> SUFFICES ASSUME NEW t \in Server, tx'[t].match # NoMatch
               PROVE  SnapshotTyped(t)' /\ \A u \in Players(t)' : StillTrue(t, u)'
    BY DEF SnapshotsOK
  <2>1. t # s /\ tx'[t] = tx[t]
    BY <1>4 DEF NoTx
  <2>2. SnapshotTyped(t) /\ \A u \in Players(t) : StillTrue(t, u)
    BY <2>1 DEF SnapshotsOK
  <2>3. PICK other \in Match : other = tx[t].match
    BY <2>2 DEF SnapshotTyped
  <2>4. /\ match'[other].source = match[other].source /\ match'[other].day = match[other].day
        /\ match'[other].outcome = match[other].outcome
        /\ match'[other].status \in {"over", "settled"}
    BY <2>2, <2>3, <1>2 DEF SnapshotTyped
  <2>5. \A k : GrantedFor(k) \subseteq GrantedFor(k)'
    BY <1>1, SettledGrants
  <2>6. ASSUME NEW u \in User, wallet'[u] = wallet[u]
        PROVE  /\ CardsOf(u, card') = CardsOf(u, card)
               /\ \A k \in Keys : k[2] = u => GrantedFor(k)' = GrantedFor(k)
    <3>1. u \notin Paid(s)
      BY <2>6, <1>5
    <3>2. \A k \in Reserving(s) : k[2] \in Paid(s)
      BY DEF Reserving, KeyIn, Key
    <3>3. CardsOf(u, card') = CardsOf(u, card)
      BY <3>1, SettledCards DEF CardsOf
    <3> QED BY <3>1, <3>2, <3>3, <1>1, SettledGrants
  <2>7. today <= today' /\ \A u \in User : wallet[u] <= wallet'[u]
    BY <1>3, <1>5 DEF TypesOK
  <2> QED BY <2>1, <2>2, <2>3, <2>4, <2>5, <2>6, <2>7, <1>6, SnapshotStays
<1> QED BY <1>6, <1>7, <1>8, SettledQuotas, SettledCapped, SettledCards

-----------------------------------------------------------------------------
(* What is granted on one day *)

OnDay(k, d) == {m \in GrantedFor(k) : match[m].settledOn = d}

\* What quota documents say about the grants of day d, when none is of a later day: a new
\* document may follow one that took up to a place less than the limit on that day, and an
\* old one counts an earlier day's grant as well.
DayCounted(documents, k, d) ==
    /\ \A m \in GrantedFor(k) : match[m].settledOn <= d
    /\ k \notin DOMAIN documents => Cardinality(OnDay(k, d)) < Limit[k[1]]
    /\ k \in DOMAIN documents =>
          /\ documents[k].used \in 1 .. Limit[k[1]]
          /\ documents[k].expiresAt > d =>
                Cardinality(OnDay(k, d)) < documents[k].used + Limit[k[1]]
          /\ ~(documents[k].expiresAt > d) => Cardinality(OnDay(k, d)) < documents[k].used

SeenCounted(s, u) == Fresh(s, u) => DayCounted(tx[s].quota, KeyIn(s, u), tx[s].now)
DayInv ==
    /\ \A k \in Keys, d \in Nat : Cardinality(OnDay(k, d)) < 2 * Limit[k[1]]
    /\ \A k \in Keys : DayCounted(quota, k, today)
    /\ \A s \in Server : tx[s].match # NoMatch => \A u \in Players(s) : SeenCounted(s, u)

\* No further match takes a place of k.
GrantsKept(k) ==
    /\ GrantedFor(k)' = GrantedFor(k)
    /\ \A m \in GrantedFor(k) : match'[m].settledOn = match[m].settledOn

LEMMA OnDayIs ==
    ASSUME NEW k, NEW d
    PROVE  /\ IsFiniteSet(OnDay(k, d)) /\ Cardinality(OnDay(k, d)) \in Nat
           /\ GrantsKept(k) => OnDay(k, d)' = OnDay(k, d)
<1>1. OnDay(k, d) \subseteq GrantedFor(k)
  BY DEF OnDay
<1>2. IsFiniteSet(OnDay(k, d)) /\ Cardinality(OnDay(k, d)) \in Nat
  BY <1>1, GrantedFinite, FS_Subset, FS_CardinalityType
<1>3. GrantsKept(k) => OnDay(k, d)' = OnDay(k, d)
  BY DEF GrantsKept, OnDay
<1> QED BY <1>2, <1>3

LEMMA CountStays ==
    ASSUME NEW documents, NEW k, NEW d, DayCounted(documents, k, d), GrantsKept(k)
    PROVE  DayCounted(documents, k, d)'
<1>1. OnDay(k, d)' = OnDay(k, d)
  BY OnDayIs
<1> QED BY <1>1 DEF DayCounted, GrantsKept

\* As long as no match is settled nothing is granted.
LEMMA NoGrants ==
    ASSUME \A m \in Match : \/ match'[m] = match[m]
                            \/ match[m].status # "settled" /\ match'[m].status # "settled"
    PROVE  \A k : GrantsKept(k)
<1>1. \A k : GrantedFor(k)' = GrantedFor(k)
  BY SameGrants
<1>2. \A k : \A m \in GrantedFor(k) : m \in Match /\ match[m].status = "settled"
  BY DEF GrantedFor, Granted
<1> QED BY <1>1, <1>2 DEF GrantsKept

\* A snapshot under way that stays.
LEMMA SeenStays ==
    ASSUME TypesOK, NEW t \in Server, tx'[t] = tx[t], SnapshotTyped(t),
           LET old == match[tx[t].match]
               new == match'[tx[t].match]
           IN  new.source = old.source /\ new.outcome = old.outcome /\ new.day = old.day,
           \A u \in User : wallet[u] \in Nat /\ wallet'[u] \in Nat /\ wallet[u] <= wallet'[u],
           \A u \in User : wallet'[u] = wallet[u] =>
               \A k \in Keys : k[2] = u => GrantsKept(k),
           NEW u \in Players(t), SeenCounted(t, u)
    PROVE  SeenCounted(t, u)'
<1>1. PICK id \in Match : id = tx[t].match /\ id = tx'[t].match
  BY DEF SnapshotTyped
<1>2. u \in User
  BY <1>1, MatchIs DEF Players
<1>3. PICK k \in Keys : k = KeyIn(t, u) /\ k[2] = u
  BY <1>1, <1>2, KeyTyped DEF KeyIn
<1>4. k = KeyIn(t, u)'
  BY <1>1, <1>3 DEF KeyIn, Key
<1>5. PICK documents : documents = tx[t].quota /\ documents = tx'[t].quota
  OBVIOUS
<1>6. PICK d \in Nat : d = tx[t].now /\ d = tx'[t].now
  BY DEF SnapshotTyped
<1>7. ASSUME Fresh(t, u)' PROVE DayCounted(documents, k, d)'
  <2>1. tx[t].wallet[u] \in Nat /\ tx[t].wallet[u] <= wallet[u]
    BY DEF SnapshotTyped
  <2>2. wallet[u] \in Nat /\ wallet'[u] \in Nat /\ wallet[u] <= wallet'[u]
    BY <1>2
  <2>3. wallet'[u] = wallet[u] /\ Fresh(t, u)
    BY <1>7, <2>1, <2>2 DEF Fresh
  <2>4. DayCounted(documents, k, d)
    BY <1>3, <1>5, <1>6, <2>3 DEF SeenCounted
  <2>5. GrantsKept(k)
    BY <1>2, <1>3, <2>3
  <2> QED BY <2>4, <2>5, CountStays
<1>8. DayCounted(documents, k, d)' => DayCounted(tx[t].quota, KeyIn(t, u), tx[t].now)'
  BY <1>4, <1>5, <1>6
<1> QED BY <1>7, <1>8 DEF SeenCounted

LEMMA InitDay == Init => DayInv
<1> SUFFICES ASSUME Init PROVE DayInv
  OBVIOUS
<1>1. \A m \in Match : match[m].status = "playing"
  BY DEF Init, Playing
<1>2. \A k : GrantedFor(k) = {}
  BY <1>1 DEF GrantedFor, Granted
<1>3. \A k, d : OnDay(k, d) = {} /\ Cardinality(OnDay(k, d)) = 0
  BY <1>2, FS_EmptySet DEF OnDay
<1>4. \A k \in Keys : Limit[k[1]] \in Nat /\ Limit[k[1]] > 0
  BY Consts, KeysAre
<1>5. \A k \in Keys, d \in Nat : Cardinality(OnDay(k, d)) < 2 * Limit[k[1]]
  BY <1>3, <1>4
<1>6. \A k \in Keys : DayCounted(quota, k, today)
  <2>1. DOMAIN quota = {}
    BY DEF Init
  <2> QED BY <2>1, <1>2, <1>3, <1>4 DEF DayCounted
<1>7. \A s \in Server : tx[s].match = NoMatch
  BY DEF Init, NoTx
<1> QED BY <1>5, <1>6, <1>7 DEF DayInv

\* Where nothing is granted: what is left to show is what the documents say, and of the
\* snapshots those that begin.
LEMMA QuietDay ==
    ASSUME RewardInv, DayInv,
           \A m \in Match : \/ match'[m] = match[m]
                            \/ match[m].status = "playing" /\ match'[m].status # "settled",
           \A u \in User : wallet'[u] \in Nat /\ wallet[u] <= wallet'[u],
           \A k \in Keys : DayCounted(quota, k, today)',
           \A t \in Server : \/ tx'[t] = tx[t] \/ tx'[t].match = NoMatch
                             \/ \A u \in Players(t)' : SeenCounted(t, u)'
    PROVE  DayInv'
<1>1. \A k : GrantsKept(k)
  BY NoGrants
<1>2. \A k \in Keys, d \in Nat : Cardinality(OnDay(k, d)') < 2 * Limit[k[1]]
  BY <1>1, OnDayIs DEF DayInv
<1>3. ASSUME NEW t \in Server, tx'[t].match # NoMatch, NEW u \in Players(t)'
      PROVE  SeenCounted(t, u)'
  <2>1. CASE tx'[t] = tx[t]
    <3>1. SnapshotTyped(t) /\ tx[t].match # NoMatch
      BY <1>3, <2>1 DEF RewardInv, SnapshotsOK
    <3>2. match'[tx[t].match] = match[tx[t].match]
      BY <3>1 DEF SnapshotTyped
    <3>3. u \in Players(t) /\ SeenCounted(t, u)
      BY <1>3, <2>1, <3>1, <3>2 DEF Players, DayInv
    <3>4. \A v \in User : wallet[v] \in Nat
      BY DEF RewardInv, TypesOK
    <3> QED BY <1>1, <2>1, <3>1, <3>2, <3>3, <3>4, SeenStays DEF RewardInv
  <2> QED BY <2>1, <1>3
<1> QED BY <1>2, <1>3 DEF DayInv

\* Documents and day stay as well.
LEMMA DocumentsStay ==
    ASSUME RewardInv, DayInv, UNCHANGED <<quota, today>>,
           \A m \in Match : \/ match'[m] = match[m]
                            \/ match[m].status = "playing" /\ match'[m].status # "settled"
    PROVE  \A k \in Keys : DayCounted(quota, k, today)'
<1>1. \A k : GrantsKept(k)
  BY NoGrants
<1>2. PICK documents, d : documents = quota /\ documents = quota' /\ d = today /\ d = today'
  OBVIOUS
<1>3. ASSUME NEW k \in Keys PROVE DayCounted(documents, k, d)'
  <2>1. DayCounted(documents, k, d)
    BY <1>2 DEF DayInv
  <2> QED BY <2>1, <1>1, CountStays
<1> QED BY <1>2, <1>3

LEMMA BeginDay ==
    ASSUME RewardInv, DayInv, NEW s \in Server, NEW id \in Match, Begin(s, id)
    PROVE  DayInv'
<1> DEFINE players == DOMAIN match[id].outcome
           keys == {Key(match[id], u) : u \in players} \cap DOMAIN quota
           snapshot == [match |-> id, now |-> today,
                        quota |-> [k \in keys |-> quota[k]],
                        wallet |-> [u \in players |-> wallet[u]],
                        card |-> {c \in card : c.owner \in players}]
<1>1. /\ tx' = [tx EXCEPT ![s] = snapshot]
      /\ UNCHANGED <<match, quota, wallet, card, today>>
  BY DEF Begin
<1>2. tx'[s] = snapshot /\ \A t \in Server : t # s => tx'[t] = tx[t]
  BY <1>1 DEF RewardInv, TypesOK
<1>3. /\ tx'[s].match = id /\ tx'[s].now = today
      /\ DOMAIN tx'[s].quota = keys /\ \A k \in keys : tx'[s].quota[k] = quota[k]
  BY <1>2
<1> HIDE DEF snapshot
<1>4. \A k \in Keys : DayCounted(quota, k, today)'
  BY <1>1, DocumentsStay
<1>5. ASSUME NEW u \in Players(s)' PROVE SeenCounted(s, u)'
  <2>1. u \in players /\ u \in User
    BY <1>1, <1>3, <1>5, MatchIs DEF Players, RewardInv
  <2>2. PICK k \in Keys : k = Key(match[id], u)
    BY <2>1, KeyTyped DEF RewardInv
  <2>3. k = KeyIn(s, u)'
    BY <1>1, <1>3, <2>2 DEF KeyIn, Key
  <2>4. k \in keys <=> k \in DOMAIN quota
    BY <2>1, <2>2
  <2> HIDE DEF keys
  <2>5. PICK documents : documents = tx'[s].quota
    OBVIOUS
  <2>6. PICK d : d = today /\ d = today' /\ d = tx'[s].now
    BY <1>1, <1>3
  <2>7. /\ k \in DOMAIN documents <=> k \in DOMAIN quota'
        /\ k \in DOMAIN documents => documents[k] = quota'[k]
    BY <1>1, <1>3, <2>4, <2>5
  <2>9. DayCounted(documents, k, d)'
    BY <1>4, <2>6, <2>7 DEF DayCounted
  <2> QED BY <2>3, <2>5, <2>6, <2>9 DEF SeenCounted
<1> HIDE DEF keys, players
<1>6. \A u \in User : wallet'[u] \in Nat /\ wallet[u] <= wallet'[u]
  BY <1>1 DEF RewardInv, TypesOK
<1> QED BY <1>1, <1>2, <1>4, <1>5, <1>6, QuietDay

LEMMA ExpireDay ==
    ASSUME RewardInv, DayInv, NEW x \in DOMAIN quota, Expire(x)
    PROVE  DayInv'
<1>1. /\ UNCHANGED <<match, wallet, card, today, tx>> /\ quota[x].expiresAt <= today
      /\ DOMAIN quota' = DOMAIN quota \ {x}
      /\ \A k \in DOMAIN quota' : quota'[k] = quota[k]
  BY DEF Expire
<1>2. \A k : GrantsKept(k)
  BY <1>1, NoGrants
<1>3. ASSUME NEW k \in Keys PROVE DayCounted(quota, k, today)'
  <2>1. PICK d \in Nat : d = today /\ d = today'
    BY <1>1 DEF RewardInv, TypesOK
  <2>2. /\ OnDay(k, d)' = OnDay(k, d) /\ GrantedFor(k)' = GrantedFor(k)
        /\ Cardinality(OnDay(k, d)) \in Nat /\ Limit[k[1]] \in Nat
    BY <1>2, OnDayIs, Consts, KeysAre DEF GrantsKept
  <2>3. DayCounted(quota, k, d)
    BY <2>1 DEF DayInv
  <2>4. k = x => Cardinality(OnDay(k, d)) < Limit[k[1]]
    <3>1. ASSUME k = x
          PROVE  quota[k].used \in 1 .. Limit[k[1]] /\ Cardinality(OnDay(k, d)) < quota[k].used
      <4>1. quota[k].expiresAt \in Nat /\ ~(quota[k].expiresAt > d)
        BY <1>1, <2>1, <3>1 DEF RewardInv, TypesOK, QuotaDocument
      <4> QED BY <2>3, <3>1, <4>1 DEF DayCounted
    <3> QED BY <2>2, <3>1
  <2> QED BY <1>1, <1>2, <2>1, <2>2, <2>3, <2>4 DEF DayCounted, GrantsKept
<1>4. \A u \in User : wallet'[u] \in Nat /\ wallet[u] <= wallet'[u]
  BY <1>1 DEF RewardInv, TypesOK
<1> QED BY <1>1, <1>3, <1>4, QuietDay

LEMMA NextDayDay ==
    ASSUME RewardInv, DayInv, NextDay
    PROVE  DayInv'
<1>1. UNCHANGED <<match, quota, wallet, card, tx>> /\ today' = today + 1 /\ today \in Nat
  BY DEF NextDay, RewardInv, TypesOK
<1>2. \A k : GrantsKept(k)
  BY <1>1, NoGrants
<1>3. ASSUME NEW k \in Keys PROVE DayCounted(quota, k, today)'
  <2>1. PICK d \in Nat : d = today /\ d + 1 = today'
    BY <1>1
  <2>2. DayCounted(quota, k, d)
    BY <2>1 DEF DayInv
  <2>3. GrantedFor(k)' = GrantedFor(k) /\ Limit[k[1]] \in Nat /\ Limit[k[1]] > 0
    BY <1>2, Consts, KeysAre DEF GrantsKept
  <2>4. \A m \in GrantedFor(k) : match[m].settledOn \in Nat /\ match[m].settledOn <= d
    BY <2>2, MatchIs DEF DayCounted, GrantedFor, Granted, RewardInv
  <2>5. OnDay(k, d + 1) = {}
    BY <2>4 DEF OnDay
  <2>6. OnDay(k, d + 1)' = {} /\ Cardinality(OnDay(k, d + 1)') = 0
    BY <2>5, <1>2, OnDayIs, FS_EmptySet
  <2>7. k \in DOMAIN quota => quota[k].used \in 1 .. Limit[k[1]]
    BY <2>2 DEF DayCounted
  <2>8. \A m \in GrantedFor(k)' : match'[m].settledOn <= d + 1
    BY <1>1, <2>3, <2>4
  <2>9. DayCounted(quota, k, d + 1)'
    BY <1>1, <2>3, <2>6, <2>7, <2>8 DEF DayCounted
  <2> QED BY <2>1, <2>9
<1>4. \A u \in User : wallet'[u] \in Nat /\ wallet[u] <= wallet'[u]
  BY <1>1 DEF RewardInv, TypesOK
<1> QED BY <1>1, <1>3, <1>4, QuietDay

\* A place that is taken on a day: of a document that was not full, or the first of a new one.
LEMMA SettledDay ==
    ASSUME RewardInv, DayInv, NEW s \in Server, Settle(s), NEW k \in Reserving(s)
    PROVE  /\ DayCounted(quota, k, today)'
           /\ \A d \in Nat : Cardinality(OnDay(k, d)') < 2 * Limit[k[1]]
<1>1. PICK id \in Match : id = tx[s].match
  BY PaidAre
<1>2. PICK u \in Paid(s) : k = KeyIn(s, u)
  BY DEF Reserving
<1>3. /\ u \in User /\ u \in Players(s) /\ Fresh(s, u) /\ Reserves(match[id], u, tx[s])
      /\ k \in Keys /\ k = Key(match[id], u) /\ k[1] = match[id].source
  BY <1>1, <1>2, PaidAre, KeyTyped DEF KeyIn, RewardInv
<1>4. PICK d \in Nat, e \in Nat : d = tx[s].now /\ e = today /\ e = today' /\ d <= e
  BY SettleIs DEF RewardInv, SnapshotsOK, SnapshotTyped, TypesOK
<1>5. /\ quota'[k] = Reserved(k, match[id], tx[s]) /\ k \in DOMAIN quota'
      /\ k \in DOMAIN quota <=> k \in DOMAIN tx[s].quota
      /\ k \in DOMAIN quota => quota[k] = tx[s].quota[k]
  BY <1>1, SettleWrites
<1>6. DayCounted(tx[s].quota, k, d) /\ DayCounted(quota, k, e)
  <2>1. SeenCounted(s, u) /\ DayCounted(quota, k, today)
    BY <1>3, SettleEnds DEF DayInv
  <2>2. k = KeyIn(s, u) /\ Fresh(s, u)
    BY <1>2, <1>3
  <2> QED BY <2>1, <2>2, <1>4 DEF SeenCounted
<1>7. Limit[k[1]] \in Nat /\ Limit[k[1]] > 0
  BY <1>3, Consts, KeysAre
<1>8. /\ GrantedFor(k)' = GrantedFor(k) \cup {id} /\ id \notin GrantedFor(k)
      /\ match'[id].settledOn = d /\ \A m \in Match : m # id => match'[m] = match[m]
  BY <1>1, <1>3, <1>4, SettledGrants, SettledMatch
<1>9. \A m \in GrantedFor(k) : m \in Match /\ m # id /\ match[m].settledOn <= d
                              /\ match[m].settledOn \in Nat
  BY <1>6, <1>8, MatchIs DEF DayCounted, GrantedFor, Granted, RewardInv
<1>10. /\ OnDay(k, d)' = OnDay(k, d) \cup {id} /\ id \notin OnDay(k, d)
       /\ \A x : x # d => OnDay(k, x)' = OnDay(k, x)
  <2>1. OnDay(k, d)' = {m \in GrantedFor(k)' : match'[m].settledOn = d}
    BY DEF OnDay
  <2>2. ASSUME NEW x PROVE OnDay(k, x)' = {m \in GrantedFor(k)' : match'[m].settledOn = x}
    BY DEF OnDay
  <2>3. OnDay(k, d)' = OnDay(k, d) \cup {id} /\ id \notin OnDay(k, d)
    BY <2>1, <1>8, <1>9 DEF OnDay
  <2>4. ASSUME NEW x, x # d PROVE OnDay(k, x)' = OnDay(k, x)
    BY <2>2, <2>4, <1>8, <1>9 DEF OnDay
  <2> QED BY <2>3, <2>4
<1>11. Cardinality(OnDay(k, d)') = Cardinality(OnDay(k, d)) + 1
       /\ \A x : Cardinality(OnDay(k, x)) \in Nat
  <2>1. \A x : IsFiniteSet(OnDay(k, x)) /\ Cardinality(OnDay(k, x)) \in Nat
    BY OnDayIs
  <2>2. OnDay(k, d)' = OnDay(k, d) \cup {id} /\ id \notin OnDay(k, d)
    BY <1>10
  <2>3. Cardinality(OnDay(k, d)') = Cardinality(OnDay(k, d)) + 1
    BY <2>1, <2>2, FS_AddElement
  <2> QED BY <2>1, <2>3
<1>12. \A m \in GrantedFor(k)' : match'[m].settledOn <= e
  BY <1>4, <1>8, <1>9
<1>13. d # e => OnDay(k, e)' = {} /\ Cardinality(OnDay(k, e)') = 0
  <2>1. d # e => OnDay(k, e) = {}
    BY <1>4, <1>9 DEF OnDay
  <2> QED BY <2>1, <1>10, FS_EmptySet
<1>14. \A x \in Nat : x # d => Cardinality(OnDay(k, x)') < 2 * Limit[k[1]]
  BY <1>3, <1>10 DEF DayInv
<1>15. CASE k \in DOMAIN quota
  <2>1. /\ quota[k].used \in 1 .. Limit[k[1]] /\ quota[k].expiresAt \in Nat
        /\ quota[k].used < Limit[k[1]]
    BY <1>3, <1>5, <1>6, <1>15 DEF DayCounted, Reserves, RewardInv, TypesOK, QuotaDocument
  <2>2. quota'[k] = [quota[k] EXCEPT !.used = @ + 1] /\ quota[k] \in QuotaDocument
    BY <1>5, <1>15 DEF Reserved, RewardInv, TypesOK
  <2>3. quota'[k].used = quota[k].used + 1 /\ quota'[k].expiresAt = quota[k].expiresAt
    BY <2>2 DEF QuotaDocument
  <2>4. /\ quota[k].expiresAt > d => Cardinality(OnDay(k, d)) < quota[k].used + Limit[k[1]]
        /\ ~(quota[k].expiresAt > d) => Cardinality(OnDay(k, d)) < quota[k].used
    BY <1>5, <1>6, <1>15 DEF DayCounted
  <2>5. Cardinality(OnDay(k, d)') < 2 * Limit[k[1]]
    BY <1>7, <1>11, <2>1, <2>4
  <2>6. /\ quota'[k].used \in 1 .. Limit[k[1]]
        /\ quota'[k].expiresAt > e =>
              Cardinality(OnDay(k, e)') < quota'[k].used + Limit[k[1]]
        /\ ~(quota'[k].expiresAt > e) => Cardinality(OnDay(k, e)') < quota'[k].used
    <3>1. CASE d = e
      BY <3>1, <1>7, <1>11, <2>1, <2>3, <2>4
    <3>2. CASE d # e
      BY <3>2, <1>7, <1>13, <2>1, <2>3
    <3> QED BY <3>1, <3>2
  <2>7. DayCounted(quota, k, today)'
    BY <1>4, <1>5, <1>12, <2>6 DEF DayCounted
  <2> QED BY <1>14, <2>5, <2>7
<1>16. CASE k \notin DOMAIN quota
  <2> DEFINE expiry == Max({match[id].day + Ttl, tx[s].now + 1})
  <2>1. quota'[k] = [used |-> 1, expiresAt |-> expiry]
    BY <1>5, <1>16 DEF Reserved
  <2>2. expiry \in Nat /\ expiry >= d + 1
    <3>1. match[id].day + Ttl \in Nat /\ d + 1 \in Nat
      BY MatchIs, Consts DEF RewardInv
    <3>2. expiry = Max({match[id].day + Ttl, d + 1})
      BY <1>4
    <3> HIDE DEF expiry
    <3>3. /\ Max({match[id].day + Ttl, d + 1}) \in {match[id].day + Ttl, d + 1}
          /\ Max({match[id].day + Ttl, d + 1}) >= d + 1
      BY <3>1, MaxOfTwo
    <3> QED BY <3>1, <3>2, <3>3
  <2> HIDE DEF expiry
  <2>3. quota'[k].used = 1 /\ quota'[k].expiresAt = expiry
    BY <2>1
  <2>4. Cardinality(OnDay(k, d)) < Limit[k[1]]
    BY <1>5, <1>6, <1>16 DEF DayCounted
  <2>5. Cardinality(OnDay(k, d)') < 2 * Limit[k[1]]
    BY <1>7, <1>11, <2>4
  <2>6. /\ quota'[k].used \in 1 .. Limit[k[1]]
        /\ quota'[k].expiresAt > e =>
              Cardinality(OnDay(k, e)') < quota'[k].used + Limit[k[1]]
        /\ ~(quota'[k].expiresAt > e) => Cardinality(OnDay(k, e)') < quota'[k].used
    <3>1. CASE d = e
      BY <3>1, <1>7, <1>11, <2>2, <2>3, <2>4
    <3>2. CASE d # e
      BY <3>2, <1>7, <1>13, <2>3
    <3> QED BY <3>1, <3>2
  <2>7. DayCounted(quota, k, today)'
    BY <1>4, <1>5, <1>12, <2>6 DEF DayCounted
  <2> QED BY <1>14, <2>5, <2>7
<1> QED BY <1>15, <1>16

LEMMA SettleDay ==
    ASSUME RewardInv, DayInv, NEW s \in Server, Settle(s)
    PROVE  DayInv'
<1>1. PICK id \in Match : id = tx[s].match
  BY PaidAre
<1>2. /\ match'[id].source = match[id].source /\ match'[id].day = match[id].day
      /\ match'[id].outcome = match[id].outcome
      /\ \A m \in Match : m # id => match'[m] = match[m]
  BY <1>1, SettledMatch
<1>3. ASSUME NEW k \in Keys, k \notin Reserving(s) PROVE GrantsKept(k)
  <2>1. GrantedFor(k)' = GrantedFor(k) /\ id \notin GrantedFor(k)
    BY <1>1, <1>3, SettledGrants
  <2>2. \A m \in GrantedFor(k) : m \in Match
    BY DEF GrantedFor, Granted
  <2> QED BY <1>2, <2>1, <2>2 DEF GrantsKept
<1>4. ASSUME NEW k \in Keys
      PROVE  /\ DayCounted(quota, k, today)'
             /\ \A d \in Nat : Cardinality(OnDay(k, d)') < 2 * Limit[k[1]]
  <2>1. CASE k \in Reserving(s)
    BY <2>1, SettledDay
  <2>2. CASE k \notin Reserving(s)
    <3>1. \A d \in Nat : Cardinality(OnDay(k, d)') < 2 * Limit[k[1]]
      BY <1>3, <2>2, OnDayIs DEF DayInv
    <3>2. PICK d : d = today /\ d = today'
      BY SettleIs
    <3>3. DayCounted(quota, k, d)
      BY <3>2 DEF DayInv
    <3>4. OnDay(k, d)' = OnDay(k, d)
      BY <1>3, <2>2, OnDayIs
    <3>5. /\ k \in DOMAIN quota' <=> k \in DOMAIN quota
          /\ k \in DOMAIN quota => quota'[k] = quota[k]
      <4>1. quota' = [x \in DOMAIN quota \cup Reserving(s) |->
                        IF x \in Reserving(s) THEN Reserved(x, match[tx[s].match], tx[s])
                        ELSE quota[x]]
        BY SettleIs
      <4> QED BY <4>1, <2>2
    <3>6. DayCounted(quota, k, d)'
      BY <1>3, <2>2, <3>3, <3>4, <3>5 DEF DayCounted, GrantsKept
    <3> QED BY <3>1, <3>2, <3>6
  <2> QED BY <2>1, <2>2
<1>5. ASSUME NEW t \in Server, tx'[t].match # NoMatch, NEW u \in Players(t)'
      PROVE  SeenCounted(t, u)'
  <2>1. t # s /\ tx'[t] = tx[t]
    <3>1. tx' = [tx EXCEPT ![s] = NoTx] /\ DOMAIN tx = Server
      BY SettleIs DEF RewardInv, TypesOK
    <3> QED BY <3>1, <1>5 DEF NoTx
  <2>2. SnapshotTyped(t)
    BY <1>5, <2>1 DEF RewardInv, SnapshotsOK
  <2>3. PICK other \in Match : other = tx[t].match
    BY <2>2 DEF SnapshotTyped
  <2>4. /\ match'[other].source = match[other].source /\ match'[other].day = match[other].day
        /\ match'[other].outcome = match[other].outcome
    BY <1>2
  <2>5. u \in Players(t) /\ SeenCounted(t, u)
    BY <1>5, <2>1, <2>3, <2>4 DEF Players, DayInv
  <2>6. \A v \in User : wallet[v] \in Nat /\ wallet'[v] \in Nat /\ wallet[v] <= wallet'[v]
    BY PaidAre DEF RewardInv, TypesOK
  <2>7. ASSUME NEW v \in User, wallet'[v] = wallet[v], NEW k \in Keys, k[2] = v
        PROVE  GrantsKept(k)
    <3>1. v \notin Paid(s)
      BY <2>6, <2>7, PaidAre DEF RewardInv, TypesOK
    <3>2. \A x \in Reserving(s) : x[2] \in Paid(s)
      BY DEF Reserving, KeyIn, Key
    <3> QED BY <3>1, <3>2, <2>7, <1>3
  <2> QED BY <2>1, <2>2, <2>3, <2>4, <2>5, <2>6, <2>7, SeenStays DEF RewardInv
<1> QED BY <1>4, <1>5 DEF DayInv

LEMMA NextDayInv == RewardInv /\ DayInv /\ [Next]_vars => DayInv'
<1> SUFFICES ASSUME RewardInv, DayInv, [Next]_vars PROVE DayInv'
  OBVIOUS
<1>1. \A u \in User : wallet[u] \in Nat
  BY DEF RewardInv, TypesOK
<1>2. ASSUME NEW id \in Match, Complete(id) PROVE DayInv'
  <2>1. UNCHANGED <<quota, wallet, card, today, tx>>
    BY <1>2 DEF Complete
  <2>2. \A m \in Match : \/ match'[m] = match[m]
                         \/ match[m].status = "playing" /\ match'[m].status # "settled"
    BY <1>2 DEF Complete, RewardInv, TypesOK, MatchType
  <2>3. \A k \in Keys : DayCounted(quota, k, today)'
    BY <2>1, <2>2, DocumentsStay
  <2> QED BY <1>1, <2>1, <2>2, <2>3, QuietDay
<1>3. ASSUME NEW s \in Server, NEW m \in Match, Begin(s, m) PROVE DayInv'
  BY <1>3, BeginDay
<1>4. ASSUME NEW s \in Server, Settle(s) PROVE DayInv'
  BY <1>4, SettleDay
<1>5. ASSUME NEW s \in Server, Abort(s) PROVE DayInv'
  <2>1. /\ UNCHANGED <<match, quota, wallet, card, today>>
        /\ \A t \in Server : tx'[t] = tx[t] \/ tx'[t].match = NoMatch
    BY <1>5 DEF Abort, NoTx, RewardInv, TypesOK
  <2>2. \A k \in Keys : DayCounted(quota, k, today)'
    BY <2>1, DocumentsStay
  <2> QED BY <1>1, <2>1, <2>2, QuietDay
<1>6. ASSUME NEW u \in User, NEW v \in User, NEW cards, Exchange(u, v, cards) PROVE DayInv'
  <2>1. /\ UNCHANGED <<match, quota, today, tx>>
        /\ wallet' = [wallet EXCEPT ![u] = @ + 1, ![v] = @ + 1]
    BY <1>6 DEF Exchange
  <2>2. \A w \in User : wallet'[w] \in Nat /\ wallet[w] <= wallet'[w]
    BY <1>1, <2>1 DEF RewardInv, TypesOK
  <2>3. \A k \in Keys : DayCounted(quota, k, today)'
    BY <2>1, DocumentsStay
  <2> QED BY <2>1, <2>2, <2>3, QuietDay
<1>7. ASSUME NEW k \in DOMAIN quota, Expire(k) PROVE DayInv'
  BY <1>7, ExpireDay
<1>8. CASE NextDay
  BY <1>8, NextDayDay
<1>9. CASE UNCHANGED vars
  <2>1. UNCHANGED <<match, quota, wallet, card, today, tx>>
    BY <1>9 DEF vars
  <2>2. \A k \in Keys : DayCounted(quota, k, today)'
    BY <2>1, DocumentsStay
  <2> QED BY <1>1, <2>1, <2>2, QuietDay
<1> QED BY <1>2, <1>3, <1>4, <1>5, <1>6, <1>7, <1>8, <1>9 DEF Next

-----------------------------------------------------------------------------
(* The theorems *)

LEMMA NextReward == RewardInv /\ [Next]_vars => RewardInv'
<1> SUFFICES ASSUME RewardInv, [Next]_vars PROVE RewardInv'
  OBVIOUS
<1>1. ASSUME NEW m \in Match, Complete(m) PROVE RewardInv'
  BY <1>1, CompleteReward
<1>2. ASSUME NEW s \in Server, NEW m \in Match, Begin(s, m) PROVE RewardInv'
  BY <1>2, BeginReward
<1>3. ASSUME NEW s \in Server, Settle(s) \/ Abort(s) PROVE RewardInv'
  BY <1>3, SettleReward, AbortReward
<1>4. ASSUME NEW k \in DOMAIN quota, Expire(k) PROVE RewardInv'
  BY <1>4, ExpireReward
<1>5. CASE NextDay
  BY <1>5, NextDayReward
<1>6. ASSUME NEW u \in User, NEW v \in User, u # v,
             NEW cards \in SUBSET {c \in card : c.owner \in {u, v}}, Exchange(u, v, cards)
      PROVE  RewardInv'
  BY <1>6, ExchangeReward
<1>7. CASE UNCHANGED vars
  <2> USE <1>7 DEF vars, RewardInv
  <2>1. TypesOK' /\ today' \in Nat /\ today <= today'
    BY DEF TypesOK
  <2>2. SnapshotsOK'
    BY <2>1, SnapshotsUndisturbed DEF SnapshotsOK
  <2> QED BY <2>1, <2>2, QuietReward
<1> QED BY <1>1, <1>2, <1>3, <1>4, <1>5, <1>6, <1>7 DEF Next

\* RewardInv is an inductive invariant: quota documents, snapshots and cards agree with the
\* matches that were settled.
THEOREM RewardInvariant == Spec => []RewardInv
<1>1. Init => RewardInv
  BY InitReward
<1>2. RewardInv /\ [Next]_vars => RewardInv'
  BY NextReward
<1> QED BY <1>1, <1>2, PTL DEF Spec

\* However many servers settle however many matches of a user, and in whichever order
\* (SettleMatchRewards, reserveDailyReward): a day's results grant no more than the limit
\* while the quota document is kept, and none is refused while a place is left.
THEOREM QuotaExactHolds == Spec => []QuotaExact
<1>1. RewardInv => QuotaExact
  <2> SUFFICES ASSUME RewardInv, NEW u \in User, NEW source \in {"bot", "pvp"},
                      NEW day \in 0..today
               PROVE  /\ Cardinality({m \in Granted(u, source, day) :
                                        match[m].settledOn < day + Ttl}) <= Limit[source]
                      /\ (\E m \in Match : /\ match[m].source = source /\ match[m].day = day
                                           /\ u \in DOMAIN match[m].receipt
                                           /\ match[m].receipt[u] = "capped")
                         => Cardinality(Granted(u, source, day)) >= Limit[source]
    BY DEF QuotaExact
  <2>1. PICK k \in Keys : k = <<source, u, day>>
    <3>1. today \in Nat
      BY DEF RewardInv, TypesOK
    <3>2. day \in Nat /\ source \in Sources
      BY <3>1 DEF Sources
    <3> QED BY <3>2, KeysAre
  <2>2. InTime(k) = {m \in Granted(u, source, day) : match[m].settledOn < day + Ttl}
    BY <2>1 DEF InTime, GrantedFor
  <2>3. Cardinality(InTime(k)) <= Limit[source]
    BY <2>1 DEF RewardInv, LimitKept
  <2>4. ASSUME NEW m \in Match, match[m].source = source, match[m].day = day,
               u \in DOMAIN match[m].receipt, match[m].receipt[u] = "capped"
        PROVE  Cardinality(Granted(u, source, day)) >= Limit[source]
    BY <2>4 DEF RewardInv, CappedRightly, CappedIn
  <2> QED BY <2>2, <2>3, <2>4
<1> QED BY <1>1, RewardInvariant, PTL

\* Whenever results are settled and documents removed, the settlements of one day grant less
\* than twice the limit of any day of play (reserveDailyReward, minimumExpiry).
THEOREM LateGrantsBoundedHolds == Spec => []LateGrantsBounded
<1>1. Init => DayInv
  BY InitDay
<1>2. RewardInv /\ DayInv /\ [Next]_vars => DayInv'
  BY NextDayInv
<1>3. RewardInv /\ DayInv => LateGrantsBounded
  <2> SUFFICES ASSUME RewardInv, DayInv, NEW u \in User, NEW source \in {"bot", "pvp"},
                      NEW day \in 0..today, NEW on \in 0..today
               PROVE  Cardinality({m \in Granted(u, source, day) : match[m].settledOn = on})
                        < 2 * Limit[source]
    BY DEF LateGrantsBounded
  <2>1. day \in Nat /\ on \in Nat /\ source \in Sources
    BY DEF RewardInv, TypesOK, Sources
  <2>2. PICK k \in Keys : k = <<source, u, day>>
    BY <2>1, KeysAre
  <2>3. OnDay(k, on) = {m \in Granted(u, source, day) : match[m].settledOn = on}
    BY <2>2 DEF OnDay, GrantedFor
  <2> QED BY <2>1, <2>2, <2>3 DEF DayInv
<1> QED BY <1>1, <1>2, <1>3, RewardInvariant, PTL DEF Spec

\* Only a settlement settles a match, and only the one it began with.
LEMMA SettledBy ==
    ASSUME RewardInv, [Next]_vars, NEW m \in Match,
           match[m].status = "over", match'[m].status = "settled"
    PROVE  \E s \in Server : Settle(s) /\ tx[s].match = m
<1>1. match' # match
  OBVIOUS
<1>2. ASSUME NEW id \in Match, Complete(id) PROVE FALSE
  <2>1. match[id].status = "playing" /\ m # id
    BY <1>2 DEF Complete
  <2>2. match'[m] = match[m]
    BY <1>2, <2>1 DEF Complete, RewardInv, TypesOK
  <2> QED BY <2>2
<1>3. PICK s \in Server : Settle(s)
  BY <1>1, <1>2 DEF Next, vars, Begin, Abort, Exchange, Expire, NextDay
<1>4. tx[s].match \in Match
  BY <1>3, PaidAre
<1>5. tx[s].match = m
  BY <1>3, <1>4, SettledMatch
<1> QED BY <1>3, <1>5

\* However the settlements of a user's wins overlap with each other and with the purchases
\* and trades of his cards (mintRewardCard): a minted card is the newest edition of its
\* question that he holds at that moment, and a further one only if he lacks no question.
THEOREM MintsUnownedFirstHolds == Spec => MintsUnownedFirst
<1>1. ASSUME RewardInv, [Next]_vars, NEW m \in Match,
             match[m].status = "over", match'[m].status = "settled"
      PROVE  MintedRightly(m)
  BY <1>1, SettledBy, SettledCards
<1>2. RewardInv /\ [Next]_vars =>
        [\A m \in Match : match[m].status = "over" /\ match'[m].status = "settled"
                            => MintedRightly(m)]_vars
  BY <1>1
<1> QED BY <1>2, RewardInvariant, PTL DEF Spec, MintsUnownedFirst
=============================================================================
