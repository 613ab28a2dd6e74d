---------------------------- MODULE EconomyProofs ----------------------------
(***************************************************************************)
(* Proofs about Economy, for every set of users, cards, offers and         *)
(* concurrent requests: types, solvency, escrow, the conservation of       *)
(* coins, the starter grant, and that the economy implements Ownership.    *)
(*                                                                         *)
(* WellFormed is the inductive invariant the others rest on.  Each         *)
(* transaction is described once by what it does to the collections        *)
(* (Grants, Buys, Accepts, EndsOffer, Settles); the later proofs use these *)
(* descriptions and not the actions.                                       *)
(***************************************************************************)
EXTENDS Economy, FiniteSetTheorems, TLAPS

-----------------------------------------------------------------------------
(* Sums of coins *)

\* SumFunctionOnSet is defined by recursion on the set.  Instead of an induction principle
\* the proofs take a smallest set for which a claim would fail.

\* Among some subsets of a finite set there is a smallest one.
LEMMA SmallestSet ==
    ASSUME NEW S, IsFiniteSet(S), NEW A, A \subseteq SUBSET S, A # {}
    PROVE  \E U \in A : \A V \in A : V \subseteq U => V = U
<1>1. IsWellFoundedOn(StrictSubsetOrdering(S), FiniteSubsetsOf(S))
  BY FS_StrictSubsetOrderingWellFounded
<1>2. A \subseteq FiniteSubsetsOf(S)
  BY FS_Subset DEF FiniteSubsetsOf
<1>3. PICK U \in A : \A V \in A : ~(<<V, U>> \in StrictSubsetOrdering(S))
  BY <1>1, <1>2, WFMin
<1>4. ASSUME NEW V \in A, V \subseteq U, V # U PROVE FALSE
  BY <1>3, <1>4 DEF StrictSubsetOrdering
<1> QED BY <1>4

\* The element the sum takes first.
Pick(U) == CHOOSE x \in U : TRUE

LEMMA PickIn == \A U : U # {} => Pick(U) \in U
BY Zenon DEF Pick

\* The function by whose recursion SumFunctionOnSet(f, S) is defined.
IsSum(g, f, S) ==
    g = [T \in SUBSET S |-> IF T = {} THEN 0 ELSE f[Pick(T)] + g[T \ {Pick(T)}]]

LEMMA SumDef ==
    ASSUME NEW f, NEW S
    PROVE  SumFunctionOnSet(f, S) = (CHOOSE g : IsSum(g, f, S))[S]
BY Zenon DEF SumFunctionOnSet, FoldFunctionOnSet, MapThenFoldSet, IsSum, Pick

LEMMA IsSumAt ==
    ASSUME NEW f, NEW S, NEW g, IsSum(g, f, S), NEW T \in SUBSET S
    PROVE  /\ T = {} => g[T] = 0
           /\ T # {} => g[T] = f[Pick(T)] + g[T \ {Pick(T)}]
BY DEF IsSum

\* Such functions agree where both are defined.
LEMMA SumsAgree ==
    ASSUME NEW f, NEW S, IsFiniteSet(S), NEW R, NEW g, NEW h,
           IsSum(g, f, S), IsSum(h, f, R),
           NEW T, T \subseteq S, T \subseteq R
    PROVE  g[T] = h[T]
<1> DEFINE A == {U \in SUBSET T : g[U] # h[U]}
<1> SUFFICES ASSUME A # {} PROVE FALSE
  BY DEF A
<1>1. IsFiniteSet(T)
  BY FS_Subset
<1>2. PICK U \in A : \A V \in A : V \subseteq U => V = U
  <2>1. A \subseteq SUBSET T
    OBVIOUS
  <2> HIDE DEF A
  <2> QED BY <1>1, <2>1, SmallestSet
<1>3. U \in SUBSET S /\ U \in SUBSET R /\ g[U] # h[U]
  OBVIOUS
<1>4. U # {}
  <2> SUFFICES ASSUME U = {} PROVE FALSE
    OBVIOUS
  <2>1. g[U] = 0
    BY <1>3, IsSumAt
  <2>2. h[U] = 0
    BY <1>3, IsSumAt
  <2> QED BY <1>3, <2>1, <2>2
<1> DEFINE V == U \ {Pick(U)}
<1>5. V \subseteq U /\ V # U
  BY <1>4, PickIn
<1>6. g[V] = h[V]
  BY <1>2, <1>5
<1>7. g[U] = f[Pick(U)] + g[V] /\ h[U] = f[Pick(U)] + h[V]
  BY <1>3, <1>4, IsSumAt
<1> QED BY <1>3, <1>6, <1>7

\* There is one for every finite set.
LEMMA SumExists ==
    ASSUME NEW f, NEW S, IsFiniteSet(S)
    PROVE  \E g : IsSum(g, f, S)
<1> DEFINE A == {T \in SUBSET S : ~ \E g : IsSum(g, f, T)}
<1> SUFFICES ASSUME A # {} PROVE FALSE
  BY DEF A
<1>1. PICK U \in A : \A V \in A : V \subseteq U => V = U
  <2>1. A \subseteq SUBSET S
    OBVIOUS
  <2> HIDE DEF A
  <2> QED BY <2>1, SmallestSet
<1>2. IsFiniteSet(U) /\ ~ \E g : IsSum(g, f, U)
  BY FS_Subset
<1>3. ASSUME NEW V, V \subseteq U, V # U
      PROVE  \E g : IsSum(g, f, V)
  BY <1>1, <1>3
<1> DEFINE some(V) == CHOOSE g : IsSum(g, f, V)
           s(V) == some(V)[V]
<1>4. ASSUME NEW V, V \subseteq U, V # U
      PROVE  IsSum(some(V), f, V)
  BY <1>3, <1>4, Zenon
<1> HIDE DEF some
<1>5. ASSUME NEW V, V \subseteq U, V # U
      PROVE  s(V) = IF V = {} THEN 0 ELSE f[Pick(V)] + s(V \ {Pick(V)})
  <2>1. CASE V = {}
    BY <1>4, <1>5, <2>1, IsSumAt
  <2>2. CASE V # {}
    <3> DEFINE W == V \ {Pick(V)}
    <3>1. W \subseteq V /\ W \subseteq U /\ W # U
      BY <1>5
    <3>2. IsSum(some(V), f, V) /\ IsSum(some(W), f, W)
      BY <1>4, <1>5, <3>1
    <3>3. IsFiniteSet(V)
      BY <1>2, <1>5, FS_Subset
    <3> HIDE DEF W
    <3>4. some(V)[W] = some(W)[W]
      BY <3>1, <3>2, <3>3, SumsAgree
    <3>5. some(V)[V] = f[Pick(V)] + some(V)[W]
      BY <2>2, <3>2, IsSumAt DEF W
    <3> QED BY <2>2, <3>4, <3>5 DEF W
  <2> QED BY <2>1, <2>2
<1> HIDE DEF s
<1> DEFINE g == [T \in SUBSET U |-> IF T = {} THEN 0 ELSE f[Pick(T)] + s(T \ {Pick(T)})]
<1>6. ASSUME NEW T \in SUBSET U, T # {}
      PROVE  g[T \ {Pick(T)}] = s(T \ {Pick(T)})
  <2>1. T \ {Pick(T)} \in SUBSET U /\ T \ {Pick(T)} # U
    BY <1>6, PickIn
  <2> QED BY <1>5, <2>1
<1>7. IsSum(g, f, U)
  <2> DEFINE e == [T \in SUBSET U |-> IF T = {} THEN 0 ELSE f[Pick(T)] + g[T \ {Pick(T)}]]
  <2>1. \A T \in SUBSET U : g[T] = e[T]
    BY <1>6
  <2>2. g = e
    BY <2>1
  <2> QED BY <2>2, Zenon DEF IsSum
<1> QED BY <1>2, <1>7

\* The recursion of the sum, in terms of sums alone.
LEMMA SumStep ==
    ASSUME NEW f, NEW S, IsFiniteSet(S)
    PROVE  /\ S = {} => SumFunctionOnSet(f, S) = 0
           /\ S # {} => SumFunctionOnSet(f, S) =
                          f[Pick(S)] + SumFunctionOnSet(f, S \ {Pick(S)})
<1> DEFINE V == S \ {Pick(S)}
<1>1. PICK g : IsSum(g, f, S) /\ SumFunctionOnSet(f, S) = g[S]
  BY SumExists, SumDef, Zenon
<1>2. IsFiniteSet(V) /\ V \subseteq S
  BY FS_RemoveElement
<1>3. PICK h : IsSum(h, f, V) /\ SumFunctionOnSet(f, V) = h[V]
  <2> HIDE DEF V
  <2> QED BY <1>2, SumExists, SumDef, Zenon
<1>4. g[V] = h[V]
  <2> HIDE DEF V
  <2> QED BY <1>1, <1>2, <1>3, SumsAgree
<1>5. S = {} => g[S] = 0
  <2>1. IsSum(g, f, S)
    BY <1>1
  <2> QED BY <2>1 DEF IsSum
<1>6. S # {} => g[S] = f[Pick(S)] + g[V]
  BY <1>1, IsSumAt
<1> QED BY <1>1, <1>3, <1>4, <1>5, <1>6

\* A sum of integers is an integer.
LEMMA SumInt ==
    ASSUME NEW S, IsFiniteSet(S), NEW f, \A x \in S : f[x] \in Int
    PROVE  SumFunctionOnSet(f, S) \in Int
<1> DEFINE A == {T \in SUBSET S : SumFunctionOnSet(f, T) \notin Int}
<1> SUFFICES ASSUME A # {} PROVE FALSE
  BY DEF A
<1>1. PICK U \in A : \A V \in A : V \subseteq U => V = U
  <2>1. A \subseteq SUBSET S
    OBVIOUS
  <2> HIDE DEF A
  <2> QED BY <2>1, SmallestSet
<1>2. U \subseteq S /\ IsFiniteSet(U) /\ SumFunctionOnSet(f, U) \notin Int
  BY FS_Subset
<1>3. U # {}
  <2> SUFFICES ASSUME U = {} PROVE FALSE
    OBVIOUS
  <2>1. SumFunctionOnSet(f, U) = 0
    BY <1>2, SumStep
  <2> QED BY <1>2, <2>1
<1> DEFINE V == U \ {Pick(U)}
<1>4. V \subseteq U /\ V # U /\ Pick(U) \in S
  BY <1>2, <1>3, PickIn
<1>5. SumFunctionOnSet(f, V) \in Int
  BY <1>1, <1>2, <1>4
<1> QED BY <1>2, <1>3, <1>4, <1>5, SumStep

\* A sum of zeros is zero.
LEMMA SumZero ==
    ASSUME NEW S, IsFiniteSet(S), NEW f, \A x \in S : f[x] = 0
    PROVE  SumFunctionOnSet(f, S) = 0
<1> DEFINE A == {T \in SUBSET S : SumFunctionOnSet(f, T) # 0}
<1> SUFFICES ASSUME A # {} PROVE FALSE
  BY DEF A
<1>1. PICK U \in A : \A V \in A : V \subseteq U => V = U
  <2>1. A \subseteq SUBSET S
    OBVIOUS
  <2> HIDE DEF A
  <2> QED BY <2>1, SmallestSet
<1>2. U \subseteq S /\ IsFiniteSet(U) /\ SumFunctionOnSet(f, U) # 0
  BY FS_Subset
<1>3. U # {}
  BY <1>2, SumStep
<1> DEFINE V == U \ {Pick(U)}
<1>4. V \subseteq U /\ V # U /\ Pick(U) \in S
  BY <1>2, <1>3, PickIn
<1>5. SumFunctionOnSet(f, V) = 0
  BY <1>1, <1>2, <1>4
<1> QED BY <1>2, <1>3, <1>4, <1>5, SumStep

\* A change at one point changes the sum by as much, if the point is in the set.
LEMMA SumUpdate ==
    ASSUME NEW S, IsFiniteSet(S), NEW f, NEW g, NEW a,
           \A x \in S : f[x] \in Int /\ g[x] \in Int,
           \A x \in S : x # a => g[x] = f[x]
    PROVE  SumFunctionOnSet(g, S)
              = SumFunctionOnSet(f, S) + (IF a \in S THEN g[a] - f[a] ELSE 0)
<1> DEFINE s(T) == SumFunctionOnSet(f, T)
           r(T) == SumFunctionOnSet(g, T)
           change(T) == IF a \in T THEN g[a] - f[a] ELSE 0
           A == {T \in SUBSET S : r(T) # s(T) + change(T)}
<1> SUFFICES ASSUME A # {} PROVE FALSE
  BY DEF A
<1>1. PICK U \in A : \A V \in A : V \subseteq U => V = U
  <2>1. A \subseteq SUBSET S
    OBVIOUS
  <2> HIDE DEF A
  <2> QED BY <2>1, SmallestSet
<1>2. U \subseteq S /\ IsFiniteSet(U) /\ r(U) # s(U) + change(U)
  BY FS_Subset
<1>3. U # {}
  <2> SUFFICES ASSUME U = {} PROVE FALSE
    OBVIOUS
  <2>1. r(U) = 0 /\ s(U) = 0
    BY <1>2, SumStep
  <2> QED BY <1>2, <2>1
<1> DEFINE p == Pick(U)
           V == U \ {p}
<1>4. V \subseteq U /\ V # U /\ p \in U /\ p \in S /\ IsFiniteSet(V)
  BY <1>2, <1>3, PickIn, FS_RemoveElement
<1>5. r(V) = s(V) + change(V)
  BY <1>1, <1>2, <1>4
<1>6. r(U) = g[p] + r(V) /\ s(U) = f[p] + s(V)
  BY <1>2, <1>3, SumStep
<1>7. s(V) \in Int /\ f[p] \in Int /\ g[p] \in Int /\ change(V) \in Int
  <2>1. V \subseteq S
    BY <1>2, <1>4
  <2>2. change(V) \in Int
    BY <2>1
  <2> HIDE DEF V, change
  <2> QED BY <1>4, <2>1, <2>2, SumInt
<1>8. IF p = a THEN change(V) = 0 /\ change(U) = g[p] - f[p]
              ELSE g[p] = f[p] /\ change(U) = change(V)
  BY <1>4
<1> HIDE DEF s, r, change, V, p
<1> QED BY <1>2, <1>5, <1>6, <1>7, <1>8

\* A transfer between two points.
LEMMA SumUpdateTwo ==
    ASSUME NEW S, IsFiniteSet(S), NEW f, NEW g, NEW a \in S, NEW b \in S, a # b,
           \A x \in S : f[x] \in Int, g[a] \in Int, g[b] \in Int,
           \A x \in S : x # a /\ x # b => g[x] = f[x]
    PROVE  SumFunctionOnSet(g, S) = SumFunctionOnSet(f, S) + (g[a] - f[a]) + (g[b] - f[b])
<1> DEFINE h == [x \in S |-> IF x = a THEN g[a] ELSE f[x]]
<1>1. /\ \A x \in S : h[x] \in Int
      /\ h[a] = g[a] /\ h[b] = f[b]
      /\ \A x \in S : x # a => h[x] = f[x]
      /\ \A x \in S : x # b => g[x] = h[x]
  OBVIOUS
<1> HIDE DEF h
<1>2. SumFunctionOnSet(h, S) = SumFunctionOnSet(f, S) + (IF a \in S THEN h[a] - f[a] ELSE 0)
  BY <1>1, SumUpdate
<1>3. SumFunctionOnSet(g, S) = SumFunctionOnSet(h, S) + (IF b \in S THEN g[b] - h[b] ELSE 0)
  <2>1. \A x \in S : g[x] \in Int
    BY <1>1
  <2> QED BY <1>1, <2>1, SumUpdate
<1>4. SumFunctionOnSet(f, S) \in Int
  BY SumInt
<1>5. f[b] \in Int /\ f[a] \in Int /\ h[a] = g[a] /\ h[b] = f[b]
  BY <1>1
<1> QED BY <1>2, <1>3, <1>4, <1>5

-----------------------------------------------------------------------------
(* The parts of WellFormed *)

\* An active listing names a card, a seller and a price that can be paid a fee on.
ListingsWellFormed ==
    \A l \in Listing : listing[l].status = "active" =>
        /\ listing[l].card \in Card
        /\ listing[l].seller \in User
        /\ listing[l].price >= 10

\* A pending offer is between two users, and its sender has a wallet.
OffersWellFormed ==
    \A t \in Trade : trade[t].status = "pending" =>
        /\ trade[t].sender \in User
        /\ trade[t].receiver \in User
        /\ trade[t].sender # trade[t].receiver
        /\ wallet[trade[t].sender].open

\* A request holds what its handler has read: its user, the listing or the offer, and the
\* wallet without which its handler would have stopped.
RequestsWellFormed ==
    \A r \in Request :
        /\ request[r].at # "idle" => request[r].user \in User
        /\ request[r].at = "buying" => request[r].ref \in Listing
        /\ request[r].at = "accepting" => request[r].ref \in Trade
        /\ request[r].at \in {"buying", "accepting"} => wallet[request[r].user].open

\* Nothing was booked on a wallet that does not exist.
ClosedWalletsEmpty ==
    \A u \in User : ~wallet[u].open => wallet[u] = NoWallet

\* A card belongs to somebody who has a wallet.
OwnersHaveWallets ==
    \A c \in Card :
        /\ card[c].status = "unminted" => card[c].owner = None
        /\ card[c].owner # None => card[c].owner \in User /\ wallet[card[c].owner].open

\* A grant that will make a wallet mints the whole set: its snapshot saw no card of the
\* user, since a user without a wallet has none.
GrantsComplete ==
    \A r \in Request :
        request[r].at = "granting" =>
            \/ wallet[request[r].user].open
            \/ ~request[r].hadWallet /\ request[r].missing = StarterOf[request[r].user]

WellFormed ==
    /\ TypeOK
    /\ ListingsWellFormed
    /\ OffersWellFormed
    /\ RequestsWellFormed
    /\ ClosedWalletsEmpty
    /\ OwnersHaveWallets
    /\ GrantsComplete

\* What the proofs use of the constants.
LEMMA ConstantFacts ==
    /\ IsFiniteSet(User) /\ IsFiniteSet(Card) /\ IsFiniteSet(Trade)
    /\ None \notin User /\ None \notin Card /\ None \notin Ref
    /\ None \notin Listing /\ None \notin Trade /\ None # MatchRef
    /\ Listing \cap Trade = {} /\ MatchRef \notin Listing /\ MatchRef \notin Trade
    /\ StarterOf \in [User -> SUBSET Question]
    /\ StarterBalance \in Nat /\ MaxRewards \in Nat
    /\ \A p \in Price : p \in Nat /\ p >= 10
    /\ Coins \subseteq Nat
<1>1. MaximumPrice \in Nat /\ MinimumPrice = 10
  BY SMT DEF MaximumPrice, MinimumPrice
<1>2. \A p \in Price : p \in Nat /\ p >= 10
  BY <1>1, EconomyAssumption
<1>3. Coins \subseteq Nat
  BY <1>1, EconomyAssumption
<1>4. None \notin Listing /\ None \notin Trade /\ None # MatchRef
  BY EconomyAssumption DEF Ref
<1> QED BY <1>2, <1>3, <1>4, EconomyAssumption

\* The fee and the seller's share make up the price.
LEMMA Fee ==
    ASSUME NEW price \in Nat, price >= 10
    PROVE  /\ MarketFee(price) \in Nat
           /\ SellerShare(price) \in Nat
           /\ SellerShare(price) + MarketFee(price) = price
<1> DEFINE fee == (price * 500) \div 10000
<1>1. fee \in Nat /\ fee <= price
  BY SMT
<1>2. MarketFee(price) = IF fee < 1 THEN 1 ELSE fee
  BY SMT DEF MarketFee
<1> HIDE DEF fee
<1> QED BY <1>1, <1>2, SMT DEF SellerShare

\* The records the model writes have their types.
LEMMA NewRecords ==
    /\ NoWallet \in WalletType /\ NoCard \in CardType /\ NoListing \in ListingType
    /\ NoTrade \in TradeType /\ Idle \in RequestType
    /\ \A u \in User, q \in Question, e \in Nat : NewCard(u, q, e) \in CardType
    /\ \A s \in {"sold", "cancelled", "expired"} : EndedListing(s) \in ListingType
    /\ \A s \in {"accepted", "rejected", "cancelled", "expired"} : EndedTrade(s) \in TradeType
BY DEF NoWallet, NoCard, NoListing, NoTrade, Idle, NewCard, EndedListing, EndedTrade,
       WalletType, CardType, ListingType, TradeType, RequestType

-----------------------------------------------------------------------------
(* The steps keep WellFormed *)

LEMMA InitWellFormed == Init => WellFormed
<1> SUFFICES ASSUME Init PROVE WellFormed
  OBVIOUS
<1> USE DEF Init
<1>1. TypeOK
  BY NewRecords DEF TypeOK
<1>2. ListingsWellFormed /\ OffersWellFormed
  <2>1. \A l \in Listing : listing[l].status # "active"
    BY DEF NoListing
  <2>2. \A t \in Trade : trade[t].status # "pending"
    BY DEF NoTrade
  <2> QED BY <2>1, <2>2 DEF ListingsWellFormed, OffersWellFormed
<1>3. RequestsWellFormed /\ GrantsComplete
  <2>1. \A r \in Request : request[r].at = "idle"
    BY DEF Idle
  <2> QED BY <2>1 DEF RequestsWellFormed, GrantsComplete
<1>4. ClosedWalletsEmpty /\ OwnersHaveWallets
  <2>1. \A c \in Card : card[c].owner = None
    BY DEF NoCard
  <2> QED BY <2>1 DEF ClosedWalletsEmpty, OwnersHaveWallets
<1> QED BY <1>1, <1>2, <1>3, <1>4 DEF WellFormed

LEMMA AskStarterWF ==
    ASSUME WellFormed, NEW r \in Request, NEW u \in User, AskStarter(r, u)
    PROVE  WellFormed'
<1> USE DEF WellFormed, AskStarter, history
<1> DEFINE q == [Idle EXCEPT !.at = "asked", !.user = u]
<1>1. q \in RequestType /\ q.at = "asked" /\ q.user = u
  BY DEF Idle, RequestType
<1> HIDE DEF q
<1>2. request' = [request EXCEPT ![r] = q]
  BY DEF q
<1>3. TypeOK'
  BY <1>1, <1>2 DEF TypeOK
<1>4. RequestsWellFormed' /\ GrantsComplete'
  BY <1>1, <1>2 DEF TypeOK, RequestsWellFormed, GrantsComplete
<1>5. ListingsWellFormed' /\ OffersWellFormed' /\ ClosedWalletsEmpty' /\ OwnersHaveWallets'
  BY DEF ListingsWellFormed, OffersWellFormed, ClosedWalletsEmpty, OwnersHaveWallets
<1> QED BY <1>3, <1>4, <1>5

LEMMA StarterSnapshotWF ==
    ASSUME WellFormed, NEW r \in Request, StarterSnapshot(r)
    PROVE  WellFormed'
<1> USE DEF WellFormed, StarterSnapshot, history
<1> DEFINE u == request[r].user
           missing == {q \in StarterOf[u] :
                         ~ \E c \in Card : Owns(u, c, q) /\ card[c].edition = 1}
           q == [request[r] EXCEPT !.at = "granting", !.hadWallet = wallet[u].open,
                                   !.missing = missing]
<1>0. u \in User /\ request[r] \in RequestType /\ wallet[u] \in WalletType
  BY DEF TypeOK, RequestsWellFormed
<1>1. request' = [request EXCEPT ![r] = q]
  BY DEF TypeOK
<1>2. missing \in SUBSET Question
  BY <1>0, ConstantFacts
<1>3. ~wallet[u].open => missing = StarterOf[u]
  BY <1>0, ConstantFacts DEF OwnersHaveWallets, Owns
<1> HIDE DEF missing
<1>4. /\ q \in RequestType /\ q.at = "granting" /\ q.user = u /\ q.hadWallet = wallet[u].open
      /\ q.missing = missing
  BY <1>0, <1>2 DEF RequestType, WalletType
<1> HIDE DEF q, u
<1>5. TypeOK'
  BY <1>1, <1>4 DEF TypeOK
<1>6. wallet' = wallet /\ request' \in [Request -> RequestType]
  BY <1>5 DEF TypeOK
<1>7. RequestsWellFormed' /\ GrantsComplete'
  <2>1. \A p \in Request : p # r => request'[p] = request[p]
    BY <1>1 DEF TypeOK
  <2>2. request'[r] = q
    BY <1>1 DEF TypeOK
  <2> QED BY <1>0, <1>3, <1>4, <1>6, <2>1, <2>2 DEF RequestsWellFormed, GrantsComplete
<1>8. ListingsWellFormed' /\ OffersWellFormed' /\ ClosedWalletsEmpty' /\ OwnersHaveWallets'
  BY DEF ListingsWellFormed, OffersWellFormed, ClosedWalletsEmpty, OwnersHaveWallets
<1> QED BY <1>5, <1>7, <1>8

-----------------------------------------------------------------------------
(* What the steps do to each collection *)

LEMMA LockingCards ==
    ASSUME card \in [Card -> CardType], NEW cards,
           NEW status \in {"available", "match_locked", "market_escrow", "trade_escrow"},
           NEW ref \in Ref \cup {None},
           card' = Locking(cards, status, ref)
    PROVE  card' \in [Card -> CardType]
BY DEF Locking, CardType

LEMMA FreedCard ==
    ASSUME card \in [Card -> CardType], NEW c \in Card, NEW u \in User \cup {None}
    PROVE  /\ Freed(c, u) \in CardType
           /\ Freed(c, u).owner = u
           /\ Freed(c, u).status = "available"
           /\ Freed(c, u).lock = None
BY DEF Freed, CardType

LEMMA MintedCard ==
    ASSUME NEW u \in User, NEW q \in Question, NEW e \in Nat
    PROVE  /\ NewCard(u, q, e) \in CardType
           /\ NewCard(u, q, e).owner = u
           /\ NewCard(u, q, e).status = "available"
           /\ NewCard(u, q, e).lock = None
BY DEF NewCard, CardType

LEMMA WalletUpdate ==
    ASSUME NEW w \in WalletType, NEW b \in Nat, NEW l \in Nat
    PROVE  /\ [w EXCEPT !.balance = b] \in WalletType
           /\ [w EXCEPT !.balance = b].open = w.open
           /\ [w EXCEPT !.balance = b].balance = b
           /\ [w EXCEPT !.balance = b].locked = w.locked
           /\ [w EXCEPT !.locked = l] \in WalletType
           /\ [w EXCEPT !.locked = l].open = w.open
           /\ [w EXCEPT !.locked = l].balance = w.balance
           /\ [w EXCEPT !.locked = l].locked = l
           /\ [w EXCEPT !.locked = l, !.balance = b] \in WalletType
           /\ [w EXCEPT !.locked = l, !.balance = b].open = w.open
           /\ [w EXCEPT !.locked = l, !.balance = b].balance = b
           /\ [w EXCEPT !.locked = l, !.balance = b].locked = l
BY DEF WalletType

LEMMA DoneRequest ==
    ASSUME request \in [Request -> RequestType], NEW r \in Request, Done(r)
    PROVE  /\ request' \in [Request -> RequestType]
           /\ \A q \in Request : request'[q] = request[q] \/ request'[q] = Idle
BY NewRecords DEF Done

\* Wallets stay open.
WalletsStay == \A u \in User : wallet[u].open => wallet'[u].open

LEMMA RequestsKept ==
    ASSUME WellFormed, WalletsStay,
           \A r \in Request : request'[r] = request[r] \/ request'[r] = Idle
    PROVE  RequestsWellFormed' /\ GrantsComplete'
<1>1. Idle.at = "idle"
  BY DEF Idle
<1> QED BY <1>1 DEF WellFormed, WalletsStay, RequestsWellFormed, GrantsComplete

LEMMA OffersKept ==
    ASSUME WellFormed, WalletsStay,
           \A t \in Trade : trade'[t].status = "pending" =>
              /\ trade[t].status = "pending"
              /\ trade'[t].sender = trade[t].sender
              /\ trade'[t].receiver = trade[t].receiver
    PROVE  OffersWellFormed'
BY DEF WellFormed, WalletsStay, OffersWellFormed

LEMMA OwnersKept ==
    ASSUME WellFormed, WalletsStay,
           \A c \in Card : \/ card'[c].owner = card[c].owner
                           \/ card'[c].owner \in User /\ wallet'[card'[c].owner].open,
           \A c \in Card : card'[c].status = "unminted" => card'[c] = card[c]
    PROVE  OwnersHaveWallets'
BY DEF WellFormed, WalletsStay, OwnersHaveWallets

\* What the grant moves: some unminted cards go to a user whose wallet is open now, and
\* a wallet that was opened by it was empty and has the starter balance.
Grants(r, u) ==
    /\ request[r].user = u
    /\ wallet'[u].open
    /\ \/ wallet' = wallet /\ ledger' = ledger
       \/ /\ ~wallet[u].open /\ wallet[u] = NoWallet
          /\ request[r].missing = StarterOf[u]
          /\ wallet' = [wallet EXCEPT
                ![u] = [open |-> TRUE, balance |-> StarterBalance, locked |-> 0]]
          /\ ledger' = [ledger EXCEPT ![u] = ledger[u] + StarterBalance]
    /\ card' \in [Card -> CardType]
    /\ \A c \in Card : \/ card'[c] = card[c]
                       \/ /\ card[c].status = "unminted"
                          /\ card'[c].owner = u
                          /\ card'[c].status = "available"
                          /\ card'[c].lock = None
    /\ Cardinality(request[r].missing) \in Nat
    /\ granted' = [granted EXCEPT ![u] = granted[u] + Cardinality(request[r].missing)]

LEMMA Grant ==
    ASSUME WellFormed, NEW r \in Request, GrantStarter(r)
    PROVE  \E u \in User : Grants(r, u)
<1> USE DEF WellFormed
<1> DEFINE u == request[r].user
           missing == request[r].missing
<1>1. u \in User /\ missing \in SUBSET Question
  BY DEF TypeOK, RequestsWellFormed, GrantStarter, RequestType
<1>2. /\ \/ wallet' = wallet /\ ledger' = ledger
         \/ /\ ~wallet[u].open /\ wallet[u] = NoWallet
            /\ missing = StarterOf[u]
            /\ wallet' = [wallet EXCEPT
                  ![u] = [open |-> TRUE, balance |-> StarterBalance, locked |-> 0]]
            /\ ledger' = [ledger EXCEPT ![u] = ledger[u] + StarterBalance]
      /\ wallet'[u].open
  <2>1. CASE wallet' = wallet /\ ledger' = ledger /\ request[r].hadWallet
    BY <1>1, <2>1 DEF GrantStarter, GrantsComplete
  <2>2. CASE OpenWallet(u)
    <3>1. ~wallet[u].open /\ wallet[u] = NoWallet /\ missing = StarterOf[u]
      BY <1>1, <2>2 DEF OpenWallet, GrantStarter, GrantsComplete, ClosedWalletsEmpty
    <3>2. wallet' = [wallet EXCEPT
             ![u] = [open |-> TRUE, balance |-> StarterBalance, locked |-> 0]]
      BY <2>2 DEF OpenWallet
    <3>3. wallet'[u].open
      BY <1>1, <3>2 DEF TypeOK
    <3>4. ledger' = [ledger EXCEPT ![u] = ledger[u] + StarterBalance]
      BY <2>2 DEF OpenWallet
    <3> HIDE DEF u, missing
    <3> QED BY <3>1, <3>2, <3>3, <3>4
  <2> QED BY <2>1, <2>2 DEF GrantStarter
<1> HIDE DEF u, missing
<1>3. PICK new \in [missing -> {c \in Card : card[c].status = "unminted"}] :
         /\ \A p, q \in missing : new[p] = new[q] => p = q
         /\ card' = [c \in Card |->
               IF \E q \in missing : new[q] = c
                 THEN NewCard(u, CHOOSE q \in missing : new[q] = c, 1)
                 ELSE card[c]]
  BY DEF GrantStarter, u, missing
<1>4. ASSUME NEW c \in Card
      PROVE  /\ card'[c] \in CardType
             /\ \/ card'[c] = card[c]
                \/ /\ card[c].status = "unminted"
                   /\ card'[c].owner = u
                   /\ card'[c].status = "available"
                   /\ card'[c].lock = None
  <2>1. CASE \E q \in missing : new[q] = c
    <3> DEFINE q == CHOOSE q \in missing : new[q] = c
    <3>1. q \in missing /\ new[q] = c
      BY <2>1
    <3> HIDE DEF q
    <3>2. card'[c] = NewCard(u, q, 1)
      BY <1>3, <2>1 DEF q
    <3> QED BY <1>1, <3>1, <3>2, MintedCard
  <2>2. CASE ~ \E q \in missing : new[q] = c
    BY <1>3, <2>2 DEF TypeOK
  <2> QED BY <2>1, <2>2
<1>5. card' \in [Card -> CardType]
  BY <1>3, <1>4
<1>6. Cardinality(missing) \in Nat
  <2>1. new \in Injection(missing, Card)
    BY <1>3 DEF Injection, IsInjective
  <2>2. IsFiniteSet(missing)
    BY <2>1, ConstantFacts, FS_Injection
  <2> QED BY <2>2, FS_CardinalityType
<1>7. granted' = [granted EXCEPT ![u] = granted[u] + Cardinality(missing)]
  BY DEF GrantStarter, u, missing
<1> HIDE DEF WellFormed
<1> QED BY <1>1, <1>2, <1>4, <1>5, <1>6, <1>7 DEF u, missing, Grants

LEMMA GrantStarterWF ==
    ASSUME WellFormed, NEW r \in Request, GrantStarter(r)
    PROVE  WellFormed'
<1> USE DEF WellFormed, Grants
<1>1. PICK u \in User : Grants(r, u)
  BY Grant
<1>2. /\ wallet' \in [User -> WalletType]
      /\ ledger' \in [User -> Int]
      /\ WalletsStay
      /\ \A v \in User : wallet'[v] = wallet[v] \/ wallet'[v].open
  <2>1. CASE wallet' = wallet /\ ledger' = ledger
    BY <2>1 DEF TypeOK, WalletsStay
  <2>2. CASE /\ wallet' = [wallet EXCEPT
                  ![u] = [open |-> TRUE, balance |-> StarterBalance, locked |-> 0]]
             /\ ledger' = [ledger EXCEPT ![u] = ledger[u] + StarterBalance]
    <3> DEFINE w == [open |-> TRUE, balance |-> StarterBalance, locked |-> 0]
    <3>1. w \in WalletType /\ w.open
      BY ConstantFacts DEF WalletType
    <3>2. wallet' = [wallet EXCEPT ![u] = w]
      BY <2>2
    <3>3. ledger' \in [User -> Int]
      BY <2>2, ConstantFacts DEF TypeOK
    <3> HIDE DEF w
    <3> QED BY <3>1, <3>2, <3>3 DEF TypeOK, WalletsStay
  <2> QED BY <1>1, <2>1, <2>2
<1>3. TypeOK'
  <2>1. granted' \in [User -> Nat]
    BY <1>1 DEF TypeOK
  <2>2. request' \in [Request -> RequestType]
    BY DoneRequest DEF GrantStarter, TypeOK
  <2> QED BY <1>1, <1>2, <2>1, <2>2 DEF TypeOK, GrantStarter
<1>4. RequestsWellFormed' /\ GrantsComplete'
  <2>1. \A q \in Request : request'[q] = request[q] \/ request'[q] = Idle
    BY DoneRequest DEF GrantStarter, TypeOK
  <2> QED BY <1>2, <2>1, RequestsKept
<1>5. OffersWellFormed' /\ ListingsWellFormed'
  BY <1>2, OffersKept DEF GrantStarter, ListingsWellFormed
<1>6. ClosedWalletsEmpty'
  BY <1>2 DEF ClosedWalletsEmpty
<1>7. OwnersHaveWallets'
  BY <1>1, <1>2, OwnersKept
<1> QED BY <1>3, <1>4, <1>5, <1>6, <1>7

LEMMA CreateListingWF ==
    ASSUME WellFormed, NEW l \in Listing, NEW u \in User, NEW c \in Card, NEW p \in Price,
           CreateListing(l, u, c, p)
    PROVE  WellFormed'
<1> USE DEF WellFormed
<1> DEFINE n == [NoListing EXCEPT !.status = "active", !.card = c, !.seller = u, !.price = p]
<1>1. /\ n \in ListingType /\ n.card = c /\ n.seller = u /\ n.price = p /\ p >= 10
      /\ listing' = [listing EXCEPT ![l] = n]
  BY ConstantFacts DEF NoListing, ListingType, CreateListing
<1> HIDE DEF n
<1>2. /\ card' \in [Card -> CardType]
      /\ \A d \in Card : card'[d].owner = card[d].owner
      /\ \A d \in Card : d # c => card'[d] = card[d]
      /\ card'[c].status = "market_escrow"
  <2>1. card' = Locking({c}, "market_escrow", l) /\ l \in Ref \cup {None}
    BY DEF CreateListing, Ref
  <2>2. card \in [Card -> CardType]
    BY DEF TypeOK
  <2>3. card' \in [Card -> CardType]
    BY <2>1, <2>2, LockingCards
  <2>4. \A d \in Card : /\ card'[d].owner = card[d].owner
                        /\ d # c => card'[d] = card[d]
                        /\ d = c => card'[d].status = "market_escrow"
    BY <2>1, <2>2 DEF Locking, CardType
  <2> QED BY <2>3, <2>4
<1>3. TypeOK'
  BY <1>1, <1>2 DEF TypeOK, CreateListing, history
<1>4. ListingsWellFormed'
  BY <1>1 DEF ListingsWellFormed, TypeOK
<1>5. WalletsStay
  BY DEF WalletsStay, CreateListing
<1>6. RequestsWellFormed' /\ GrantsComplete'
  BY <1>5, RequestsKept DEF CreateListing
<1>7. OffersWellFormed'
  BY <1>5, OffersKept DEF CreateListing
<1>8. ClosedWalletsEmpty'
  BY DEF ClosedWalletsEmpty, CreateListing
<1>9. OwnersHaveWallets'
  BY <1>2, <1>5, OwnersKept
<1> QED BY <1>3, <1>4, <1>6, <1>7, <1>8, <1>9

LEMMA AskToBuyWF ==
    ASSUME WellFormed, NEW r \in Request, NEW u \in User, NEW l \in Listing, AskToBuy(r, u, l)
    PROVE  WellFormed'
<1> USE DEF WellFormed, AskToBuy, history
<1> DEFINE q == [Idle EXCEPT !.at = "buying", !.user = u, !.ref = l]
<1>1. q \in RequestType /\ q.at = "buying" /\ q.user = u /\ q.ref = l
  BY DEF Idle, RequestType, Ref
<1> HIDE DEF q
<1>2. request' = [request EXCEPT ![r] = q]
  BY DEF q
<1>3. TypeOK'
  BY <1>1, <1>2 DEF TypeOK
<1>4. RequestsWellFormed' /\ GrantsComplete'
  BY <1>1, <1>2 DEF TypeOK, RequestsWellFormed, GrantsComplete
<1>5. ListingsWellFormed' /\ OffersWellFormed' /\ ClosedWalletsEmpty' /\ OwnersHaveWallets'
  BY DEF ListingsWellFormed, OffersWellFormed, ClosedWalletsEmpty, OwnersHaveWallets
<1> QED BY <1>3, <1>4, <1>5

LEMMA AskToAcceptWF ==
    ASSUME WellFormed, NEW r \in Request, NEW u \in User, NEW t \in Trade,
           AskToAccept(r, u, t)
    PROVE  WellFormed'
<1> USE DEF WellFormed, AskToAccept, history
<1> DEFINE q == [Idle EXCEPT !.at = "accepting", !.user = u, !.ref = t]
<1>1. q \in RequestType /\ q.at = "accepting" /\ q.user = u /\ q.ref = t
  BY DEF Idle, RequestType, Ref
<1> HIDE DEF q
<1>2. request' = [request EXCEPT ![r] = q]
  BY DEF q
<1>3. TypeOK'
  BY <1>1, <1>2 DEF TypeOK
<1>4. RequestsWellFormed' /\ GrantsComplete'
  BY <1>1, <1>2 DEF TypeOK, RequestsWellFormed, GrantsComplete
<1>5. ListingsWellFormed' /\ OffersWellFormed' /\ ClosedWalletsEmpty' /\ OwnersHaveWallets'
  BY DEF ListingsWellFormed, OffersWellFormed, ClosedWalletsEmpty, OwnersHaveWallets
<1> QED BY <1>3, <1>4, <1>5

\* What a purchase moves, in one place for the proofs of every invariant.
Buys(r, l, buyer, seller, price, share, fee) ==
    /\ buyer # seller /\ share + fee = price
    /\ listing[l].status = "active" /\ listing[l].seller = seller
    /\ request[r].user = buyer
    /\ listing[l].card \in Card
    /\ Held(listing[l].card, seller, "market_escrow", l)
    /\ wallet[buyer].open /\ wallet[seller].open
    /\ wallet[buyer].balance - wallet[buyer].locked >= price
    /\ wallet' = [wallet EXCEPT
          ![buyer] = [wallet[buyer] EXCEPT !.balance = wallet[buyer].balance - price],
          ![seller] = [wallet[seller] EXCEPT !.balance = wallet[seller].balance + share]]
    /\ ledger' = [ledger EXCEPT ![buyer] = ledger[buyer] - price,
                                ![seller] = ledger[seller] + share]
    /\ sink' = sink + fee
    /\ card' = [card EXCEPT ![listing[l].card] = Freed(listing[l].card, buyer)]
    /\ listing' = [listing EXCEPT ![l] = EndedListing("sold")]

LEMMA Purchase ==
    ASSUME WellFormed, NEW r \in Request, BuyListing(r)
    PROVE  \E l \in Listing, buyer, seller \in User, price, share, fee \in Nat :
              Buys(r, l, buyer, seller, price, share, fee)
<1> DEFINE l == request[r].ref
           buyer == request[r].user
           seller == listing[l].seller
           price == listing[l].price
           share == SellerShare(price)
           fee == MarketFee(price)
<1> USE DEF WellFormed, BuyListing, EscrowedListing
<1>1. l \in Listing /\ buyer \in User /\ wallet[buyer].open
  BY DEF RequestsWellFormed
<1>2. listing[l].status = "active" /\ seller \in User /\ listing[l].card \in Card
  BY <1>1 DEF ListingsWellFormed
<1>3. price \in Nat /\ price >= 10
  BY <1>1, <1>2 DEF ListingsWellFormed, TypeOK, ListingType
<1>4. share \in Nat /\ fee \in Nat /\ share + fee = price
  BY <1>3, Fee
<1>5. Held(listing[l].card, seller, "market_escrow", l)
  OBVIOUS
<1>6. wallet[seller].open
  BY <1>2, <1>5, ConstantFacts DEF Held, OwnersHaveWallets
<1>7. buyer # seller /\ wallet[buyer].balance - wallet[buyer].locked >= price
  BY DEF CanPay
<1>8. wallet' = [wallet EXCEPT
         ![buyer] = [wallet[buyer] EXCEPT !.balance = wallet[buyer].balance - price],
         ![seller] = [wallet[seller] EXCEPT !.balance = wallet[seller].balance + share]]
  BY <1>7
<1>9. ledger' = [ledger EXCEPT ![buyer] = ledger[buyer] - price,
                               ![seller] = ledger[seller] + share]
  BY <1>7
<1>10. /\ sink' = sink + fee
       /\ card' = [card EXCEPT ![listing[l].card] = Freed(listing[l].card, buyer)]
       /\ listing' = [listing EXCEPT ![l] = EndedListing("sold")]
  OBVIOUS
<1> HIDE DEF l, buyer, seller, price, share, fee, WellFormed, BuyListing, EscrowedListing
<1> QED BY <1>1, <1>2, <1>3, <1>4, <1>5, <1>6, <1>7, <1>8, <1>9, <1>10 DEF buyer, seller, Buys

LEMMA BuyListingWF ==
    ASSUME WellFormed, NEW r \in Request, BuyListing(r)
    PROVE  WellFormed'
<1>1. PICK l \in Listing, buyer, seller \in User, price, share, fee \in Nat :
              Buys(r, l, buyer, seller, price, share, fee)
  BY Purchase
<1> USE DEF WellFormed, Buys
<1> DEFINE b == wallet[buyer].balance - price
           s == wallet[seller].balance + share
           c == listing[l].card
<1>2. TypeOK
  OBVIOUS
<1>3. wallet[buyer] \in WalletType /\ wallet[seller] \in WalletType
  BY <1>2 DEF TypeOK
<1>4. b \in Nat /\ s \in Nat
  BY <1>1, <1>3 DEF WalletType
<1>5. /\ wallet' \in [User -> WalletType]
      /\ \A u \in User : wallet'[u].open = wallet[u].open
      /\ \A u \in User : u # buyer /\ u # seller => wallet'[u] = wallet[u]
  <2> HIDE DEF b, s, WellFormed
  <2>1. /\ [wallet[buyer] EXCEPT !.balance = b] \in WalletType
        /\ [wallet[buyer] EXCEPT !.balance = b].open = wallet[buyer].open
        /\ [wallet[seller] EXCEPT !.balance = s] \in WalletType
        /\ [wallet[seller] EXCEPT !.balance = s].open = wallet[seller].open
    BY <1>3, <1>4, WalletUpdate
  <2>2. wallet' = [wallet EXCEPT ![buyer] = [wallet[buyer] EXCEPT !.balance = b],
                                 ![seller] = [wallet[seller] EXCEPT !.balance = s]]
    BY <1>1 DEF b, s
  <2> QED BY <1>2, <2>1, <2>2 DEF TypeOK
<1> HIDE DEF b, s
<1>6. /\ Freed(c, buyer) \in CardType /\ Freed(c, buyer).owner = buyer
      /\ Freed(c, buyer).status = "available"
  BY <1>1, <1>2, FreedCard DEF TypeOK
<1>7. TypeOK'
  <2>1. card' \in [Card -> CardType] /\ listing' \in [Listing -> ListingType]
    BY <1>1, <1>2, <1>6, NewRecords DEF TypeOK
  <2>2. ledger' \in [User -> Int] /\ sink' \in Nat
    BY <1>1, <1>2 DEF TypeOK
  <2>3. request' \in [Request -> RequestType]
    BY <1>2, DoneRequest DEF BuyListing, TypeOK
  <2> QED BY <1>2, <1>5, <2>1, <2>2, <2>3 DEF TypeOK, BuyListing
<1>8. WalletsStay
  BY <1>5 DEF WalletsStay
<1>9. RequestsWellFormed' /\ GrantsComplete'
  <2>1. \A q \in Request : request'[q] = request[q] \/ request'[q] = Idle
    BY <1>2, DoneRequest DEF BuyListing, TypeOK
  <2> QED BY <1>8, <2>1, RequestsKept
<1>10. OffersWellFormed'
  BY <1>8, OffersKept DEF BuyListing
<1>11. ListingsWellFormed'
  <2>1. EndedListing("sold").status # "active"
    BY DEF EndedListing, NoListing
  <2> QED BY <1>1, <1>2, <2>1 DEF TypeOK, ListingsWellFormed
<1>12. ClosedWalletsEmpty'
  BY <1>1, <1>5 DEF ClosedWalletsEmpty
<1>13. OwnersHaveWallets'
  BY <1>1, <1>2, <1>5, <1>6, <1>8, OwnersKept DEF TypeOK
<1> QED BY <1>7, <1>9, <1>10, <1>11, <1>12, <1>13

LEMMA EndListingWF ==
    ASSUME WellFormed, NEW l \in Listing, NEW status \in {"cancelled", "expired"},
           EndListing(l, status)
    PROVE  WellFormed'
<1> USE DEF WellFormed
<1>1. card \in [Card -> CardType] /\ card' = Locking({listing[l].card}, "available", None)
  BY DEF EndListing, Releasing, TypeOK
<1>2. card' \in [Card -> CardType]
  BY <1>1, LockingCards
<1>3. \A d \in Card : /\ card'[d].owner = card[d].owner
                      /\ card'[d].status = "unminted" => card'[d] = card[d]
  BY <1>1 DEF Locking, CardType
<1>4. EndedListing(status) \in ListingType /\ EndedListing(status).status # "active"
  BY NewRecords DEF EndedListing, NoListing
<1>5. TypeOK'
  BY <1>2, <1>4 DEF TypeOK, EndListing, history
<1>6. WalletsStay
  BY DEF WalletsStay, EndListing
<1>7. RequestsWellFormed' /\ GrantsComplete'
  BY <1>6, RequestsKept DEF EndListing
<1>8. OffersWellFormed'
  BY <1>6, OffersKept DEF EndListing
<1>9. ListingsWellFormed'
  BY <1>4 DEF ListingsWellFormed, EndListing, TypeOK
<1>10. ClosedWalletsEmpty'
  BY DEF ClosedWalletsEmpty, EndListing
<1>11. OwnersHaveWallets'
  BY <1>3, <1>6, OwnersKept
<1> QED BY <1>5, <1>7, <1>8, <1>9, <1>10, <1>11

LEMMA CreateTradeWF ==
    ASSUME WellFormed, NEW t \in Trade, NEW u \in User, NEW v \in User,
           NEW offered \in SUBSET Card, NEW requested \in SUBSET Card,
           NEW n \in Coins, NEW m \in Coins,
           CreateTrade(t, u, v, offered, requested, n, m)
    PROVE  WellFormed'
<1> USE DEF WellFormed
<1> DEFINE o == [status |-> "pending", sender |-> u, receiver |-> v, offered |-> offered,
                 requested |-> requested, offeredCoins |-> n, requestedCoins |-> m,
                 elapsed |-> FALSE]
           k == wallet[u].locked + n
           w == [wallet[u] EXCEPT !.locked = k]
<1>1. n \in Nat /\ m \in Nat /\ wallet[u] \in WalletType
  BY ConstantFacts DEF TypeOK
<1>2. w \in WalletType /\ w.open = wallet[u].open
  <2>1. k \in Nat
    BY <1>1 DEF WalletType
  <2> HIDE DEF k
  <2> QED BY <1>1, <2>1, WalletUpdate
<1>3. wallet' = [wallet EXCEPT ![u] = w]
  BY DEF CreateTrade
<1>4. o \in TradeType /\ o.sender = u /\ o.receiver = v /\ u # v /\ wallet[u].open
  BY <1>1 DEF TradeType, CreateTrade
<1>5. trade' = [trade EXCEPT ![t] = o]
  BY DEF CreateTrade
<1> HIDE DEF o, w
<1>6. card \in [Card -> CardType] /\ card' = Locking(offered, "trade_escrow", t) /\ t \in Ref
  BY DEF CreateTrade, TypeOK, Ref
<1>7. card' \in [Card -> CardType]
  BY <1>6, LockingCards
<1>8. \A d \in Card : /\ card'[d].owner = card[d].owner
                      /\ card'[d].status = "unminted" => card'[d] = card[d]
  BY <1>6 DEF Locking, CardType
<1>9. TypeOK'
  <2>1. wallet' \in [User -> WalletType]
    BY <1>2, <1>3 DEF TypeOK
  <2>2. trade' \in [Trade -> TradeType]
    BY <1>4, <1>5 DEF TypeOK
  <2>3. UNCHANGED <<listing, ledger, request, granted, sink, rewarded>>
    BY DEF CreateTrade, history
  <2> QED BY <1>7, <2>1, <2>2, <2>3 DEF TypeOK
<1>10. WalletsStay /\ \A x \in User : wallet'[x] = wallet[x] \/ wallet'[x].open
  BY <1>2, <1>3, <1>4 DEF WalletsStay, TypeOK
<1>11. RequestsWellFormed' /\ GrantsComplete'
  BY <1>10, RequestsKept DEF CreateTrade
<1>12. OffersWellFormed'
  BY <1>4, <1>5, <1>10 DEF TypeOK, WalletsStay, OffersWellFormed
<1>13. ListingsWellFormed'
  BY DEF ListingsWellFormed, CreateTrade
<1>14. ClosedWalletsEmpty'
  BY <1>10 DEF ClosedWalletsEmpty
<1>15. OwnersHaveWallets'
  BY <1>8, <1>10, OwnersKept
<1> QED BY <1>9, <1>11, <1>12, <1>13, <1>14, <1>15

\* What an acceptance moves.
Accepts(t, sender, receiver, n, m) ==
    /\ sender # receiver
    /\ trade[t].status = "pending"
    /\ trade[t].sender = sender /\ trade[t].receiver = receiver
    /\ trade[t].offeredCoins = n /\ trade[t].requestedCoins = m
    /\ OfferedEscrowed(t) /\ RequestedFree(t)
    /\ wallet[sender].open /\ wallet[receiver].open
    /\ wallet[sender].locked >= n /\ wallet[sender].balance >= n
    /\ wallet[receiver].balance - wallet[receiver].locked >= m
    /\ wallet' = [wallet EXCEPT
          ![sender] = [wallet[sender] EXCEPT
                         !.locked = wallet[sender].locked - n,
                         !.balance = wallet[sender].balance + (m - n)],
          ![receiver] = [wallet[receiver] EXCEPT
                           !.balance = wallet[receiver].balance - (m - n)]]
    /\ ledger' = [ledger EXCEPT ![sender] = ledger[sender] + (m - n),
                                ![receiver] = ledger[receiver] - (m - n)]
    /\ card' = [c \in Card |-> IF c \in trade[t].offered THEN Freed(c, receiver)
                               ELSE IF c \in trade[t].requested THEN Freed(c, sender)
                               ELSE card[c]]
    /\ trade' = [trade EXCEPT ![t] = EndedTrade("accepted")]

LEMMA Acceptance ==
    ASSUME WellFormed, NEW r \in Request, AcceptTrade(r)
    PROVE  \E t \in Trade, sender, receiver \in User, n, m \in Nat :
              Accepts(t, sender, receiver, n, m)
<1> DEFINE t == request[r].ref
           sender == trade[t].sender
           receiver == trade[t].receiver
           n == trade[t].offeredCoins
           m == trade[t].requestedCoins
<1> USE DEF WellFormed, AcceptTrade
<1>1. t \in Trade /\ wallet[receiver].open
  BY DEF RequestsWellFormed
<1>2. /\ trade[t].status = "pending" /\ sender \in User /\ receiver \in User
      /\ sender # receiver /\ wallet[sender].open
  BY <1>1 DEF OffersWellFormed
<1>3. n \in Nat /\ m \in Nat
  BY <1>1 DEF TypeOK, TradeType
<1>4. /\ wallet[sender].locked >= n /\ wallet[sender].balance >= n
      /\ OfferedEscrowed(t) /\ RequestedFree(t)
  OBVIOUS
<1>5. wallet[receiver].balance - wallet[receiver].locked >= m
  BY DEF CanPay
<1>6. wallet' = [wallet EXCEPT
         ![sender] = [wallet[sender] EXCEPT
                        !.locked = wallet[sender].locked - n,
                        !.balance = wallet[sender].balance + (m - n)],
         ![receiver] = [wallet[receiver] EXCEPT
                          !.balance = wallet[receiver].balance - (m - n)]]
  <2>1. wallet' = [wallet EXCEPT ![sender].locked = @ - n, ![sender].balance = @ + (m - n),
                                 ![receiver].balance = @ - (m - n)]
    OBVIOUS
  <2>2. wallet[sender] \in WalletType /\ wallet \in [User -> WalletType]
    BY <1>2 DEF TypeOK
  <2> HIDE DEF n, m, sender, receiver, t, AcceptTrade
  <2> QED BY <1>2, <2>1, <2>2 DEF WalletType
<1>7. ledger' = [ledger EXCEPT ![sender] = ledger[sender] + (m - n),
                               ![receiver] = ledger[receiver] - (m - n)]
  BY <1>2
<1>8. /\ card' = [c \in Card |-> IF c \in trade[t].offered THEN Freed(c, receiver)
                                 ELSE IF c \in trade[t].requested THEN Freed(c, sender)
                                 ELSE card[c]]
      /\ trade' = [trade EXCEPT ![t] = EndedTrade("accepted")]
  OBVIOUS
<1> HIDE DEF t, WellFormed, AcceptTrade
<1> QED BY <1>1, <1>2, <1>3, <1>4, <1>5, <1>6, <1>7, <1>8 DEF Accepts

LEMMA AcceptTradeWF ==
    ASSUME WellFormed, NEW r \in Request, AcceptTrade(r)
    PROVE  WellFormed'
<1>1. PICK t \in Trade, sender, receiver \in User, n, m \in Nat :
              Accepts(t, sender, receiver, n, m)
  BY Acceptance
<1> USE DEF WellFormed, Accepts
<1> DEFINE k == wallet[sender].locked - n
           s == wallet[sender].balance + (m - n)
           b == wallet[receiver].balance - (m - n)
<1>2. TypeOK
  OBVIOUS
<1>3. wallet[sender] \in WalletType /\ wallet[receiver] \in WalletType
  BY <1>2 DEF TypeOK
<1>4. k \in Nat /\ s \in Nat /\ b \in Nat
  BY <1>1, <1>3 DEF WalletType
<1>5. /\ wallet' \in [User -> WalletType]
      /\ \A u \in User : wallet'[u].open = wallet[u].open
      /\ \A u \in User : u # sender /\ u # receiver => wallet'[u] = wallet[u]
  <2> HIDE DEF k, s, b, WellFormed
  <2>1. /\ [wallet[sender] EXCEPT !.locked = k, !.balance = s] \in WalletType
        /\ [wallet[sender] EXCEPT !.locked = k, !.balance = s].open = wallet[sender].open
    BY <1>3, <1>4 DEF WalletType
  <2>2. /\ [wallet[receiver] EXCEPT !.balance = b] \in WalletType
        /\ [wallet[receiver] EXCEPT !.balance = b].open = wallet[receiver].open
    BY <1>3, <1>4 DEF WalletType
  <2>3. wallet' = [wallet EXCEPT ![sender] = [wallet[sender] EXCEPT !.locked = k, !.balance = s],
                                 ![receiver] = [wallet[receiver] EXCEPT !.balance = b]]
    BY <1>1 DEF k, s, b
  <2> QED BY <1>2, <2>1, <2>2, <2>3 DEF TypeOK
<1> HIDE DEF k, s, b
<1>6. ASSUME NEW c \in Card
      PROVE  /\ card'[c] \in CardType
             /\ \/ card'[c] = card[c]
                \/ /\ card'[c].owner \in {sender, receiver}
                   /\ card'[c].status = "available"
  <2>1. CASE card'[c] = Freed(c, receiver)
    BY <1>2, <2>1, FreedCard DEF TypeOK
  <2>2. CASE card'[c] = Freed(c, sender)
    BY <1>2, <2>2, FreedCard DEF TypeOK
  <2>3. CASE card'[c] = card[c]
    BY <1>2, <2>3 DEF TypeOK
  <2> QED BY <1>1, <2>1, <2>2, <2>3
<1>7. TypeOK'
  <2>1. card' \in [Card -> CardType]
    BY <1>1, <1>6
  <2>2. trade' \in [Trade -> TradeType]
    BY <1>1, <1>2, NewRecords DEF TypeOK
  <2>3. ledger' \in [User -> Int]
    BY <1>1, <1>2 DEF TypeOK
  <2>4. request' \in [Request -> RequestType]
    BY <1>2, DoneRequest DEF AcceptTrade, TypeOK
  <2> QED BY <1>2, <1>5, <2>1, <2>2, <2>3, <2>4 DEF TypeOK, AcceptTrade, history
<1>8. WalletsStay
  BY <1>5 DEF WalletsStay
<1>9. RequestsWellFormed' /\ GrantsComplete'
  <2>1. \A q \in Request : request'[q] = request[q] \/ request'[q] = Idle
    BY <1>2, DoneRequest DEF AcceptTrade, TypeOK
  <2> QED BY <1>8, <2>1, RequestsKept
<1>10. OffersWellFormed'
  <2>1. EndedTrade("accepted").status # "pending"
    BY DEF EndedTrade, NoTrade
  <2> QED BY <1>1, <1>2, <1>8, <2>1, OffersKept DEF TypeOK
<1>11. ListingsWellFormed'
  BY DEF AcceptTrade, ListingsWellFormed
<1>12. ClosedWalletsEmpty'
  BY <1>1, <1>5 DEF ClosedWalletsEmpty
<1>13. OwnersHaveWallets'
  BY <1>1, <1>5, <1>6, <1>8, OwnersKept
<1> QED BY <1>7, <1>9, <1>10, <1>11, <1>12, <1>13

\* What the end of an offer that is not accepted moves.
EndsOffer(t, status, sender, n) ==
    /\ trade[t].status = "pending"
    /\ trade[t].sender = sender /\ trade[t].offeredCoins = n
    /\ wallet[sender].open
    /\ wallet[sender].locked >= n
    /\ wallet' = [wallet EXCEPT
          ![sender] = [wallet[sender] EXCEPT !.locked = wallet[sender].locked - n]]
    /\ trade' = [trade EXCEPT ![t] = EndedTrade(status)]

LEMMA OfferEnd ==
    ASSUME WellFormed, NEW t \in Trade, NEW status, EndTrade(t, status)
    PROVE  \E sender \in User, n \in Nat : EndsOffer(t, status, sender, n)
<1> DEFINE sender == trade[t].sender
           n == trade[t].offeredCoins
<1>1. trade[t].status = "pending" /\ sender \in User /\ wallet[sender].open
  BY DEF WellFormed, OffersWellFormed, EndTrade
<1>2. n \in Nat
  BY DEF WellFormed, TypeOK, TradeType
<1>3. wallet[sender].locked >= n
  BY DEF EndTrade
<1>4. /\ wallet' = [wallet EXCEPT
            ![sender] = [wallet[sender] EXCEPT !.locked = wallet[sender].locked - n]]
      /\ trade' = [trade EXCEPT ![t] = EndedTrade(status)]
  BY DEF EndTrade
<1> HIDE DEF n
<1> QED BY <1>1, <1>2, <1>3, <1>4 DEF n, EndsOffer

LEMMA EndTradeWF ==
    ASSUME WellFormed, NEW t \in Trade, NEW status \in {"rejected", "cancelled", "expired"},
           EndTrade(t, status)
    PROVE  WellFormed'
<1>1. PICK sender \in User, n \in Nat : EndsOffer(t, status, sender, n)
  BY OfferEnd
<1> USE DEF WellFormed, EndsOffer
<1> DEFINE k == wallet[sender].locked - n
           w == [wallet[sender] EXCEPT !.locked = k]
<1>2. wallet[sender] \in WalletType
  BY DEF TypeOK
<1>3. k \in Nat
  BY <1>1, <1>2 DEF WalletType
<1>4. w \in WalletType /\ w.open = wallet[sender].open
  <2> HIDE DEF k
  <2> QED BY <1>2, <1>3, WalletUpdate
<1>5. wallet' = [wallet EXCEPT ![sender] = w]
  BY <1>1
<1> HIDE DEF w
<1>6. card \in [Card -> CardType] /\ card' = Locking(trade[t].offered, "available", None)
  BY DEF EndTrade, Releasing, TypeOK
<1>7. card' \in [Card -> CardType]
  BY <1>6, LockingCards
<1>8. \A d \in Card : /\ card'[d].owner = card[d].owner
                      /\ card'[d].status = "unminted" => card'[d] = card[d]
  BY <1>6 DEF Locking, CardType
<1>9. EndedTrade(status) \in TradeType /\ EndedTrade(status).status # "pending"
  BY NewRecords DEF EndedTrade, NoTrade
<1>10. TypeOK'
  <2>1. wallet' \in [User -> WalletType]
    BY <1>4, <1>5 DEF TypeOK
  <2>2. trade' \in [Trade -> TradeType]
    BY <1>1, <1>9 DEF TypeOK
  <2>3. UNCHANGED <<listing, ledger, request, granted, sink, rewarded>>
    BY DEF EndTrade, history
  <2> QED BY <1>7, <2>1, <2>2, <2>3 DEF TypeOK
<1>11. WalletsStay /\ \A x \in User : wallet'[x] = wallet[x] \/ wallet'[x].open
  BY <1>1, <1>4, <1>5 DEF WalletsStay, TypeOK
<1>12. RequestsWellFormed' /\ GrantsComplete'
  BY <1>11, RequestsKept DEF EndTrade
<1>13. OffersWellFormed'
  BY <1>1, <1>9, <1>11, OffersKept DEF TypeOK
<1>14. ListingsWellFormed'
  BY DEF ListingsWellFormed, EndTrade
<1>15. ClosedWalletsEmpty'
  BY <1>11 DEF ClosedWalletsEmpty
<1>16. OwnersHaveWallets'
  BY <1>8, <1>11, OwnersKept
<1> QED BY <1>10, <1>12, <1>13, <1>14, <1>15, <1>16

LEMMA FailWF ==
    ASSUME WellFormed, NEW r \in Request, Fail(r)
    PROVE  WellFormed'
<1> USE DEF WellFormed, Fail, history
<1>1. /\ request' \in [Request -> RequestType]
      /\ \A q \in Request : request'[q] = request[q] \/ request'[q] = Idle
  BY DoneRequest DEF TypeOK
<1>2. TypeOK'
  BY <1>1 DEF TypeOK
<1>3. WalletsStay
  BY DEF WalletsStay
<1>4. RequestsWellFormed' /\ GrantsComplete'
  BY <1>1, <1>3, RequestsKept
<1>5. ListingsWellFormed' /\ OffersWellFormed' /\ ClosedWalletsEmpty' /\ OwnersHaveWallets'
  BY DEF ListingsWellFormed, OffersWellFormed, ClosedWalletsEmpty, OwnersHaveWallets
<1> QED BY <1>2, <1>4, <1>5

LEMMA ElapseWF ==
    ASSUME WellFormed, Elapse
    PROVE  WellFormed'
<1> USE DEF WellFormed
<1>1. UNCHANGED <<wallet, card, ledger, request, granted, sink, rewarded>>
  BY DEF Elapse, history
<1>2. WalletsStay
  BY <1>1 DEF WalletsStay
<1>3. RequestsWellFormed' /\ GrantsComplete'
  BY <1>1, <1>2, RequestsKept
<1>4. ClosedWalletsEmpty' /\ OwnersHaveWallets'
  BY <1>1 DEF ClosedWalletsEmpty, OwnersHaveWallets
<1>5. CASE \E l \in Listing : listing' = [listing EXCEPT ![l].elapsed = TRUE] /\ UNCHANGED trade
  <2>1. PICK l \in Listing : listing' = [listing EXCEPT ![l].elapsed = TRUE] /\ UNCHANGED trade
    BY <1>5
  <2>2. /\ listing \in [Listing -> ListingType]
        /\ [listing[l] EXCEPT !.elapsed = TRUE] \in ListingType
    BY DEF TypeOK, ListingType
  <2>3. listing' \in [Listing -> ListingType]
    BY ONLY <2>1, <2>2
  <2>4. ListingsWellFormed'
    BY <2>1 DEF TypeOK, ListingType, ListingsWellFormed
  <2>5. OffersWellFormed'
    BY <1>2, <2>1, OffersKept
  <2> QED BY <1>1, <1>3, <1>4, <2>1, <2>3, <2>4, <2>5 DEF TypeOK
<1>6. CASE \E t \in Trade : trade' = [trade EXCEPT ![t].elapsed = TRUE] /\ UNCHANGED listing
  <2>1. PICK t \in Trade : trade' = [trade EXCEPT ![t].elapsed = TRUE] /\ UNCHANGED listing
    BY <1>6
  <2>2. /\ trade \in [Trade -> TradeType]
        /\ [trade[t] EXCEPT !.elapsed = TRUE] \in TradeType
    BY DEF TypeOK, TradeType
  <2>3. trade' \in [Trade -> TradeType]
    BY ONLY <2>1, <2>2
  <2>4. \A o \in Trade : /\ trade'[o].status = trade[o].status
                         /\ trade'[o].sender = trade[o].sender
                         /\ trade'[o].receiver = trade[o].receiver
    BY <2>1 DEF TypeOK, TradeType
  <2>5. OffersWellFormed'
    BY <1>2, <2>4, OffersKept
  <2>6. ListingsWellFormed'
    BY <2>1 DEF ListingsWellFormed
  <2> QED BY <1>1, <1>3, <1>4, <2>1, <2>3, <2>5, <2>6 DEF TypeOK
<1> QED BY <1>5, <1>6 DEF Elapse

LEMMA LockForMatchWF ==
    ASSUME WellFormed, NEW u \in User, NEW c \in Card, LockForMatch(u, c)
    PROVE  WellFormed'
<1> USE DEF WellFormed, history
<1>1. /\ card \in [Card -> CardType] /\ MatchRef \in Ref
      /\ card' = Locking({c}, "match_locked", MatchRef)
  BY DEF LockForMatch, TypeOK, Ref
<1>2. card' \in [Card -> CardType]
  BY <1>1, LockingCards
<1>3. \A d \in Card : /\ card'[d].owner = card[d].owner
                      /\ card'[d].status = "unminted" => card'[d] = card[d]
  BY <1>1 DEF Locking, CardType
<1>4. UNCHANGED <<wallet, listing, trade, ledger, request, granted, sink, rewarded>>
  BY DEF LockForMatch
<1>5. TypeOK'
  BY <1>2, <1>4 DEF TypeOK
<1>6. WalletsStay
  BY <1>4 DEF WalletsStay
<1>7. RequestsWellFormed' /\ GrantsComplete' /\ OffersWellFormed'
  BY <1>4, <1>6, RequestsKept, OffersKept
<1>8. ListingsWellFormed' /\ ClosedWalletsEmpty'
  BY <1>4 DEF ListingsWellFormed, ClosedWalletsEmpty
<1>9. OwnersHaveWallets'
  BY <1>3, <1>6, OwnersKept
<1> QED BY <1>5, <1>7, <1>8, <1>9

\* The editions of some cards have a greatest one.
LEMMA EditionsBounded ==
    ASSUME card \in [Card -> CardType], NEW D \in SUBSET Card
    PROVE  Max({0} \cup {card[c].edition : c \in D}) \in Nat
<1> DEFINE E(T) == {0} \cup {card[c].edition : c \in T}
           HasMax(T) == \E x \in E(T) : \A y \in E(T) : x >= y
           A == {T \in SUBSET Card : ~HasMax(T)}
<1>1. \A c \in Card : card[c].edition \in Nat
  BY DEF CardType
<1>2. A = {}
  <2> SUFFICES ASSUME A # {} PROVE FALSE
    OBVIOUS
  <2>1. PICK U \in A : \A V \in A : V \subseteq U => V = U
    <3>1. A \subseteq SUBSET Card
      OBVIOUS
    <3> HIDE DEF A
    <3> QED BY <3>1, SmallestSet, ConstantFacts
  <2>2. U \in SUBSET Card /\ ~HasMax(U)
    OBVIOUS
  <2>3. U # {}
    <3> SUFFICES ASSUME U = {} PROVE FALSE
      OBVIOUS
    <3>1. 0 \in E(U) /\ \A y \in E(U) : 0 >= y
      OBVIOUS
    <3> QED BY <2>2, <3>1
  <2>4. PICK c : c \in U
    BY <2>3
  <2> DEFINE V == U \ {c}
  <2>5. HasMax(V)
    <3>1. V \in SUBSET Card /\ V \subseteq U /\ V # U
      BY <2>2, <2>4
    <3> HIDE DEF HasMax, V
    <3> QED BY <2>1, <3>1
  <2>6. PICK m \in E(V) : \A y \in E(V) : m >= y
    BY <2>5
  <2> DEFINE e == card[c].edition
  <2>7. /\ \A y : y \in E(U) <=> y \in E(V) \/ y = e
        /\ m \in Nat /\ e \in Nat /\ \A y \in E(V) : y \in Nat
    BY <1>1, <2>2, <2>4, <2>6
  <2> HIDE DEF E, V, e
  <2>8. CASE m >= e
    BY <2>2, <2>6, <2>7, <2>8
  <2>9. CASE e >= m
    <3>1. e \in E(U)
      BY <2>7
    <3>2. \A y \in E(U) : e >= y
      BY <2>6, <2>7, <2>9
    <3> QED BY <2>2, <3>1, <3>2
  <2> QED BY <2>7, <2>8, <2>9
<1>3. HasMax(D)
  BY <1>2
<1>4. Max(E(D)) \in E(D)
  <2> HIDE DEF E
  <2> QED BY <1>3 DEF Max
<1> QED BY <1>1, <1>4

\* What a settlement moves.
Settles(u, coins, new) ==
    /\ coins \in Nat
    /\ wallet[u].open
    /\ wallet' = [wallet EXCEPT
          ![u] = [wallet[u] EXCEPT !.balance = wallet[u].balance + coins]]
    /\ ledger' = [ledger EXCEPT ![u] = ledger[u] + coins]
    /\ rewarded' = rewarded + coins
    /\ card' \in [Card -> CardType]
    /\ \A c \in Card :
          /\ c \in new => /\ card'[c].owner = u
                          /\ card'[c].status = "available"
                          /\ card'[c].lock = None
          /\ c \notin new =>
                \/ /\ card[c].status = "match_locked" /\ card[c].lock = MatchRef
                   /\ card'[c].owner = card[c].owner
                   /\ card'[c].status = "available"
                   /\ card'[c].lock = None
                \/ /\ ~(card[c].status = "match_locked" /\ card[c].lock = MatchRef)
                   /\ card'[c] = card[c]

LEMMA Settlement ==
    ASSUME WellFormed, NEW u \in User, NEW coins \in Coins, SettleMatch(u, coins)
    PROVE  \E new \in SUBSET {c \in Card : card[c].status = "unminted"} :
              Settles(u, coins, new)
<1>1. PICK new \in SUBSET {c \in Card : card[c].status = "unminted"}, q \in RewardQuestions(u) :
         card' = [c \in Card |->
                IF c \in new THEN NewCard(u, q, RewardEdition(u, q))
                ELSE IF card[c].status = "match_locked" /\ card[c].lock = MatchRef
                  THEN Freed(c, card[c].owner)
                ELSE card[c]]
  BY DEF SettleMatch
<1>2. q \in Question
  BY DEF RewardQuestions
<1>3. TypeOK
  BY DEF WellFormed
<1>4. RewardEdition(u, q) \in Nat
  <2> DEFINE D == {d \in Card : Owns(u, d, q)}
             m == Max({0} \cup {card[c].edition : c \in D})
  <2>1. D \in SUBSET Card /\ card \in [Card -> CardType]
    BY <1>3 DEF TypeOK
  <2>2. m \in Nat
    <3> HIDE DEF D
    <3> QED BY <2>1, EditionsBounded
  <2>3. RewardEdition(u, q) = 1 + m
    BY DEF RewardEdition
  <2> HIDE DEF m
  <2> QED BY <2>2, <2>3
<1>5. ASSUME NEW c \in Card
      PROVE  /\ card'[c] \in CardType
             /\ c \in new => /\ card'[c].owner = u
                             /\ card'[c].status = "available"
                             /\ card'[c].lock = None
             /\ c \notin new =>
                   \/ /\ card[c].status = "match_locked" /\ card[c].lock = MatchRef
                      /\ card'[c].owner = card[c].owner
                      /\ card'[c].status = "available"
                      /\ card'[c].lock = None
                   \/ /\ ~(card[c].status = "match_locked" /\ card[c].lock = MatchRef)
                      /\ card'[c] = card[c]
  <2>1. CASE c \in new
    BY <1>1, <1>2, <1>4, <2>1, MintedCard
  <2>2. CASE c \notin new /\ card[c].status = "match_locked" /\ card[c].lock = MatchRef
    <3>1. card'[c] = Freed(c, card[c].owner)
      BY <1>1, <2>2
    <3>2. card[c].owner \in User \cup {None} /\ card \in [Card -> CardType]
      BY <1>3 DEF TypeOK, CardType
    <3> QED BY <2>2, <3>1, <3>2, FreedCard
  <2>3. CASE c \notin new /\ ~(card[c].status = "match_locked" /\ card[c].lock = MatchRef)
    BY <1>1, <1>3, <2>3 DEF TypeOK
  <2> QED BY <2>1, <2>2, <2>3
<1>6. coins \in Nat /\ card' \in [Card -> CardType]
  BY <1>1, <1>5, ConstantFacts
<1>7. /\ wallet[u].open
      /\ wallet' = [wallet EXCEPT
            ![u] = [wallet[u] EXCEPT !.balance = wallet[u].balance + coins]]
      /\ ledger' = [ledger EXCEPT ![u] = ledger[u] + coins]
      /\ rewarded' = rewarded + coins
  BY DEF SettleMatch
<1> QED BY <1>5, <1>6, <1>7 DEF Settles

LEMMA SettleMatchWF ==
    ASSUME WellFormed, NEW u \in User, NEW coins \in Coins, SettleMatch(u, coins)
    PROVE  WellFormed'
<1>1. PICK new \in SUBSET {c \in Card : card[c].status = "unminted"} :
              Settles(u, coins, new)
  BY Settlement
<1> USE DEF WellFormed, Settles
<1> DEFINE b == wallet[u].balance + coins
           w == [wallet[u] EXCEPT !.balance = b]
<1>2. wallet[u] \in WalletType
  BY DEF TypeOK
<1>3. b \in Nat
  BY <1>1, <1>2 DEF WalletType
<1>4. w \in WalletType /\ w.open = wallet[u].open
  <2> HIDE DEF b
  <2> QED BY <1>2, <1>3, WalletUpdate
<1>5. wallet' = [wallet EXCEPT ![u] = w]
  BY <1>1
<1> HIDE DEF w
<1>6. TypeOK'
  <2>1. wallet' \in [User -> WalletType]
    BY <1>4, <1>5 DEF TypeOK
  <2>2. card' \in [Card -> CardType]
    BY <1>1
  <2>3. ledger' \in [User -> Int]
    BY <1>1 DEF TypeOK
  <2>4. rewarded' \in Nat
    BY <1>1 DEF TypeOK
  <2> QED BY <2>1, <2>2, <2>3, <2>4 DEF TypeOK, SettleMatch
<1>7. WalletsStay /\ \A x \in User : wallet'[x] = wallet[x] \/ wallet'[x].open
  BY <1>1, <1>4, <1>5 DEF WalletsStay, TypeOK
<1>8. RequestsWellFormed' /\ GrantsComplete' /\ OffersWellFormed'
  BY <1>7, RequestsKept, OffersKept DEF SettleMatch
<1>9. ListingsWellFormed'
  BY DEF ListingsWellFormed, SettleMatch
<1>10. ClosedWalletsEmpty'
  BY <1>7 DEF ClosedWalletsEmpty
<1>11. OwnersHaveWallets'
  <2>1. wallet'[u].open
    BY <1>1, <1>7 DEF WalletsStay
  <2> QED BY <1>1, <1>7, <2>1, OwnersKept
<1> QED BY <1>6, <1>8, <1>9, <1>10, <1>11

LEMMA NextWellFormed == WellFormed /\ [Next]_vars => WellFormed'
<1> SUFFICES ASSUME WellFormed, [Next]_vars PROVE WellFormed'
  OBVIOUS
<1>1. CASE UNCHANGED vars
  BY <1>1 DEF vars, history, WellFormed, TypeOK, ListingsWellFormed, OffersWellFormed,
              RequestsWellFormed, ClosedWalletsEmpty, OwnersHaveWallets, GrantsComplete
<1>2. ASSUME NEW r \in Request, RequestStep(r) PROVE WellFormed'
  BY <1>2, AskStarterWF, StarterSnapshotWF, GrantStarterWF, AskToBuyWF, BuyListingWF,
     AskToAcceptWF, AcceptTradeWF, FailWF DEF RequestStep
<1>3. CASE MarketStep
  BY <1>3, CreateListingWF, EndListingWF DEF MarketStep, CancelListing, ExpireListing
<1>4. CASE TradeStep
  <2>1. CASE \E t \in Trade, u, v \in User, n, m \in Coins :
          \E offered \in SUBSET FreeCards(u), requested \in SUBSET FreeCards(v) :
             CreateTrade(t, u, v, offered, requested, n, m)
    BY <2>1, CreateTradeWF DEF FreeCards
  <2>2. CASE \E u \in User, t \in Trade : RejectTrade(u, t) \/ CancelTrade(u, t)
    BY <2>2, EndTradeWF DEF RejectTrade, CancelTrade
  <2>3. CASE \E t \in Trade : ExpireTrade(t)
    BY <2>3, EndTradeWF DEF ExpireTrade
  <2> QED BY <1>4, <2>1, <2>2, <2>3 DEF TradeStep
<1>5. CASE \E u \in User, c \in Card : LockForMatch(u, c)
  BY <1>5, LockForMatchWF
<1>6. CASE \E u \in User, n \in Coins : SettleMatch(u, n)
  BY <1>6, SettleMatchWF
<1>7. CASE Elapse
  BY <1>7, ElapseWF
<1> QED BY <1>1, <1>2, <1>3, <1>4, <1>5, <1>6, <1>7 DEF Next

\* Whatever transactions commit and in whatever order, the documents stay well formed:
\* offers, requests and cards refer to users that have a wallet (EnsureStarter precedes
\* every handler), and no grant is made from a snapshot that missed cards.
THEOREM WellFormedAlways == Spec => []WellFormed
<1> QED BY InitWellFormed, NextWellFormed, PTL DEF Spec

\* In particular no balance and no amount locked is ever negative: a fee never exceeds the
\* price it is taken from, and nothing is unlocked that was not locked.
THEOREM TypeCorrect == Spec => []TypeOK
<1>1. WellFormed => TypeOK
  BY DEF WellFormed
<1> QED BY <1>1, WellFormedAlways, PTL

-----------------------------------------------------------------------------
(* The safety invariants *)

\* The steps as these proofs tell them apart: those that only move a request on, and
\* the transactions.
OnlyRequests == UNCHANGED <<wallet, card, listing, trade, ledger, history>>
Steps ==
    \/ OnlyRequests
    \/ \E r \in Request : GrantStarter(r) \/ BuyListing(r) \/ AcceptTrade(r)
    \/ \E l \in Listing, u \in User, c \in Card, p \in Price : CreateListing(l, u, c, p)
    \/ \E l \in Listing, status \in {"cancelled", "expired"} : EndListing(l, status)
    \/ \E t \in Trade, u, v \in User, n, m \in Coins, offered, requested \in SUBSET Card :
          CreateTrade(t, u, v, offered, requested, n, m)
    \/ \E t \in Trade, status \in {"rejected", "cancelled", "expired"} : EndTrade(t, status)
    \/ Elapse
    \/ \E u \in User, c \in Card : LockForMatch(u, c)
    \/ \E u \in User, n \in Coins : SettleMatch(u, n)

LEMMA EveryStep == [Next]_vars => Steps
<1> SUFFICES ASSUME [Next]_vars PROVE Steps
  OBVIOUS
<1>1. CASE UNCHANGED vars
  BY <1>1 DEF vars, Steps, OnlyRequests
<1>2. ASSUME NEW r \in Request, RequestStep(r) PROVE Steps
  <2>1. CASE \/ \E u \in User : AskStarter(r, u)
             \/ StarterSnapshot(r)
             \/ \E u \in User, l \in Listing : AskToBuy(r, u, l)
             \/ \E u \in User, t \in Trade : AskToAccept(r, u, t)
             \/ Fail(r)
    BY <2>1 DEF Steps, OnlyRequests, AskStarter, StarterSnapshot, AskToBuy, AskToAccept, Fail
  <2>2. CASE GrantStarter(r) \/ BuyListing(r) \/ AcceptTrade(r)
    BY <2>2 DEF Steps
  <2> QED BY <1>2, <2>1, <2>2 DEF RequestStep
<1>3. CASE MarketStep
  BY <1>3 DEF MarketStep, CancelListing, ExpireListing, Steps
<1>4. CASE TradeStep
  <2>1. CASE \E t \in Trade, u, v \in User, n, m \in Coins :
          \E offered \in SUBSET FreeCards(u), requested \in SUBSET FreeCards(v) :
             CreateTrade(t, u, v, offered, requested, n, m)
    BY <2>1 DEF FreeCards, Steps
  <2>2. CASE \E u \in User, t \in Trade : RejectTrade(u, t) \/ CancelTrade(u, t)
    BY <2>2 DEF RejectTrade, CancelTrade, Steps
  <2>3. CASE \E t \in Trade : ExpireTrade(t)
    BY <2>3 DEF ExpireTrade, Steps
  <2> QED BY <1>4, <2>1, <2>2, <2>3 DEF TradeStep
<1>5. CASE \/ Elapse
           \/ \E u \in User, c \in Card : LockForMatch(u, c)
           \/ \E u \in User, n \in Coins : SettleMatch(u, n)
  BY <1>5 DEF Steps
<1> QED BY <1>1, <1>2, <1>3, <1>4, <1>5 DEF Next

\* A deadline that passes changes nothing else.
LEMMA ElapseKeeps ==
    ASSUME WellFormed, Elapse
    PROVE  /\ UNCHANGED <<wallet, card, ledger, request, granted, sink, rewarded>>
           /\ \A l \in Listing : /\ listing'[l].status = listing[l].status
                                 /\ listing'[l].card = listing[l].card
                                 /\ listing'[l].seller = listing[l].seller
           /\ \A t \in Trade : /\ trade'[t].status = trade[t].status
                               /\ trade'[t].sender = trade[t].sender
                               /\ trade'[t].offered = trade[t].offered
                               /\ trade'[t].offeredCoins = trade[t].offeredCoins
<1>1. UNCHANGED <<wallet, card, ledger, request, granted, sink, rewarded>>
  BY DEF Elapse, history
<1>2. listing \in [Listing -> ListingType] /\ trade \in [Trade -> TradeType]
  BY DEF WellFormed, TypeOK
<1>3. CASE \E l \in Listing : /\ listing' = [listing EXCEPT ![l].elapsed = TRUE]
                              /\ UNCHANGED trade
  BY <1>1, <1>2, <1>3 DEF ListingType
<1>4. CASE \E t \in Trade : /\ trade' = [trade EXCEPT ![t].elapsed = TRUE]
                            /\ UNCHANGED listing
  BY <1>1, <1>2, <1>4 DEF TradeType
<1> QED BY <1>3, <1>4 DEF Elapse

\* Coins that back an offer stay: only a new offer reserves coins, out of those that are
\* there, and whoever pays pays out of the others.
LEMMA NextNoOverdraft == WellFormed /\ NoOverdraft /\ [Next]_vars => NoOverdraft'
<1> SUFFICES ASSUME WellFormed, NoOverdraft, Steps PROVE NoOverdraft'
  BY EveryStep
<1> USE DEF NoOverdraft
<1>1. wallet \in [User -> WalletType] /\ \A u \in User : wallet[u] \in WalletType
  BY DEF WellFormed, TypeOK
<1>2. ASSUME wallet' = wallet PROVE NoOverdraft'
  BY <1>2
<1>3. ASSUME NEW r \in Request, GrantStarter(r) PROVE NoOverdraft'
  <2>1. PICK u \in User : Grants(r, u)
    BY <1>3, Grant
  <2> QED BY <1>1, <1>2, <2>1, ConstantFacts DEF Grants, WalletType
<1>4. ASSUME NEW r \in Request, BuyListing(r) PROVE NoOverdraft'
  <2>1. PICK l \in Listing, buyer, seller \in User, price, share, fee \in Nat :
              Buys(r, l, buyer, seller, price, share, fee)
    BY <1>4, Purchase
  <2> QED BY <1>1, <2>1 DEF Buys, WalletType
<1>5. ASSUME NEW r \in Request, AcceptTrade(r) PROVE NoOverdraft'
  <2>1. PICK t \in Trade, sender, receiver \in User, n, m \in Nat :
              Accepts(t, sender, receiver, n, m)
    BY <1>5, Acceptance
  <2>2. /\ wallet'[sender].locked = wallet[sender].locked - n
        /\ wallet'[sender].balance = wallet[sender].balance + (m - n)
        /\ wallet'[receiver].locked = wallet[receiver].locked
        /\ wallet'[receiver].balance = wallet[receiver].balance - (m - n)
        /\ \A u \in User : u # sender /\ u # receiver => wallet'[u] = wallet[u]
    BY <1>1, <2>1 DEF Accepts, WalletType
  <2>3. \A u \in User : wallet[u].locked \in Nat /\ wallet[u].balance \in Nat
    BY <1>1 DEF WalletType
  <2>4. wallet'[sender].locked <= wallet'[sender].balance
    BY <2>2, <2>3
  <2>5. wallet'[receiver].locked <= wallet'[receiver].balance
    BY <2>1, <2>2, <2>3 DEF Accepts
  <2> QED BY <2>2, <2>4, <2>5
<1>6. ASSUME NEW t \in Trade, NEW u \in User, NEW v \in User, NEW n \in Coins, NEW m \in Coins,
             NEW offered \in SUBSET Card, NEW requested \in SUBSET Card,
             CreateTrade(t, u, v, offered, requested, n, m)
      PROVE  NoOverdraft'
  <2>1. wallet' = [wallet EXCEPT ![u] = [wallet[u] EXCEPT !.locked = wallet[u].locked + n]]
    BY <1>6 DEF CreateTrade
  <2>2. n \in Nat /\ (n > 0 => wallet[u].balance - wallet[u].locked >= n)
    BY <1>6, ConstantFacts DEF CreateTrade, CanPay
  <2> QED BY <1>1, <2>1, <2>2 DEF WalletType
<1>7. ASSUME NEW t \in Trade, NEW status, EndTrade(t, status) PROVE NoOverdraft'
  <2>1. PICK sender \in User, n \in Nat : EndsOffer(t, status, sender, n)
    BY <1>7, OfferEnd
  <2> QED BY <1>1, <2>1 DEF EndsOffer, WalletType
<1>8. ASSUME NEW u \in User, NEW n \in Coins, SettleMatch(u, n) PROVE NoOverdraft'
  <2>1. PICK new \in SUBSET {c \in Card : card[c].status = "unminted"} : Settles(u, n, new)
    BY <1>8, Settlement
  <2> QED BY <1>1, <2>1 DEF Settles, WalletType
<1>9. ASSUME \/ OnlyRequests \/ Elapse
             \/ \E l \in Listing, u \in User, c \in Card, p \in Price : CreateListing(l, u, c, p)
             \/ \E l \in Listing, status \in {"cancelled", "expired"} : EndListing(l, status)
             \/ \E u \in User, c \in Card : LockForMatch(u, c)
      PROVE  NoOverdraft'
  BY <1>2, <1>9 DEF OnlyRequests, Elapse, CreateListing, EndListing, LockForMatch
<1> QED BY <1>3, <1>4, <1>5, <1>6, <1>7, <1>8, <1>9 DEF Steps

\* Coins that back a pending offer are never spent: BuyListing and AcceptTrade pay out of
\* the available balance as it is when they commit.
THEOREM NoOverdraftHolds == Spec => []NoOverdraft
<1>1. Init => NoOverdraft
  BY DEF Init, NoOverdraft, NoWallet
<1> QED BY <1>1, WellFormedAlways, NextNoOverdraft, PTL DEF Spec

-----------------------------------------------------------------------------
(* Escrow *)

\* The three parts of EscrowMatches.
ListingsHeld == \A l \in Listing : listing[l].status = "active" => EscrowedListing(l)
OffersHeld == \A t \in Trade : trade[t].status = "pending" => OfferedEscrowed(t)
LockBacked(c) ==
    /\ card[c].status \in {"unminted", "available"} <=> card[c].lock = None
    /\ card[c].status = "match_locked" <=> card[c].lock = MatchRef
    /\ card[c].status = "market_escrow" =>
          card[c].lock \in Listing /\ OpenListing(c, card[c].lock)
    /\ card[c].status = "trade_escrow" =>
          card[c].lock \in Trade /\ OpenOffer(c, card[c].lock)

LEMMA EscrowParts ==
    EscrowMatches <=> ListingsHeld /\ OffersHeld /\ \A c \in Card : LockBacked(c)
BY DEF EscrowMatches, ListingsHeld, OffersHeld, LockBacked

LEMMA EscrowPartsNext ==
    ASSUME ListingsHeld', OffersHeld', \A c \in Card : LockBacked(c)'
    PROVE  EscrowMatches'
BY DEF EscrowMatches, ListingsHeld, OffersHeld, LockBacked

LEMMA InitEscrow == Init => EscrowMatches
<1> SUFFICES ASSUME Init PROVE EscrowMatches
  OBVIOUS
<1>1. \A l \in Listing : listing[l].status # "active"
  BY DEF Init, NoListing
<1>2. \A t \in Trade : trade[t].status # "pending"
  BY DEF Init, NoTrade
<1>3. \A c \in Card : card[c].status = "unminted" /\ card[c].lock = None
  BY DEF Init, NoCard
<1> QED BY <1>1, <1>2, <1>3, ConstantFacts DEF EscrowMatches

\* A step that keeps listings and offers and changes only cards that nothing holds, or
\* cards of the match.
LEMMA CardsKeepEscrow ==
    ASSUME WellFormed, EscrowMatches,
           \A l \in Listing : /\ listing'[l].status = listing[l].status
                              /\ listing'[l].card = listing[l].card
                              /\ listing'[l].seller = listing[l].seller,
           \A t \in Trade : /\ trade'[t].status = trade[t].status
                            /\ trade'[t].sender = trade[t].sender
                            /\ trade'[t].offered = trade[t].offered,
           \A c \in Card :
              \/ card'[c] = card[c]
              \/ /\ card[c].lock \in {None, MatchRef}
                 /\ \/ card'[c].status = "available" /\ card'[c].lock = None
                    \/ card'[c].status = "match_locked" /\ card'[c].lock = MatchRef
    PROVE  EscrowMatches'
<1> USE EscrowParts DEF WellFormed
<1>1. ListingsHeld'
  BY ConstantFacts DEF ListingsWellFormed, ListingsHeld, EscrowedListing, Held
<1>2. OffersHeld'
  <2>1. \A t \in Trade : trade[t].offered \subseteq Card
    BY DEF TypeOK, TradeType
  <2> QED BY <2>1, ConstantFacts DEF OffersHeld, OfferedEscrowed, Held
<1>3. ASSUME NEW c \in Card PROVE LockBacked(c)'
  <2>1. CASE card'[c] = card[c]
    BY <2>1 DEF LockBacked, OpenListing, OpenOffer
  <2>2. CASE card'[c] # card[c]
    BY <2>2, ConstantFacts DEF LockBacked
  <2> QED BY <2>1, <2>2
<1> QED BY <1>1, <1>2, <1>3, EscrowPartsNext

\* A listing that ends frees its card and no other: no two things hold a card.
LEMMA ListingEndKeepsEscrow ==
    ASSUME WellFormed, EscrowMatches, NEW l \in Listing,
           listing[l].status = "active",
           listing'[l].status # "active",
           \A k \in Listing : k # l => listing'[k] = listing[k],
           UNCHANGED trade,
           card'[listing[l].card].status = "available",
           card'[listing[l].card].lock = None,
           \A c \in Card : c # listing[l].card => card'[c] = card[c]
    PROVE  EscrowMatches'
<1> USE EscrowParts DEF WellFormed
<1> DEFINE x == listing[l].card
<1>1. x \in Card /\ card[x].lock = l /\ card[x].status = "market_escrow"
  BY DEF ListingsWellFormed, ListingsHeld, EscrowedListing, Held
<1>2. ListingsHeld'
  <2> SUFFICES ASSUME NEW k \in Listing, listing'[k].status = "active"
               PROVE  EscrowedListing(k)'
    BY DEF ListingsHeld
  <2>1. /\ k # l /\ listing'[k] = listing[k] /\ EscrowedListing(k)
        /\ listing[k].card \in Card /\ card[listing[k].card].lock = k
    BY DEF ListingsWellFormed, ListingsHeld, EscrowedListing, Held
  <2>2. card'[listing[k].card] = card[listing[k].card]
    BY <1>1, <2>1
  <2> QED BY <2>1, <2>2 DEF EscrowedListing, Held
<1>3. OffersHeld'
  <2> SUFFICES ASSUME NEW t \in Trade, trade[t].status = "pending"
               PROVE  OfferedEscrowed(t)'
    BY DEF OffersHeld
  <2>1. trade[t].offered \subseteq Card /\ OfferedEscrowed(t)
    BY DEF TypeOK, TradeType, OffersHeld
  <2>2. \A c \in trade[t].offered : c # x
    BY <1>1, <2>1, ConstantFacts DEF OfferedEscrowed, Held
  <2> QED BY <2>1, <2>2 DEF OfferedEscrowed, Held
<1>4. ASSUME NEW c \in Card PROVE LockBacked(c)'
  <2>1. CASE c = x
    BY <2>1, ConstantFacts DEF LockBacked
  <2>2. CASE c # x
    <3>1. card'[c] = card[c] /\ LockBacked(c)
      BY <2>2
    <3>2. card[c].status = "market_escrow" => OpenListing(c, card[c].lock)'
      BY <1>1, <2>2, <3>1 DEF LockBacked, OpenListing
    <3> QED BY <3>1, <3>2 DEF LockBacked, OpenOffer
  <2> QED BY <2>1, <2>2
<1> QED BY <1>2, <1>3, <1>4, EscrowPartsNext

\* An offer that ends frees its cards, and may change the owner of free ones.
LEMMA OfferEndKeepsEscrow ==
    ASSUME WellFormed, EscrowMatches, NEW t \in Trade,
           trade[t].status = "pending",
           trade'[t].status # "pending",
           \A o \in Trade : o # t => trade'[o] = trade[o],
           UNCHANGED listing,
           \A c \in Card :
              \/ /\ c \in trade[t].offered \/ card[c].lock = None
                 /\ card'[c].status = "available" /\ card'[c].lock = None
              \/ c \notin trade[t].offered /\ card'[c] = card[c]
    PROVE  EscrowMatches'
<1> USE EscrowParts DEF WellFormed
<1>1. \A c \in trade[t].offered :
         c \in Card /\ card[c].lock = t /\ card[c].status = "trade_escrow"
  BY DEF TypeOK, TradeType, OffersHeld, OfferedEscrowed, Held
<1>2. \A c \in Card : card[c].lock # t /\ card[c].lock # None => card'[c] = card[c]
  BY <1>1
<1>3. ListingsHeld'
  <2> SUFFICES ASSUME NEW k \in Listing, listing[k].status = "active"
               PROVE  EscrowedListing(k)'
    BY DEF ListingsHeld
  <2>1. /\ EscrowedListing(k)
        /\ listing[k].card \in Card /\ card[listing[k].card].lock = k
    BY DEF ListingsWellFormed, ListingsHeld, EscrowedListing, Held
  <2>2. card'[listing[k].card] = card[listing[k].card]
    BY <1>2, <2>1, ConstantFacts
  <2> QED BY <2>1, <2>2 DEF EscrowedListing, Held
<1>4. OffersHeld'
  <2> SUFFICES ASSUME NEW o \in Trade, trade'[o].status = "pending"
               PROVE  OfferedEscrowed(o)'
    BY DEF OffersHeld
  <2>1. /\ o # t /\ trade'[o] = trade[o]
        /\ trade[o].offered \subseteq Card /\ OfferedEscrowed(o)
    BY DEF TypeOK, TradeType, OffersHeld
  <2>2. \A c \in trade[o].offered : card[c].lock = o /\ card'[c] = card[c]
    BY <1>2, <2>1, ConstantFacts DEF OfferedEscrowed, Held
  <2> QED BY <2>1, <2>2 DEF OfferedEscrowed, Held
<1>5. ASSUME NEW c \in Card PROVE LockBacked(c)'
  <2>1. CASE card'[c].status = "available" /\ card'[c].lock = None
    BY <2>1, ConstantFacts DEF LockBacked
  <2>2. CASE c \notin trade[t].offered /\ card'[c] = card[c]
    <3>1. LockBacked(c)
      OBVIOUS
    <3>2. card[c].status = "trade_escrow" => card[c].lock # t
      BY <2>2, <3>1 DEF LockBacked, OpenOffer
    <3>3. card[c].status = "trade_escrow" => OpenOffer(c, card[c].lock)'
      BY <2>2, <3>1, <3>2 DEF LockBacked, OpenOffer
    <3> QED BY <2>2, <3>1, <3>3 DEF LockBacked, OpenListing
  <2> QED BY <2>1, <2>2
<1> QED BY <1>3, <1>4, <1>5, EscrowPartsNext

LEMMA CreateListingEscrow ==
    ASSUME WellFormed, EscrowMatches, NEW l \in Listing, NEW u \in User, NEW x \in Card,
           NEW p \in Price, CreateListing(l, u, x, p)
    PROVE  EscrowMatches'
<1> USE EscrowParts DEF WellFormed
<1>1. /\ listing[l].status # "active"
      /\ listing'[l].status = "active" /\ listing'[l].card = x /\ listing'[l].seller = u
      /\ \A k \in Listing : k # l => listing'[k] = listing[k]
      /\ trade' = trade
      /\ card[x].owner = u /\ card[x].lock = None
  BY DEF CreateListing, NoListing, TypeOK, FreeFor
<1>2. /\ card'[x].owner = u /\ card'[x].status = "market_escrow" /\ card'[x].lock = l
      /\ \A d \in Card : d # x => card'[d] = card[d]
  <2>1. card \in [Card -> CardType] /\ card' = Locking({x}, "market_escrow", l)
    BY DEF CreateListing, TypeOK
  <2>2. \A d \in Card :
           /\ d = x => /\ card'[d].owner = card[d].owner /\ card'[d].lock = l
                       /\ card'[d].status = "market_escrow"
           /\ d # x => card'[d] = card[d]
    BY <2>1 DEF Locking, CardType
  <2> QED BY <1>1, <2>2
<1>3. ListingsHeld'
  <2> SUFFICES ASSUME NEW k \in Listing, listing'[k].status = "active"
               PROVE  EscrowedListing(k)'
    BY DEF ListingsHeld
  <2>1. CASE k = l
    BY <1>1, <1>2, <2>1 DEF EscrowedListing, Held
  <2>2. CASE k # l
    <3>1. /\ listing'[k] = listing[k] /\ EscrowedListing(k)
          /\ listing[k].card \in Card /\ card[listing[k].card].lock = k
      BY <1>1, <2>2 DEF ListingsWellFormed, ListingsHeld, EscrowedListing, Held
    <3>2. card'[listing[k].card] = card[listing[k].card]
      BY <1>1, <1>2, <3>1, ConstantFacts
    <3> QED BY <3>1, <3>2 DEF EscrowedListing, Held
  <2> QED BY <2>1, <2>2
<1>4. OffersHeld'
  <2> SUFFICES ASSUME NEW t \in Trade, trade[t].status = "pending"
               PROVE  OfferedEscrowed(t)'
    BY <1>1 DEF OffersHeld
  <2>1. trade[t].offered \subseteq Card /\ OfferedEscrowed(t)
    BY DEF TypeOK, TradeType, OffersHeld
  <2>2. \A d \in trade[t].offered : d # x
    BY <1>1, <2>1, ConstantFacts DEF OfferedEscrowed, Held
  <2> QED BY <1>1, <1>2, <2>1, <2>2 DEF OfferedEscrowed, Held
<1>5. ASSUME NEW d \in Card PROVE LockBacked(d)'
  <2>1. CASE d = x
    BY <1>1, <1>2, <2>1, ConstantFacts DEF LockBacked, OpenListing
  <2>2. CASE d # x
    <3>1. card'[d] = card[d] /\ LockBacked(d)
      BY <1>2, <2>2
    <3>2. card[d].status = "market_escrow" => OpenListing(d, card[d].lock)'
      BY <1>1, <3>1 DEF LockBacked, OpenListing
    <3> QED BY <1>1, <3>1, <3>2 DEF LockBacked, OpenOffer
  <2> QED BY <2>1, <2>2
<1> QED BY <1>3, <1>4, <1>5, EscrowPartsNext

LEMMA CreateTradeEscrow ==
    ASSUME WellFormed, EscrowMatches, NEW t \in Trade, NEW u \in User, NEW v \in User,
           NEW n \in Coins, NEW m \in Coins,
           NEW offered \in SUBSET Card, NEW requested \in SUBSET Card,
           CreateTrade(t, u, v, offered, requested, n, m)
    PROVE  EscrowMatches'
<1> USE EscrowParts DEF WellFormed
<1>1. /\ trade[t].status # "pending"
      /\ trade'[t].status = "pending" /\ trade'[t].offered = offered /\ trade'[t].sender = u
      /\ \A o \in Trade : o # t => trade'[o] = trade[o]
      /\ listing' = listing
      /\ \A c \in offered : card[c].owner = u /\ card[c].lock = None
  BY DEF CreateTrade, TypeOK, FreeCards, FreeFor
<1>2. \A c \in Card :
         /\ c \in offered => /\ card'[c].owner = u /\ card'[c].status = "trade_escrow"
                             /\ card'[c].lock = t
         /\ c \notin offered => card'[c] = card[c]
  <2>1. card \in [Card -> CardType] /\ card' = Locking(offered, "trade_escrow", t)
    BY DEF CreateTrade, TypeOK
  <2> QED BY <1>1, <2>1 DEF Locking, CardType
<1>3. ListingsHeld'
  <2> SUFFICES ASSUME NEW k \in Listing, listing[k].status = "active"
               PROVE  EscrowedListing(k)'
    BY <1>1 DEF ListingsHeld
  <2>1. /\ EscrowedListing(k)
        /\ listing[k].card \in Card /\ card[listing[k].card].lock = k
    BY DEF ListingsWellFormed, ListingsHeld, EscrowedListing, Held
  <2>2. card'[listing[k].card] = card[listing[k].card]
    BY <1>1, <1>2, <2>1, ConstantFacts
  <2> QED BY <1>1, <2>1, <2>2 DEF EscrowedListing, Held
<1>4. OffersHeld'
  <2> SUFFICES ASSUME NEW o \in Trade, trade'[o].status = "pending"
               PROVE  OfferedEscrowed(o)'
    BY DEF OffersHeld
  <2>1. CASE o = t
    BY <1>1, <1>2, <2>1 DEF OfferedEscrowed, Held
  <2>2. CASE o # t
    <3>1. /\ trade'[o] = trade[o] /\ trade[o].offered \subseteq Card /\ OfferedEscrowed(o)
      BY <1>1, <2>2 DEF TypeOK, TradeType, OffersHeld
    <3>2. \A c \in trade[o].offered : c \notin offered
      BY <1>1, <3>1, ConstantFacts DEF OfferedEscrowed, Held
    <3> QED BY <1>2, <3>1, <3>2 DEF OfferedEscrowed, Held
  <2> QED BY <2>1, <2>2
<1>5. ASSUME NEW c \in Card PROVE LockBacked(c)'
  <2>1. CASE c \in offered
    BY <1>1, <1>2, <2>1, ConstantFacts DEF LockBacked, OpenOffer
  <2>2. CASE c \notin offered
    <3>1. card'[c] = card[c] /\ LockBacked(c)
      BY <1>2, <2>2
    <3>2. card[c].status = "trade_escrow" => OpenOffer(c, card[c].lock)'
      BY <1>1, <3>1 DEF LockBacked, OpenOffer
    <3> QED BY <1>1, <3>1, <3>2 DEF LockBacked, OpenListing
  <2> QED BY <2>1, <2>2
<1> QED BY <1>3, <1>4, <1>5, EscrowPartsNext

LEMMA NextEscrow == WellFormed /\ EscrowMatches /\ [Next]_vars => EscrowMatches'
<1> SUFFICES ASSUME WellFormed, EscrowMatches, Steps PROVE EscrowMatches'
  BY EveryStep
<1>1. /\ card \in [Card -> CardType] /\ \A c \in Card : LockBacked(c)
      /\ \A l \in Listing : listing[l].status = "active" => EscrowedListing(l)
      /\ \A t \in Trade : trade[t].offered \subseteq Card
      /\ listing \in [Listing -> ListingType] /\ trade \in [Trade -> TradeType]
  BY EscrowParts DEF WellFormed, TypeOK, TradeType, ListingsHeld
<1>2. CASE OnlyRequests
  BY <1>2, CardsKeepEscrow DEF OnlyRequests
<1>3. ASSUME NEW r \in Request, GrantStarter(r) PROVE EscrowMatches'
  <2>1. PICK u \in User : Grants(r, u)
    BY <1>3, Grant
  <2>2. UNCHANGED <<listing, trade>>
    BY <1>3 DEF GrantStarter
  <2>3. \A c \in Card : card[c].status = "unminted" => card[c].lock = None
    BY <1>1 DEF LockBacked
  <2> QED BY <2>1, <2>2, <2>3, CardsKeepEscrow DEF Grants
<1>4. ASSUME NEW r \in Request, BuyListing(r) PROVE EscrowMatches'
  <2>1. PICK l \in Listing, buyer, seller \in User, price, share, fee \in Nat :
              Buys(r, l, buyer, seller, price, share, fee)
    BY <1>4, Purchase
  <2> DEFINE x == listing[l].card
  <2>2. /\ card'[x].status = "available" /\ card'[x].lock = None
        /\ \A c \in Card : c # x => card'[c] = card[c]
    BY <1>1, <2>1, FreedCard DEF Buys
  <2>3. EndedListing("sold").status # "active"
    BY DEF EndedListing, NoListing
  <2>4. /\ listing'[l].status # "active"
        /\ \A k \in Listing : k # l => listing'[k] = listing[k]
        /\ UNCHANGED trade
    BY <1>1, <1>4, <2>1, <2>3 DEF Buys, BuyListing
  <2> QED BY <2>1, <2>2, <2>4, ListingEndKeepsEscrow DEF Buys
<1>5. ASSUME NEW r \in Request, AcceptTrade(r) PROVE EscrowMatches'
  <2>1. PICK t \in Trade, sender, receiver \in User, n, m \in Nat :
              Accepts(t, sender, receiver, n, m)
    BY <1>5, Acceptance
  <2>2. ASSUME NEW c \in Card
        PROVE  \/ /\ c \in trade[t].offered \/ card[c].lock = None
                  /\ card'[c].status = "available" /\ card'[c].lock = None
               \/ c \notin trade[t].offered /\ card'[c] = card[c]
    <3>1. CASE card'[c] = Freed(c, receiver) /\ c \in trade[t].offered
      BY <1>1, <3>1, FreedCard
    <3>2. CASE card'[c] = Freed(c, sender) /\ c \in trade[t].requested
      <4>1. card[c].lock = None
        BY <2>1, <3>2 DEF Accepts, RequestedFree, FreeCards, FreeFor
      <4> QED BY <1>1, <3>2, <4>1, FreedCard
    <3>3. CASE card'[c] = card[c] /\ c \notin trade[t].offered
      BY <3>3
    <3> QED BY <2>1, <3>1, <3>2, <3>3 DEF Accepts
  <2>3. EndedTrade("accepted").status # "pending"
    BY DEF EndedTrade, NoTrade
  <2>4. /\ trade[t].status = "pending"
        /\ trade'[t].status # "pending"
        /\ \A o \in Trade : o # t => trade'[o] = trade[o]
        /\ UNCHANGED listing
    BY <1>1, <1>5, <2>1, <2>3 DEF Accepts, AcceptTrade
  <2> QED BY <2>2, <2>4, OfferEndKeepsEscrow
<1>6. ASSUME NEW l \in Listing, NEW status \in {"cancelled", "expired"},
             EndListing(l, status)
      PROVE  EscrowMatches'
  <2> DEFINE x == listing[l].card
  <2>1. card' = Locking({x}, "available", None)
    BY <1>6 DEF EndListing, Releasing
  <2>2. listing[l].status = "active" /\ x \in Card
    BY <1>6 DEF EndListing, EscrowedListing, WellFormed, ListingsWellFormed
  <2>3. /\ card'[x].status = "available" /\ card'[x].lock = None
        /\ \A c \in Card : c # x => card'[c] = card[c]
    <3> HIDE DEF x
    <3> QED BY <1>1, <2>1, <2>2 DEF Locking, CardType
  <2>4. EndedListing(status).status # "active"
    BY DEF EndedListing, NoListing
  <2>5. /\ listing'[l].status # "active"
        /\ \A k \in Listing : k # l => listing'[k] = listing[k]
        /\ UNCHANGED trade
    BY <1>1, <1>6, <2>4 DEF EndListing
  <2> QED BY <2>2, <2>3, <2>5, ListingEndKeepsEscrow
<1>7. ASSUME NEW t \in Trade, NEW status \in {"rejected", "cancelled", "expired"},
             EndTrade(t, status)
      PROVE  EscrowMatches'
  <2>1. card' = Locking(trade[t].offered, "available", None)
    BY <1>7 DEF EndTrade, Releasing
  <2>2. \A c \in Card :
           /\ c \in trade[t].offered => card'[c].status = "available" /\ card'[c].lock = None
           /\ c \notin trade[t].offered => card'[c] = card[c]
    BY <1>1, <2>1 DEF Locking, CardType
  <2>3. EndedTrade(status).status # "pending"
    BY DEF EndedTrade, NoTrade
  <2>4. /\ trade[t].status = "pending"
        /\ trade'[t].status # "pending"
        /\ \A o \in Trade : o # t => trade'[o] = trade[o]
        /\ UNCHANGED listing
    BY <1>1, <1>7, <2>3 DEF EndTrade
  <2> QED BY <2>2, <2>4, OfferEndKeepsEscrow
<1>8. CASE Elapse
  BY <1>8, ElapseKeeps, CardsKeepEscrow
<1>9. ASSUME NEW u \in User, NEW c \in Card, LockForMatch(u, c) PROVE EscrowMatches'
  <2>1. card' = Locking({c}, "match_locked", MatchRef) /\ card[c].lock = None
    BY <1>9 DEF LockForMatch, FreeFor
  <2>2. \A d \in Card :
           /\ d # c => card'[d] = card[d]
           /\ d = c => card'[d].status = "match_locked" /\ card'[d].lock = MatchRef
    BY <1>1, <2>1 DEF Locking, CardType
  <2>3. UNCHANGED <<listing, trade>>
    BY <1>9 DEF LockForMatch
  <2> QED BY <2>1, <2>2, <2>3, CardsKeepEscrow
<1>10. ASSUME NEW u \in User, NEW n \in Coins, SettleMatch(u, n) PROVE EscrowMatches'
  <2>1. PICK new \in SUBSET {c \in Card : card[c].status = "unminted"} : Settles(u, n, new)
    BY <1>10, Settlement
  <2>2. UNCHANGED <<listing, trade>>
    BY <1>10 DEF SettleMatch
  <2>3. \A c \in Card : card[c].status = "unminted" => card[c].lock = None
    BY <1>1 DEF LockBacked
  <2>4. \A c \in Card :
           \/ card'[c] = card[c]
           \/ /\ card[c].lock \in {None, MatchRef}
              /\ card'[c].status = "available" /\ card'[c].lock = None
    BY <2>1, <2>3 DEF Settles
  <2> QED BY <2>2, <2>4, CardsKeepEscrow
<1>11. CASE \E l \in Listing, u \in User, c \in Card, p \in Price : CreateListing(l, u, c, p)
  BY <1>11, CreateListingEscrow
<1>12. CASE \E t \in Trade, u, v \in User, n, m \in Coins, offered, requested \in SUBSET Card :
               CreateTrade(t, u, v, offered, requested, n, m)
  BY <1>12, CreateTradeEscrow
<1> QED BY <1>2, <1>3, <1>4, <1>5, <1>6, <1>7, <1>8, <1>9, <1>10, <1>11, <1>12 DEF Steps

\* Every active listing and every pending offer holds its cards, and no card is locked for
\* an offer that has ended: no order of purchases, cancellations, expiries and matches
\* loses or frees a card in escrow.
THEOREM EscrowHolds == Spec => []EscrowMatches
<1> QED BY InitEscrow, WellFormedAlways, NextEscrow, PTL DEF Spec

-----------------------------------------------------------------------------
(* Coins *)

\* The coins of u's pending offers, as a sum over all offers.
Reserved(u) == SumFunctionOnSet(Pending(u), Trade)

LEMMA ReservedIsSum == \A u \in User : SumFunction(Pending(u)) = Reserved(u)
BY DEF SumFunction, Pending, Reserved

LEMMA ReservedIsSumNext == \A u \in User : SumFunction(Pending(u))' = Reserved(u)'
BY DEF SumFunction, Pending, Reserved

LEMMA PendingType ==
    ASSUME WellFormed, NEW u \in User
    PROVE  \A t \in Trade : Pending(u)[t] \in Nat
BY DEF WellFormed, TypeOK, TradeType, Pending

\* An offer more, or less, changes the sum by its coins.
LEMMA ReservedChange ==
    ASSUME WellFormed, WellFormed', NEW u \in User, NEW t \in Trade,
           \A o \in Trade : o # t => trade'[o] = trade[o]
    PROVE  Reserved(u)' = Reserved(u) + Pending(u)'[t] - Pending(u)[t]
<1> DEFINE f == Pending(u)
           g == Pending(u)'
<1>1. (\A x \in Trade : f[x] \in Nat) /\ (\A x \in Trade : g[x] \in Nat)
  BY PendingType DEF WellFormed, TypeOK, TradeType, Pending
<1>2. \A x \in Trade : x # t => g[x] = f[x]
  BY DEF Pending
<1>3. Reserved(u) = SumFunctionOnSet(f, Trade) /\ Reserved(u)' = SumFunctionOnSet(g, Trade)
  BY DEF Reserved
<1> HIDE DEF f, g
<1>4. SumFunctionOnSet(g, Trade) = SumFunctionOnSet(f, Trade) + g[t] - f[t]
  <2>1. (\A x \in Trade : f[x] \in Int /\ g[x] \in Int) /\ IsFiniteSet(Trade)
    BY <1>1, ConstantFacts
  <2>2. SumFunctionOnSet(f, Trade) \in Int
    BY <2>1, SumInt
  <2>3. SumFunctionOnSet(g, Trade)
           = SumFunctionOnSet(f, Trade) + (IF t \in Trade THEN g[t] - f[t] ELSE 0)
    BY <1>2, <2>1, SumUpdate
  <2> QED BY <2>1, <2>2, <2>3
<1> QED BY <1>3, <1>4 DEF f, g

LEMMA ReservedSame ==
    ASSUME WellFormed, NEW u \in User,
           \A t \in Trade : /\ trade'[t].status = trade[t].status
                            /\ trade'[t].sender = trade[t].sender
                            /\ trade'[t].offeredCoins = trade[t].offeredCoins
    PROVE  Reserved(u)' = Reserved(u)
<1>1. Pending(u)' = Pending(u)
  BY DEF Pending
<1> QED BY <1>1 DEF Reserved

LEMMA ReservedInt ==
    ASSUME WellFormed, NEW u \in User
    PROVE  Reserved(u) \in Int
BY PendingType, ConstantFacts, SumInt DEF Reserved

\* What every step does to the locked coins, against the offers.
LEMMA NextLocked ==
    ASSUME WellFormed, [Next]_vars, NEW x \in User,
           wallet[x].locked = Reserved(x)
    PROVE  wallet'[x].locked = Reserved(x)'
<1>0. WellFormed'
  BY NextWellFormed
<1>1. /\ wallet \in [User -> WalletType] /\ \A u \in User : wallet[u] \in WalletType
      /\ trade \in [Trade -> TradeType] /\ Reserved(x) \in Int
  BY ReservedInt DEF WellFormed, TypeOK
<1>2. ASSUME wallet'[x].locked = wallet[x].locked, UNCHANGED trade
      PROVE  wallet'[x].locked = Reserved(x)'
  BY <1>2, ReservedSame
<1>3. ASSUME NEW r \in Request, GrantStarter(r) PROVE wallet'[x].locked = Reserved(x)'
  <2>1. PICK u \in User : Grants(r, u)
    BY <1>3, Grant
  <2>2. wallet'[x].locked = wallet[x].locked
    BY <1>1, <2>1 DEF Grants, NoWallet
  <2> QED BY <1>2, <1>3, <2>2 DEF GrantStarter
<1>4. ASSUME NEW r \in Request, BuyListing(r) PROVE wallet'[x].locked = Reserved(x)'
  <2>1. PICK l \in Listing, buyer, seller \in User, price, share, fee \in Nat :
              Buys(r, l, buyer, seller, price, share, fee)
    BY <1>4, Purchase
  <2>2. wallet'[x].locked = wallet[x].locked
    BY <1>1, <2>1 DEF Buys, WalletType
  <2> QED BY <1>2, <1>4, <2>2 DEF BuyListing
<1>5. ASSUME NEW r \in Request, AcceptTrade(r) PROVE wallet'[x].locked = Reserved(x)'
  <2>1. PICK t \in Trade, sender, receiver \in User, n, m \in Nat :
              Accepts(t, sender, receiver, n, m)
    BY <1>5, Acceptance
  <2>2. /\ wallet'[sender].locked = wallet[sender].locked - n
        /\ x # sender => wallet'[x].locked = wallet[x].locked
    BY <1>1, <2>1 DEF Accepts, WalletType
  <2>3. EndedTrade("accepted").status # "pending"
    BY DEF EndedTrade, NoTrade
  <2>4. \A o \in Trade : o # t => trade'[o] = trade[o]
    BY <1>1, <2>1 DEF Accepts
  <2>5. /\ Pending(x)'[t] = 0
        /\ Pending(x)[t] = IF x = sender THEN n ELSE 0
    BY <1>1, <2>1, <2>3 DEF Accepts, Pending
  <2>6. Reserved(x)' = Reserved(x) + Pending(x)'[t] - Pending(x)[t]
    BY <1>0, <2>4, ReservedChange
  <2> QED BY <1>1, <2>2, <2>5, <2>6
<1>6. ASSUME NEW t \in Trade, NEW u \in User, NEW v \in User, NEW n \in Coins, NEW m \in Coins,
             NEW offered \in SUBSET Card, NEW requested \in SUBSET Card,
             CreateTrade(t, u, v, offered, requested, n, m)
      PROVE  wallet'[x].locked = Reserved(x)'
  <2>1. wallet' = [wallet EXCEPT ![u] = [wallet[u] EXCEPT !.locked = wallet[u].locked + n]]
    BY <1>6 DEF CreateTrade
  <2>2. /\ wallet'[u].locked = wallet[u].locked + n
        /\ x # u => wallet'[x].locked = wallet[x].locked
    BY <1>1, <2>1 DEF WalletType
  <2>3. /\ trade[t].status # "pending"
        /\ trade'[t].status = "pending" /\ trade'[t].sender = u /\ trade'[t].offeredCoins = n
        /\ \A o \in Trade : o # t => trade'[o] = trade[o]
    BY <1>1, <1>6 DEF CreateTrade
  <2>4. /\ Pending(x)'[t] = (IF x = u THEN n ELSE 0)
        /\ Pending(x)[t] = 0
    BY <2>3 DEF Pending
  <2>5. Reserved(x)' = Reserved(x) + Pending(x)'[t] - Pending(x)[t]
    BY <1>0, <2>3, ReservedChange
  <2>6. n \in Nat
    BY ConstantFacts
  <2> QED BY <1>1, <2>2, <2>4, <2>5, <2>6
<1>7. ASSUME NEW t \in Trade, NEW status \in {"rejected", "cancelled", "expired"},
             EndTrade(t, status)
      PROVE  wallet'[x].locked = Reserved(x)'
  <2>1. PICK sender \in User, n \in Nat : EndsOffer(t, status, sender, n)
    BY <1>7, OfferEnd
  <2>2. /\ wallet'[sender].locked = wallet[sender].locked - n
        /\ x # sender => wallet'[x].locked = wallet[x].locked
    BY <1>1, <2>1 DEF EndsOffer, WalletType
  <2>3. EndedTrade(status).status # "pending"
    BY DEF EndedTrade, NoTrade
  <2>4. \A o \in Trade : o # t => trade'[o] = trade[o]
    BY <1>1, <2>1 DEF EndsOffer
  <2>5. /\ Pending(x)'[t] = 0
        /\ Pending(x)[t] = IF x = sender THEN n ELSE 0
    BY <1>1, <2>1, <2>3 DEF EndsOffer, Pending
  <2>6. Reserved(x)' = Reserved(x) + Pending(x)'[t] - Pending(x)[t]
    BY <1>0, <2>4, ReservedChange
  <2> QED BY <1>1, <2>2, <2>5, <2>6
<1>8. CASE Elapse
  BY <1>8, ElapseKeeps, ReservedSame
<1>9. ASSUME NEW u \in User, NEW n \in Coins, SettleMatch(u, n)
      PROVE  wallet'[x].locked = Reserved(x)'
  <2>1. PICK new \in SUBSET {c \in Card : card[c].status = "unminted"} : Settles(u, n, new)
    BY <1>9, Settlement
  <2>2. wallet'[x].locked = wallet[x].locked
    BY <1>1, <2>1 DEF Settles, WalletType
  <2> QED BY <1>2, <1>9, <2>2 DEF SettleMatch
<1>10. ASSUME \/ OnlyRequests
              \/ \E l \in Listing, u \in User, c \in Card, p \in Price : CreateListing(l, u, c, p)
              \/ \E l \in Listing, status \in {"cancelled", "expired"} : EndListing(l, status)
              \/ \E u \in User, c \in Card : LockForMatch(u, c)
       PROVE  wallet'[x].locked = Reserved(x)'
  BY <1>2, <1>10 DEF OnlyRequests, CreateListing, EndListing, LockForMatch
<1> QED BY <1>3, <1>4, <1>5, <1>6, <1>7, <1>8, <1>9, <1>10, EveryStep DEF Steps

\* The coins locked in a wallet are exactly those of its owner's pending offers: every way
\* an offer can end gives back, or pays out, what it reserved, once.
THEOREM LockedHolds == Spec => []LockedBacksOffers
<1>1. Init => LockedBacksOffers
  <2> SUFFICES ASSUME Init, NEW u \in User PROVE wallet[u].locked = SumFunction(Pending(u))
    BY DEF LockedBacksOffers
  <2>1. wallet[u].locked = 0
    BY DEF Init, NoWallet
  <2>2. \A t \in Trade : Pending(u)[t] = 0
    BY DEF Init, NoTrade, Pending
  <2>3. Reserved(u) = 0
    BY <2>2, ConstantFacts, SumZero DEF Reserved
  <2> QED BY <2>1, <2>3, ReservedIsSum
<1>2. WellFormed /\ LockedBacksOffers /\ [Next]_vars => LockedBacksOffers'
  BY NextLocked, ReservedIsSum, ReservedIsSumNext DEF LockedBacksOffers
<1> QED BY <1>1, <1>2, WellFormedAlways, PTL DEF Spec

Open == {u \in User : wallet[u].open}
Total == SumFunctionOnSet(ledger, User)

LEMMA TotalFacts ==
    ASSUME WellFormed
    PROVE  /\ SumFunction(ledger) = Total
           /\ Total \in Int
           /\ IsFiniteSet(Open) /\ Cardinality(Open) \in Nat
           /\ \A u \in User : ledger[u] \in Int /\ wallet[u] \in WalletType
           /\ ledger \in [User -> Int] /\ wallet \in [User -> WalletType]
           /\ sink \in Nat /\ rewarded \in Nat
<1>1. /\ ledger \in [User -> Int] /\ wallet \in [User -> WalletType]
      /\ \A u \in User : ledger[u] \in Int /\ wallet[u] \in WalletType
      /\ sink \in Nat /\ rewarded \in Nat
  BY DEF WellFormed, TypeOK
<1>2. SumFunction(ledger) = Total
  BY <1>1 DEF SumFunction, Total
<1>3. Total \in Int
  BY <1>1, ConstantFacts, SumInt DEF Total
<1>4. IsFiniteSet(Open)
  BY ConstantFacts, FS_Subset DEF Open
<1> QED BY <1>1, <1>2, <1>3, <1>4, FS_CardinalityType

LEMMA TotalChange ==
    ASSUME WellFormed, NEW u \in User, ledger'[u] \in Int,
           \A x \in User : x # u => ledger'[x] = ledger[x]
    PROVE  Total' = Total + ledger'[u] - ledger[u]
<1> DEFINE f == ledger
           g == ledger'
<1>1. /\ (\A x \in User : f[x] \in Int) /\ g[u] \in Int /\ IsFiniteSet(User)
      /\ \A x \in User : x # u => g[x] = f[x]
  BY TotalFacts, ConstantFacts
<1>2. \A x \in User : f[x] \in Int /\ g[x] \in Int
  BY <1>1
<1>3. Total = SumFunctionOnSet(f, User) /\ Total' = SumFunctionOnSet(g, User)
  BY DEF Total
<1> HIDE DEF f, g
<1>4. SumFunctionOnSet(g, User) = SumFunctionOnSet(f, User) + g[u] - f[u]
  <2>1. SumFunctionOnSet(f, User) \in Int
    BY <1>1, SumInt
  <2>2. SumFunctionOnSet(g, User)
           = SumFunctionOnSet(f, User) + (IF u \in User THEN g[u] - f[u] ELSE 0)
    BY <1>1, <1>2, SumUpdate
  <2> QED BY <1>2, <2>1, <2>2
<1> QED BY <1>3, <1>4 DEF f, g

LEMMA TotalTransfer ==
    ASSUME WellFormed, NEW u \in User, NEW v \in User, u # v,
           ledger'[u] \in Int, ledger'[v] \in Int,
           \A x \in User : x # u /\ x # v => ledger'[x] = ledger[x]
    PROVE  Total' = Total + (ledger'[u] - ledger[u]) + (ledger'[v] - ledger[v])
<1> DEFINE f == ledger
           g == ledger'
<1>1. /\ (\A x \in User : f[x] \in Int) /\ g[u] \in Int /\ g[v] \in Int /\ IsFiniteSet(User)
      /\ \A x \in User : x # u /\ x # v => g[x] = f[x]
  BY TotalFacts, ConstantFacts
<1>2. Total = SumFunctionOnSet(f, User) /\ Total' = SumFunctionOnSet(g, User)
  BY DEF Total
<1> HIDE DEF f, g
<1>3. SumFunctionOnSet(g, User)
         = SumFunctionOnSet(f, User) + (g[u] - f[u]) + (g[v] - f[v])
  BY <1>1, SumUpdateTwo
<1> QED BY <1>2, <1>3 DEF f, g

\* The books: every balance is explained, and the sum is.
Books ==
    /\ LedgerExplains
    /\ Total = StarterBalance * Cardinality(Open) + rewarded - sink

LEMMA BooksAreConserved == WellFormed => (CoinsConserved <=> Books)
BY TotalFacts DEF CoinsConserved, Books, Open

LEMMA BooksAreConservedNext == WellFormed' => (CoinsConserved' <=> Books')
<1> SUFFICES ASSUME WellFormed' PROVE CoinsConserved' <=> Books'
  OBVIOUS
<1>1. ledger' \in [User -> Int]
  BY DEF WellFormed, TypeOK
<1>2. SumFunction(ledger') = Total'
  BY <1>1 DEF SumFunction, Total
<1> QED BY <1>2 DEF CoinsConserved, Books, Open, LedgerExplains

LEMMA SameBooks ==
    ASSUME Books, UNCHANGED <<ledger, sink, rewarded>>,
           \A u \in User : /\ wallet'[u].balance = wallet[u].balance
                           /\ wallet'[u].open = wallet[u].open
    PROVE  Books'
<1>1. Open' = Open
  BY DEF Open
<1> QED BY <1>1 DEF Books, Total, LedgerExplains

LEMMA NextBooks ==
    ASSUME WellFormed, Books, [Next]_vars
    PROVE  Books'
<1> USE TotalFacts
<1>1. \A u \in User : wallet[u].balance = ledger[u]
  BY DEF Books, LedgerExplains
<1>2. Total = StarterBalance * Cardinality(Open) + rewarded - sink
  BY DEF Books
<1>3. ASSUME NEW r \in Request, GrantStarter(r) PROVE Books'
  <2>1. PICK u \in User : Grants(r, u)
    BY <1>3, Grant
  <2>2. UNCHANGED <<sink, rewarded>>
    BY <1>3 DEF GrantStarter
  <2>3. CASE wallet' = wallet /\ ledger' = ledger
    BY <2>2, <2>3, SameBooks
  <2>4. CASE /\ ~wallet[u].open /\ wallet[u] = NoWallet
             /\ wallet' = [wallet EXCEPT
                   ![u] = [open |-> TRUE, balance |-> StarterBalance, locked |-> 0]]
             /\ ledger' = [ledger EXCEPT ![u] = ledger[u] + StarterBalance]
    <3>1. wallet[u].balance = 0
      BY <2>4 DEF NoWallet
    <3>2. LedgerExplains'
      BY <1>1, <2>4, <3>1, ConstantFacts DEF LedgerExplains
    <3>3. Open' = Open \cup {u} /\ u \notin Open
      BY <2>4 DEF Open
    <3>4. Cardinality(Open') = Cardinality(Open) + 1
      BY <3>3, FS_AddElement
    <3>5. Total' = Total + StarterBalance
      <4>1. /\ \A v \in User : v # u => ledger'[v] = ledger[v]
            /\ ledger'[u] = ledger[u] + StarterBalance
            /\ ledger'[u] \in Int
        BY <2>4, ConstantFacts
      <4>2. Total' = Total + ledger'[u] - ledger[u]
        BY <4>1, TotalChange
      <4> QED BY <4>1, <4>2, ConstantFacts
    <3>6. StarterBalance * (Cardinality(Open) + 1)
             = StarterBalance * Cardinality(Open) + StarterBalance
      <4> DEFINE n == Cardinality(Open)
      <4>1. n \in Int /\ StarterBalance \in Int
        BY ConstantFacts
      <4> HIDE DEF n
      <4>2. StarterBalance * (n + 1) = StarterBalance * n + StarterBalance
        BY <4>1
      <4> QED BY <4>2 DEF n
    <3> DEFINE p == StarterBalance * Cardinality(Open)
    <3>7. p \in Int
      BY ConstantFacts
    <3>8. Total' = p + StarterBalance + rewarded' - sink'
      <4> HIDE DEF p
      <4>1. Total = p + rewarded - sink
        BY <1>2 DEF p
      <4> QED BY <2>2, <3>5, <3>7, <4>1, ConstantFacts
    <3> QED BY <3>2, <3>4, <3>6, <3>8 DEF Books
  <2> QED BY <2>1, <2>3, <2>4 DEF Grants
<1>4. ASSUME NEW r \in Request, BuyListing(r) PROVE Books'
  <2>1. PICK l \in Listing, buyer, seller \in User, price, share, fee \in Nat :
              Buys(r, l, buyer, seller, price, share, fee)
    BY <1>4, Purchase
  <2>2. rewarded' = rewarded
    BY <1>4 DEF BuyListing
  <2>3. /\ wallet'[buyer].balance = wallet[buyer].balance - price
        /\ wallet'[seller].balance = wallet[seller].balance + share
        /\ \A u \in User : wallet'[u].open = wallet[u].open
        /\ \A u \in User : u # buyer /\ u # seller => wallet'[u] = wallet[u]
    BY <2>1 DEF Buys, WalletType
  <2>4. /\ ledger'[buyer] = ledger[buyer] - price
        /\ ledger'[seller] = ledger[seller] + share
        /\ \A u \in User : u # buyer /\ u # seller => ledger'[u] = ledger[u]
    BY <2>1 DEF Buys
  <2>5. LedgerExplains'
    BY <1>1, <2>3, <2>4 DEF LedgerExplains
  <2>6. Open' = Open
    BY <2>3 DEF Open
  <2>7. Total' = Total - price + share
    <3>1. Total' = Total + (ledger'[buyer] - ledger[buyer])
                        + (ledger'[seller] - ledger[seller])
      <4>1. ledger'[buyer] \in Int /\ ledger'[seller] \in Int /\ buyer # seller
        BY <2>1, <2>4 DEF Buys
      <4> QED BY <2>4, <4>1, TotalTransfer
    <3> QED BY <2>4, <3>1
  <2>8. sink' = sink + fee /\ share + fee = price
    BY <2>1 DEF Buys
  <2> DEFINE p == StarterBalance * Cardinality(Open)
  <2>9. p \in Int
    BY ConstantFacts
  <2>10. Total' = p + rewarded' - sink'
    <3> HIDE DEF p
    <3>1. Total = p + rewarded - sink
      BY <1>2 DEF p
    <3> QED BY <2>2, <2>7, <2>8, <2>9, <3>1
  <2> QED BY <2>5, <2>6, <2>10 DEF Books
<1>5. ASSUME NEW r \in Request, AcceptTrade(r) PROVE Books'
  <2>1. PICK t \in Trade, sender, receiver \in User, n, m \in Nat :
              Accepts(t, sender, receiver, n, m)
    BY <1>5, Acceptance
  <2>2. UNCHANGED <<sink, rewarded>>
    BY <1>5 DEF AcceptTrade, history
  <2>3. /\ wallet'[sender].balance = wallet[sender].balance + (m - n)
        /\ wallet'[receiver].balance = wallet[receiver].balance - (m - n)
        /\ \A u \in User : wallet'[u].open = wallet[u].open
        /\ \A u \in User : u # sender /\ u # receiver => wallet'[u] = wallet[u]
    BY <2>1 DEF Accepts, WalletType
  <2>4. /\ ledger'[sender] = ledger[sender] + (m - n)
        /\ ledger'[receiver] = ledger[receiver] - (m - n)
        /\ \A u \in User : u # sender /\ u # receiver => ledger'[u] = ledger[u]
    BY <2>1 DEF Accepts
  <2>5. LedgerExplains'
    BY <1>1, <2>3, <2>4 DEF LedgerExplains
  <2>6. Open' = Open
    BY <2>3 DEF Open
  <2>7. Total' = Total
    <3>1. Total' = Total + (ledger'[sender] - ledger[sender])
                        + (ledger'[receiver] - ledger[receiver])
      <4>1. ledger'[sender] \in Int /\ ledger'[receiver] \in Int /\ sender # receiver
        BY <2>1, <2>4 DEF Accepts
      <4> QED BY <2>4, <4>1, TotalTransfer
    <3> QED BY <2>4, <3>1
  <2> QED BY <1>2, <2>2, <2>5, <2>6, <2>7 DEF Books
<1>6. ASSUME NEW u \in User, NEW n \in Coins, SettleMatch(u, n) PROVE Books'
  <2>1. PICK new \in SUBSET {c \in Card : card[c].status = "unminted"} : Settles(u, n, new)
    BY <1>6, Settlement
  <2>2. sink' = sink /\ n \in Nat
    BY <1>6, ConstantFacts DEF SettleMatch
  <2>3. /\ wallet'[u].balance = wallet[u].balance + n
        /\ \A v \in User : wallet'[v].open = wallet[v].open
        /\ \A v \in User : v # u => wallet'[v] = wallet[v]
    BY <2>1 DEF Settles, WalletType
  <2>4. /\ ledger'[u] = ledger[u] + n /\ ledger'[u] \in Int
        /\ \A v \in User : v # u => ledger'[v] = ledger[v]
    BY <2>1, <2>2 DEF Settles
  <2>5. LedgerExplains'
    BY <1>1, <2>3, <2>4 DEF LedgerExplains
  <2>6. Open' = Open
    BY <2>3 DEF Open
  <2>7. Total' = Total + n
    <3>1. Total' = Total + ledger'[u] - ledger[u]
      BY <2>4, TotalChange
    <3> QED BY <2>2, <2>4, <3>1
  <2>8. rewarded' = rewarded + n
    BY <2>1 DEF Settles
  <2> DEFINE p == StarterBalance * Cardinality(Open)
  <2>9. p \in Int
    BY ConstantFacts
  <2>10. Total' = p + rewarded' - sink'
    <3> HIDE DEF p
    <3>1. Total = p + rewarded - sink
      BY <1>2 DEF p
    <3> QED BY <2>2, <2>7, <2>8, <2>9, <3>1
  <2> QED BY <2>5, <2>6, <2>10 DEF Books
<1>7. ASSUME NEW t \in Trade, NEW u \in User, NEW v \in User, NEW n \in Coins, NEW m \in Coins,
             NEW offered \in SUBSET Card, NEW requested \in SUBSET Card,
             CreateTrade(t, u, v, offered, requested, n, m)
      PROVE  Books'
  <2>1. wallet' = [wallet EXCEPT ![u] = [wallet[u] EXCEPT !.locked = wallet[u].locked + n]]
    BY <1>7 DEF CreateTrade
  <2> QED BY <1>7, <2>1, SameBooks DEF CreateTrade, WalletType, history
<1>8. ASSUME NEW t \in Trade, NEW status, EndTrade(t, status) PROVE Books'
  <2>1. PICK sender \in User, n \in Nat : EndsOffer(t, status, sender, n)
    BY <1>8, OfferEnd
  <2> QED BY <1>8, <2>1, SameBooks DEF EndsOffer, EndTrade, WalletType, history
<1>9. ASSUME \/ OnlyRequests \/ Elapse
             \/ \E l \in Listing, u \in User, c \in Card, p \in Price : CreateListing(l, u, c, p)
             \/ \E l \in Listing, status \in {"cancelled", "expired"} : EndListing(l, status)
             \/ \E u \in User, c \in Card : LockForMatch(u, c)
      PROVE  Books'
  <2>1. UNCHANGED <<wallet, ledger, sink, rewarded>>
    BY <1>9 DEF OnlyRequests, Elapse, CreateListing, EndListing, LockForMatch, history
  <2> QED BY <2>1, SameBooks
<1> QED BY <1>3, <1>4, <1>5, <1>6, <1>7, <1>8, <1>9, EveryStep DEF Steps

\* Purchases, trades and rewards create and destroy no coins but the fee: the ledger of
\* a user explains the balance, and all ledgers add up to the coins that were granted and
\* won less the fees.
THEOREM CoinsConservedHolds == Spec => []CoinsConserved
<1>1. Init => Books
  <2> SUFFICES ASSUME Init PROVE Books
    OBVIOUS
  <2>1. \A u \in User : wallet[u].balance = 0 /\ ledger[u] = 0 /\ ~wallet[u].open
    BY DEF Init, NoWallet
  <2>2. Open = {} /\ LedgerExplains
    BY <2>1 DEF Open, LedgerExplains
  <2>3. Total = 0
    BY <2>1, ConstantFacts, SumZero DEF Total
  <2>4. Cardinality(Open) = 0
    BY <2>2, FS_EmptySet
  <2> QED BY <2>2, <2>3, <2>4, ConstantFacts DEF Books, Init
<1>2. Init => CoinsConserved
  BY <1>1, InitWellFormed, BooksAreConserved
<1>3. WellFormed /\ WellFormed' /\ CoinsConserved /\ [Next]_vars => CoinsConserved'
  BY NextBooks, BooksAreConserved, BooksAreConservedNext
<1> QED BY <1>2, <1>3, WellFormedAlways, PTL DEF Spec

-----------------------------------------------------------------------------
(* The starter grant *)

\* An open wallet, with all that came with it.
StarterBooked ==
    \A u \in User : wallet[u].open => /\ Cardinality(StarterOf[u]) \in Nat
                                      /\ granted[u] >= Cardinality(StarterOf[u])

LEMMA SameStarters ==
    ASSUME StarterBooked, UNCHANGED granted,
           \A u \in User : wallet'[u].open = wallet[u].open
    PROVE  StarterBooked'
BY DEF StarterBooked

LEMMA NextStarterBooked == WellFormed /\ StarterBooked /\ [Next]_vars => StarterBooked'
<1> SUFFICES ASSUME WellFormed, StarterBooked, Steps PROVE StarterBooked'
  BY EveryStep
<1>1. /\ wallet \in [User -> WalletType] /\ \A u \in User : wallet[u] \in WalletType
      /\ granted \in [User -> Nat]
  BY DEF WellFormed, TypeOK
<1>2. ASSUME NEW r \in Request, GrantStarter(r) PROVE StarterBooked'
  <2>1. PICK u \in User : Grants(r, u)
    BY <1>2, Grant
  <2> DEFINE k == Cardinality(request[r].missing)
  <2>2. /\ k \in Nat /\ granted'[u] = granted[u] + k
        /\ \A v \in User : v # u => granted'[v] = granted[v]
    BY <1>1, <2>1 DEF Grants
  <2>3. /\ \A v \in User : v # u => wallet'[v] = wallet[v]
        /\ \/ wallet'[u] = wallet[u]
           \/ k = Cardinality(StarterOf[u])
    BY <1>1, <2>1 DEF Grants
  <2> HIDE DEF k
  <2>4. ASSUME wallet[u].open
        PROVE  /\ Cardinality(StarterOf[u]) \in Nat
               /\ granted'[u] >= Cardinality(StarterOf[u])
    BY <1>1, <2>2, <2>4 DEF StarterBooked
  <2>5. ASSUME k = Cardinality(StarterOf[u])
        PROVE  /\ Cardinality(StarterOf[u]) \in Nat
               /\ granted'[u] >= Cardinality(StarterOf[u])
    BY <1>1, <2>2, <2>5
  <2> QED BY <2>2, <2>3, <2>4, <2>5 DEF StarterBooked
<1>3. ASSUME NEW r \in Request, BuyListing(r) PROVE StarterBooked'
  <2>1. PICK l \in Listing, buyer, seller \in User, price, share, fee \in Nat :
              Buys(r, l, buyer, seller, price, share, fee)
    BY <1>3, Purchase
  <2>2. \A u \in User : wallet'[u].open = wallet[u].open
    BY <1>1, <2>1 DEF Buys, WalletType
  <2> QED BY <1>3, <2>2, SameStarters DEF BuyListing
<1>4. ASSUME NEW r \in Request, AcceptTrade(r) PROVE StarterBooked'
  <2>1. PICK t \in Trade, sender, receiver \in User, n, m \in Nat :
              Accepts(t, sender, receiver, n, m)
    BY <1>4, Acceptance
  <2>2. \A u \in User : wallet'[u].open = wallet[u].open
    BY <1>1, <2>1 DEF Accepts, WalletType
  <2> QED BY <1>4, <2>2, SameStarters DEF AcceptTrade, history
<1>5. ASSUME NEW t \in Trade, NEW u \in User, NEW v \in User, NEW n \in Coins, NEW m \in Coins,
             NEW offered \in SUBSET Card, NEW requested \in SUBSET Card,
             CreateTrade(t, u, v, offered, requested, n, m)
      PROVE  StarterBooked'
  <2>1. wallet' = [wallet EXCEPT ![u] = [wallet[u] EXCEPT !.locked = wallet[u].locked + n]]
    BY <1>5 DEF CreateTrade
  <2>2. \A x \in User : wallet'[x].open = wallet[x].open
    BY <1>1, <2>1 DEF WalletType
  <2> QED BY <1>5, <2>2, SameStarters DEF CreateTrade, history
<1>6. ASSUME NEW t \in Trade, NEW status, EndTrade(t, status) PROVE StarterBooked'
  <2>1. PICK sender \in User, n \in Nat : EndsOffer(t, status, sender, n)
    BY <1>6, OfferEnd
  <2>2. \A x \in User : wallet'[x].open = wallet[x].open
    BY <1>1, <2>1 DEF EndsOffer, WalletType
  <2> QED BY <1>6, <2>2, SameStarters DEF EndTrade, history
<1>7. ASSUME NEW u \in User, NEW n \in Coins, SettleMatch(u, n) PROVE StarterBooked'
  <2>1. PICK new \in SUBSET {c \in Card : card[c].status = "unminted"} : Settles(u, n, new)
    BY <1>7, Settlement
  <2>2. \A x \in User : wallet'[x].open = wallet[x].open
    BY <1>1, <2>1 DEF Settles, WalletType
  <2> QED BY <1>7, <2>2, SameStarters DEF SettleMatch
<1>8. ASSUME \/ OnlyRequests \/ Elapse
             \/ \E l \in Listing, u \in User, c \in Card, p \in Price : CreateListing(l, u, c, p)
             \/ \E l \in Listing, status \in {"cancelled", "expired"} : EndListing(l, status)
             \/ \E u \in User, c \in Card : LockForMatch(u, c)
      PROVE  StarterBooked'
  <2>1. UNCHANGED <<wallet, granted>>
    BY <1>8 DEF OnlyRequests, Elapse, CreateListing, EndListing, LockForMatch, history
  <2> QED BY <2>1, SameStarters
<1> QED BY <1>2, <1>3, <1>4, <1>5, <1>6, <1>7, <1>8 DEF Steps

\* Whoever has a wallet was given the complete starter set, even if several requests ran
\* EnsureStarter at once or one failed half-way.
THEOREM StarterCompleteHolds == Spec => []StarterComplete
<1>1. Init => StarterBooked
  BY DEF Init, NoWallet, StarterBooked
<1>2. StarterBooked => StarterComplete
  BY DEF StarterBooked, StarterComplete
<1> QED BY <1>1, <1>2, WellFormedAlways, NextStarterBooked, PTL DEF Spec

-----------------------------------------------------------------------------
(* The refinement of Ownership *)

LEMMA OwnershipInit == Init => O!Init
BY DEF Init, O!Init, NoCard

\* A pledge is held on the cards that its listing, offer or match names.
LEMMA PledgedToListing ==
    ASSUME WellFormed, EscrowMatches, NEW l \in Listing, listing[l].status = "active"
    PROVE  O!PledgedTo(l) = {listing[l].card}
<1>1. \A c \in Card : LockBacked(c)
  BY EscrowParts
<1>2. listing[l].card \in Card /\ card[listing[l].card].lock = l
  BY EscrowParts DEF ListingsHeld, EscrowedListing, Held, WellFormed, ListingsWellFormed
<1>3. ASSUME NEW c \in Card, card[c].lock = l PROVE c = listing[l].card
  <2>1. card[c].status \in {"unminted", "available", "match_locked", "market_escrow", "trade_escrow"}
    BY DEF WellFormed, TypeOK, CardType
  <2>2. card[c].status = "market_escrow"
    BY <1>1, <1>3, <2>1, ConstantFacts DEF LockBacked
  <2> QED BY <1>1, <1>3, <2>2 DEF LockBacked, OpenListing
<1> QED BY <1>2, <1>3 DEF O!PledgedTo

LEMMA PledgedToOffer ==
    ASSUME WellFormed, EscrowMatches, NEW t \in Trade, trade[t].status = "pending"
    PROVE  O!PledgedTo(t) = trade[t].offered
<1>1. \A c \in Card : LockBacked(c)
  BY EscrowParts
<1>2. \A c \in trade[t].offered : c \in Card /\ card[c].lock = t
  BY EscrowParts DEF OffersHeld, OfferedEscrowed, Held, WellFormed, TypeOK, TradeType
<1>3. ASSUME NEW c \in Card, card[c].lock = t PROVE c \in trade[t].offered
  <2>1. card[c].status \in {"unminted", "available", "match_locked", "market_escrow", "trade_escrow"}
    BY DEF WellFormed, TypeOK, CardType
  <2>2. card[c].status = "trade_escrow"
    BY <1>1, <1>3, <2>1, ConstantFacts DEF LockBacked
  <2> QED BY <1>1, <1>3, <2>2 DEF LockBacked, OpenOffer
<1> QED BY <1>2, <1>3 DEF O!PledgedTo

LEMMA OwnershipStutters ==
    ASSUME card' = card
    PROVE  UNCHANGED O!ownershipVars
BY DEF O!ownershipVars

\* The abstract steps in terms of the card documents.
LEMMA AsMint ==
    ASSUME NEW cards \in SUBSET Card, NEW u \in User,
           \A c \in cards : card[c].owner = None,
           \A c \in Card : /\ card'[c].owner = IF c \in cards THEN u ELSE card[c].owner
                           /\ card'[c].lock = card[c].lock
    PROVE  O!Next
<1>1. O!Mint(cards, u)
  BY DEF O!Mint
<1> QED BY <1>1 DEF O!Next

LEMMA AsPledge ==
    ASSUME NEW cards \in SUBSET Card, NEW u \in User, NEW p \in Ref,
           \A c \in cards : card[c].owner = u /\ card[c].lock = None,
           \A c \in Card : /\ card'[c].owner = card[c].owner
                           /\ card'[c].lock = IF c \in cards THEN p ELSE card[c].lock
    PROVE  O!Next
<1>1. O!MakePledge(cards, u, p)
  BY DEF O!MakePledge, O!Free
<1> QED BY <1>1 DEF O!Next

LEMMA AsGiveUp ==
    ASSUME NEW cards \in SUBSET Card, NEW u \in User, NEW p \in Ref,
           \A c \in cards : card[c].owner = None,
           \A c \in Card :
              /\ card'[c].owner = IF c \in cards THEN u ELSE card[c].owner
              /\ card'[c].lock = IF c \in O!PledgedTo(p) THEN None ELSE card[c].lock
    PROVE  O!Next
<1>1. O!GiveUp(p, cards, u)
  BY DEF O!GiveUp
<1> QED BY <1>1 DEF O!Next

LEMMA AsRelease ==
    ASSUME NEW u \in User, NEW p \in Ref, NEW pledged, O!PledgedTo(p) = pledged,
           \A c \in Card :
              /\ card'[c].owner = card[c].owner
              /\ card'[c].lock = IF c \in pledged THEN None ELSE card[c].lock
    PROVE  O!Next
<1> DEFINE new == {}
<1>1. /\ new \in SUBSET Card
      /\ \A c \in new : card[c].owner = None
      /\ \A c \in Card : card'[c].owner = IF c \in new THEN u ELSE card[c].owner
  OBVIOUS
<1> HIDE DEF new
<1> QED BY <1>1, AsGiveUp

LEMMA AsHonour ==
    ASSUME NEW p \in Ref, NEW u \in User, NEW v \in User, NEW return \in SUBSET Card,
           NEW pledged, O!PledgedTo(p) = pledged,
           \A c \in pledged : c \in Card /\ card[c].owner = u,
           \A c \in return : card[c].owner = v /\ card[c].lock = None,
           \A c \in Card :
              /\ card'[c].owner = IF c \in pledged THEN v
                                  ELSE IF c \in return THEN u ELSE card[c].owner
              /\ card'[c].lock = IF c \in pledged THEN None ELSE card[c].lock
    PROVE  O!Next
<1>1. O!Honour(p, u, v, return)
  <2>1. \A c \in return : O!Free(c, v)
    BY DEF O!Free
  <2> HIDE DEF O!PledgedTo
  <2> QED BY <2>1 DEF O!Honour
<1> QED BY <1>1 DEF O!Next

LEMMA AsSale ==
    ASSUME NEW p \in Ref, NEW u \in User, NEW v \in User, NEW x \in Card,
           NEW pledged, O!PledgedTo(p) = pledged, pledged = {x},
           card[x].owner = u, card'[x].owner = v, card'[x].lock = None,
           \A c \in Card : c # x => card'[c] = card[c]
    PROVE  O!Next
<1> DEFINE return == {}
<1>1. return \in SUBSET Card
  OBVIOUS
<1>2. \A c \in pledged : c \in Card /\ card[c].owner = u
  OBVIOUS
<1>3. ASSUME NEW c \in Card
      PROVE  /\ card'[c].owner = IF c \in pledged THEN v
                                 ELSE IF c \in return THEN u ELSE card[c].owner
             /\ card'[c].lock = IF c \in pledged THEN None ELSE card[c].lock
  OBVIOUS
<1>4. \A c \in return : O!Free(c, v)
  OBVIOUS
<1> HIDE DEF return
<1>5. O!Honour(p, u, v, return)
  BY <1>2, <1>3, <1>4 DEF O!Honour
<1> QED BY <1>1, <1>5 DEF O!Next

LEMMA OwnershipNext ==
    WellFormed /\ EscrowMatches /\ [Next]_vars => [O!Next]_(O!ownershipVars)
<1> SUFFICES ASSUME WellFormed, EscrowMatches, Steps
             PROVE  O!Next \/ UNCHANGED O!ownershipVars
  BY EveryStep
<1>1. /\ card \in [Card -> CardType] /\ \A c \in Card : card[c] \in CardType
      /\ \A c \in Card : LockBacked(c)
      /\ \A t \in Trade : /\ trade[t].offered \in SUBSET Card
                          /\ trade[t].requested \in SUBSET Card
      /\ \A c \in Card : card[c].status = "unminted" =>
                            card[c].owner = None /\ card[c].lock = None
  <2>1. \A c \in Card : LockBacked(c)
    BY EscrowParts
  <2> QED BY <2>1 DEF WellFormed, TypeOK, TradeType, OwnersHaveWallets, LockBacked
<1>2. ASSUME NEW r \in Request, GrantStarter(r) PROVE O!Next
  <2>1. PICK u \in User : Grants(r, u)
    BY <1>2, Grant
  <2> DEFINE new == {c \in Card : card'[c] # card[c]}
  <2>2. \A c \in new : card[c].owner = None
    BY <1>1, <2>1 DEF Grants
  <2>3. \A c \in Card : /\ card'[c].owner = IF c \in new THEN u ELSE card[c].owner
                        /\ card'[c].lock = card[c].lock
    BY <1>1, <2>1 DEF Grants
  <2>4. new \in SUBSET Card
    OBVIOUS
  <2> HIDE DEF new
  <2> QED BY <2>2, <2>3, <2>4, AsMint
<1>3. ASSUME NEW r \in Request, BuyListing(r) PROVE O!Next
  <2>1. PICK l \in Listing, buyer, seller \in User, price, share, fee \in Nat :
              Buys(r, l, buyer, seller, price, share, fee)
    BY <1>3, Purchase
  <2> DEFINE x == listing[l].card
  <2>2. O!PledgedTo(l) = {x} /\ l \in Ref
    BY <2>1, PledgedToListing DEF Buys, Ref
  <2>3. x \in Card /\ card[x].owner = seller
    BY <2>1 DEF Buys, Held
  <2>4. /\ card'[x].owner = buyer /\ card'[x].lock = None
        /\ \A c \in Card : c # x => card'[c] = card[c]
    BY <1>1, <2>1, FreedCard DEF Buys
  <2> DEFINE pledged == {x}
  <2>5. O!PledgedTo(l) = pledged /\ pledged = {x}
    BY <2>2
  <2> HIDE DEF x, pledged
  <2> QED BY <2>1, <2>2, <2>3, <2>4, <2>5, AsSale
<1>4. ASSUME NEW r \in Request, AcceptTrade(r) PROVE O!Next
  <2>1. PICK t \in Trade, sender, receiver \in User, n, m \in Nat :
              Accepts(t, sender, receiver, n, m)
    BY <1>4, Acceptance
  <2>2. O!PledgedTo(t) = trade[t].offered /\ t \in Ref
    BY <2>1, PledgedToOffer DEF Accepts, Ref
  <2>3. \A c \in trade[t].offered : c \in Card /\ card[c].owner = sender
    BY <1>1, <2>1 DEF Accepts, OfferedEscrowed, Held
  <2>4. \A c \in trade[t].requested : card[c].owner = receiver /\ card[c].lock = None
    BY <2>1 DEF Accepts, RequestedFree, FreeCards, FreeFor
  <2>5. ASSUME NEW c \in Card
        PROVE  /\ card'[c].owner = IF c \in trade[t].offered THEN receiver
                                   ELSE IF c \in trade[t].requested THEN sender
                                   ELSE card[c].owner
               /\ card'[c].lock = IF c \in trade[t].offered THEN None ELSE card[c].lock
    <3>1. CASE c \in trade[t].offered
      <4>1. card'[c] = Freed(c, receiver)
        BY <2>1, <3>1 DEF Accepts
      <4> QED BY <1>1, <3>1, <4>1, FreedCard
    <3>2. CASE c \notin trade[t].offered /\ c \in trade[t].requested
      <4>1. card'[c] = Freed(c, sender)
        BY <2>1, <3>2 DEF Accepts
      <4> QED BY <1>1, <2>4, <3>2, <4>1, FreedCard
    <3>3. CASE c \notin trade[t].offered /\ c \notin trade[t].requested
      BY <2>1, <3>3 DEF Accepts
    <3> QED BY <3>1, <3>2, <3>3
  <2>6. trade[t].requested \in SUBSET Card
    BY <1>1
  <2> DEFINE pledged == trade[t].offered
             return == trade[t].requested
  <2>7. /\ O!PledgedTo(t) = pledged /\ return \in SUBSET Card
        /\ \A c \in pledged : c \in Card /\ card[c].owner = sender
        /\ \A c \in return : card[c].owner = receiver /\ card[c].lock = None
        /\ \A c \in Card :
              /\ card'[c].owner = IF c \in pledged THEN receiver
                                  ELSE IF c \in return THEN sender ELSE card[c].owner
              /\ card'[c].lock = IF c \in pledged THEN None ELSE card[c].lock
    BY <2>2, <2>3, <2>4, <2>5, <2>6
  <2> HIDE DEF pledged, return
  <2> QED BY <2>2, <2>7, AsHonour
<1>5. ASSUME NEW l \in Listing, NEW u \in User, NEW x \in Card, NEW p \in Price,
             CreateListing(l, u, x, p)
      PROVE  O!Next
  <2>1. /\ card' = Locking({x}, "market_escrow", l) /\ card[x].owner = u
        /\ card[x].lock = None /\ l \in Ref
    BY <1>5 DEF CreateListing, FreeFor, Ref
  <2>2. \A c \in Card : /\ card'[c].owner = card[c].owner
                        /\ card'[c].lock = IF c \in {x} THEN l ELSE card[c].lock
    BY <1>1, <2>1 DEF Locking, CardType
  <2> QED BY <2>1, <2>2, AsPledge
<1>6. ASSUME NEW l \in Listing, NEW status \in {"cancelled", "expired"}, EndListing(l, status)
      PROVE  O!Next
  <2> DEFINE x == listing[l].card
  <2>1. listing[l].status = "active" /\ listing[l].seller \in User /\ l \in Ref
    BY <1>6 DEF EndListing, EscrowedListing, WellFormed, ListingsWellFormed, Ref
  <2>2. O!PledgedTo(l) = {x}
    BY <2>1, PledgedToListing
  <2>3. card' = Locking({x}, "available", None)
    BY <1>6 DEF EndListing, Releasing
  <2>4. \A c \in Card : /\ card'[c].owner = card[c].owner
                        /\ card'[c].lock = IF c \in {x} THEN None ELSE card[c].lock
    BY <1>1, <2>3 DEF Locking, CardType
  <2> HIDE DEF x
  <2> QED BY <2>1, <2>2, <2>4, AsRelease
<1>7. ASSUME NEW t \in Trade, NEW u \in User, NEW v \in User, NEW n \in Coins, NEW m \in Coins,
             NEW offered \in SUBSET Card, NEW requested \in SUBSET Card,
             CreateTrade(t, u, v, offered, requested, n, m)
      PROVE  O!Next
  <2>1. /\ card' = Locking(offered, "trade_escrow", t) /\ t \in Ref
        /\ \A c \in offered : card[c].owner = u /\ card[c].lock = None
    BY <1>7 DEF CreateTrade, FreeCards, FreeFor, Ref
  <2>2. \A c \in Card : /\ card'[c].owner = card[c].owner
                        /\ card'[c].lock = IF c \in offered THEN t ELSE card[c].lock
    BY <1>1, <2>1 DEF Locking, CardType
  <2> QED BY <2>1, <2>2, AsPledge
<1>8. ASSUME NEW t \in Trade, NEW status \in {"rejected", "cancelled", "expired"},
             EndTrade(t, status)
      PROVE  O!Next
  <2>1. trade[t].status = "pending" /\ trade[t].sender \in User /\ t \in Ref
    BY <1>8 DEF EndTrade, WellFormed, OffersWellFormed, Ref
  <2>2. O!PledgedTo(t) = trade[t].offered
    BY <2>1, PledgedToOffer
  <2>3. card' = Locking(trade[t].offered, "available", None)
    BY <1>8 DEF EndTrade, Releasing
  <2>4. \A c \in Card :
           /\ card'[c].owner = card[c].owner
           /\ card'[c].lock = IF c \in trade[t].offered THEN None ELSE card[c].lock
    BY <1>1, <2>3 DEF Locking, CardType
  <2> QED BY <2>1, <2>2, <2>4, AsRelease
<1>9. ASSUME NEW u \in User, NEW x \in Card, LockForMatch(u, x) PROVE O!Next
  <2>1. /\ card' = Locking({x}, "match_locked", MatchRef) /\ card[x].owner = u
        /\ card[x].lock = None /\ MatchRef \in Ref
    BY <1>9 DEF LockForMatch, FreeFor, Ref
  <2>2. \A c \in Card : /\ card'[c].owner = card[c].owner
                        /\ card'[c].lock = IF c \in {x} THEN MatchRef ELSE card[c].lock
    BY <1>1, <2>1 DEF Locking, CardType
  <2> QED BY <2>1, <2>2, AsPledge
<1>10. ASSUME NEW u \in User, NEW n \in Coins, SettleMatch(u, n) PROVE O!Next
  <2>1. PICK new \in SUBSET {c \in Card : card[c].status = "unminted"} : Settles(u, n, new)
    BY <1>10, Settlement
  <2>2. new \in SUBSET Card /\ \A c \in new : card[c].owner = None /\ card[c].lock = None
    BY <1>1
  <2>3. \A c \in Card : card[c].status = "match_locked" <=> card[c].lock = MatchRef
    BY <1>1 DEF LockBacked
  <2>4. \A c \in Card : c \in O!PledgedTo(MatchRef) <=> card[c].lock = MatchRef
    BY DEF O!PledgedTo
  <2>5. \A c \in Card :
           /\ card'[c].owner = IF c \in new THEN u ELSE card[c].owner
           /\ card'[c].lock = IF c \in O!PledgedTo(MatchRef) THEN None ELSE card[c].lock
    BY <2>1, <2>2, <2>3, <2>4 DEF Settles
  <2>6. MatchRef \in Ref
    BY DEF Ref
  <2> QED BY <2>2, <2>5, <2>6, AsGiveUp
<1>11. CASE OnlyRequests \/ Elapse
  BY <1>11, OwnershipStutters DEF OnlyRequests, Elapse
<1> QED BY <1>2, <1>3, <1>4, <1>5, <1>6, <1>7, <1>8, <1>9, <1>10, <1>11 DEF Steps

\* Listings, offers, matches and the grant implement Ownership: no card changes hands but by
\* an offer that is honoured, and no card is pledged twice.
THEOREM OwnershipImplemented == Spec => ImplementsOwnership
<1> QED BY OwnershipInit, OwnershipNext, WellFormedAlways, EscrowHolds, PTL
        DEF Spec, ImplementsOwnership, O!Spec
=============================================================================
