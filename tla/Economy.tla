------------------------------- MODULE Economy -------------------------------
(***************************************************************************)
(* Wallets, cards, the market and direct trades: domain/economy and        *)
(* service/economy.go over the MongoDB transactions of                     *)
(* repository/mongo{economy,market,trade}.go.                              *)
(*                                                                         *)
(* A transaction is one step, since what it reads it also writes or guards *)
(* by version; only the requested cards of an offer are not, and the       *)
(* acceptance checks them again.  The exception is the starter grant,      *)
(* which only reads the wallet and the cards that are there: its snapshot  *)
(* and its commit are two steps.  A purchase and an acceptance read the    *)
(* clock before their transaction, after the wallet check, so they take    *)
(* two steps as well.  A request may fail or its server crash between.     *)
(*                                                                         *)
(* Abstractions: a listing or offer is named by the command that creates   *)
(* it (the command ID is unique), so that a replayed command is a          *)
(* stuttering step, and of one that ended only the status is kept; time is *)
(* whether a deadline has passed; a match locks single cards, releases all *)
(* of them and rewards one player (MatchStore has the decks).  A           *)
(* transaction retried after a conflict is one that started later.         *)
(***************************************************************************)
EXTENDS Integers, FiniteSets, FiniteSetsExt, Functions

CONSTANTS
    User, Card, Question, Listing, Trade,
    MatchRef,        \* the lockRef of the match
    None,            \* no user, no card, no lockRef
    Request,         \* requests in progress, on any server
    StarterOf,       \* StarterQuestions of each user
    StarterBalance,
    Price,           \* bound: prices that sellers ask
    Coins,           \* bound: coins that offers name
    MaxTradeCards,
    MaxRewards       \* bound: coins from match rewards in all

\* The smallest price, and the most coins a price or an offer may name.
MinimumPrice == 10
MaximumPrice == 100000

Ref == Listing \cup Trade \cup {MatchRef}

ASSUME EconomyAssumption ==
    /\ IsFiniteSet(User) /\ IsFiniteSet(Card) /\ IsFiniteSet(Trade)
    /\ None \notin User \cup Card \cup Ref
    /\ Listing \cap Trade = {} /\ MatchRef \notin Listing \cup Trade
    /\ StarterOf \in [User -> SUBSET Question]
    /\ StarterBalance \in Nat
    /\ Price \subseteq MinimumPrice..MaximumPrice
    /\ Coins \subseteq 0..MaximumPrice
    /\ MaxTradeCards \in Nat
    /\ MaxRewards \in Nat

VARIABLES
    wallet, card, listing, trade,   \* the collections
    ledger,     \* per user, the sum of CoinDelta in EconomyLedger
    request,
    granted,    \* history: starter cards each user was given
    sink,       \* history: fees taken
    rewarded    \* history: coins rewarded

history == <<granted, sink, rewarded>>
vars == <<wallet, card, listing, trade, ledger, request, history>>

NoWallet == [open |-> FALSE, balance |-> 0, locked |-> 0]
NoCard == [owner |-> None, question |-> None, edition |-> 0, status |-> "unminted",
           lock |-> None]
NewCard(u, q, edition) ==
    [owner |-> u, question |-> q, edition |-> edition, status |-> "available", lock |-> None]
NoListing == [status |-> "none", card |-> None, seller |-> None, price |-> 0, elapsed |-> FALSE]
NoTrade == [status |-> "none", sender |-> None, receiver |-> None, offered |-> {},
            requested |-> {}, offeredCoins |-> 0, requestedCoins |-> 0, elapsed |-> FALSE]
EndedListing(status) == [NoListing EXCEPT !.status = status]
EndedTrade(status) == [NoTrade EXCEPT !.status = status]
Idle == [at |-> "idle", user |-> None, ref |-> None, hadWallet |-> FALSE, missing |-> {}]

WalletType == [open : BOOLEAN, balance : Nat, locked : Nat]
CardType ==
    [owner : User \cup {None}, question : Question \cup {None}, edition : Nat,
     lock : Ref \cup {None}, status : {"unminted", "available", "match_locked", "market_escrow", "trade_escrow"}]
ListingType ==
    [status : {"none", "active", "sold", "cancelled", "expired"}, card : Card \cup {None},
     seller : User \cup {None}, price : Nat, elapsed : BOOLEAN]
TradeType ==
    [status : {"none", "pending", "accepted", "rejected", "cancelled", "expired"},
     sender : User \cup {None}, receiver : User \cup {None}, offered : SUBSET Card,
     requested : SUBSET Card, offeredCoins : Nat, requestedCoins : Nat, elapsed : BOOLEAN]
RequestType ==
    [at : {"idle", "asked", "granting", "buying", "accepting"}, user : User \cup {None},
     ref : Ref \cup {None}, hadWallet : BOOLEAN, missing : SUBSET Question]

TypeOK ==
    /\ wallet \in [User -> WalletType]
    /\ card \in [Card -> CardType]
    /\ listing \in [Listing -> ListingType]
    /\ trade \in [Trade -> TradeType]
    /\ ledger \in [User -> Int]
    /\ request \in [Request -> RequestType]
    /\ granted \in [User -> Nat]
    /\ sink \in Nat
    /\ rewarded \in Nat

Init ==
    /\ wallet = [u \in User |-> NoWallet]
    /\ card = [c \in Card |-> NoCard]
    /\ listing = [l \in Listing |-> NoListing]
    /\ trade = [t \in Trade |-> NoTrade]
    /\ ledger = [u \in User |-> 0]
    /\ request = [r \in Request |-> Idle]
    /\ granted = [u \in User |-> 0]
    /\ sink = 0
    /\ rewarded = 0

Done(r) == request' = [request EXCEPT ![r] = Idle]

-----------------------------------------------------------------------------
(* Coins and cards *)

\* Mutant: reserved coins can be spent.
SpendsReserved(u, coins) == wallet[u].balance >= coins
CanPay(u, coins) == wallet[u].balance - wallet[u].locked >= coins

MarketFee(price) ==
    LET fee == (price * 500) \div 10000
    IN  IF fee < 1 THEN 1 ELSE fee

\* Mutant: the share is rounded like the fee, and the minimum fee forgotten.
ShareRounded(price) == (price * 9500) \div 10000
SellerShare(price) == price - MarketFee(price)

\* Mutant: whoever holds the card may list or offer it.
OwnedBy(c, u) == card[c].owner = u
FreeFor(c, u) == card[c].owner = u /\ card[c].status = "available" /\ card[c].lock = None
FreeCards(u) == {c \in Card : FreeFor(c, u)}

Held(c, u, status, ref) ==
    card[c].owner = u /\ card[c].status = status /\ card[c].lock = ref

\* Card documents after all of these are locked, or handed to u and free.
Locking(cards, status, ref) ==
    [c \in Card |-> IF c \in cards THEN [card[c] EXCEPT !.status = status, !.lock = ref]
                    ELSE card[c]]
Releasing(cards) == Locking(cards, "available", None)
Freed(c, u) == [card[c] EXCEPT !.owner = u, !.status = "available", !.lock = None]

-----------------------------------------------------------------------------
(* The starter grant *)

Owns(u, c, q) == card[c].owner = u /\ card[c].question = q

\* ensureStarter found no wallet.
AskStarter(r, u) ==
    /\ request[r].at = "idle"
    /\ ~wallet[u].open
    /\ request' = [request EXCEPT ![r] = [Idle EXCEPT !.at = "asked", !.user = u]]
    /\ UNCHANGED <<wallet, card, listing, trade, ledger, history>>

\* The snapshot of EnsureStarter's transaction.
StarterSnapshot(r) ==
    LET u == request[r].user
    IN  /\ request[r].at = "asked"
        /\ request' = [request EXCEPT
              ![r].at = "granting",
              ![r].hadWallet = wallet[u].open,
              ![r].missing = {q \in StarterOf[u] :
                                ~ \E c \in Card : Owns(u, c, q) /\ card[c].edition = 1}]
        /\ UNCHANGED <<wallet, card, listing, trade, ledger, history>>

OpenWallet(u) ==
    /\ ~wallet[u].open
    /\ wallet' = [wallet EXCEPT ![u] = [open |-> TRUE, balance |-> StarterBalance, locked |-> 0]]
    /\ ledger' = [ledger EXCEPT ![u] = @ + StarterBalance]

\* Mutant: wallet first, cards with the next request.
GrantWalletFirst(r) ==
    LET u == request[r].user
    IN  /\ request[r].at = "granting"
        /\ ~request[r].hadWallet
        /\ OpenWallet(u)
        /\ Done(r)
        /\ UNCHANGED <<card, granted, listing, trade, sink, rewarded>>

\* Its commit: a wallet inserted meanwhile is a conflict (unique index); the cards
\* that were missing are inserted whatever happened to them meanwhile (no such index).
GrantStarter(r) ==
    LET u == request[r].user
        missing == request[r].missing
    IN  /\ request[r].at = "granting"
        /\ \/ request[r].hadWallet /\ UNCHANGED <<wallet, ledger>>
           \/ ~request[r].hadWallet /\ OpenWallet(u)
        /\ \E new \in [missing -> {c \in Card : card[c].status = "unminted"}] :
              /\ \A p, q \in missing : new[p] = new[q] => p = q
              /\ card' = [c \in Card |->
                    IF \E q \in missing : new[q] = c
                      THEN NewCard(u, CHOOSE q \in missing : new[q] = c, 1)
                      ELSE card[c]]
        /\ granted' = [granted EXCEPT ![u] = @ + Cardinality(missing)]
        /\ Done(r)
        /\ UNCHANGED <<listing, trade, sink, rewarded>>

-----------------------------------------------------------------------------
(* The market *)

CreateListing(l, u, c, price) ==
    /\ listing[l].status = "none"
    /\ wallet[u].open
    /\ FreeFor(c, u)
    /\ listing' = [listing EXCEPT ![l] =
          [NoListing EXCEPT !.status = "active", !.card = c, !.seller = u, !.price = price]]
    /\ card' = Locking({c}, "market_escrow", l)
    /\ UNCHANGED <<wallet, trade, ledger, request, history>>

\* The service has ensured the wallet and read the clock, before the transaction.  Left
\* out are the requests that can not succeed any more: too late, one's own, or over.
AskToBuy(r, u, l) ==
    /\ request[r].at = "idle"
    /\ wallet[u].open
    /\ listing[l].status = "active" /\ listing[l].seller # u /\ ~listing[l].elapsed
    /\ request' = [request EXCEPT ![r] = [Idle EXCEPT !.at = "buying", !.user = u, !.ref = l]]
    /\ UNCHANGED <<wallet, card, listing, trade, ledger, history>>

EscrowedListing(l) ==
    /\ listing[l].status = "active"
    /\ Held(listing[l].card, listing[l].seller, "market_escrow", l)

BuyListing(r) ==
    LET l == request[r].ref
        buyer == request[r].user
        seller == listing[l].seller
        price == listing[l].price
    IN  /\ request[r].at = "buying"
        /\ EscrowedListing(l)
        /\ seller # buyer
        /\ CanPay(buyer, price)
        /\ wallet' = [wallet EXCEPT ![buyer].balance = @ - price,
                                    ![seller].balance = @ + SellerShare(price)]
        /\ ledger' = [ledger EXCEPT ![buyer] = @ - price, ![seller] = @ + SellerShare(price)]
        /\ sink' = sink + MarketFee(price)
        /\ card' = [card EXCEPT ![listing[l].card] = Freed(listing[l].card, buyer)]
        /\ listing' = [listing EXCEPT ![l] = EndedListing("sold")]
        /\ Done(r)
        /\ UNCHANGED <<trade, granted, rewarded>>

EndListing(l, status) ==
    /\ EscrowedListing(l)
    /\ listing' = [listing EXCEPT ![l] = EndedListing(status)]
    /\ card' = Releasing({listing[l].card})
    /\ UNCHANGED <<wallet, trade, ledger, request, history>>
CancelListing(u, l) == listing[l].seller = u /\ EndListing(l, "cancelled")
\* The sweep looks again at what its query found.
ExpireListing(l) == listing[l].elapsed /\ EndListing(l, "expired")

-----------------------------------------------------------------------------
(* Direct trades *)

CreateTrade(t, u, v, offered, requested, offeredCoins, requestedCoins) ==
    /\ trade[t].status = "none"
    /\ wallet[u].open
    /\ u # v
    /\ offered # {} \/ requested # {} \/ offeredCoins > 0 \/ requestedCoins > 0
    /\ Cardinality(offered) <= MaxTradeCards
    /\ Cardinality(requested) <= MaxTradeCards
    /\ offered \subseteq FreeCards(u)
    /\ requested \subseteq FreeCards(v)
    /\ offeredCoins > 0 => CanPay(u, offeredCoins)
    /\ wallet' = [wallet EXCEPT ![u].locked = @ + offeredCoins]
    /\ card' = Locking(offered, "trade_escrow", t)
    /\ trade' = [trade EXCEPT ![t] =
          [status |-> "pending", sender |-> u, receiver |-> v, offered |-> offered,
           requested |-> requested, offeredCoins |-> offeredCoins,
           requestedCoins |-> requestedCoins, elapsed |-> FALSE]]
    /\ UNCHANGED <<listing, ledger, request, history>>

AskToAccept(r, u, t) ==
    /\ request[r].at = "idle"
    /\ wallet[u].open
    /\ trade[t].status = "pending" /\ trade[t].receiver = u /\ ~trade[t].elapsed
    /\ request' = [request EXCEPT ![r] = [Idle EXCEPT !.at = "accepting", !.user = u, !.ref = t]]
    /\ UNCHANGED <<wallet, card, listing, trade, ledger, history>>

\* Mutant: the requested cards are only checked when the offer is made.
RequestedOwned(t) == \A c \in trade[t].requested : card[c].owner = trade[t].receiver
RequestedFree(t) == trade[t].requested \subseteq FreeCards(trade[t].receiver)

OfferedEscrowed(t) ==
    \A c \in trade[t].offered : Held(c, trade[t].sender, "trade_escrow", t)

AcceptTrade(r) ==
    LET t == request[r].ref
        sender == trade[t].sender
        receiver == trade[t].receiver
        net == trade[t].requestedCoins - trade[t].offeredCoins
    IN  /\ request[r].at = "accepting"
        /\ trade[t].status = "pending"
        /\ request[r].user = receiver
        /\ wallet[sender].locked >= trade[t].offeredCoins
        /\ wallet[sender].balance >= trade[t].offeredCoins
        /\ CanPay(receiver, trade[t].requestedCoins)
        /\ OfferedEscrowed(t)
        /\ RequestedFree(t)
        /\ wallet' = [wallet EXCEPT ![sender].locked = @ - trade[t].offeredCoins,
                                    ![sender].balance = @ + net,
                                    ![receiver].balance = @ - net]
        /\ ledger' = [ledger EXCEPT ![sender] = @ + net, ![receiver] = @ - net]
        /\ card' = [c \in Card |-> IF c \in trade[t].offered THEN Freed(c, receiver)
                                   ELSE IF c \in trade[t].requested THEN Freed(c, sender)
                                   ELSE card[c]]
        /\ trade' = [trade EXCEPT ![t] = EndedTrade("accepted")]
        /\ Done(r)
        /\ UNCHANGED <<listing, history>>

\* Mutant: the reserved coins are forgotten.
EndTradeKeepCoins(t, status) ==
    /\ trade[t].status = "pending"
    /\ OfferedEscrowed(t)
    /\ card' = Releasing(trade[t].offered)
    /\ trade' = [trade EXCEPT ![t] = EndedTrade(status)]
    /\ UNCHANGED <<wallet, listing, ledger, request, history>>

EndTrade(t, status) ==
    /\ trade[t].status = "pending"
    /\ wallet[trade[t].sender].locked >= trade[t].offeredCoins
    /\ OfferedEscrowed(t)
    /\ wallet' = [wallet EXCEPT ![trade[t].sender].locked = @ - trade[t].offeredCoins]
    /\ card' = Releasing(trade[t].offered)
    /\ trade' = [trade EXCEPT ![t] = EndedTrade(status)]
    /\ UNCHANGED <<listing, ledger, request, history>>
RejectTrade(u, t) == trade[t].receiver = u /\ EndTrade(t, "rejected")
CancelTrade(u, t) == trade[t].sender = u /\ EndTrade(t, "cancelled")
ExpireTrade(t) == trade[t].elapsed /\ EndTrade(t, "expired")

-----------------------------------------------------------------------------
(* The surroundings *)

\* A request is refused, rolled back, or lost with its server.
Fail(r) ==
    /\ request[r].at # "idle"
    /\ Done(r)
    /\ UNCHANGED <<wallet, card, listing, trade, ledger, history>>

\* Seven days, or one, went by.
Elapse ==
    /\ \/ \E l \in Listing :
             /\ listing[l].status = "active" /\ ~listing[l].elapsed
             /\ listing' = [listing EXCEPT ![l].elapsed = TRUE]
             /\ UNCHANGED trade
       \/ \E t \in Trade :
             /\ trade[t].status = "pending" /\ ~trade[t].elapsed
             /\ trade' = [trade EXCEPT ![t].elapsed = TRUE]
             /\ UNCHANGED listing
    /\ UNCHANGED <<wallet, card, ledger, request, history>>

\* A deck commit locks a card; the settlement of the match releases all, pays
\* coins and may mint a card.
LockForMatch(u, c) ==
    /\ FreeFor(c, u)
    /\ card' = Locking({c}, "match_locked", MatchRef)
    /\ UNCHANGED <<wallet, listing, trade, ledger, request, history>>
\* A question the player does not own, if there is one; else a further edition.
RewardQuestions(u) ==
    LET unowned == {q \in Question : ~ \E c \in Card : Owns(u, c, q)}
    IN  IF unowned # {} THEN unowned ELSE Question
RewardEdition(u, q) == 1 + Max({0} \cup {card[c].edition : c \in {d \in Card : Owns(u, d, q)}})
SettleMatch(u, coins) ==
    /\ wallet[u].open
    /\ \E c \in Card : Held(c, u, "match_locked", MatchRef)
    /\ rewarded + coins <= MaxRewards
    /\ \E new \in SUBSET {c \in Card : card[c].status = "unminted"}, q \in RewardQuestions(u) :
          /\ Cardinality(new) <= 1
          /\ new # {} => coins > 0
          /\ card' = [c \in Card |->
                IF c \in new THEN NewCard(u, q, RewardEdition(u, q))
                ELSE IF card[c].status = "match_locked" /\ card[c].lock = MatchRef
                  THEN Freed(c, card[c].owner)
                ELSE card[c]]
    /\ wallet' = [wallet EXCEPT ![u].balance = @ + coins]
    /\ ledger' = [ledger EXCEPT ![u] = @ + coins]
    /\ rewarded' = rewarded + coins
    /\ UNCHANGED <<listing, trade, request, granted, sink>>

RequestStep(r) ==
    \/ \E u \in User : AskStarter(r, u)
    \/ StarterSnapshot(r)
    \/ GrantStarter(r)
    \/ \E u \in User, l \in Listing : AskToBuy(r, u, l)
    \/ BuyListing(r)
    \/ \E u \in User, t \in Trade : AskToAccept(r, u, t)
    \/ AcceptTrade(r)
    \/ Fail(r)

MarketStep ==
    \/ \E l \in Listing, u \in User, c \in Card, p \in Price : CreateListing(l, u, c, p)
    \/ \E u \in User, l \in Listing : CancelListing(u, l)
    \/ \E l \in Listing : ExpireListing(l)

TradeStep ==
    \/ \E t \in Trade, u, v \in User, n, m \in Coins :
          \E offered \in SUBSET FreeCards(u), requested \in SUBSET FreeCards(v) :
             CreateTrade(t, u, v, offered, requested, n, m)
    \/ \E u \in User, t \in Trade : RejectTrade(u, t) \/ CancelTrade(u, t)
    \/ \E t \in Trade : ExpireTrade(t)

Next ==
    \/ \E r \in Request : RequestStep(r)
    \/ MarketStep
    \/ TradeStep
    \/ Elapse
    \/ \E u \in User, c \in Card : LockForMatch(u, c)
    \/ \E u \in User, n \in Coins : SettleMatch(u, n)

Spec == Init /\ [][Next]_vars

-----------------------------------------------------------------------------
(* Properties *)

\* "Escrow has one matching active listing/offer/match" (docs/mvp-domain-design.md), and
\* every open listing or offer holds its cards: so the transactions that settle, cancel
\* or expire it can not fail on a card, and a sweep is not stuck behind one that does.
OpenListing(c, l) == listing[l].status = "active" /\ listing[l].card = c
OpenOffer(c, t) == trade[t].status = "pending" /\ c \in trade[t].offered
EscrowMatches ==
    /\ \A l \in Listing : listing[l].status = "active" => EscrowedListing(l)
    /\ \A t \in Trade : trade[t].status = "pending" => OfferedEscrowed(t)
    /\ \A c \in Card :
          /\ card[c].status \in {"unminted", "available"} <=> card[c].lock = None
          /\ card[c].status = "match_locked" <=> card[c].lock = MatchRef
          /\ card[c].status = "market_escrow" =>
                card[c].lock \in Listing /\ OpenListing(c, card[c].lock)
          /\ card[c].status = "trade_escrow" =>
                card[c].lock \in Trade /\ OpenOffer(c, card[c].lock)

\* Purchases, offers and acceptances that run concurrently never spend coins that back
\* an open offer: what is locked is there.
NoOverdraft == \A u \in User : wallet[u].locked <= wallet[u].balance

\* The locked coins of a wallet are those of its pending offers: none is released twice
\* or forgotten when an offer ends in any of its four ways.
Pending(u) ==
    [t \in Trade |-> IF trade[t].status = "pending" /\ trade[t].sender = u
                       THEN trade[t].offeredCoins ELSE 0]
LockedBacksOffers == \A u \in User : wallet[u].locked = SumFunction(Pending(u))

\* Coins enter by the starter grant, once per wallet, and by rewards and leave by the
\* market fee; the ledger accounts for every balance.
LedgerExplains == \A u \in User : wallet[u].balance = ledger[u]
CoinsConserved ==
    /\ LedgerExplains
    /\ SumFunction(ledger) =
          StarterBalance * Cardinality({u \in User : wallet[u].open}) + rewarded - sink

\* "a visible wallet means the complete starter economy committed" (ensureStarter).
StarterComplete ==
    \A u \in User : wallet[u].open => granted[u] >= Cardinality(StarterOf[u])

\* "Starter grant: 600 coins and ten cards." (docs/game-rules.md)
StarterGrantedOnce == \A u \in User : granted[u] <= Cardinality(StarterOf[u])

\* Listings, offers, matches and the grant together implement the abstract ownership.
O == INSTANCE Ownership WITH Pledge <- Ref,
                             holder <- [c \in Card |-> card[c].owner],
                             pledge <- [c \in Card |-> card[c].lock]
ImplementsOwnership == O!Spec
=============================================================================
