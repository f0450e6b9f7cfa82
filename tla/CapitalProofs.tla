---------------------------- MODULE CapitalProofs -----------------------------
(***************************************************************************)
(* Proofs about capital: the reserve floors that keep it where it is       *)
(* needed (Rebalancing, CapitalSequence), the cache of refusals that       *)
(* decides which candidates are looked at again (CandidateSelection), the  *)
(* economic ledger: what a sale takes out of a pool, and that the worth of *)
(* a portfolio moves by the profit it claims (EconomicPortfolio,           *)
(* Reconciliation); that of the rows of one price gap one is given capital *)
(* (ShadowTrading); and what a book, a common quantity and a verdict are   *)
(* worth before the trade (MarketQuotes, EconomicLedger).                  *)
(***************************************************************************)
EXTENDS EconomicPortfolio, CapitalSequence, CandidateSelection, Reconciliation, ShadowTrading, Sums

-----------------------------------------------------------------------------
\* The floors

(* However busy an exchange is, its floor keeps two minimal orders, and is  *)
(* never beyond its share of the capital unless those two orders are.       *)
THEOREM FloorWithinBounds ==
  ASSUME NEW structural \in Nat, NEW buffer \in Nat, NEW cap \in Int
  PROVE  /\ DynamicFloor(structural, buffer, cap) >= structural
         /\ DynamicFloor(structural, buffer, cap) <= structural
              \/ DynamicFloor(structural, buffer, cap) <= cap
         /\ BindingComponent(structural, buffer, cap) = "STRUCTURAL_MINIMUM" =>
              DynamicFloor(structural, buffer, cap) = structural
         /\ BindingComponent(structural, buffer, cap) = "OPERATING_BUFFER" =>
              DynamicFloor(structural, buffer, cap) = buffer
         /\ BindingComponent(structural, buffer, cap) = "EQUAL_SHARE_CAP" =>
              DynamicFloor(structural, buffer, cap) < buffer
BY DEF DynamicFloor, BindingComponent

\* What is left below the floor is the shortfall.
LEMMA ShortfallRestores ==
  ASSUME NEW balance \in Int, NEW floor \in Int, NEW notional \in Int
  PROVE  /\ Shortfall(balance, floor, notional) \in Nat
         /\ WouldBreach(balance, floor, notional) =>
              balance - notional + Shortfall(balance, floor, notional) = floor
         /\ ~WouldBreach(balance, floor, notional) => balance - notional >= floor
BY DEF Shortfall, WouldBreach

-----------------------------------------------------------------------------
\* Whole coins and fees

LEMMA TakerFeeBounds ==
  ASSUME NEW x \in Nat, NEW y \in Nat, x <= y
  PROVE  /\ TakerFee(x) \in Nat /\ TakerFee(x) <= TakerFee(y)
         /\ TakerFee(0) = 0
<1>1. TakerDivisor \in Nat \ {0, 1}
  BY SequenceAssumption
<1>. QED  BY <1>1 DEF TakerFee

LEMMA FeeOfTwice ==
  ASSUME NEW x \in Nat
  PROVE  TakerFee(2 * x) <= x
<1> DEFINE fee == TakerFee(2 * x)
<1>1. TakerDivisor \in Nat /\ TakerDivisor >= 2
  BY SequenceAssumption
<1>2. fee \in Int /\ TakerDivisor * fee <= 2 * x + TakerDivisor - 1
  BY <1>1 DEF TakerFee
<1> HIDE DEF fee
<1>3. fee <= x
  <2> SUFFICES ASSUME fee >= x + 1 PROVE FALSE
    BY <1>2
  <2>1. TakerDivisor * fee >= TakerDivisor * x + TakerDivisor
    BY <1>1, <1>2
  <2>2. TakerDivisor * x >= 2 * x
    BY <1>1
  <2>. QED  BY <1>1, <1>2, <2>1, <2>2
<1>. QED  BY <1>3 DEF fee

\* Every price divides Lot: what is worth v is worth v to the unit.
LEMMA ExactQuantity ==
  ASSUME NEW price \in CoinPrices, NEW v \in Nat
  PROVE  /\ QtyFor(v, price) \in Nat
         /\ QtyFor(v, price) * price = v * Lot
<1>1. Lot \in Nat \ {0} /\ price \in Nat \ {0} /\ Lot % price = 0
  BY SequenceAssumption
<1>2. PICK u \in Nat : Lot = u * price
  <2>1. Lot = price * (Lot \div price) + (Lot % price) /\ Lot \div price \in Nat
    BY <1>1
  <2>. QED  BY <1>1, <2>1
<1>3. v * Lot = (v * u) * price /\ v * u \in Nat
  BY <1>1, <1>2
<1>4. ((v * u) * price) \div price = v * u
  BY <1>1, <1>3
<1>. QED  BY <1>3, <1>4 DEF QtyFor

LEMMA WorthOfCoins ==
  ASSUME NEW price \in CoinPrices, NEW q \in Int
  PROVE  /\ ValueAt(q, price) \in Int
         /\ Lot * ValueAt(q, price) <= q * price
         /\ q * price < Lot * ValueAt(q, price) + Lot
BY SequenceAssumption DEF ValueAt

\* What a rebalancing sells is worth the shortfall, however few coins there are.
LEMMA SaleMeetsShortfall ==
  ASSUME NEW price \in CoinPrices, NEW v \in Nat, NEW stock \in Int, ValueAt(stock, price) >= v
  PROVE  LET q == IF QtyFor(v, price) <= stock THEN QtyFor(v, price) ELSE stock
         IN ValueAt(q, price) = v
<1>1. Lot \in Nat \ {0} /\ price \in Nat \ {0}
  BY SequenceAssumption
<1>2. QtyFor(v, price) \in Nat /\ QtyFor(v, price) * price = v * Lot
  BY ExactQuantity
<1>3. ValueAt(QtyFor(v, price), price) = v
  BY <1>1, <1>2 DEF ValueAt
<1>4. ASSUME stock < QtyFor(v, price) PROVE ValueAt(stock, price) <= v
  <2>1. stock * price < v * Lot
    BY <1>1, <1>2, <1>4
  <2>2. Lot * ValueAt(stock, price) <= stock * price /\ ValueAt(stock, price) \in Int
    BY WorthOfCoins
  <2>3. stock * price \in Int
    BY <1>1
  <2> SUFFICES ASSUME ValueAt(stock, price) >= v + 1 PROVE FALSE
    BY <2>2
  <2>4. Lot * ValueAt(stock, price) >= v * Lot + Lot
    BY <1>1, <2>2
  <2>. QED  BY <1>1, <2>1, <2>2, <2>3, <2>4
<1>. QED  BY <1>2, <1>3, <1>4, WorthOfCoins

-----------------------------------------------------------------------------
\* The sequence of purchases

LeastCash == VenueFloor - TakerFee(2 * LargestNotional)

LEMMA LargestIsLargest ==
  /\ LargestNotional \in Nat /\ \A m \in Notionals : m <= LargestNotional
  /\ LeastCash \in Int /\ LeastCash <= VenueFloor
  /\ TakerFee(2 * LargestNotional) \in Nat /\ TakerFee(2 * LargestNotional) <= LargestNotional
<1>1. LargestNotional \in Notionals /\ \A m \in Notionals : m <= LargestNotional
  BY SequenceAssumption DEF LargestNotional
<1>2. LargestNotional \in Nat /\ 2 * LargestNotional \in Nat
  BY <1>1, SequenceAssumption
<1>. QED  BY <1>1, <1>2, TakerFeeBounds, FeeOfTwice, SequenceAssumption DEF LeastCash

SequenceInv ==
  /\ cash \in [Venues -> Int] /\ coins \in [Venues -> Int] /\ lowest \in [Venues -> Int]
  /\ \A v \in Venues : cash[v] >= LeastCash /\ lowest[v] >= LeastCash

\* A purchase that leaves the payer with `paid` keeps every exchange above the bound.
LEMMA ProceedKeepsFloor ==
  ASSUME SequenceInv, NEW v \in Venues, NEW notional \in Notionals, NEW price \in CoinPrices,
         NEW q \in Int, NEW r, Proceed(v, notional, price, q, r, QtyFor(notional, price)),
         lowest' = Lowest,
         cash[v] + ValueAt(q, price) - TakerFee(ValueAt(q, price)) - notional \in Int,
         cash[v] + ValueAt(q, price) - TakerFee(ValueAt(q, price)) - notional >= LeastCash
  PROVE  SequenceInv'
<1> DEFINE paid == cash[v] + ValueAt(q, price) - TakerFee(ValueAt(q, price)) - notional
           sold == QtyFor(notional, price)
           spent == [cash EXCEPT ![v] = paid]
           bought == [coins EXCEPT ![v] = @ - q + QtyFor(notional, price)]
<1>1. notional \in Nat /\ sold \in Nat
  BY SequenceAssumption, ExactQuantity
<1>2. ValueAt(sold, price) \in Nat
  <2>1. sold * price = notional * Lot /\ Lot \in Nat \ {0}
    BY <1>1, ExactQuantity, SequenceAssumption
  <2>. QED  BY <1>1, <2>1 DEF ValueAt
<1>3. /\ cash' = IF r \in Venues THEN [spent EXCEPT ![r] = @ + ValueAt(sold, price)] ELSE spent
      /\ coins' = IF r \in Venues THEN [bought EXCEPT ![r] = @ - sold] ELSE bought
  BY DEF Proceed
<1>4. spent \in [Venues -> Int] /\ \A w \in Venues : spent[w] >= LeastCash
  BY DEF SequenceInv
<1>5. bought \in [Venues -> Int]
  BY <1>1 DEF SequenceInv
<1> HIDE DEF spent, bought, sold
<1>6. cash' \in [Venues -> Int] /\ \A w \in Venues : cash'[w] >= LeastCash
  BY <1>2, <1>3, <1>4, LargestIsLargest
<1>7. coins' \in [Venues -> Int]
  BY <1>1, <1>3, <1>5
<1>8. lowest' \in [Venues -> Int] /\ \A w \in Venues : lowest'[w] >= LeastCash
  BY <1>6 DEF Lowest, SequenceInv
<1>. QED  BY <1>6, <1>7, <1>8 DEF SequenceInv

(* Shortfalls never add up: whatever is bought where, no exchange ever ends *)
(* further below its floor than the fee of one rebalancing sale.            *)
THEOREM SequenceFloorHeld == SequenceSpec => []FloorHeldButForFees
<1>1. SequenceInit => SequenceInv
  BY SequenceAssumption, LargestIsLargest DEF SequenceInit, SequenceInv
<1>2. SequenceInv /\ [SequenceNext]_sequenceVars => SequenceInv'
  <2> SUFFICES ASSUME SequenceInv, [SequenceNext]_sequenceVars PROVE SequenceInv'
    OBVIOUS
  <2>1. ASSUME NEW v \in Venues, NEW notional \in Notionals, NEW price \in CoinPrices, NEW r,
               Allow(v, notional, price, r, QtyFor(notional, price))
        PROVE  SequenceInv'
    <3>1. cash[v] \in Int /\ notional \in Nat /\ VenueFloor \in Nat
      BY SequenceAssumption DEF SequenceInv
    <3>2. ~WouldBreach(cash[v], VenueFloor, notional)
      BY <2>1 DEF Allow, Decision, DecideTrade
    <3>3. cash[v] - notional >= VenueFloor
      BY <3>1, <3>2 DEF WouldBreach
    <3>4. ValueAt(0, price) = 0 /\ TakerFee(0) = 0
      BY TakerFeeBounds, SequenceAssumption DEF ValueAt
    <3>5. /\ cash[v] + ValueAt(0, price) - TakerFee(ValueAt(0, price)) - notional \in Int
          /\ cash[v] + ValueAt(0, price) - TakerFee(ValueAt(0, price)) - notional >= LeastCash
      BY <3>1, <3>3, <3>4, LargestIsLargest
    <3>6. Proceed(v, notional, price, 0, r, QtyFor(notional, price)) /\ lowest' = Lowest
      BY <2>1 DEF Allow, Replaying
    <3>. QED  BY <3>5, <3>6, ProceedKeepsFloor
  <2>2. ASSUME NEW v \in Venues, NEW notional \in Notionals, NEW price \in CoinPrices, NEW r,
               RebalanceFirst(v, notional, price, r, QtyFor(notional, price))
        PROVE  SequenceInv'
    <3> DEFINE short == Shortfall(cash[v], VenueFloor, notional)
               wanted == QtyFor(short, price)
               q == IF wanted <= coins[v] THEN wanted ELSE coins[v]
    <3>1. /\ cash[v] \in Int /\ coins[v] \in Int /\ notional \in Nat /\ VenueFloor \in Nat
          /\ cash[v] >= LeastCash /\ notional <= LargestNotional
      BY SequenceAssumption, LargestIsLargest DEF SequenceInv
    <3>2. WouldBreach(cash[v], VenueFloor, notional) /\ ValueAt(coins[v], price) >= short
      BY <2>2 DEF RebalanceFirst, Decision, DecideTrade
    <3>3. short \in Nat /\ cash[v] - notional + short = VenueFloor
      <4>1. notional \in Int /\ VenueFloor \in Int
        BY <3>1
      <4>. QED  BY <3>1, <3>2, <4>1, ShortfallRestores
    <3> HIDE DEF short
    <3>4. wanted \in Nat /\ q \in Int
      BY <3>1, <3>3, ExactQuantity
    <3>5. ValueAt(q, price) = short
      BY <3>1, <3>2, <3>3, SaleMeetsShortfall
    <3>6. short <= 2 * LargestNotional
      BY <3>1, <3>3, LargestIsLargest DEF LeastCash
    <3>7. TakerFee(short) \in Nat /\ TakerFee(short) <= TakerFee(2 * LargestNotional)
      BY <3>3, <3>6, TakerFeeBounds, LargestIsLargest
    <3>8. Proceed(v, notional, price, q, r, QtyFor(notional, price)) /\ lowest' = Lowest
      BY <2>2 DEF RebalanceFirst, Replaying, short
    <3> HIDE DEF q, wanted
    <3>9. /\ cash[v] + ValueAt(q, price) - TakerFee(ValueAt(q, price)) - notional \in Int
          /\ cash[v] + ValueAt(q, price) - TakerFee(ValueAt(q, price)) - notional >= LeastCash
      <4>1. ValueAt(q, price) = short /\ TakerFee(ValueAt(q, price)) = TakerFee(short)
        BY <3>5
      <4>2. cash[v] + short - TakerFee(short) - notional = VenueFloor - TakerFee(short)
        BY <3>1, <3>3, <3>7
      <4>3. VenueFloor - TakerFee(short) >= VenueFloor - TakerFee(2 * LargestNotional)
        BY <3>1, <3>7, LargestIsLargest
      <4>. QED  BY <3>1, <3>7, <4>1, <4>2, <4>3 DEF LeastCash
    <3>. QED  BY <3>4, <3>8, <3>9, ProceedKeepsFloor
  <2>3. ASSUME NEW v \in Venues, NEW notional \in Notionals, NEW price \in CoinPrices,
               DoNotTrade(v, notional, price)
        PROVE  SequenceInv'
    BY <2>3 DEF DoNotTrade, Replaying, Lowest, SequenceInv
  <2>4. CASE UNCHANGED sequenceVars
    BY <2>4 DEF sequenceVars, SequenceInv
  <2>. QED  BY <2>1, <2>2, <2>3, <2>4 DEF SequenceNext
<1>3. SequenceInv => FloorHeldButForFees
  BY DEF SequenceInv, FloorHeldButForFees, LeastCash
<1>. QED  BY <1>1, <1>2, <1>3, PTL DEF SequenceSpec

-----------------------------------------------------------------------------
\* The cache of refusals

\* Every entry holds the verdict its own inputs lead to.
Verdict(signature) ==
  ClassifyCandidate(DualLegQuote(LegAt(signature.buy), LegAt(signature.sell), Request, Request),
                    signature.stock, signature.wallet)

CacheInv ==
  /\ DOMAIN entries = Directions \X Reasons
  /\ \A d \in Directions, reason \in Reasons :
       entries[<<d, reason>>] # NoEntry => Verdict(entries[<<d, reason>>].signature) = reason

(* The cache passes over a candidate only where a fresh look would refuse   *)
(* it again, for the reason on record.                                      *)
THEOREM SelectionSuppressedIsStillRefused == SelectionSpec => []SuppressedIsStillRefused
<1>1. SelectionInit => CacheInv
  BY DEF SelectionInit, CacheInv
<1>2. \A d \in Directions : Verdict(Signature(d)) = Classify(d)
  BY DEF Verdict, Signature, Classify, QuoteOf
<1>3. CacheInv /\ [SelectionNext]_selectionVars => CacheInv'
  <2> SUFFICES ASSUME CacheInv, [SelectionNext]_selectionVars PROVE CacheInv'
    OBVIOUS
  <2>1. ASSUME NEW d \in Directions, Refuse(d) PROVE CacheInv'
    <3> DEFINE entry == [at |-> clock, signature |-> Signature(d)]
    <3>1. entries' = [entries EXCEPT ![<<d, Classify(d)>>] = entry]
      BY <2>1 DEF Refuse
    <3>2. entry.signature = Signature(d)
      OBVIOUS
    <3> HIDE DEF entry
    <3>3. ASSUME NEW c \in Directions, NEW reason \in Reasons, entries'[<<c, reason>>] # NoEntry
          PROVE  Verdict(entries'[<<c, reason>>].signature) = reason
      <4>1. CASE <<c, reason>> = <<d, Classify(d)>>
        <5>1. entries'[<<c, reason>>] = entry
          BY <3>1, <4>1 DEF CacheInv
        <5>. QED  BY <1>2, <3>2, <4>1, <5>1
      <4>2. CASE <<c, reason>> # <<d, Classify(d)>>
        <5>1. entries'[<<c, reason>>] = entries[<<c, reason>>]
          BY <3>1, <4>2 DEF CacheInv
        <5>. QED  BY <3>3, <5>1 DEF CacheInv
      <4>. QED  BY <4>1, <4>2
    <3>. QED  BY <3>1, <3>3 DEF CacheInv
  <2>2. ASSUME NEW d \in Directions,
               entries' = [k \in DOMAIN entries |-> IF k[1] = d THEN NoEntry ELSE entries[k]]
        PROVE  CacheInv'
    BY <2>2 DEF CacheInv
  <2>3. CASE UNCHANGED entries
    BY <2>3 DEF CacheInv
  <2>. QED
    BY <2>1, <2>2, <2>3
       DEF SelectionNext, PricesMove, Tick, ActOn, TopUp, selectionVars
<1>4. CacheInv => SuppressedIsStillRefused
  BY <1>2 DEF CacheInv, SuppressedIsStillRefused, StillValid
<1>. QED  BY <1>1, <1>3, <1>4, PTL DEF SelectionSpec


-----------------------------------------------------------------------------
\* Amounts

LEMMA FeeIsNat ==
  ASSUME NEW notional \in Nat
  PROVE  FeeOn(notional) \in Nat
BY QuoteAssumption DEF FeeOn

-----------------------------------------------------------------------------
\* Fills and pools

Fills == [qty : Nat \ {0}, price : Nat, fee : Nat, feeAsset : {Quote, Base}]

\* A fee in the coin leaves some of what was bought.
SoundFill(f) == f \in Fills /\ BaseFee(f) < f.qty

Covered(p) == p.qty >= 0 /\ p.cost >= 0 /\ (p.qty = 0 => p.cost = 0)

LEMMA FillAmounts ==
  ASSUME NEW f, SoundFill(f)
  PROVE  /\ CostOf(f) \in Nat /\ Proceeds(f) \in Int
         /\ NetIn(f) \in Nat \ {0} /\ NetOut(f) \in Nat \ {0}
BY DEF SoundFill, Fills, CostOf, Proceeds, NetIn, NetOut, BaseFee, QuoteFee

\* A purchase adds what it cost, and units to carry that cost.
LEMMA BuyIntoPool ==
  ASSUME NEW f, SoundFill(f), NEW p \in [qty : Int, cost : Int], Covered(p)
  PROVE  /\ ApplyBuy(p, f) \in [qty : Int, cost : Int]
         /\ ApplyBuy(p, f).cost = p.cost + CostOf(f)
         /\ Covered(ApplyBuy(p, f))
<1>1. ApplyBuy(p, f) = [qty |-> p.qty + NetIn(f), cost |-> p.cost + CostOf(f)]
  BY DEF ApplyBuy, SoundFill, Fills
<1>. QED  BY <1>1, FillAmounts DEF Covered

\* A sale takes out the cost it is charged, and no cost outlives its units.
LEMMA SellFromPool ==
  ASSUME NEW f, SoundFill(f), NEW p \in [qty : Int, cost : Int], Covered(p), CanSell(p, f)
  PROVE  /\ ApplySell(p, f) \in [qty : Int, cost : Int]
         /\ Realized(p, f) \in Int
         /\ ApplySell(p, f).cost = p.cost - Proceeds(f) + Realized(p, f)
         /\ Covered(ApplySell(p, f))
<1>1. /\ NetOut(f) \in Nat /\ p.qty \in Nat \ {0} /\ NetOut(f) <= p.qty /\ p.cost \in Nat
  BY FillAmounts DEF CanSell, Covered
<1>2. /\ CostRemoved(p, f) \in 0..p.cost
      /\ NetOut(f) = p.qty => CostRemoved(p, f) = p.cost
  BY <1>1, ShareOfAmount DEF CostRemoved
<1>3. ApplySell(p, f) = [qty |-> p.qty - NetOut(f), cost |-> p.cost - CostRemoved(p, f)]
  BY DEF ApplySell
<1>4. Realized(p, f) = Proceeds(f) - CostRemoved(p, f)
  BY DEF Realized
<1>5. Proceeds(f) \in Int
  BY FillAmounts
<1>6. Realized(p, f) \in Int /\ p.cost - CostRemoved(p, f) = p.cost - Proceeds(f) + Realized(p, f)
  BY <1>1, <1>2, <1>4, <1>5
<1>7. Covered(ApplySell(p, f)) /\ ApplySell(p, f) \in [qty : Int, cost : Int]
  BY <1>1, <1>2, <1>3 DEF Covered
<1>. QED  BY <1>3, <1>6, <1>7

-----------------------------------------------------------------------------
\* What a purchase, a sale and both at once do to a portfolio

Settings == UNCHANGED <<engine, start>> /\ moves' \in 0..MaxMoves

LedgerInv == PortfolioTypeOK /\ NoCostWithoutUnits /\ WealthBridge

LEMMA PoolsAreCovered ==
  ASSUME LedgerInv, NEW e \in Exchanges
  PROVE  pool[e] \in [qty : Int, cost : Int] /\ Covered(pool[e])
BY DEF LedgerInv, PortfolioTypeOK, NoCostWithoutUnits, Covered

LEMMA PurchaseStep ==
  ASSUME LedgerInv, Settings, NEW e \in Exchanges, NEW f, SoundFill(f),
         usdt' = Spend(e, f), pool' = Buying(e, f), UNCHANGED <<realized, gap>>
  PROVE  LedgerInv'
<1>1. CostOf(f) \in Nat
  BY FillAmounts
<1>2. /\ ApplyBuy(pool[e], f) \in [qty : Int, cost : Int]
      /\ ApplyBuy(pool[e], f).cost = pool[e].cost + CostOf(f)
      /\ Covered(ApplyBuy(pool[e], f))
  BY BuyIntoPool, PoolsAreCovered
<1>3. pool' = [pool EXCEPT ![e] = ApplyBuy(pool[e], f)]
  BY DEF Buying
<1>4. usdt' = [usdt EXCEPT ![e] = usdt[e] - CostOf(f)]
  BY DEF Spend
<1>5. PortfolioTypeOK'
  BY <1>1, <1>2, <1>3, <1>4 DEF Settings, LedgerInv, PortfolioTypeOK
<1>6. NoCostWithoutUnits'
  BY <1>2, <1>3 DEF LedgerInv, PortfolioTypeOK, NoCostWithoutUnits, Covered
<1>7. WealthBridge'
  BY <1>1, <1>2, <1>3, <1>4 DEF Settings, LedgerInv, PortfolioTypeOK, WealthBridge
<1>. QED  BY <1>5, <1>6, <1>7 DEF LedgerInv

LEMMA SaleStep ==
  ASSUME LedgerInv, Settings, NEW e \in Exchanges, NEW f, SoundFill(f), CanSell(pool[e], f),
         usdt' = Earn(e, f), pool' = Selling(e, f), realized' = Claiming(e, f), gap' = gap
  PROVE  LedgerInv'
<1>1. Proceeds(f) \in Int /\ Realized(pool[e], f) \in Int
  BY FillAmounts, SellFromPool, PoolsAreCovered
<1>2. /\ ApplySell(pool[e], f) \in [qty : Int, cost : Int]
      /\ ApplySell(pool[e], f).cost = pool[e].cost - Proceeds(f) + Realized(pool[e], f)
      /\ Covered(ApplySell(pool[e], f))
  BY SellFromPool, PoolsAreCovered
<1>3. pool' = [pool EXCEPT ![e] = ApplySell(pool[e], f)]
  BY DEF Selling
<1>4. usdt' = [usdt EXCEPT ![e] = usdt[e] + Proceeds(f)]
  BY DEF Earn
<1>5. realized' = [realized EXCEPT ![e] = realized[e] + Realized(pool[e], f)]
  BY DEF Claiming
<1>6. PortfolioTypeOK'
  BY <1>1, <1>2, <1>3, <1>4, <1>5 DEF Settings, LedgerInv, PortfolioTypeOK
<1>7. NoCostWithoutUnits'
  BY <1>2, <1>3 DEF LedgerInv, PortfolioTypeOK, NoCostWithoutUnits, Covered
<1>8. WealthBridge'
  <2> SUFFICES ASSUME NEW x \in Exchanges, x \notin gap
               PROVE  usdt'[x] + pool'[x].cost = start[x] + realized'[x]
    BY DEF WealthBridge, Settings
  <2>1. /\ usdt[x] \in Int /\ pool[x].cost \in Int /\ start[x] \in Int /\ realized[x] \in Int
        /\ usdt[x] + pool[x].cost = start[x] + realized[x]
    BY DEF LedgerInv, PortfolioTypeOK, WealthBridge
  <2>2. CASE x = e
    <3>1. /\ usdt'[x] = usdt[x] + Proceeds(f)
          /\ realized'[x] = realized[x] + Realized(pool[x], f)
          /\ pool'[x].cost = pool[x].cost - Proceeds(f) + Realized(pool[x], f)
      BY <1>2, <1>3, <1>4, <1>5, <2>2 DEF LedgerInv, PortfolioTypeOK
    <3>. QED  BY <1>1, <2>1, <2>2, <3>1
  <2>3. CASE x # e
    BY <1>3, <1>4, <1>5, <2>1, <2>3 DEF LedgerInv, PortfolioTypeOK
  <2>. QED  BY <2>2, <2>3
<1>. QED  BY <1>6, <1>7, <1>8 DEF LedgerInv

LEMMA ArbitrageStep ==
  ASSUME LedgerInv, Settings, NEW b \in Exchanges, NEW s \in Exchanges, b # s,
         NEW bought, NEW sold, SoundFill(bought), SoundFill(sold), CanSell(pool[s], sold),
         ArbitrageApplied(b, s, bought, sold), gap' = gap
  PROVE  LedgerInv'
<1>1. Proceeds(sold) \in Int /\ Realized(pool[s], sold) \in Int /\ CostOf(bought) \in Nat
  BY FillAmounts, SellFromPool, PoolsAreCovered
<1>2. /\ ApplySell(pool[s], sold) \in [qty : Int, cost : Int]
      /\ ApplySell(pool[s], sold).cost = pool[s].cost - Proceeds(sold) + Realized(pool[s], sold)
      /\ Covered(ApplySell(pool[s], sold))
  BY SellFromPool, PoolsAreCovered
<1>3. /\ ApplyBuy(pool[b], bought) \in [qty : Int, cost : Int]
      /\ ApplyBuy(pool[b], bought).cost = pool[b].cost + CostOf(bought)
      /\ Covered(ApplyBuy(pool[b], bought))
  BY BuyIntoPool, PoolsAreCovered
<1>4. pool' = [[pool EXCEPT ![s] = ApplySell(pool[s], sold)] EXCEPT ![b] = ApplyBuy(pool[b], bought)]
  BY DEF ArbitrageApplied, LedgerInv, PortfolioTypeOK
<1>5. usdt' = [[usdt EXCEPT ![b] = usdt[b] - CostOf(bought)] EXCEPT ![s] = usdt[s] + Proceeds(sold)]
  BY DEF ArbitrageApplied, LedgerInv, PortfolioTypeOK
<1>6. realized' = [realized EXCEPT ![s] = realized[s] + Realized(pool[s], sold)]
  BY DEF ArbitrageApplied, Claiming
<1>7. PortfolioTypeOK'
  BY <1>1, <1>2, <1>3, <1>4, <1>5, <1>6 DEF Settings, LedgerInv, PortfolioTypeOK
<1>8. /\ pool'[b] = ApplyBuy(pool[b], bought) /\ pool'[s] = ApplySell(pool[s], sold)
      /\ usdt'[b] = usdt[b] - CostOf(bought) /\ usdt'[s] = usdt[s] + Proceeds(sold)
      /\ \A e \in Exchanges : e # b /\ e # s => pool'[e] = pool[e] /\ usdt'[e] = usdt[e]
  BY <1>4, <1>5 DEF LedgerInv, PortfolioTypeOK
<1>9. NoCostWithoutUnits'
  BY <1>2, <1>3, <1>8 DEF LedgerInv, NoCostWithoutUnits, Covered
<1>10. WealthBridge'
  <2> SUFFICES ASSUME NEW x \in Exchanges, x \notin gap
               PROVE  usdt'[x] + pool'[x].cost = start[x] + realized'[x]
    BY DEF WealthBridge, Settings
  <2>1. /\ usdt[x] \in Int /\ pool[x].cost \in Int /\ start[x] \in Int /\ realized[x] \in Int
        /\ usdt[x] + pool[x].cost = start[x] + realized[x]
    BY DEF LedgerInv, PortfolioTypeOK, WealthBridge
  <2>2. CASE x = s
    <3>1. /\ usdt'[x] = usdt[x] + Proceeds(sold)
          /\ realized'[x] = realized[x] + Realized(pool[x], sold)
          /\ pool'[x].cost = pool[x].cost - Proceeds(sold) + Realized(pool[x], sold)
      BY <1>2, <1>6, <1>8, <2>2 DEF LedgerInv, PortfolioTypeOK
    <3>. QED  BY <1>1, <2>1, <2>2, <3>1
  <2>3. CASE x = b
    <3>1. /\ usdt'[x] = usdt[x] - CostOf(bought) /\ realized'[x] = realized[x]
          /\ pool'[x].cost = pool[x].cost + CostOf(bought)
      BY <1>3, <1>6, <1>8, <2>3 DEF LedgerInv, PortfolioTypeOK
    <3>. QED  BY <1>1, <2>1, <2>3, <3>1
  <2>4. CASE x # s /\ x # b
    BY <1>6, <1>8, <2>1, <2>4 DEF LedgerInv, PortfolioTypeOK
  <2>. QED  BY <2>2, <2>3, <2>4
<1>. QED  BY <1>7, <1>9, <1>10 DEF LedgerInv

-----------------------------------------------------------------------------
\* The fills of every engine are sound

LEMMA PlainFill ==
  ASSUME NEW q \in Nat \ {0}, NEW price \in Nat, NEW fee \in Nat
  PROVE  SoundFill(Fill(q, price, fee, Quote))
BY DEF SoundFill, Fills, Fill, BaseFee, Quote, Base

LEMMA PastFillIsSound ==
  ASSUME NEW price \in Nat, NEW f \in PastFills(price)
  PROVE  SoundFill(f)
<1>1. CASE \E q \in Quantities : f = Fill(q, price, FeeOn(q * price), Quote)
  <2>1. PICK q \in Quantities : f = Fill(q, price, FeeOn(q * price), Quote)
    BY <1>1
  <2>2. q \in Nat \ {0} /\ q * price \in Nat
    BY PortfolioAssumption
  <2>. QED  BY <2>1, <2>2, FeeIsNat, PlainFill
<1>2. CASE \E q \in Quantities \ {1} : f = Fill(q, price, 1, Base)
  <2>1. PICK q \in Quantities \ {1} : f = Fill(q, price, 1, Base)
    BY <1>2
  <2>2. q \in Nat \ {0} /\ 1 < q
    BY PortfolioAssumption
  <2>. QED  BY <2>1, <2>2 DEF SoundFill, Fills, Fill, BaseFee, Quote, Base
<1>. QED  BY <1>1, <1>2 DEF PastFills

LEMMA BooksArePositive ==
  ASSUME NEW k \in Books
  PROVE  k.ask \in Nat \ {0} /\ k.bid \in Nat \ {0} /\ k.size \in Nat \ {0}
BY PortfolioAssumption

LEMMA LegsAreSound ==
  ASSUME NEW k \in Books, NEW l \in Books, NEW size \in Sizes, NEW stock \in Int,
         LET quote == DualLegQuote(Leg(k.ask, k.size), Leg(l.bid, l.size), size, size)
         IN quote.executable /\ CommonQty(quote.qty, stock, 1, 1) > 0
  PROVE  LET quote == DualLegQuote(Leg(k.ask, k.size), Leg(l.bid, l.size), size, size)
             q == CommonQty(quote.qty, stock, 1, 1)
         IN SoundFill(SoldOf(quote, q)) /\ SoundFill(BoughtOf(quote, q))
<1> DEFINE buy == Leg(k.ask, k.size)
           sell == Leg(l.bid, l.size)
           quote == DualLegQuote(buy, sell, size, size)
           q == CommonQty(quote.qty, stock, 1, 1)
<1>1. /\ buy.price = k.ask /\ buy.step = 1 /\ sell.price = l.bid /\ sell.step = 1
      /\ k.ask \in Nat \ {0} /\ l.bid \in Nat \ {0} /\ size \in Nat
  BY BooksArePositive, PortfolioAssumption DEF Leg
<1> HIDE DEF buy, sell
<1>2. ExecutableQty(buy, sell, Greatest(0, Least(size, size))) \in Int
  BY <1>1 DEF ExecutableQty, Greatest, Least, RoundDownToStep
<1>3. /\ quote.qty \in Int /\ quote.buyPrice = k.ask /\ quote.sellPrice = l.bid
      /\ quote.buyFee = FeeOn(quote.qty * k.ask) /\ quote.sellFee = FeeOn(quote.qty * l.bid)
      /\ quote.executable => quote.qty > 0
  BY <1>1, <1>2 DEF DualLegQuote, LotSizePass
<1>4. quote.qty \in Nat \ {0} /\ q \in Nat \ {0}
  BY <1>3 DEF CommonQty, Least, Greatest, RoundDownToStep, buy, sell
<1>5. quote.buyFee \in Nat /\ quote.sellFee \in Nat
  BY <1>1, <1>3, <1>4, FeeIsNat
<1> HIDE DEF quote, q
<1>6. (quote.sellFee * q) \div quote.qty \in Nat /\ (quote.buyFee * q) \div quote.qty \in Nat
  BY <1>4, <1>5
<1>7. SoundFill(SoldOf(quote, q)) /\ SoundFill(BoughtOf(quote, q))
  BY <1>1, <1>3, <1>4, <1>6, PlainFill DEF SoldOf, BoughtOf
<1>. QED  BY <1>7 DEF quote, q, buy, sell

-----------------------------------------------------------------------------
\* Every engine keeps the books

LEMMA MoveSettings ==
  ASSUME LedgerInv, NEW e, Move(e)
  PROVE  Settings
BY PortfolioAssumption DEF Move, Settings, LedgerInv, PortfolioTypeOK

LEMMA TwinKeepsBooks ==
  ASSUME LedgerInv, NEW b \in Exchanges, NEW s \in Exchanges, NEW k \in Books, NEW l \in Books
  PROVE  /\ \A size \in Sizes : TwinArbitrage(b, s, k, l, size) => LedgerInv'
         /\ \A q \in Quantities : TwinConstitution(b, k, l.bid, q) => LedgerInv'
         /\ \A size \in Sizes \cup {0} : TwinRebalance(b, k, size) => LedgerInv'
<1>1. ASSUME NEW size \in Sizes, TwinArbitrage(b, s, k, l, size) PROVE LedgerInv'
  <2> DEFINE quote == DualLegQuote(Leg(k.ask, k.size), Leg(l.bid, l.size), size, size)
             q == CommonQty(quote.qty, pool[s].qty, 1, 1)
             sold == SoldOf(quote, q)
             bought == BoughtOf(quote, q)
  <2>1. /\ Move("twin") /\ b # s /\ quote.executable /\ q > 0
        /\ WouldTrade(WealthDelta(pool[s], sold, bought, k.bid, 0), Margin)
        /\ ArbitrageApplied(b, s, bought, sold) /\ gap' = gap
    BY <1>1 DEF TwinArbitrage, MarkOfBought
  <2>2. pool[s].qty \in Int
    BY PoolsAreCovered
  <2>3. SoundFill(sold) /\ SoundFill(bought)
    BY <2>1, <2>2, LegsAreSound
  <2> HIDE DEF sold, bought
  <2>4. CanSell(pool[s], sold)
    BY <2>1 DEF WouldTrade, WealthDelta
  <2>. QED  BY <2>1, <2>3, <2>4, MoveSettings, ArbitrageStep
<1>2. ASSUME NEW q \in Quantities, TwinConstitution(b, k, l.bid, q) PROVE LedgerInv'
  <2> DEFINE f == Fill(q, k.ask, FeeOn(q * k.ask), Quote)
  <2>1. q \in Nat \ {0} /\ k.ask \in Nat /\ q * k.ask \in Nat
    BY BooksArePositive, PortfolioAssumption
  <2>2. SoundFill(f)
    BY <2>1, FeeIsNat, PlainFill
  <2>3. Move("twin") /\ usdt' = Spend(b, f) /\ pool' = Buying(b, f) /\ UNCHANGED <<realized, gap>>
    BY <1>2 DEF TwinConstitution
  <2> HIDE DEF f
  <2>. QED  BY <2>2, <2>3, MoveSettings, PurchaseStep
<1>3. ASSUME NEW size \in Sizes \cup {0}, TwinRebalance(b, k, size) PROVE LedgerInv'
  <2> DEFINE q == Least(Shortfall(usdt[b], Floor, size) \div k.bid, pool[b].qty)
             f == Fill(q, k.bid, FeeOn(q * k.bid), Quote)
  <2>1. /\ Move("twin") /\ CanSell(pool[b], f) /\ gap' = gap
        /\ usdt' = Earn(b, f) /\ pool' = Selling(b, f) /\ realized' = Claiming(b, f)
    BY <1>3 DEF TwinRebalance
  <2>2. Shortfall(usdt[b], Floor, size) \in Int
    BY PortfolioAssumption DEF Shortfall, LedgerInv, PortfolioTypeOK
  <2>3. q \in Int /\ k.bid \in Nat \ {0}
    BY <2>2, BooksArePositive, PoolsAreCovered DEF Least
  <2> HIDE DEF q
  <2>4. q > 0
    BY <2>1 DEF CanSell, Fill
  <2>5. q \in Nat \ {0} /\ q * k.bid \in Nat
    BY <2>3, <2>4
  <2>6. SoundFill(f)
    BY <2>3, <2>5, FeeIsNat, PlainFill
  <2> HIDE DEF f
  <2>. QED  BY <2>1, <2>6, MoveSettings, SaleStep
<1>. QED  BY <1>1, <1>2, <1>3

LEMMA PastKeepsBooks ==
  ASSUME LedgerInv, NEW b \in Exchanges, NEW s \in Exchanges, NEW k \in Books, NEW l \in Books,
         NEW bought \in PastFills(k.ask), NEW sold \in PastFills(l.bid),
         \/ ReplayArbitrage(b, s, bought, sold)
         \/ ReplayInventoryBuy(b, bought) \/ BridgeBuy(b, bought)
         \/ ReplayRebalanceSell(s, sold) \/ BridgeSell(s, sold) \/ BridgeGap(s, sold)
  PROVE  LedgerInv'
<1>1. SoundFill(bought) /\ SoundFill(sold)
  BY BooksArePositive, PastFillIsSound
<1>2. CASE ReplayArbitrage(b, s, bought, sold)
  <2>1. CanSell(pool[s], sold)
    BY <1>2 DEF ReplayArbitrage, WouldTrade, WealthDelta
  <2>. QED  BY <1>1, <1>2, <2>1, MoveSettings, ArbitrageStep DEF ReplayArbitrage
<1>3. CASE ReplayInventoryBuy(b, bought) \/ BridgeBuy(b, bought)
  BY <1>1, <1>3, MoveSettings, PurchaseStep DEF ReplayInventoryBuy, BridgeBuy
<1>4. CASE ReplayRebalanceSell(s, sold) \/ BridgeSell(s, sold)
  BY <1>1, <1>4, MoveSettings, SaleStep DEF ReplayRebalanceSell, BridgeSell
<1>5. CASE BridgeGap(s, sold)
  <2>1. Settings
    BY <1>5, MoveSettings DEF BridgeGap
  <2>2. usdt' \in [Exchanges -> Int] /\ gap' = gap \cup {s} /\ UNCHANGED <<pool, realized>>
    BY <1>1, <1>5, FillAmounts DEF BridgeGap, Earn, LedgerInv, PortfolioTypeOK
  <2>3. \A e \in Exchanges : e # s => usdt'[e] = usdt[e]
    BY <1>5 DEF BridgeGap, Earn, LedgerInv, PortfolioTypeOK
  <2>. QED
    BY <2>1, <2>2, <2>3
       DEF Settings, LedgerInv, PortfolioTypeOK, NoCostWithoutUnits, WealthBridge
<1>. QED  BY <1>2, <1>3, <1>4, <1>5

(* The bridge with what keeps it: types, and no cost without its units.     *)
THEOREM PortfolioKeepsBooks == PortfolioSpec => []LedgerInv
<1>1. PortfolioInit => LedgerInv
  <2> SUFFICES ASSUME PortfolioInit PROVE LedgerInv
    OBVIOUS
  <2>1. /\ \A e \in Exchanges : pool[e].qty \in Nat /\ pool[e].cost \in Nat
                               /\ (pool[e].qty = 0 => pool[e].cost = 0)
        /\ pool \in [Exchanges -> [qty : Int, cost : Int]]
    <3>1. \A h \in Holdings : /\ h \in [qty : Int, cost : Int] /\ h.qty \in Nat /\ h.cost \in Nat
                              /\ (h.qty = 0 => h.cost = 0)
      BY PortfolioAssumption
    <3>. QED  BY <3>1 DEF PortfolioInit
  <2>. QED
    BY <2>1, PortfolioAssumption
       DEF PortfolioInit, LedgerInv, PortfolioTypeOK, NoCostWithoutUnits, WealthBridge
<1>2. LedgerInv /\ [PortfolioNext]_portfolioVars => LedgerInv'
  <2> SUFFICES ASSUME LedgerInv, [PortfolioNext]_portfolioVars PROVE LedgerInv'
    OBVIOUS
  <2>1. CASE UNCHANGED portfolioVars
    BY <2>1 DEF portfolioVars, LedgerInv, PortfolioTypeOK, NoCostWithoutUnits, WealthBridge
  <2>2. CASE TwinNext
    BY <2>2, TwinKeepsBooks DEF TwinNext
  <2>3. CASE PastNext
    BY <2>3, PastKeepsBooks DEF PastNext
  <2>. QED  BY <2>1, <2>2, <2>3 DEF PortfolioNext
<1>. QED  BY <1>1, <1>2, PTL DEF PortfolioSpec

(* The portfolio keeps its types, whichever engine moves it.                *)
THEOREM PortfolioTypeCorrect == PortfolioSpec => []PortfolioTypeOK
<1>1. LedgerInv => PortfolioTypeOK
  BY DEF LedgerInv
<1>. QED  BY <1>1, PortfolioKeepsBooks, PTL

(* On every exchange worth at cost moves by exactly the profit claimed.     *)
THEOREM PortfolioWealthBridge == PortfolioSpec => []WealthBridge
<1>1. LedgerInv => WealthBridge
  BY DEF LedgerInv
<1>. QED  BY <1>1, PortfolioKeepsBooks, PTL

(* No rounding and no partial sale leaves a cost without its units.         *)
THEOREM PortfolioNoCostWithoutUnits == PortfolioSpec => []NoCostWithoutUnits
<1>1. LedgerInv => NoCostWithoutUnits
  BY DEF LedgerInv
<1>. QED  BY <1>1, PortfolioKeepsBooks, PTL

\* Marked at the bid, what was bought is worth no more than it cost.
LEMMA PurchaseGainsNothing ==
  ASSUME NEW q \in Nat \ {0}, NEW ask \in Nat, NEW bid \in Nat, bid <= ask, NEW fee \in Nat
  PROVE  LET f == Fill(q, ask, fee, Quote)
         IN NetIn(f) * bid - CostOf(f) \in Int /\ NetIn(f) * bid - CostOf(f) <= 0
<1> DEFINE f == Fill(q, ask, fee, Quote)
<1>1. NetIn(f) = q /\ CostOf(f) = q * ask + fee
  BY DEF NetIn, CostOf, BaseFee, QuoteFee, Fill, Quote, Base
<1>2. q * bid \in Nat /\ q * ask \in Nat /\ q * bid <= q * ask
  OBVIOUS
<1>3. q * bid - (q * ask + fee) \in Int /\ q * bid - (q * ask + fee) <= 0
  BY <1>2
<1>. QED  BY <1>1, <1>3

(* What an accepted arbitrage gains is realized by its sale.                *)
THEOREM PortfolioGainIsRealized == PortfolioSpec => GainIsRealized
<1> DEFINE Gains == moves' # moves => \A b, s \in Exchanges, k, l \in Books :
       (\E size \in Sizes : TwinArbitrage(b, s, k, l, size)) => realized'[s] - realized[s] > Margin
<1>1. LedgerInv /\ [PortfolioNext]_portfolioVars => [Gains]_portfolioVars
  <2> SUFFICES ASSUME LedgerInv, NEW b \in Exchanges, NEW s \in Exchanges,
                      NEW k \in Books, NEW l \in Books, NEW size \in Sizes,
                      TwinArbitrage(b, s, k, l, size)
               PROVE  realized'[s] - realized[s] > Margin
    OBVIOUS
  <2> DEFINE quote == DualLegQuote(Leg(k.ask, k.size), Leg(l.bid, l.size), size, size)
             q == CommonQty(quote.qty, pool[s].qty, 1, 1)
             sold == SoldOf(quote, q)
             bought == BoughtOf(quote, q)
  <2>1. /\ quote.executable /\ q > 0
        /\ WouldTrade(WealthDelta(pool[s], sold, bought, k.bid, 0), Margin)
        /\ realized' = Claiming(s, sold)
    BY DEF TwinArbitrage, MarkOfBought, ArbitrageApplied
  <2>2. pool[s].qty \in Int /\ pool[s] \in [qty : Int, cost : Int] /\ Covered(pool[s])
    BY PoolsAreCovered
  <2>3. SoundFill(sold) /\ SoundFill(bought)
    BY <2>1, <2>2, LegsAreSound
  <2>4. bought = Fill(q, k.ask, bought.fee, Quote)
    BY DEF BoughtOf, Fill, DualLegQuote, Leg
  <2>5. q \in Nat \ {0} /\ bought.fee \in Nat /\ k.ask \in Nat /\ k.bid \in Nat /\ k.bid <= k.ask
    BY <2>3, BooksArePositive, PortfolioAssumption DEF SoundFill, Fills, BoughtOf, Fill
  <2> HIDE DEF sold, bought, q, quote
  <2>6. NetIn(bought) * k.bid - CostOf(bought) \in Int /\ NetIn(bought) * k.bid - CostOf(bought) <= 0
    BY <2>4, <2>5, PurchaseGainsNothing
  <2>7. CanSell(pool[s], sold)
    BY <2>1 DEF WouldTrade, WealthDelta
  <2>8. Realized(pool[s], sold) \in Int
    BY <2>2, <2>3, <2>7, SellFromPool
  <2>9. NetIn(bought) \in Int /\ CostOf(bought) \in Int /\ NetIn(bought) * k.bid \in Int
    BY <2>3, <2>5, FillAmounts
  <2>10. Realized(pool[s], sold) + NetIn(bought) * k.bid - CostOf(bought) + 0 > Margin
    BY <2>1, <2>7 DEF WouldTrade, WealthDelta
  <2>11. Realized(pool[s], sold) > Margin
    BY <2>6, <2>8, <2>9, <2>10, PortfolioAssumption
  <2>12. realized'[s] = realized[s] + Realized(pool[s], sold) /\ realized[s] \in Int
    BY <2>1 DEF Claiming, LedgerInv, PortfolioTypeOK
  <2>. QED  BY <2>8, <2>11, <2>12, PortfolioAssumption
<1>. QED  BY <1>1, PortfolioKeepsBooks, PTL DEF PortfolioSpec, GainIsRealized

-----------------------------------------------------------------------------
\* Reconciliation

Movement == [asset : Assets, delta : Deltas]

\* An event is reported or found once it has happened, and not both; a verdict of a
\* mismatch keeps what it was reached from, and each end what it was decided by.
ReconciliationInv ==
  /\ moved \in [Events -> Movement \cup {NoMovement}]
  /\ reported \subseteq Happened /\ found \subseteq Happened /\ reported \cap found = {}
  /\ verdict \in {"mismatch", "stop", "recovered"} => ~Within({})
  /\ verdict = "stop" => Explanations = {}
  /\ verdict = "recovered" => explained \in Explanations

\* A set of events and another one apart from it move what both move.
LEMMA NetOfApart ==
  ASSUME ReconciliationInv, NEW S \in SUBSET Happened, NEW R \in SUBSET Happened, S \cap R = {}
  PROVE  NetOf(S \cup R) = NetOf(S) + NetOf(R) /\ NetOf(S) \in Int /\ NetOf(R) \in Int
<1> DEFINE f == [e \in S \cup R |-> moved[e].delta]
           g(T) == [e \in T |-> moved[e].delta]
<1>1. \A e \in Happened : e \in Events /\ moved[e].delta \in Int
  <2>1. \A e \in Happened : e \in Events /\ moved[e] \in Movement
    BY DEF ReconciliationInv, Happened
  <2> QED  BY <2>1, ReconciliationAssumption DEF Movement, ReconciliationAssumption
<1>2. IsFiniteSet(S) /\ IsFiniteSet(R)
  <2>1. S \subseteq Events /\ R \subseteq Events /\ IsFiniteSet(Events)
    BY <1>1, ReconciliationAssumption DEF ReconciliationAssumption
  <2> QED  BY <2>1, FS_Subset
<1>3. \A T : NetOf(T) = SumFunctionOnSet(g(T), T)
  BY DEF NetOf, SumFunction, SumFunctionOnSet, FoldFunction
<1>4. /\ \A e \in S : f[e] = g(S)[e] /\ f[e] \in Int
      /\ \A e \in R : f[e] = g(R)[e] /\ f[e] \in Int
      /\ g(S \cup R) = f
  BY <1>1
<1> HIDE DEF f, g
<1>5. SumFunctionOnSet(f, S \cup R) = SumFunctionOnSet(f, S) + SumFunctionOnSet(f, R)
  BY <1>2, <1>4, SumUnion
<1>6. SumFunctionOnSet(f, S) = SumFunctionOnSet(g(S), S) /\ SumFunctionOnSet(f, S) \in Int
  BY <1>2, <1>4, SumSame, SumInt
<1>7. SumFunctionOnSet(f, R) = SumFunctionOnSet(g(R), R) /\ SumFunctionOnSet(f, R) \in Int
  BY <1>2, <1>4, SumSame, SumInt
<1> QED  BY <1>3, <1>4, <1>5, <1>6, <1>7

LEMMA NothingExplainsNothing ==
  ASSUME ReconciliationInv
  PROVE  /\ NetOf({}) = 0
         /\ \A e : e \in Of(reported) => e \in Happened
         /\ \A e : e \in Of(found) => e \in Happened
<1> DEFINE S == {}
<1>1. S \in SUBSET Happened /\ S \cap S = {} /\ S \cup S = S
  OBVIOUS
<1> HIDE DEF S
<1>2. NetOf(S \cup S) = NetOf(S) + NetOf(S) /\ NetOf(S) \in Int
  BY <1>1, NetOfApart
<1>3. NetOf(S) = 0
  <2>1. NetOf(S) = NetOf(S) + NetOf(S) /\ NetOf(S) \in Int
    BY <1>1, <1>2
  <2> DEFINE total == NetOf(S)
  <2>2. total = total + total /\ total \in Int
    BY <2>1
  <2> HIDE DEF total
  <2>3. total = 0
    BY <2>2
  <2> QED  BY <2>3 DEF total
<1> QED  BY <1>3 DEF S, ReconciliationInv, Of

\* What was reported and what was found move what happened, if that is all there is:
\* the events found explain the mismatch, all of them together if no fewer do.
LEMMA FoundEventsExplain ==
  ASSUME ReconciliationInv, \A e \in Of(Happened) : e \in reported \cup found, ~Within({})
  PROVE  Of(found) \in Explanations
<1>1. /\ Of(reported) \in SUBSET Happened /\ Of(found) \in SUBSET Happened
      /\ Of(reported) \cap Of(found) = {}
  BY NothingExplainsNothing DEF ReconciliationInv, Of
<1>2. Of(Happened) = Of(reported) \cup Of(found)
  BY NothingExplainsNothing DEF ReconciliationInv, Of
<1>3. /\ ActualDelta = ExpectedDelta + NetOf(Of(found))
      /\ ExpectedDelta \in Int /\ NetOf(Of(found)) \in Int
  BY <1>1, <1>2, NetOfApart DEF ActualDelta, ExpectedDelta
<1>4. Tolerance \in Nat
  <2> DEFINE relative == AbsDelta(ExpectedDelta) \div 50
  <2>1. AbsDelta(ExpectedDelta) \in Nat
    BY <1>3 DEF AbsDelta
  <2>2. relative \in Nat
    BY <2>1
  <2> HIDE DEF relative
  <2>3. ToleranceAbs \in Nat
    BY ReconciliationAssumption DEF ReconciliationAssumption
  <2>4. Tolerance = IF ToleranceAbs >= relative THEN ToleranceAbs ELSE relative
    BY DEF Tolerance, relative
  <2> QED  BY <2>2, <2>3, <2>4
<1>5. Within(Of(found))
  <2>1. ActualDelta - ExpectedDelta - NetOf(Of(found)) = 0
    BY <1>3
  <2> QED  BY <1>4, <2>1 DEF Within, AbsDelta
<1>6. Of(found) # {}
  BY <1>5
<1> QED  BY <1>5, <1>6 DEF Explanations

LEMMA ReconciliationPreserved ==
  ASSUME ReconciliationInv, [ReconciliationNext]_reconciliationVars
  PROVE  ReconciliationInv'
<1>a. ASSUME UNCHANGED <<moved, reported, found>>
      PROVE  (Happened' = Happened) /\ (Within({})' = Within({})) /\ (Explanations' = Explanations)
  BY <1>a DEF Happened, Within, Explanations, Of, NetOf, ActualDelta, ExpectedDelta, Tolerance
<1>1. ASSUME NEW e \in Events, NEW asset \in Assets, NEW delta \in Deltas,
             NEW how \in {"reported", "found", "lost"}, Happen(e, asset, delta, how)
      PROVE  ReconciliationInv'
  <2> DEFINE movement == [asset |-> asset, delta |-> delta]
  <2>1. movement \in Movement /\ NoMovement \notin Movement
    BY ReconciliationAssumption DEF ReconciliationAssumption, Movement
  <2>2. /\ moved \in [Events -> Movement \cup {NoMovement}]
        /\ moved' = [moved EXCEPT ![e] = movement] /\ moved[e] = NoMovement
        /\ verdict = "open" /\ verdict' = "open"
    BY <1>1 DEF Happen, ReconciliationInv
  <2> HIDE DEF movement
  <2>3. moved' \in [Events -> Movement \cup {NoMovement}]
    BY <2>1, <2>2
  <2>4. Happened' = Happened \cup {e} /\ e \notin Happened
    BY <2>1, <2>2 DEF Happened
  <2>5. /\ reported' = (IF how = "reported" THEN reported \cup {e} ELSE reported)
        /\ found' = (IF how = "found" THEN found \cup {e} ELSE found)
    BY <1>1 DEF Happen
  <2>6. /\ reported \subseteq Happened /\ found \subseteq Happened /\ reported \cap found = {}
    BY DEF ReconciliationInv
  <2>7. /\ reported' \subseteq Happened' /\ found' \subseteq Happened' /\ reported' \cap found' = {}
    BY <2>4, <2>5, <2>6
  <2> QED  BY <2>2, <2>3, <2>7 DEF ReconciliationInv
<1>2. CASE Reconcile
  <2>1. /\ UNCHANGED <<moved, reported, found>>
        /\ verdict' = (IF Within({}) THEN "match" ELSE "mismatch")
    BY <1>2 DEF Reconcile
  <2> QED  BY <1>a, <2>1 DEF ReconciliationInv
<1>3. CASE Recover
  <2>1. /\ UNCHANGED <<moved, reported, found>> /\ verdict = "mismatch" /\ verdict' = "recovered"
        /\ explained' \in Explanations
    BY <1>3 DEF Recover
  <2> QED  BY <1>a, <2>1 DEF ReconciliationInv
<1>4. CASE SafeStopUnexplained
  <2>1. /\ UNCHANGED <<moved, reported, found>> /\ verdict = "mismatch" /\ verdict' = "stop"
        /\ Explanations = {}
    BY <1>4 DEF SafeStopUnexplained
  <2> QED  BY <1>a, <2>1 DEF ReconciliationInv
<1>5. CASE UNCHANGED reconciliationVars
  <2>1. UNCHANGED <<moved, reported, found>> /\ verdict' = verdict /\ explained' = explained
    BY <1>5 DEF reconciliationVars
  <2> QED  BY <1>a, <2>1 DEF ReconciliationInv
<1> QED  BY <1>1, <1>2, <1>3, <1>4, <1>5 DEF ReconciliationNext

\* A person is called only for a movement that was neither reported nor found, however
\* many events there are and whatever the tolerance; and a recovery rests on events of
\* the asset alone (attempt_reconciliation_recovery).
THEOREM ReconciliationStopsUnexplained == ReconciliationSpec => []StopMeansUnexplained
<1>1. ReconciliationInit => ReconciliationInv
  BY DEF ReconciliationInit, ReconciliationInv, Happened
<1>2. ReconciliationInv /\ [ReconciliationNext]_reconciliationVars => ReconciliationInv'
  BY ReconciliationPreserved
<1>3. ReconciliationInv => StopMeansUnexplained
  BY FoundEventsExplain DEF ReconciliationInv, StopMeansUnexplained, Explanations
<1> QED  BY <1>1, <1>2, <1>3, PTL DEF ReconciliationSpec

-----------------------------------------------------------------------------
\* Shadow decisions

SameInstant(r, s) == Opp[r].at = Opp[s].at
Working == batch \cup DOMAIN pending

\* The engines commit whole instants and the orchestrator decides whole instants: no row
\* that is decided, or being decided, has left a row of its instant behind. Of the rows
\* being decided, each event has one that is not a duplicate.
WholeInstants ==
  /\ stored \subseteq Rows /\ DOMAIN decided \subseteq stored
  /\ Working \subseteq stored /\ Working \cap DOMAIN decided = {} /\ batch \cap DOMAIN pending = {}
  /\ \A r \in stored, s \in Rows : SameInstant(r, s) => s \in stored
  /\ \A r \in DOMAIN decided, s \in stored : SameInstant(r, s) => s \in DOMAIN decided
  /\ \A r \in Working, s \in stored : SameInstant(r, s) => s \in Working
  /\ \A r, s \in Working \ losers : SameEvent(r, s) => r = s
  /\ \A r \in DOMAIN pending : pending[r].outcome = "allocate" => r \notin losers

ShadowInv ==
  /\ granularity \in {"opportunities", "scans"}
  /\ granularity = "opportunities" => WholeInstants /\ TwinsNeverBothAllocated

\* The batch that is cut before its last instant is made of whole instants.
LEMMA TrimmedIsWhole ==
  ASSUME granularity = "opportunities", NEW U, U \subseteq Rows, NEW B, IsEarliest(B, U)
  PROVE  /\ Trimmed(B) \subseteq U
         /\ \A r \in Trimmed(B), s \in U : SameInstant(r, s) => s \in Trimmed(B)
<1>1. /\ IsFiniteSet(U) /\ IsFiniteSet(B) /\ B \subseteq U /\ B \subseteq Rows
      /\ \A r \in U : Opp[r].at \in Nat
  <2>1. IsFiniteSet(Rows) /\ \A r \in Rows : Opp[r].at \in Nat
    BY ShadowAssumption DEF ShadowAssumption
  <2>2. B \subseteq U
    BY DEF IsEarliest
  <2> QED  BY <2>1, <2>2, FS_Subset
<1>2. Cardinality(B) \in Nat /\ Cardinality(U) \in Nat /\ BatchSize \in Nat
  BY <1>1, FS_CardinalityType, ShadowAssumption DEF ShadowAssumption
<1>3. \A r \in B, s \in U \ B : Opp[r].at <= Opp[s].at
  BY DEF IsEarliest
<1>4. CASE Cardinality(B) < BatchSize
  <2>1. Cardinality(B) = Cardinality(U)
    BY <1>2, <1>4 DEF IsEarliest
  <2>2. B = U
    BY <1>1, <2>1, FS_Subset
  <2>3. Trimmed(B) = B
    BY <1>4 DEF Trimmed
  <2> QED  BY <2>2, <2>3
<1>5. CASE ~(Cardinality(B) < BatchSize) /\ BeforeTheLast(B) = {}
  <2>1. Trimmed(B) = B
    BY <1>5 DEF Trimmed
  <2>2. ASSUME NEW r \in B, NEW s \in U, SameInstant(r, s) PROVE s \in B
    <3> DEFINE R == {x \in Rows : Opp[x].at = Opp[r].at}
    <3>1. B \subseteq R
      <4> SUFFICES ASSUME NEW b \in B PROVE Opp[b].at = Opp[r].at
        BY <1>1
      <4>1. ~(Opp[b].at < Opp[r].at) /\ ~(Opp[r].at < Opp[b].at)
        BY <1>5 DEF BeforeTheLast
      <4> QED  BY <1>1, <4>1
    <3>2. IsFiniteSet(R) /\ Cardinality(R) <= BatchSize
      <4>1. r \in Rows /\ IsFiniteSet(Rows) /\ R \subseteq Rows
        BY <1>1, ShadowAssumption DEF ShadowAssumption
      <4> QED  BY <4>1, FS_Subset, ShadowAssumption DEF ShadowAssumption
    <3>3. Cardinality(B) <= Cardinality(R) /\ Cardinality(R) \in Nat
      BY <3>1, <3>2, FS_Subset, FS_CardinalityType
    <3>4. Cardinality(B) = Cardinality(R)
      BY <1>2, <1>5, <3>2, <3>3
    <3>5. B = R
      <4> HIDE DEF R
      <4> QED  BY <3>1, <3>2, <3>4, FS_Subset
    <3>6. s \in R
      BY <2>2 DEF SameInstant
    <3> QED  BY <3>5, <3>6
  <2> QED  BY <1>1, <2>1, <2>2
<1>6. CASE ~(Cardinality(B) < BatchSize) /\ BeforeTheLast(B) # {}
  <2>1. Trimmed(B) = BeforeTheLast(B)
    BY <1>6 DEF Trimmed
  <2>2. ASSUME NEW r \in BeforeTheLast(B), NEW s \in U, SameInstant(r, s) PROVE s \in BeforeTheLast(B)
    <3>1. PICK last \in B : Opp[r].at < Opp[last].at
      BY DEF BeforeTheLast
    <3>2. Opp[s].at < Opp[last].at
      BY <2>2, <3>1 DEF SameInstant
    <3>3. s \in B
      BY <1>1, <1>3, <3>2
    <3> QED  BY <3>2, <3>3 DEF BeforeTheLast
  <2> QED  BY <1>1, <2>1, <2>2 DEF BeforeTheLast
<1> QED  BY <1>4, <1>5, <1>6

LEMMA ShadowPreserved == ShadowInv /\ [ShadowNext]_shadowVars => ShadowInv'
<1> SUFFICES ASSUME ShadowInv, [ShadowNext]_shadowVars PROVE ShadowInv'
  OBVIOUS
<1>1. granularity' = granularity
  BY DEF ShadowNext, shadowVars, Store, Fetch, Evaluate, Commit, BatchFails, Restart
<1> SUFFICES ASSUME granularity = "opportunities" PROVE (WholeInstants /\ TwinsNeverBothAllocated)'
  BY <1>1 DEF ShadowInv
<1>2. WholeInstants /\ TwinsNeverBothAllocated
  BY DEF ShadowInv
<1>3. ASSUME NEW r \in Rows, Store(r) PROVE (WholeInstants /\ TwinsNeverBothAllocated)'
  <2>1. /\ r \in Rows \ stored
        /\ stored' = stored \cup {s \in Rows : Opp[s].at = Opp[r].at}
        /\ UNCHANGED <<decided, batch, losers, pending>>
    BY <1>3 DEF Store, Written, work
  <2>2. (Working' = Working) /\ (Allocated' = Allocated)
    BY <2>1 DEF Working, Allocated
  <2>3. \A x \in stored : Opp[x].at # Opp[r].at
    BY <1>2, <2>1 DEF WholeInstants, SameInstant
  <2>4. TwinsNeverBothAllocated'
    BY <1>2, <2>2 DEF TwinsNeverBothAllocated, SameEvent
  <2>5. WholeInstants'
    BY <1>2, <2>1, <2>2, <2>3 DEF WholeInstants, SameInstant, SameEvent
  <2> QED  BY <2>4, <2>5
<1>4. CASE Fetch
  <2> DEFINE U == stored \ DOMAIN decided
  <2>1. PICK B : IsEarliest(B, U) /\ batch' = Trimmed(B) /\ pending' = pending /\ pending = Nothing
                  /\ UNCHANGED <<stored, decided>>
                  /\ \E W \in SUBSET Trimmed(B) : AreRepresentatives(W, Trimmed(B)) /\ losers' = Trimmed(B) \ W
    BY <1>4 DEF Fetch, Idle, table
  <2>2. /\ Trimmed(B) \subseteq U
        /\ \A r \in Trimmed(B), s \in U : SameInstant(r, s) => s \in Trimmed(B)
    <3>1. U \subseteq Rows
      BY <1>2 DEF WholeInstants
    <3> HIDE DEF U
    <3> QED  BY <2>1, <3>1, TrimmedIsWhole
  <2>3. PICK W \in SUBSET Trimmed(B) : AreRepresentatives(W, Trimmed(B)) /\ losers' = Trimmed(B) \ W
    BY <2>1
  <2>4. DOMAIN pending' = {} /\ Working' = Trimmed(B)
    BY <2>1 DEF Nothing, Working
  <2>5. \A x, y \in Trimmed(B) \ losers' : SameEvent(x, y) => x = y
    BY <2>3 DEF AreRepresentatives
  <2>6. Allocated' = Allocated
    BY <2>1 DEF Allocated
  <2>7. TwinsNeverBothAllocated'
    BY <1>2, <2>6 DEF TwinsNeverBothAllocated, SameEvent
  <2>8. WholeInstants'
    <3>1. (stored' = stored) /\ (decided' = decided) /\ (batch' = Trimmed(B))
      BY <2>1
    <3>2. \A x \in Working', s \in stored' : SameInstant(x, s) => s \in Working'
      <4> SUFFICES ASSUME NEW x \in Trimmed(B), NEW s \in stored, SameInstant(x, s) PROVE s \in Trimmed(B)
        BY <2>4, <3>1
      <4>1. s \notin DOMAIN decided
        BY <1>2, <2>2 DEF WholeInstants, SameInstant
      <4> QED  BY <2>2, <4>1
    <3>3. (Working' \subseteq stored') /\ (Working' \cap DOMAIN decided' = {})
      BY <2>2, <2>4, <3>1
    <3> QED  BY <1>2, <2>4, <2>5, <3>1, <3>2, <3>3 DEF WholeInstants, SameInstant, SameEvent
  <2> QED  BY <2>7, <2>8
<1>5. ASSUME NEW r \in Rows, Evaluate(r) PROVE (WholeInstants /\ TwinsNeverBothAllocated)'
  <2>1. /\ r \in batch /\ batch' = batch \ {r}
        /\ pending' = [s \in DOMAIN pending \cup {r} |-> IF s = r THEN DecisionOn(r) ELSE pending[s]]
        /\ UNCHANGED <<stored, decided, losers>>
    BY <1>5 DEF Evaluate, table
  <2>2. (Working' = Working) /\ (Allocated' = Allocated) /\ (DOMAIN pending' = DOMAIN pending \cup {r})
    BY <2>1 DEF Working, Allocated
  <2>3. \A x \in DOMAIN pending' : pending'[x].outcome = "allocate" => x \notin losers
    <3> SUFFICES ASSUME NEW x \in DOMAIN pending \cup {r}, pending'[x].outcome = "allocate" PROVE x \notin losers
      BY <2>2
    <3>1. CASE x = r
      BY <2>1, <3>1 DEF DecisionOn, Outcome
    <3>2. CASE x # r
      BY <1>2, <2>1, <3>2 DEF WholeInstants
    <3> QED  BY <3>1, <3>2
  <2>4. TwinsNeverBothAllocated'
    BY <1>2, <2>2 DEF TwinsNeverBothAllocated, SameEvent
  <2>5. WholeInstants'
    BY <1>2, <2>1, <2>2, <2>3 DEF WholeInstants, SameInstant, SameEvent
  <2> QED  BY <2>4, <2>5
<1>6. ASSUME NoWork PROVE (DOMAIN pending' = {}) /\ (Working' = {})
  BY <1>6 DEF NoWork, Nothing, Working
<1>7. CASE Commit
  <2>1. /\ batch = {} /\ NoWork /\ stored' = stored
        /\ decided' = [r \in DOMAIN decided \cup DOMAIN pending |->
                         IF r \in DOMAIN decided THEN decided[r] ELSE pending[r]]
    BY <1>7 DEF Commit
  <2>2. (DOMAIN decided' = DOMAIN decided \cup DOMAIN pending) /\ (Working = DOMAIN pending)
    BY <2>1 DEF Working
  <2>3. \A r \in Allocated' : r \in Allocated \/ (r \in DOMAIN pending /\ r \notin losers)
    BY <1>2, <2>1, <2>2 DEF Allocated, WholeInstants
  <2>4. \A r \in Allocated : r \in DOMAIN decided /\ r \in stored
    BY <1>2 DEF Allocated, WholeInstants
  <2>5. TwinsNeverBothAllocated'
    <3> SUFFICES ASSUME NEW r \in Allocated', NEW s \in Allocated', SameEvent(r, s) PROVE r = s
      BY DEF TwinsNeverBothAllocated, SameEvent
    <3>1. SameInstant(r, s) /\ SameInstant(s, r) /\ r \in stored /\ s \in stored
      BY <1>2, <2>2, <2>3, <2>4 DEF SameEvent, SameInstant, WholeInstants
    <3>2. CASE r \in Allocated /\ s \in Allocated
      BY <1>2, <3>2 DEF TwinsNeverBothAllocated
    <3>3. CASE r \in DOMAIN pending /\ s \in DOMAIN pending
      BY <1>2, <2>2, <2>3, <2>4, <3>3 DEF WholeInstants
    <3>4. ~(r \in Allocated /\ s \in DOMAIN pending) /\ ~(s \in Allocated /\ r \in DOMAIN pending)
      BY <1>2, <2>2, <2>4, <3>1 DEF WholeInstants
    <3> QED  BY <2>3, <3>2, <3>3, <3>4
  <2>6. WholeInstants'
    BY <1>2, <1>6, <2>1, <2>2 DEF WholeInstants, SameInstant, NoWork
  <2> QED  BY <2>5, <2>6
<1>8. ASSUME NoWork, UNCHANGED <<stored, decided>> PROVE (WholeInstants /\ TwinsNeverBothAllocated)'
  <2>1. Allocated' = Allocated
    BY <1>8 DEF Allocated
  <2>2. TwinsNeverBothAllocated'
    BY <1>2, <2>1 DEF TwinsNeverBothAllocated, SameEvent
  <2>3. WholeInstants'
    BY <1>2, <1>6, <1>8 DEF WholeInstants, SameInstant, NoWork
  <2> QED  BY <2>2, <2>3
<1>9. CASE BatchFails \/ Restart
  BY <1>8, <1>9 DEF BatchFails, Restart, table
<1>10. CASE UNCHANGED shadowVars
  <2>1. UNCHANGED <<stored, decided, batch, losers, pending>>
    BY <1>10 DEF shadowVars, table, work
  <2>2. (Working' = Working) /\ (Allocated' = Allocated)
    BY <2>1 DEF Working, Allocated
  <2>3. TwinsNeverBothAllocated'
    BY <1>2, <2>2 DEF TwinsNeverBothAllocated, SameEvent
  <2>4. WholeInstants'
    BY <1>2, <2>1, <2>2 DEF WholeInstants, SameInstant, SameEvent
  <2> QED  BY <2>3, <2>4
<1> QED  BY <1>3, <1>4, <1>5, <1>7, <1>9, <1>10 DEF ShadowNext

\* Of the rows of one price gap at most one is ever allocated, for any rows and batches,
\* provided no instant has more rows than a batch, and however often a batch fails or the
\* process restarts (fetch_unevaluated_opportunities, partition_duplicate_economic_events).
THEOREM ShadowAllocatesOneTwin == ShadowSpec => []TwinsNeverBothAllocated
<1>1. ShadowInit => ShadowInv
  <2> SUFFICES ASSUME ShadowInit PROVE ShadowInv
    OBVIOUS
  <2>1. /\ stored = {} /\ DOMAIN decided = {} /\ batch = {} /\ DOMAIN pending = {}
        /\ granularity \in {"opportunities", "scans"}
    BY DEF ShadowInit, Nothing
  <2> QED  BY <2>1 DEF ShadowInv, WholeInstants, TwinsNeverBothAllocated, Allocated, Working
<1>2. ShadowInv => TwinsNeverBothAllocated
  BY DEF ShadowInv, TwinsNeverBothAllocated
<1> QED  BY <1>1, <1>2, ShadowPreserved, PTL DEF ShadowSpec

-----------------------------------------------------------------------------
\* Walking a book

\* what one more level fills of a size in dollars
TakeLevel(w, l, target) ==
  LET take == Least(target - w.filled, l.price * l.qty)
  IN [filled |-> w.filled + take, qty |-> w.qty + (take * Unit) \div l.price]

\* What the first level finds and each further one keeps, the walk returns.
LEMMA WalkKeeps ==
  ASSUME NEW levels, NEW n \in Nat, DOMAIN levels = 1..n, NEW target, NEW Typ,
         [filled |-> 0, qty |-> 0] \in Typ,
         \A w \in Typ : \A i \in 1..n : TakeLevel(w, levels[i], target) \in Typ
  PROVE  SimulateVwap(levels, target) \in Typ
<1> DEFINE S == DOMAIN levels
           op(w, l) == LET take == Least(target - w.filled, l.price * l.qty)
                       IN [filled |-> w.filled + take, qty |-> w.qty + (take * Unit) \div l.price]
           b == [filled |-> 0, qty |-> 0]
           c == [T \in SUBSET S |-> Max(T)]
           g == [i \in S |-> [w \in Typ |-> op(w, levels[i])]]
           Rec(k) == k = [T \in SUBSET S |-> IF T = {} THEN b
                                             ELSE op(k[T \ {Max(T)}], levels[Max(T)])]
<1>1. IsFiniteSet(S) /\ S \subseteq Int
  <2>1. IsFiniteSet(1..n)
    BY FS_Interval
  <2> QED  BY <2>1
<1>2. ASSUME NEW T \in SUBSET S, T # {} PROVE Max(T) \in T
  <2>1. IsFiniteSet(T) /\ T \subseteq Int
    BY <1>1, FS_Subset
  <2>2. \E x \in T : \A y \in T : y <= x
    BY <1>2, <2>1, LargestOfNumbers
  <2>3. \E x \in T : \A y \in T : x >= y
    BY <2>1, <2>2
  <2> QED  BY <2>3 DEF Max
<1>3. ASSUME NEW w \in Typ, NEW i \in S PROVE op(w, levels[i]) \in Typ
  BY DEF TakeLevel
<1>4. b \in Typ
  OBVIOUS
<1> HIDE DEF op, b
<1>5. \A i \in S : g[i] \in [Typ -> Typ]
  BY <1>3
<1>6. Chooses(c, S)
  BY <1>2 DEF Chooses
<1>7. PICK k : FoldsOn(g, c, b, S, k)
  <2> HIDE DEF S, c, g
  <2> QED  BY <1>1, <1>6, FoldsOnExists
<1>8. \A T \in SUBSET S : k[T] \in Typ
  <2> HIDE DEF S, c, g, Rec
  <2> QED  BY <1>1, <1>4, <1>5, <1>6, <1>7, FoldsOnType, ZenonT(60)
<1>9. Rec(k)
  <2>1. ASSUME NEW T \in SUBSET S, T # {}
        PROVE  g[c[T]][k[T \ {c[T]}]] = op(k[T \ {Max(T)}], levels[Max(T)])
    <3>1. Max(T) \in S /\ c[T] = Max(T) /\ T \ {Max(T)} \in SUBSET S
      BY <1>2, <2>1
    <3>2. k[T \ {Max(T)}] \in Typ
      BY <1>8, <3>1
    <3> QED  BY <3>1, <3>2
  <2>2. k = [T \in SUBSET S |-> IF T = {} THEN b ELSE g[c[T]][k[T \ {c[T]}]]]
    BY <1>7 DEF FoldsOn
  <2> HIDE DEF g, c, S
  <2> QED  BY <2>1, <2>2
<1> DEFINE it == CHOOSE f : Rec(f)
<1>10. Rec(it)
  <2> HIDE DEF Rec
  <2> QED  BY <1>9
<1>11. SimulateVwap(levels, target) = it[S]
  BY DEF SimulateVwap, FoldLeft, MapThenFoldSet, op, b
<1> HIDE DEF it
<1> DEFINE D == {T \in SUBSET S : it[T] \notin Typ}
<1>12. ASSUME D # {} PROVE FALSE
  <2>1. PICK T \in D : \A U \in D : ~(U \subseteq T /\ U # T)
    <3>1. D \subseteq SUBSET S
      OBVIOUS
    <3>2. D # {} /\ IsFiniteSet(S)
      BY <1>1, <1>12
    <3> HIDE DEF D, S
    <3> QED  BY <3>1, <3>2, LeastSet
  <2>2. T \in SUBSET S /\ it[T] \notin Typ
    BY <2>1
  <2>3. it[T] = IF T = {} THEN b ELSE op(it[T \ {Max(T)}], levels[Max(T)])
    BY <1>10, <2>2
  <2>4. T # {}
    BY <1>4, <2>2, <2>3
  <2>5. Max(T) \in T /\ Max(T) \in S
    BY <1>2, <2>2, <2>4
  <2>6. T \ {Max(T)} \in SUBSET S /\ T \ {Max(T)} \notin D
    <3> HIDE DEF D
    <3> QED  BY <2>1, <2>2, <2>5
  <2>7. it[T \ {Max(T)}] \in Typ
    BY <2>6
  <2> QED  BY <1>3, <2>2, <2>3, <2>4, <2>5, <2>7
<1>13. S \in SUBSET S /\ S \notin D
  BY <1>12
<1> QED  BY <1>11, <1>13

\* levels of a book: prices and quantities of which the unit is a multiple
IsLevel(l) ==
  /\ l.price \in Nat \ {0} /\ l.qty \in Nat
  /\ \E k \in Nat : Unit = k * l.price

\* A level takes no more than is asked, and buys or sells no more for it than its price says.
LEMMA LevelTakes ==
  ASSUME NEW l, IsLevel(l), NEW target \in Nat, NEW w \in [filled : Nat, qty : Nat], w.filled <= target
  PROVE  \E take \in Nat, units \in Nat :
           /\ w.filled + take <= target
           /\ TakeLevel(w, l, target) = [filled |-> w.filled + take, qty |-> w.qty + units]
           /\ units * l.price = take * Unit
<1> DEFINE take == Least(target - w.filled, l.price * l.qty)
           units == (take * Unit) \div l.price
<1>1. l.price \in Nat \ {0} /\ l.price * l.qty \in Nat
  BY DEF IsLevel
<1>2. take \in Nat /\ w.filled + take <= target
  <2>1. target - w.filled \in Nat /\ w.filled \in Nat
    OBVIOUS
  <2> DEFINE x == l.price * l.qty
  <2>2. x \in Nat
    BY <1>1
  <2> HIDE DEF x
  <2>3. Least(target - w.filled, x) \in Nat /\ w.filled + Least(target - w.filled, x) <= target
    BY <2>1, <2>2 DEF Least
  <2> QED  BY <2>3 DEF x
<1>3. PICK k \in Nat : Unit = k * l.price
  BY DEF IsLevel
<1> HIDE DEF take
<1>4. take * Unit = (take * k) * l.price /\ take * k \in Nat
  BY <1>1, <1>2, <1>3
<1>5. \A x \in Nat : \A p \in Nat \ {0} : (x * p) \div p = x
  <2> SUFFICES ASSUME NEW x \in Nat, NEW p \in Nat \ {0} PROVE (x * p) \div p = x
    OBVIOUS
  <2> DEFINE q == (x * p) \div p
  <2>1. x * p \in Nat
    OBVIOUS
  <2>2. q \in Int /\ p * q <= x * p /\ x * p < p * q + p
    BY <2>1
  <2> HIDE DEF q
  <2>3. ~(q >= x + 1)
    <3> SUFFICES ASSUME q >= x + 1 PROVE FALSE
      OBVIOUS
    <3>1. p * q >= x * p + p
      BY <2>2
    <3> QED  BY <2>1, <2>2, <3>1
  <2>4. ~(q <= x - 1)
    <3> SUFFICES ASSUME q <= x - 1 PROVE FALSE
      OBVIOUS
    <3>1. p * q + p <= x * p
      BY <2>2
    <3> QED  BY <2>1, <2>2, <3>1
  <2> QED  BY <2>2, <2>3, <2>4 DEF q
<1>6. units = take * k
  BY <1>1, <1>4, <1>5
<1>7. units \in Nat /\ units * l.price = take * Unit
  BY <1>4, <1>6
<1> HIDE DEF units
<1>8. TakeLevel(w, l, target) = [filled |-> w.filled + take, qty |-> w.qty + units]
  BY DEF TakeLevel, take, units
<1> QED  BY <1>2, <1>7, <1>8

\* A purchase gets no more coins than its best price gives for what it spends,
\* a sale needs no fewer.
LEMMA WalkAgainstPrice ==
  ASSUME NEW levels, NEW n \in Nat, DOMAIN levels = 1..n, \A i \in 1..n : IsLevel(levels[i]),
         NEW target \in Nat, NEW price \in Nat \ {0}
  PROVE  LET walk == SimulateVwap(levels, target)
         IN /\ walk \in [filled : Nat, qty : Nat]
            /\ (\A i \in 1..n : price <= levels[i].price) => walk.qty * price <= walk.filled * Unit
            /\ (\A i \in 1..n : levels[i].price <= price) => walk.filled * Unit <= walk.qty * price
<1> DEFINE Walks == {w \in [filled : Nat, qty : Nat] : w.filled <= target}
           Dearer == {w \in Walks : w.qty * price <= w.filled * Unit}
           Cheaper == {w \in Walks : w.filled * Unit <= w.qty * price}
           b == [filled |-> 0, qty |-> 0]
<1>1. Unit \in Nat \ {0}
  BY QuoteAssumption
<1>2. b \in Walks /\ b \in Dearer /\ b \in Cheaper
  BY <1>1
<1>3. ASSUME NEW w \in Walks, NEW i \in 1..n
      PROVE  /\ TakeLevel(w, levels[i], target) \in Walks
             /\ w \in Dearer /\ price <= levels[i].price => TakeLevel(w, levels[i], target) \in Dearer
             /\ w \in Cheaper /\ levels[i].price <= price => TakeLevel(w, levels[i], target) \in Cheaper
  <2> DEFINE p == levels[i].price
             v == TakeLevel(w, levels[i], target)
  <2>1. PICK take \in Nat, units \in Nat :
          /\ w.filled + take <= target
          /\ v = [filled |-> w.filled + take, qty |-> w.qty + units]
          /\ units * p = take * Unit
    BY LevelTakes
  <2>2. p \in Nat \ {0} /\ w.filled \in Nat /\ w.qty \in Nat
    BY DEF IsLevel
  <2> HIDE DEF v
  <2>3. v \in Walks /\ v.filled = w.filled + take /\ v.qty = w.qty + units
    BY <2>1, <2>2
  <2> HIDE DEF p
  <2>4. /\ v.qty * price = w.qty * price + units * price
        /\ v.filled * Unit = w.filled * Unit + take * Unit
        /\ {w.qty * price, units * price, w.filled * Unit, take * Unit, units * p} \subseteq Nat
    <3>1. \A x, y, z \in Nat : (x + y) * z = x * z + y * z /\ x * z \in Nat
      OBVIOUS
    <3>2. {v.filled, v.qty, w.filled, w.qty, price, Unit, take, units, p} \subseteq Nat
      BY <1>1, <2>2, <2>3, <2>1
    <3>3. v.qty * price = (w.qty + units) * price /\ v.filled * Unit = (w.filled + take) * Unit
      BY <2>3
    <3>4. /\ (w.qty + units) * price = w.qty * price + units * price
          /\ (w.filled + take) * Unit = w.filled * Unit + take * Unit
      BY <3>1, <3>2
    <3>5. /\ w.qty * price \in Nat /\ units * price \in Nat /\ units * p \in Nat
          /\ w.filled * Unit \in Nat /\ take * Unit \in Nat
      <4>1. \A x, z \in Nat : x * z \in Nat
        OBVIOUS
      <4> QED  BY <3>2, <4>1, Zenon
    <3> QED  BY <3>3, <3>4, <3>5
  <2>5. price <= p => units * price <= units * p
    BY <2>1, <2>2
  <2>6. p <= price => units * p <= units * price
    BY <2>1, <2>2
  <2> HIDE DEF Walks
  <2>7. w \in Dearer /\ price <= p => v \in Dearer
    BY <2>1, <2>3, <2>4, <2>5
  <2>8. w \in Cheaper /\ p <= price => v \in Cheaper
    BY <2>1, <2>3, <2>4, <2>6
  <2> QED  BY <2>3, <2>7, <2>8 DEF v, p
<1>4. SimulateVwap(levels, target) \in Walks
  <2> HIDE DEF Walks
  <2> QED  BY <1>2, <1>3, WalkKeeps
<1>5. ASSUME \A i \in 1..n : price <= levels[i].price PROVE SimulateVwap(levels, target) \in Dearer
  <2>1. \A w \in Dearer : w \in Walks
    OBVIOUS
  <2> HIDE DEF Walks, Dearer
  <2> QED  BY <1>2, <1>3, <1>5, <2>1, WalkKeeps
<1>6. ASSUME \A i \in 1..n : levels[i].price <= price PROVE SimulateVwap(levels, target) \in Cheaper
  <2>1. \A w \in Cheaper : w \in Walks
    OBVIOUS
  <2> HIDE DEF Walks, Cheaper
  <2> QED  BY <1>2, <1>3, <1>6, <2>1, WalkKeeps
<1> QED  BY <1>4, <1>5, <1>6

(* Books that do not cross, with a price that no bid exceeds and no ask is   *)
(* below, offer no size that earns, however deep they are: the sweep of      *)
(* compute_depth_adjusted_edge invents no edge out of its roundings.         *)
THEOREM NoEdgeWithoutACross ==
  ASSUME NEW asks, NEW n \in Nat, DOMAIN asks = 1..n, \A i \in 1..n : IsLevel(asks[i]),
         NEW bids, NEW m \in Nat, DOMAIN bids = 1..m, \A i \in 1..m : IsLevel(bids[i]),
         NEW price \in Nat \ {0},
         \A i \in 1..n : price <= asks[i].price, \A i \in 1..m : bids[i].price <= price,
         NEW tiers, tiers \subseteq Nat
  PROVE  Profitable(TierNets(asks, bids, tiers)) = {}
<1> SUFFICES ASSUME NEW size \in Nat PROVE EvaluateTier(asks, bids, size).net \in Int
                                           /\ EvaluateTier(asks, bids, size).net <= 0
  <2> DEFINE net == TierNets(asks, bids, tiers)
  <2>1. DOMAIN net = tiers /\ \A t \in tiers : net[t] = EvaluateTier(asks, bids, t).net
    BY DEF TierNets
  <2> HIDE DEF net
  <2>2. \A t \in DOMAIN net : net[t] \in Int /\ net[t] <= 0
    BY <2>1
  <2>3. Profitable(net) = {}
    BY <2>2 DEF Profitable
  <2> QED  BY <2>3 DEF net
<1> DEFINE b == SimulateVwap(asks, size)
           s == SimulateVwap(bids, size)
           filled == Least(b.filled, s.filled)
           sold == (filled * b.qty * s.filled) \div (b.filled * s.qty)
<1>1. b \in [filled : Nat, qty : Nat] /\ b.qty * price <= b.filled * Unit
  BY WalkAgainstPrice
<1>2. s \in [filled : Nat, qty : Nat] /\ s.filled * Unit <= s.qty * price
  BY WalkAgainstPrice
<1>3. EvaluateTier(asks, bids, size) =
        IF b.filled <= 0 \/ s.filled <= 0 THEN NothingFilled
        ELSE [filled |-> filled, net |-> sold - filled - FeeOn(filled) - FeeOn(sold)]
  BY DEF EvaluateTier
<1>4. Unit \in Nat \ {0}
  BY QuoteAssumption
<1>5. CASE b.filled <= 0 \/ s.filled <= 0
  BY <1>3, <1>5 DEF NothingFilled
<1>6. CASE ~(b.filled <= 0 \/ s.filled <= 0)
  <2> DEFINE spent == b.filled
             units == b.qty
             given == s.qty
             got == s.filled
  <2>1. /\ spent \in Nat \ {0} /\ units \in Nat /\ given \in Nat /\ got \in Nat \ {0}
        /\ units * price <= spent * Unit /\ got * Unit <= given * price
    BY <1>1, <1>2, <1>6
  <2> HIDE DEF b, s
  <2> HIDE DEF spent, units, given, got
  <2>2. given # 0
    <3> SUFFICES ASSUME given = 0 PROVE FALSE
      OBVIOUS
    <3>1. got * Unit \in Nat \ {0} /\ given * price = 0
      BY <1>4, <2>1
    <3> QED  BY <2>1, <3>1
  <2>3. units * got <= spent * given
    <3>1. (units * price) * (got * Unit) <= (spent * Unit) * (given * price)
      <4>1. \A u, v, x, y \in Nat : u <= v /\ x <= y => u * x <= v * y
        <5> SUFFICES ASSUME NEW u \in Nat, NEW v \in Nat, NEW x \in Nat, NEW y \in Nat, u <= v, x <= y
                     PROVE  u * x <= v * y
          OBVIOUS
        <5>1. u * x <= v * x
          OBVIOUS
        <5>2. v * x <= v * y
          OBVIOUS
        <5>3. u * x \in Nat /\ v * x \in Nat /\ v * y \in Nat
          OBVIOUS
        <5> QED  BY <5>1, <5>2, <5>3
      <4>2. units * price \in Nat /\ spent * Unit \in Nat /\ got * Unit \in Nat /\ given * price \in Nat
        BY <1>4, <2>1
      <4> QED  BY <2>1, <4>1, <4>2
    <3> DEFINE unit == price * Unit
               x == units * got
               y == spent * given
    <3>2. unit \in Nat \ {0} /\ x \in Nat /\ y \in Nat
      BY <1>4, <2>1
    <3>3. x * unit = (units * price) * (got * Unit)
      BY <1>4, <2>1
    <3>4. y * unit = (spent * Unit) * (given * price)
      BY <1>4, <2>1
    <3> HIDE DEF unit
    <3>5. x * unit <= y * unit
      BY <3>1, <3>3, <3>4
    <3> HIDE DEF x, y
    <3>6. x <= y
      <4> SUFFICES ASSUME x >= y + 1 PROVE FALSE
        BY <3>2
      <4>1. x * unit >= y * unit + unit
        BY <3>2
      <4>2. x * unit \in Nat /\ y * unit \in Nat
        BY <3>2
      <4> QED  BY <3>2, <3>5, <4>1, <4>2
    <3> QED  BY <3>6 DEF x, y
  <2>4. filled \in Nat
    BY <2>1 DEF Least, spent, got
  <2>5. sold = (filled * units * got) \div (spent * given)
    BY DEF spent, units, given, got
  <2> HIDE DEF filled, sold
  <2>6. sold \in 0..filled
    <3> DEFINE part == units * got
               whole == spent * given
    <3>1. part \in Nat /\ whole \in Nat \ {0} /\ part <= whole
      BY <2>1, <2>2, <2>3
    <3>2. filled * units * got = part * filled
      BY <2>1, <2>4
    <3> HIDE DEF part, whole
    <3>3. (part * filled) \div whole \in 0..filled
      BY <2>4, <3>1, ShareOfAmount
    <3> QED  BY <2>5, <3>2, <3>3 DEF whole
  <2>7. FeeOn(filled) \in Nat /\ FeeOn(sold) \in Nat
    BY <2>4, <2>6, FeeIsNat
  <2>8. EvaluateTier(asks, bids, size).net = sold - filled - FeeOn(filled) - FeeOn(sold)
    BY <1>3, <1>6
  <2> QED  BY <2>4, <2>6, <2>7, <2>8
<1> QED  BY <1>5, <1>6

-----------------------------------------------------------------------------
\* Judged before the trade

\* Nothing larger that both exchanges can trade was left: what is asked of a lot step
\* is the largest multiple of the step within the quantity.
LEMMA RoundedIsLargest ==
  ASSUME NEW q \in Nat, NEW step \in Nat \ {0}
  PROVE  /\ RoundDownToStep(q, step) \in 0..q
         /\ RoundDownToStep(q, step) % step = 0
         /\ \A n \in Nat : n * step <= q => n * step <= RoundDownToStep(q, step)
<1> DEFINE k == q \div step
<1>1. k \in Int /\ step * k <= q /\ q < step * k + step
  OBVIOUS
<1> HIDE DEF k
<1>2. k >= 0
  <2> SUFFICES ASSUME k <= -1 PROVE FALSE
    BY <1>1
  <2>1. step * k + step <= 0
    BY <1>1
  <2> QED  BY <1>1, <2>1
<1>3. RoundDownToStep(q, step) = k * step
  BY DEF RoundDownToStep, k
<1>4. k * step \in 0..q
  BY <1>1, <1>2
<1>5. (k * step) % step = 0
  BY <1>1, <1>2
<1>6. ASSUME NEW n \in Nat, n * step <= q PROVE n * step <= k * step
  <2>1. n <= k
    <3> SUFFICES ASSUME n >= k + 1 PROVE FALSE
      BY <1>1
    <3>1. n * step >= k * step + step
      BY <1>1
    <3> QED  BY <1>1, <1>6, <3>1
  <2> QED  BY <1>1, <2>1
<1> QED  BY <1>3, <1>4, <1>5, <1>6

(* What an arbitrage is sized at: no more than what is quoted and what the  *)
(* sell exchange holds, and nothing that both exchanges could trade is      *)
(* left, when the coarser lot step is a multiple of the finer one.          *)
THEOREM CommonQtyIsTheLargest ==
  ASSUME NEW quoted \in Nat, NEW owned \in Nat,
         NEW fine \in Nat \ {0}, NEW times \in Nat \ {0},
         NEW buyStep, NEW sellStep,
         \/ buyStep = fine /\ sellStep = times * fine
         \/ buyStep = times * fine /\ sellStep = fine
  PROVE  LET common == CommonQty(quoted, owned, buyStep, sellStep)
             tradable(q) == /\ \E n \in Nat : q = n * buyStep
                            /\ \E n \in Nat : q = n * sellStep
         IN /\ common \in 0..Least(quoted, owned) /\ tradable(common)
            /\ \A q \in 0..Least(quoted, owned) : tradable(q) => q <= common
<1> DEFINE step == times * fine
           most == Least(quoted, owned)
<1>1. most \in Nat /\ step \in Nat \ {0} /\ fine <= step
  BY DEF Least
<1>2. Greatest(buyStep, sellStep) = step
  BY <1>1 DEF Greatest
<1>3. CommonQty(quoted, owned, buyStep, sellStep) = IF most <= 0 THEN 0 ELSE RoundDownToStep(most, step)
  BY <1>2 DEF CommonQty
<1> DEFINE common == CommonQty(quoted, owned, buyStep, sellStep)
           tradable(q) == /\ \E n \in Nat : q = n * buyStep
                          /\ \E n \in Nat : q = n * sellStep
<1>4. RoundDownToStep(most, step) = (most \div step) * step
  BY <1>1 DEF RoundDownToStep
<1>5. /\ RoundDownToStep(most, step) \in 0..most
      /\ \A n \in Nat : n * step <= most => n * step <= RoundDownToStep(most, step)
  <2> HIDE DEF most, step
  <2> QED  BY <1>1, RoundedIsLargest
<1>6. common \in 0..most /\ \A n \in Nat : n * step <= most => n * step <= common
  <2> HIDE DEF step
  <2>1. CASE most <= 0
    <3>1. most = 0 /\ common = 0
      BY <1>1, <1>3, <2>1
    <3> QED  BY <3>1
  <2>2. CASE ~(most <= 0)
    BY <1>3, <1>5, <2>2
  <2> QED  BY <2>1, <2>2
<1>7. \E n \in Nat : common = n * step
  <2>1. CASE most <= 0
    <3>1. common = 0 * step
      BY <1>1, <1>3, <2>1
    <3> QED  BY <3>1
  <2>2. CASE ~(most <= 0)
    <3> DEFINE n == most \div step
    <3> HIDE DEF step, most
    <3>1. n \in Int /\ step * n <= most /\ most < step * n + step
      BY <1>1
    <3>2. common = n * step
      BY <1>3, <1>4, <2>2
    <3> HIDE DEF n
    <3>3. n \in Nat
      <4> SUFFICES ASSUME n <= -1 PROVE FALSE
        BY <3>1
      <4>1. step * n + step <= 0
        BY <1>1, <3>1
      <4> QED  BY <1>1, <3>1, <4>1
    <3> QED  BY <3>2, <3>3
  <2> QED  BY <2>1, <2>2
<1>8. \A n \in Nat : n * step = (n * times) * fine /\ n * times \in Nat
  OBVIOUS
<1>9. tradable(common)
  <2> HIDE DEF common, step
  <2>1. PICK n \in Nat : common = n * step
    BY <1>7
  <2>2. common = (n * times) * fine /\ n * times \in Nat
    BY <1>8, <2>1
  <2> QED  BY <2>1, <2>2 DEF step
<1>10. ASSUME NEW q \in 0..most, tradable(q) PROVE q <= common
  <2>1. \E n \in Nat : q = n * step
    BY <1>10
  <2> HIDE DEF common, step, most
  <2> QED  BY <1>6, <2>1
<1> QED  BY <1>6, <1>9, <1>10

(* Judged together, the purchase of the inventory and both legs of the      *)
(* arbitrage are worth what they change, at the mark: the dollars that move *)
(* and the units that are left, whatever the units sold had cost.           *)
THEOREM JointDeltaIsTheChangeOfWealth ==
  ASSUME NEW stock \in [qty : Int, cost : Int], NEW c, SoundFill(c), NEW s, SoundFill(s),
         NEW b, SoundFill(b), NEW mark \in Nat,
         Covered(stock), CanSell(ApplyBuy(stock, c), s)
  PROVE  LET kept == stock.qty + NetIn(c) - NetOut(s)
         IN JointDelta(stock, c, s, b, mark, mark, 0)
              = Proceeds(s) - CostOf(c) - CostOf(b) + (NetIn(b) + kept) * mark - stock.cost
<1> DEFINE stocked == ApplyBuy(stock, c)
           rest == ApplySell(stocked, s)
           delta == WealthDelta(stocked, s, b, mark, 0)
           kept == stock.qty + NetIn(c) - NetOut(s)
<1>1. /\ CostOf(c) \in Nat /\ CostOf(b) \in Nat /\ Proceeds(s) \in Int
      /\ NetIn(c) \in Nat \ {0} /\ NetIn(b) \in Nat \ {0} /\ NetOut(s) \in Nat \ {0}
  BY FillAmounts
<1>2. stocked = [qty |-> stock.qty + NetIn(c), cost |-> stock.cost + CostOf(c)]
  BY DEF ApplyBuy, SoundFill, Fills
<1>3. stocked \in [qty : Int, cost : Int] /\ Covered(stocked)
  BY BuyIntoPool
<1>4. rest \in [qty : Int, cost : Int] /\ Realized(stocked, s) \in Int
      /\ rest.cost = stocked.cost - Proceeds(s) + Realized(stocked, s) /\ Covered(rest)
  BY <1>3, SellFromPool
<1>5. rest.qty = kept
  <2>1. rest.qty = stocked.qty - NetOut(s)
    BY DEF ApplySell
  <2>2. stocked.qty = stock.qty + NetIn(c)
    BY <1>2
  <2>3. stock.qty \in Int
    OBVIOUS
  <2> HIDE DEF stocked, rest
  <2> QED  BY <1>1, <2>1, <2>2, <2>3
<1>6. delta = Realized(stocked, s) + NetIn(b) * mark - CostOf(b) + 0
  BY DEF WealthDelta
<1>7. NetIn(b) * mark \in Int /\ delta \in Int
  BY <1>1, <1>4, <1>6
<1>8. delta # Unknown /\ mark # Unknown
  BY <1>7, UnknownAssumption
<1>9. JointDelta(stock, c, s, b, mark, mark, 0)
        = IF rest.qty <= 0 THEN delta ELSE delta + Unrealized(rest, mark)
  BY <1>8 DEF JointDelta
<1>10. kept \in Int /\ stock.cost \in Int /\ stocked.cost = stock.cost + CostOf(c)
  BY <1>1, <1>2
<1> HIDE DEF stocked, rest, kept, delta
<1>11. kept * mark \in Int /\ (NetIn(b) + kept) * mark = NetIn(b) * mark + kept * mark
  BY <1>1, <1>10
<1>12. Realized(stocked, s) = rest.cost - stock.cost - CostOf(c) + Proceeds(s)
  BY <1>1, <1>4, <1>10
<1>13. CASE rest.qty <= 0
  <2>1. rest.qty = 0 /\ rest.cost = 0
    BY <1>4, <1>13 DEF Covered
  <2>2. kept * mark = 0
    BY <1>5, <2>1
  <2>3. delta = Proceeds(s) - CostOf(c) - CostOf(b) + (NetIn(b) * mark + kept * mark) - stock.cost
    BY <1>1, <1>4, <1>6, <1>7, <1>10, <1>12, <2>1, <2>2
  <2> QED  BY <1>9, <1>11, <1>13, <2>3 DEF kept
<1>14. CASE ~(rest.qty <= 0)
  <2>1. Unrealized(rest, mark) = kept * mark - rest.cost
    BY <1>5 DEF Unrealized
  <2>2. rest.cost \in Int
    BY <1>4
  <2>3. delta + Unrealized(rest, mark)
          = Proceeds(s) - CostOf(c) - CostOf(b) + (NetIn(b) * mark + kept * mark) - stock.cost
    <3> DEFINE gained == NetIn(b) * mark
               owned == kept * mark
    <3>1. gained \in Int /\ owned \in Int /\ delta = Realized(stocked, s) + gained - CostOf(b)
          /\ Unrealized(rest, mark) = owned - rest.cost
      BY <1>1, <1>4, <1>6, <1>7, <1>11, <2>1
    <3> HIDE DEF gained, owned
    <3>2. /\ stock.cost \in Int /\ rest.cost \in Int /\ Realized(stocked, s) \in Int
          /\ CostOf(c) \in Int /\ CostOf(b) \in Int /\ Proceeds(s) \in Int
      BY <1>1, <1>4, <1>10, <2>2
    <3> DEFINE before == stock.cost
               after == rest.cost
               told == Realized(stocked, s)
               spent == CostOf(c)
               paid == CostOf(b)
               earned == Proceeds(s)
    <3>3. /\ {before, after, told, spent, paid, earned} \subseteq Int
          /\ told = after - before - spent + earned
          /\ delta = told + gained - paid /\ Unrealized(rest, mark) = owned - after
      BY <1>12, <3>1, <3>2
    <3> HIDE DEF before, after, told, spent, paid, earned
    <3>4. delta + Unrealized(rest, mark) = earned - spent - paid + (gained + owned) - before
      BY <3>1, <3>3
    <3> QED  BY <3>4 DEF gained, owned, earned, spent, paid, before
  <2> QED  BY <1>9, <1>11, <1>14, <2>3 DEF kept
<1> QED  BY <1>13, <1>14

(* The accounts explain the net worth: what a sale realizes, with the       *)
(* change of what is not realized, is the change of dollars and units.      *)
THEOREM SalesReconcile ==
  ASSUME NEW stock \in [qty : Int, cost : Int], NEW f, SoundFill(f), CanSell(stock, f),
         Covered(stock), NEW price \in Nat
  PROVE  LET after == ApplySell(stock, f)
         IN Reconciled(Realized(stock, f) + Unrealized(after, price) - Unrealized(stock, price),
                       stock.qty * price, Proceeds(f) + after.qty * price, 0)
<1> DEFINE after == ApplySell(stock, f)
<1>1. after \in [qty : Int, cost : Int] /\ Realized(stock, f) \in Int
      /\ after.cost = stock.cost - Proceeds(f) + Realized(stock, f)
  BY SellFromPool
<1>2. Proceeds(f) \in Int
  BY FillAmounts
<1> HIDE DEF after
<1>3. after.qty * price \in Int /\ stock.qty * price \in Int /\ after.cost \in Int /\ stock.cost \in Int
  BY <1>1
<1> DEFINE told == Realized(stock, f) + Unrealized(after, price) - Unrealized(stock, price)
<1>4. told = (Proceeds(f) + after.qty * price) - stock.qty * price
  BY <1>1, <1>2, <1>3 DEF Unrealized
<1>5. told \in Int /\ told - ((Proceeds(f) + after.qty * price) - stock.qty * price) = 0
  BY <1>2, <1>3, <1>4
<1>6. Reconciled(told, stock.qty * price, Proceeds(f) + after.qty * price, 0)
  <2> HIDE DEF told
  <2> QED  BY <1>5 DEF Reconciled, Abs
<1> QED  BY <1>6 DEF after

(* A purchase marked at its own price is under water by its fee: it never   *)
(* counts as a gain, and as a loss exactly when there was a fee.            *)
THEOREM PurchasesPayTheirFee ==
  ASSUME NEW f, SoundFill(f), f.price > 0
  PROVE  /\ ConstitutionDelta(f, f.price) <= 0
         /\ Underwater(ApplyBuy(EmptyPool, f), f.price) <=> f.fee > 0
<1>1. /\ f.qty \in Nat \ {0} /\ f.price \in Nat \ {0} /\ f.fee \in Nat
      /\ f.feeAsset \in {Quote, Base} /\ Quote # Base
  BY DEF SoundFill, Fills, Quote, Base
<1> DEFINE inCoin == BaseFee(f)
           inDollars == QuoteFee(f)
<1>2. inCoin \in Nat /\ inDollars \in Nat /\ inCoin < f.qty
      /\ (f.fee > 0 <=> inCoin > 0 \/ inDollars > 0)
  BY <1>1 DEF BaseFee, QuoteFee, SoundFill
<1>3. CostOf(f) = f.qty * f.price + inDollars /\ NetIn(f) = f.qty - inCoin
  BY DEF CostOf, NetIn
<1> HIDE DEF inCoin, inDollars
<1>4. f.qty * f.price \in Nat /\ inCoin * f.price \in Nat
      /\ (f.qty - inCoin) * f.price = f.qty * f.price - inCoin * f.price
  BY <1>1, <1>2
<1>5. inCoin * f.price > 0 <=> inCoin > 0
  BY <1>1, <1>2
<1>6. ConstitutionDelta(f, f.price) = - (inCoin * f.price) - inDollars
  BY <1>2, <1>3, <1>4 DEF ConstitutionDelta
<1>7. ApplyBuy(EmptyPool, f) = [qty |-> NetIn(f), cost |-> CostOf(f)]
  BY <1>1, <1>2, <1>3, <1>4 DEF ApplyBuy, EmptyPool
<1>8. Underwater(ApplyBuy(EmptyPool, f), f.price) <=> inCoin * f.price + inDollars > 0
  BY <1>1, <1>2, <1>3, <1>4, <1>7 DEF Underwater
<1> QED  BY <1>2, <1>4, <1>5, <1>6, <1>8

(* Liquidated at the bids, an account is worth no more after a purchase at  *)
(* or above the bid than before: spending alone never looks like a gain.    *)
THEOREM LiquidationNeverGains ==
  ASSUME NEW Listed, IsFiniteSet(Listed), NEW owned \in [Listed -> Nat],
         NEW bids, \A a \in DOMAIN bids : bids[a] \in Nat,
         NEW coin \in Listed, NEW f, SoundFill(f), coin \in DOMAIN bids => bids[coin] <= f.price,
         NEW purse \in Nat, CostOf(f) <= purse
  PROVE  LiquidationNetWorth(purse - CostOf(f), [owned EXCEPT ![coin] = owned[coin] + NetIn(f)], bids)
           <= LiquidationNetWorth(purse, owned, bids)
<1> DEFINE after == [owned EXCEPT ![coin] = owned[coin] + NetIn(f)]
           Worth(h) == [a \in DOMAIN h |-> IF h[a] <= 0 \/ a \notin DOMAIN bids THEN 0 ELSE h[a] * bids[a]]
           old == Worth(owned)
           new == Worth(after)
<1>1. CostOf(f) \in Nat /\ NetIn(f) \in Nat \ {0}
  BY FillAmounts
<1>2. DOMAIN owned = Listed /\ after \in [Listed -> Nat]
      /\ \A a \in Listed : after[a] = IF a = coin THEN owned[a] + NetIn(f) ELSE owned[a]
  BY <1>1
<1> HIDE DEF after
<1>3. /\ \A a \in Listed : old[a] = IF owned[a] <= 0 \/ a \notin DOMAIN bids THEN 0 ELSE owned[a] * bids[a]
      /\ \A a \in Listed : new[a] = IF after[a] <= 0 \/ a \notin DOMAIN bids THEN 0 ELSE after[a] * bids[a]
  BY <1>2
<1>4. LiquidationNetWorth(purse, owned, bids) = Greatest(0, purse) + SumFunctionOnSet(old, Listed)
  <2>1. DOMAIN owned = Listed
    BY <1>2
  <2> QED  BY <2>1 DEF LiquidationNetWorth, SumFunctionOnSet
<1>5. LiquidationNetWorth(purse - CostOf(f), after, bids)
        = Greatest(0, purse - CostOf(f)) + SumFunctionOnSet(new, Listed)
  <2>1. DOMAIN after = Listed
    BY <1>2
  <2> QED  BY <2>1 DEF LiquidationNetWorth, SumFunctionOnSet
<1> HIDE DEF old, new
<1>6. \A a \in Listed : old[a] \in Int /\ new[a] \in Int
  <2> SUFFICES ASSUME NEW a \in Listed PROVE old[a] \in Int /\ new[a] \in Int
    OBVIOUS
  <2>1. owned[a] \in Nat /\ after[a] \in Nat
    BY <1>2
  <2>2. CASE a \notin DOMAIN bids
    BY <1>3, <2>2
  <2>3. CASE a \in DOMAIN bids
    <3>1. owned[a] * bids[a] \in Int /\ after[a] * bids[a] \in Int
      BY <2>1, <2>3
    <3> QED  BY <1>3, <3>1
  <2> QED  BY <2>2, <2>3
<1>7. \A a \in Listed : a # coin => new[a] = old[a]
  BY <1>2, <1>3
<1>8. SumFunctionOnSet(new, Listed) = SumFunctionOnSet(old, Listed) - old[coin] + new[coin]
  BY <1>6, <1>7, SumChange
<1>9. new[coin] <= old[coin] + CostOf(f)
  <2>1. owned[coin] \in Nat /\ after[coin] = owned[coin] + NetIn(f)
    BY <1>2
  <2>2. CASE coin \notin DOMAIN bids
    BY <1>1, <1>3, <2>2
  <2>3. CASE coin \in DOMAIN bids
    <3> DEFINE bid == bids[coin]
    <3>1. bid \in Nat /\ bid <= f.price
      BY <2>3
    <3>2. f.qty \in Nat /\ f.price \in Nat /\ NetIn(f) <= f.qty /\ f.qty * f.price <= CostOf(f)
      <4>1. f \in Fills /\ BaseFee(f) \in Nat /\ QuoteFee(f) \in Nat
        BY DEF SoundFill, Fills, BaseFee, QuoteFee
      <4>2. f.qty \in Nat /\ f.price \in Nat /\ f.qty * f.price \in Nat
        BY <4>1 DEF Fills
      <4> QED  BY <4>1, <4>2 DEF NetIn, CostOf
    <3>3. old[coin] = owned[coin] * bid
      <4>1. CASE owned[coin] <= 0
        <5>1. owned[coin] = 0
          BY <2>1, <4>1
        <5> QED  BY <1>3, <3>1, <5>1
      <4>2. CASE ~(owned[coin] <= 0)
        BY <1>3, <2>3, <4>2
      <4> QED  BY <4>1, <4>2
    <3>4. new[coin] = (owned[coin] + NetIn(f)) * bid
      <4>1. after[coin] > 0
        BY <1>1, <2>1
      <4>2. ~(after[coin] <= 0)
        BY <1>1, <2>1
      <4> QED  BY <1>3, <2>1, <2>3, <4>2
    <3> HIDE DEF bid
    <3>5. NetIn(f) * bid <= f.qty * f.price
      <4>1. NetIn(f) * bid <= f.qty * bid
        BY <1>1, <3>1, <3>2
      <4>2. f.qty * bid <= f.qty * f.price
        BY <3>1, <3>2
      <4>3. NetIn(f) * bid \in Nat /\ f.qty * bid \in Nat /\ f.qty * f.price \in Nat
        BY <1>1, <3>1, <3>2
      <4> QED  BY <4>1, <4>2, <4>3
    <3>6. (owned[coin] + NetIn(f)) * bid = owned[coin] * bid + NetIn(f) * bid
      BY <1>1, <2>1, <3>1
    <3>7. owned[coin] * bid \in Nat /\ NetIn(f) * bid \in Nat /\ f.qty * f.price \in Nat
      BY <1>1, <2>1, <3>1, <3>2
    <3> QED  BY <1>1, <3>2, <3>3, <3>4, <3>5, <3>6, <3>7
  <2> QED  BY <2>2, <2>3
<1>10. SumFunctionOnSet(old, Listed) \in Int
  BY <1>6, SumInt
<1>11. Greatest(0, purse) = purse /\ Greatest(0, purse - CostOf(f)) = purse - CostOf(f)
  BY <1>1 DEF Greatest
<1>12. old[coin] \in Int /\ new[coin] \in Int
  BY <1>6
<1> QED  BY <1>1, <1>4, <1>5, <1>8, <1>9, <1>10, <1>11, <1>12 DEF after
=============================================================================
