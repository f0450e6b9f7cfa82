---------------------------- MODULE EconomicLedger ----------------------------
(***************************************************************************)
(* What held units cost and what a trade earns once they are valued at it: *)
(* app/execution/true_economic_ledger.py, true_economic_pretrade.py,       *)
(* rejection_classifier.py and app/reporting/real_net_worth.py.            *)
(*                                                                         *)
(* A pool is the quantity held of an asset on an exchange and what that    *)
(* quantity cost; a fill is a quantity, a price and a fee in an asset. The *)
(* cost of units sold is rounded down to the unit of the amounts, once:    *)
(* the pool gives up exactly what the sale is charged.                     *)
(***************************************************************************)
EXTENDS MarketQuotes

Quote == "QUOTE"
Base  == "BASE"

\* an absent figure (None), told from every number
CONSTANT Unknown
ASSUME UnknownAssumption == Unknown \notin Int

EmptyPool == [qty |-> 0, cost |-> 0]

Fill(qty, price, fee, feeAsset) ==
  [qty |-> qty, price |-> price, fee |-> fee, feeAsset |-> feeAsset]

\* the fee counts on one side only: in the coin, or in dollars
BaseFee(f)  == IF f.feeAsset = Base THEN f.fee ELSE 0
QuoteFee(f) == IF f.feeAsset = Quote THEN f.fee ELSE 0

CostOf(f)   == f.qty * f.price + QuoteFee(f)
NetIn(f)    == f.qty - BaseFee(f)
NetOut(f)   == f.qty + BaseFee(f)
Proceeds(f) == f.qty * f.price - QuoteFee(f)

\* apply_buy
ApplyBuy(pool, f) ==
  IF f.qty <= 0 THEN pool
  ELSE [qty |-> pool.qty + NetIn(f), cost |-> pool.cost + CostOf(f)]

\* apply_sell: None unless the pool covers the quantity sold
CanSell(pool, f) == f.qty > 0 /\ pool.qty > 0 /\ NetOut(f) <= pool.qty

CostRemoved(pool, f) == (NetOut(f) * pool.cost) \div pool.qty
Realized(pool, f)    == Proceeds(f) - CostRemoved(pool, f)

ApplySell(pool, f) ==
  [qty |-> pool.qty - NetOut(f), cost |-> pool.cost - CostRemoved(pool, f)]

SeedPool(qty, price) == [qty |-> qty, cost |-> qty * price]

Unrealized(pool, price) == pool.qty * price - pool.cost

\* total_unrealized_pnl, over the exchanges with a known price
TotalUnrealized(pools, prices) ==
  FoldFunctionOnSet(+, 0,
    [e \in DOMAIN prices |-> Unrealized(IF e \in DOMAIN pools THEN pools[e] ELSE EmptyPool,
                                        prices[e])],
    DOMAIN prices)

-----------------------------------------------------------------------------
\* The gate: is the whole operation worth more than the margin?

\* evaluate_arbitrage_true_economics
WealthDelta(sellPool, sold, bought, mark, impact) ==
  IF ~CanSell(sellPool, sold) THEN Unknown
  ELSE Realized(sellPool, sold) + NetIn(bought) * mark - CostOf(bought) + impact

WouldTrade(delta, margin) == delta # Unknown /\ delta > margin

\* evaluate_inventory_constitution_true_economics
ConstitutionDelta(f, mark) == NetIn(f) * mark - CostOf(f)
Underwater(pool, mark)     == pool.qty > 0 /\ pool.cost > pool.qty * mark

\* evaluate_joint_constitution_and_arbitrage: the units bought to be sold are
\* judged with the sale, and what remains at residualMark (Unknown: not valued)
JointDelta(sellPool, constituted, sold, bought, mark, residualMark, impact) ==
  LET stocked == ApplyBuy(sellPool, constituted)
      delta == WealthDelta(stocked, sold, bought, mark, impact)
      rest == ApplySell(stocked, sold)
  IN IF delta = Unknown \/ residualMark = Unknown \/ rest.qty <= 0 THEN delta
     ELSE delta + Unrealized(rest, residualMark)

\* compute_return_bps
ReturnBps(delta, notional) ==
  IF delta = Unknown \/ notional <= 0 THEN Unknown ELSE (delta * 10000) \div notional

\* evaluate_executability
Blocker(positive, capital, needed, held, required) ==
  IF ~positive THEN "NOT_TRUE_ECONOMIC_POSITIVE"
  ELSE IF capital < needed /\ held < required THEN "INSUFFICIENT_CAPITAL_AND_INVENTORY"
  ELSE IF capital < needed THEN "INSUFFICIENT_CAPITAL"
  ELSE IF held < required THEN "INSUFFICIENT_INVENTORY"
  ELSE "NONE"

\* both legs of a quote as the fills it stands for
SoldOf(quote, q)   == Fill(q, quote.sellPrice, (quote.sellFee * q) \div quote.qty, Quote)
BoughtOf(quote, q) == Fill(q, quote.buyPrice, (quote.buyFee * q) \div quote.qty, Quote)

RouteDelta(sellPool, quote, bid, impact) ==
  IF quote.qty <= 0 THEN Unknown
  ELSE WealthDelta(sellPool, SoldOf(quote, quote.qty), BoughtOf(quote, quote.qty), bid, impact)

\* evaluate_route_across_tiers
RouteAcrossTiers(buy, sell, sellPool, bid, impact, tiers) ==
  [t \in tiers |-> RouteDelta(sellPool, DualLegQuote(buy, sell, t, t), bid, impact)]

\* build_route_observation: the verdict on the economics and the one on the
\* means to trade are kept apart
RouteObservation(buy, sell, sellPool, bid, margin, impact, natural, usdt, held, tiers) ==
  LET quote == DualLegQuote(buy, sell, natural, natural)
      delta == RouteDelta(sellPool, quote, bid, impact)
      needed == quote.qty * quote.buyPrice
  IN [quote |-> quote, delta |-> delta, bps |-> ReturnBps(delta, needed),
      byTier |-> RouteAcrossTiers(buy, sell, sellPool, bid, impact, tiers),
      positive |-> WouldTrade(delta, margin),
      capital |-> usdt >= needed, inventory |-> held >= quote.qty, needed |-> needed,
      blocker |-> Blocker(WouldTrade(delta, margin), usdt, needed, held, quote.qty)]

-----------------------------------------------------------------------------
\* Why a route was turned down

\* classify_rejection: the first structural reason, before any economics
ClassifyRejection(o, sellPool, balance, floor) ==
  IF ~o.quote.tradable THEN "NOT_TRADABLE"
  ELSE IF ~o.quote.lotPass \/ ~o.quote.notionalPass THEN "BELOW_MIN_NOTIONAL"
  ELSE IF ~o.quote.deep THEN "INSUFFICIENT_DEPTH"
  ELSE IF o.delta = Unknown THEN "UNKNOWN_SELL_COST_BASIS"
  ELSE IF ~o.capital
       THEN IF balance >= o.needed /\ floor > 0 THEN "RESERVE_FLOOR" ELSE "INSUFFICIENT_CAPITAL"
  ELSE IF ~o.inventory THEN "INSUFFICIENT_SELL_INVENTORY"
  ELSE IF ~o.positive THEN "NOT_TRUE_ECONOMIC_POSITIVE"
  ELSE "OTHER"

\* diagnose_cost_basis_gap
DiagnoseGap(pool, held, tolerance) ==
  IF held <= 0 THEN "ZERO_REAL_BALANCE"
  ELSE IF Abs(held - pool.qty) <= tolerance THEN "LEDGER_MATCHES_REAL_BALANCE"
  ELSE IF held > pool.qty THEN "LEDGER_UNDERSTATES_REAL_BALANCE"
  ELSE "LEDGER_OVERSTATES_REAL_BALANCE"

-----------------------------------------------------------------------------
\* Net worth

\* compute_liquidation_net_worth: an asset without a bid counts for nothing
LiquidationNetWorth(usdt, held, bids) ==
  Greatest(0, usdt)
    + FoldFunctionOnSet(+, 0, [a \in DOMAIN held |->
        IF held[a] <= 0 \/ a \notin DOMAIN bids THEN 0 ELSE held[a] * bids[a]], DOMAIN held)

\* check_reconciliation_invariant
Reconciled(accounted, start, now, tolerance) == Abs(accounted - (now - start)) <= tolerance
=============================================================================
