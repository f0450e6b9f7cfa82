----------------------------- MODULE MarketQuotes -----------------------------
(***************************************************************************)
(* What an order book says of a trade before it is made: filling a size    *)
(* from its levels (app/market_data/orderbook.py, reality_quote.py), the   *)
(* quote of both legs of an arbitrage (dual_leg_quote.py) and the size     *)
(* that earns most (app/analytics/execution_depth.py).                     *)
(*                                                                         *)
(* A book side is a sequence of levels, the best one first. Prices are     *)
(* natural numbers; a percentage of a notional is modelled by the amount   *)
(* it stands for, and a quotient is rounded to the unit of the amounts.    *)
(***************************************************************************)
EXTENDS Integers, SequencesExt, Sizing

CONSTANTS
  FeeDivisor,  \* a taker fee is 1/FeeDivisor of the notional
  Unit         \* a multiple of every price: quantities bought for USD are in 1/Unit

ASSUME QuoteAssumption == FeeDivisor \in Nat \ {0} /\ Unit \in Nat \ {0}

Abs(x) == IF x >= 0 THEN x ELSE -x

\* a fee on a notional, rounded up to the unit
FeeOn(notional) == (notional + FeeDivisor - 1) \div FeeDivisor

RoundDownToStep(q, step) == IF step <= 0 THEN q ELSE (q \div step) * step

-----------------------------------------------------------------------------
\* Walking a book

\* _vwap_for_target_qty: what of target the levels fill, and what it costs
VwapForTargetQty(levels, target) ==
  FoldLeft(LAMBDA w, l :
             LET take == Least(target - w.filled, l.qty)
             IN [filled |-> w.filled + take, cost |-> w.cost + take * l.price],
           [filled |-> 0, cost |-> 0], levels)

\* simulate_vwap: the same for a size in USD
SimulateVwap(levels, target) ==
  FoldLeft(LAMBDA w, l :
             LET take == Least(target - w.filled, l.price * l.qty)
             IN [filled |-> w.filled + take, qty |-> w.qty + (take * Unit) \div l.price],
           [filled |-> 0, qty |-> 0], levels)

\* the cost of slippage on a notional of q at price; a book that holds less
\* than q counts as 100 %, one that holds nothing as none
SlippageCost(levels, price, q) ==
  LET w == VwapForTargetQty(levels, q)
      slip == Abs(w.cost - price * w.filled) * q
  IN IF w.filled <= 0 \/ price <= 0 THEN 0
     ELSE IF w.filled < q THEN Greatest(price * q, slip \div w.filled)
     ELSE slip \div w.filled

\* slippage of 100 % stands for a book too thin
DepthShort(levels, price, q) == q * price > 0 /\ SlippageCost(levels, price, q) >= q * price

-----------------------------------------------------------------------------
\* Both legs of an arbitrage

(* A leg: the best price on its side, the levels it trades against, the    *)
(* lot step, the exchange's minima (NoMinimum: none published) and whether *)
(* the pair is open for trading.                                           *)
NoMinimum == -1

\* both legs trade one quantity, a multiple of the coarser price's request
ExecutableQty(buy, sell, size) ==
  LET requested(step) == RoundDownToStep(Least(size \div buy.price, size \div sell.price), step)
  IN IF buy.price <= 0 \/ sell.price <= 0 THEN 0
     ELSE Least(requested(buy.step), requested(sell.step))

MinNotionalPass(leg, q) == leg.minNotional = NoMinimum \/ q * leg.price >= leg.minNotional
LotSizePass(leg, q)     == q > 0 /\ q >= leg.minQty

NetProfit(buy, sell, q) ==
  LET bought == q * buy.price
      sold   == q * sell.price
  IN (sold - FeeOn(sold) - SlippageCost(sell.levels, sell.price, q))
       - (bought + FeeOn(bought) + SlippageCost(buy.levels, buy.price, q))

\* compute_dual_leg_quote
DualLegQuote(buy, sell, requested, cap) ==
  LET size == Greatest(0, Least(requested, cap))
      q == ExecutableQty(buy, sell, size)
      net == NetProfit(buy, sell, q)
  IN [qty |-> q,
      buyPrice |-> buy.price, sellPrice |-> sell.price,
      buyFee |-> FeeOn(q * buy.price), sellFee |-> FeeOn(q * sell.price),
      net |-> net,
      tradable |-> buy.tradable /\ sell.tradable,
      lotPass |-> LotSizePass(buy, q) /\ LotSizePass(sell, q),
      notionalPass |-> MinNotionalPass(buy, q) /\ MinNotionalPass(sell, q),
      deep |-> ~DepthShort(buy.levels, buy.price, q) /\ ~DepthShort(sell.levels, sell.price, q),
      executable |-> /\ buy.tradable /\ sell.tradable
                     /\ LotSizePass(buy, q) /\ LotSizePass(sell, q)
                     /\ MinNotionalPass(buy, q) /\ MinNotionalPass(sell, q)
                     /\ net > 0]

\* compute_common_dual_leg_qty: no more than the sell exchange holds
CommonQty(quoted, held, buyStep, sellStep) ==
  IF Least(quoted, held) <= 0 THEN 0
  ELSE RoundDownToStep(Least(quoted, held), Greatest(buyStep, sellStep))

\* observe_at_tiers: the quote at each size, and whether the books were deep enough
ObserveAtTiers(buy, sell, tiers) ==
  [t \in tiers |-> DualLegQuote(buy, sell, t, t)]

-----------------------------------------------------------------------------
\* The size that earns most

NothingFilled == [filled |-> 0, net |-> 0]

\* evaluate_capital_tier
EvaluateTier(asks, bids, size) ==
  LET b == SimulateVwap(asks, size)
      s == SimulateVwap(bids, size)
      filled == Least(b.filled, s.filled)
      sold == (filled * b.qty * s.filled) \div (b.filled * s.qty)
  IN IF b.filled <= 0 \/ s.filled <= 0 THEN NothingFilled
     ELSE [filled |-> filled, net |-> sold - filled - FeeOn(filled) - FeeOn(sold)]

\* compute_depth_adjusted_edge: the profit of each size of the ladder
TierNets(asks, bids, tiers) == [t \in tiers |-> EvaluateTier(asks, bids, t).net]
=============================================================================
