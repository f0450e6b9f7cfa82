-------------------------- MODULE EconomicPortfolio ---------------------------
(***************************************************************************)
(* The dollars and the pool of one coin on every exchange, moved by the    *)
(* engine chosen at the start:                                             *)
(*                                                                         *)
(*   "twin"    the simulated portfolio of app/execution/digital_twin.py,   *)
(*             which trades through the true-economic gate and the floor;  *)
(*   "replay"  a past session judged by the same gate                      *)
(*             (v4_session_replay.replay_v4_decisions_through_v5_gate);    *)
(*   "bridge"  every fill of a past session booked as it was               *)
(*             (v4_session_replay.replay_wealth_bridge).                   *)
(*                                                                         *)
(* The prices of every step are taken anew. start and realized are what    *)
(* the reports compare: the worth at cost of the first state, and the sum  *)
(* of the profits the engine has claimed.                                  *)
(***************************************************************************)
EXTENDS EconomicLedger, Rebalancing, FiniteSets

CONSTANTS
  Exchanges,
  Books,          \* what an exchange may show: records with ask, bid and size (depth)
  Holdings,       \* the pools a portfolio may start with
  StartUsdt,
  Sizes,          \* the notional of an arbitrage
  Quantities,     \* the quantity of a past fill
  Floor,          \* the reserve floor of every exchange
  Margin,         \* required_safety_margin_usd
  MinNotional,
  MaxMoves        \* bound: moves that change the portfolio

ASSUME PortfolioAssumption ==
  /\ IsFiniteSet(Exchanges)
  /\ Books \subseteq [ask : Nat \ {0}, bid : Nat \ {0}, size : Nat \ {0}]
  /\ \A k \in Books : k.bid <= k.ask
  /\ Holdings \subseteq [qty : Nat, cost : Nat]
  /\ \A h \in Holdings : h.qty = 0 => h.cost = 0
  /\ StartUsdt \in Nat /\ Floor \in Nat /\ Margin \in Nat
  /\ MinNotional \in Nat /\ MaxMoves \in Nat
  /\ Sizes \subseteq Nat \ {0} /\ Quantities \subseteq Nat \ {0}

VARIABLES
  engine,
  usdt,      \* the dollars of every exchange
  pool,      \* the coin's CostBasisPool of every exchange
  start,     \* dollars and pool cost in the first state
  realized,  \* profit claimed on every exchange
  gap,       \* the exchanges where a sale could not be costed
  moves

portfolioVars == <<engine, usdt, pool, start, realized, gap, moves>>

Engines == {"twin", "replay", "bridge"}

PortfolioTypeOK ==
  /\ engine \in Engines
  /\ usdt \in [Exchanges -> Int]
  /\ pool \in [Exchanges -> [qty : Int, cost : Int]]
  /\ start \in [Exchanges -> Int] /\ realized \in [Exchanges -> Int]
  /\ gap \subseteq Exchanges
  /\ moves \in 0..MaxMoves

\* bootstrap_mode_a seeds what is held at its price, bootstrap_mode_b nothing
PortfolioInit ==
  /\ engine \in Engines
  /\ usdt = [e \in Exchanges |-> StartUsdt]
  /\ pool \in [Exchanges -> Holdings]
  /\ start = [e \in Exchanges |-> usdt[e] + pool[e].cost]
  /\ realized = [e \in Exchanges |-> 0]
  /\ gap = {}
  /\ moves = 0

Move(e) == engine = e /\ moves < MaxMoves /\ moves' = moves + 1 /\ UNCHANGED <<engine, start>>

\* a purchase and a sale, in dollars, units and claimed profit
Spend(e, f)  == [usdt EXCEPT ![e] = @ - CostOf(f)]
Buying(e, f) == [pool EXCEPT ![e] = ApplyBuy(@, f)]
Earn(e, f)   == [usdt EXCEPT ![e] = @ + Proceeds(f)]

\* mutant: the pool keeps the cost of the units paid as a fee
SellingGross(e, f) ==
  [pool EXCEPT ![e] = [qty |-> @.qty - NetOut(f),
                       cost |-> @.cost - (f.qty * @.cost) \div @.qty]]

Selling(e, f)  == [pool EXCEPT ![e] = ApplySell(@, f)]
Claiming(e, f) == [realized EXCEPT ![e] = @ + Realized(pool[e], f)]

\* both at once, on two exchanges
ArbitrageApplied(b, s, bought, sold) ==
  /\ usdt' = [usdt EXCEPT ![b] = @ - CostOf(bought), ![s] = @ + Proceeds(sold)]
  /\ pool' = [pool EXCEPT ![s] = ApplySell(@, sold), ![b] = ApplyBuy(@, bought)]
  /\ realized' = Claiming(s, sold)

-----------------------------------------------------------------------------
\* The twin

Leg(price, size) ==
  [price |-> price, step |-> 1, levels |-> <<[price |-> price, qty |-> size]>>,
   minQty |-> 1, minNotional |-> MinNotional, tradable |-> TRUE]

\* mutant: the units bought are marked where the others are sold
MarkedAtTheSale(onBuy, onSell) == onSell.bid

\* what the units bought are marked at: where they are held
MarkOfBought(onBuy, onSell) == onBuy.bid

\* attempt_arbitrage_on_twin
TwinArbitrage(b, s, onBuy, onSell, size) ==
  LET quote == DualLegQuote(Leg(onBuy.ask, onBuy.size), Leg(onSell.bid, onSell.size), size, size)
      q == CommonQty(quote.qty, pool[s].qty, 1, 1)
      sold == SoldOf(quote, q)
      bought == BoughtOf(quote, q)
  IN /\ Move("twin") /\ b # s
     /\ pool[s].qty > 0
     /\ quote.executable /\ q > 0
     /\ ~WouldBreach(usdt[b], Floor, q * quote.buyPrice)
     /\ WouldTrade(WealthDelta(pool[s], sold, bought, MarkOfBought(onBuy, onSell), 0), Margin)
     /\ ArbitrageApplied(b, s, bought, sold)
     /\ UNCHANGED gap

\* attempt_inventory_constitution_on_twin: marked at the bid of an exchange it may be sold on
TwinConstitution(e, book, mark, q) ==
  LET f == Fill(q, book.ask, FeeOn(q * book.ask), Quote)
  IN /\ Move("twin")
     /\ usdt[e] >= CostOf(f)
     /\ ConstitutionDelta(f, mark) > Margin
     /\ usdt' = Spend(e, f) /\ pool' = Buying(e, f)
     /\ UNCHANGED <<realized, gap>>

\* maybe_rebalance_on_twin
TwinRebalance(e, book, upcoming) ==
  LET q == Least(Shortfall(usdt[e], Floor, upcoming) \div book.bid, pool[e].qty)
      f == Fill(q, book.bid, FeeOn(q * book.bid), Quote)
  IN /\ Move("twin")
     /\ WouldBreach(usdt[e], Floor, upcoming)
     /\ pool[e].qty > 0 /\ CanSell(pool[e], f)
     /\ usdt' = Earn(e, f) /\ pool' = Selling(e, f) /\ realized' = Claiming(e, f)
     /\ UNCHANGED gap

-----------------------------------------------------------------------------
\* A past session through the gate: the fills are the session's, the gate is new

\* a fee of a fill of the past: in dollars, or a coin when enough was traded
PastFills(price) ==
  {Fill(q, price, FeeOn(q * price), Quote) : q \in Quantities}
    \cup {Fill(q, price, 1, Base) : q \in Quantities \ {1}}

\* the purchase is marked at its own price, and neither dollars nor floor are asked for
ReplayArbitrage(b, s, bought, sold) ==
  /\ Move("replay") /\ b # s
  /\ WouldTrade(WealthDelta(pool[s], sold, bought, bought.price, 0), Margin)
  /\ ArbitrageApplied(b, s, bought, sold)
  /\ UNCHANGED gap

ReplayInventoryBuy(e, f) ==
  /\ Move("replay")
  /\ pool[e].qty < f.qty
  /\ usdt' = Spend(e, f) /\ pool' = Buying(e, f)
  /\ UNCHANGED <<realized, gap>>

ReplayRebalanceSell(e, f) ==
  /\ Move("replay")
  /\ WouldBreach(usdt[e], Floor, 0)
  /\ CanSell(pool[e], f)
  /\ usdt' = Earn(e, f) /\ pool' = Selling(e, f) /\ realized' = Claiming(e, f)
  /\ UNCHANGED gap

-----------------------------------------------------------------------------
\* Every fill as it was: the dollars are the exchange's own account

BridgeBuy(e, f) ==
  /\ Move("bridge")
  /\ usdt' = Spend(e, f) /\ pool' = Buying(e, f)
  /\ UNCHANGED <<realized, gap>>

BridgeSell(e, f) ==
  /\ Move("bridge")
  /\ CanSell(pool[e], f)
  /\ usdt' = Earn(e, f) /\ pool' = Selling(e, f) /\ realized' = Claiming(e, f)
  /\ UNCHANGED gap

\* a sale the pool cannot cover is left out of the books: the account has it
BridgeGap(e, f) ==
  /\ Move("bridge")
  /\ ~CanSell(pool[e], f)
  /\ usdt' = Earn(e, f) /\ gap' = gap \cup {e}
  /\ UNCHANGED <<pool, realized>>

TwinNext ==
  \E b, s \in Exchanges, k, l \in Books :
    \/ \E size \in Sizes : TwinArbitrage(b, s, k, l, size)
    \/ \E q \in Quantities : TwinConstitution(b, k, l.bid, q)
    \/ \E size \in Sizes \cup {0} : TwinRebalance(b, k, size)

PastNext ==
  \E b, s \in Exchanges, k, l \in Books :
    \E bought \in PastFills(k.ask), sold \in PastFills(l.bid) :
      \/ ReplayArbitrage(b, s, bought, sold)
      \/ ReplayInventoryBuy(b, bought)
      \/ ReplayRebalanceSell(s, sold)
      \/ BridgeBuy(b, bought)
      \/ BridgeSell(s, sold)
      \/ BridgeGap(s, sold)

PortfolioNext == TwinNext \/ PastNext
PortfolioSpec == PortfolioInit /\ [][PortfolioNext]_portfolioVars

-----------------------------------------------------------------------------
\* Properties

(* On every exchange, dollars and the cost of what is held have moved by   *)
(* exactly the profit claimed there, whatever was bought, sold and paid in *)
(* fees in either asset: a report of realized and unrealized profit then   *)
(* meets the change in worth to the cent (replay_wealth_bridge,            *)
(* check_reconciliation_invariant). Only a sale that could not be costed,  *)
(* which the bridge skips, may open a difference.                          *)
WealthBridge ==
  \A e \in Exchanges : e \in gap \/ usdt[e] + pool[e].cost = start[e] + realized[e]

(* Rounding and partial sales never leave a cost behind without the units  *)
(* it was paid for, nor units below zero: else the next purchase would be  *)
(* averaged with the cost of nothing (true_economic_ledger.apply_sell).    *)
NoCostWithoutUnits ==
  \A e \in Exchanges :
    pool[e].qty >= 0 /\ pool[e].cost >= 0 /\ (pool[e].qty = 0 => pool[e].cost = 0)

(* What an accepted arbitrage gains is realized by its sale, beyond the    *)
(* margin, and never owed to the mark put on the units it buys             *)
(* (evaluate_arbitrage_true_economics).                                    *)
GainIsRealized ==
  [][moves' # moves => \A b, s \in Exchanges, k, l \in Books :
       (\E size \in Sizes : TwinArbitrage(b, s, k, l, size)) =>
         realized'[s] - realized[s] > Margin]_portfolioVars

=============================================================================
