------------------------------- MODULE Reports --------------------------------
(***************************************************************************)
(* Three reports read back from the database: the execution funnel, the    *)
(* capital of both engines together, and the edge micro-live observed      *)
(* (app/reporting/execution_funnel.py, global_capital.py,                  *)
(* micro_live_edge.py), with the row of an opportunity as the detection    *)
(* loop keeps it (app/database/repository.py).  And one pair of books      *)
(* priced the way the paper engine prices it and the way real money does,  *)
(* and why they disagree (app/reporting/simulation_vs_real_comparator.py). *)
(*                                                                         *)
(* A table is a function from the ids of its rows; amounts and times are   *)
(* whole numbers.  Formatting, averages and the time zone are left out.    *)
(* The two sides of the comparison use the operators the engines use; the  *)
(* simulated quantity is in 1/Unit, and that the simulation draws its      *)
(* slippage and its failures at random is left out here as it is there.    *)
(***************************************************************************)
EXTENDS PaperExecution, EconomicLedger

ExecutedStatuses == {"simulated_executed", "partial_fill", "emergency_unwind", "time_stop_exit"}

-----------------------------------------------------------------------------
\* The funnel

LOCAL ReasonOf(opp, isOpen) ==
  LET reason == Validate(opp, isOpen) IN IF reason = "approved" THEN NotSet ELSE reason

\* save_opportunity: the first observation makes the row
SaveOpportunity(opp, isOpen, at) ==
  [opp |-> opp, reason |-> ReasonOf(opp, isOpen), updates |-> 1, detectedAt |-> at, trades |-> {}]

\* update_opportunity_tracking: each later one refreshes it
UpdateOpportunity(row, opp, isOpen) ==
  [row EXCEPT !.opp = opp, !.reason = ReasonOf(opp, isOpen), !.updates = @ + 1]

\* build_execution_funnel: the rows of each stage, of which the report gives the counts
Funnel(rows, cutoff, now) ==
  LET detected == {i \in DOMAIN rows : rows[i].detectedAt >= cutoff}
      taken(i) == {t \in rows[i].trades : t.status \in ExecutedStatuses}
  IN [detected |-> detected,
      profitable_after_fees |-> {i \in detected : rows[i].opp.net # NotSet /\ rows[i].opp.net > 0},
      profitable |-> {i \in detected : rows[i].opp.class \notin {NotSet, "NOT_PROFITABLE", "WATCH"}},
      rejected |-> {i \in detected : rows[i].reason # NotSet},
      executable |-> {i \in detected : rows[i].reason = NotSet},
      executed |-> {i \in detected : taken(i) # {}},
      closed |-> {i \in detected : /\ rows[i].opp.holding # NotSet
                                   /\ \E t \in taken(i) : t.at + rows[i].opp.holding <= now}]

\* observed, execution_attempts and what became of them, outside the stages
ObservedTicks(rows, cutoff, now) == MapThenSumSet(LAMBDA i : rows[i].updates, Funnel(rows, cutoff, now).detected)
AttemptOutcomes(rows, cutoff, now) ==
  LET of(i) == {<<i, t>> : t \in rows[i].trades}
      attempts == UNION {of(i) : i \in Funnel(rows, cutoff, now).detected}
  IN [s \in {a[2].status : a \in attempts} |-> Cardinality({a \in attempts : a[2].status = s})]

-----------------------------------------------------------------------------
\* The capital of both engines

\* build_dex_capital_snapshot
DexCapitalSnapshot(trades, total, since, now) ==
  LET sumOf(field, ids) == MapThenSumSet(LAMBDA i : trades[i][field], ids)
      equity == total + sumOf("net", {i \in DOMAIN trades : trades[i].completeAt >= since})
      locked == sumOf("capital", {i \in DOMAIN trades :
                  /\ trades[i].status = "dex_filled"
                  /\ trades[i].attemptAt <= now /\ trades[i].completeAt > now})
  IN [equity |-> equity, locked |-> locked, available |-> IF equity > locked THEN equity - locked ELSE 0]

\* build_global_capital_state
GlobalCapitalState(cexEquity, engaged, dex) ==
  [total |-> cexEquity + dex.equity, reserved |-> engaged + dex.locked,
   available |-> (IF cexEquity > engaged THEN cexEquity - engaged ELSE 0) + dex.available]

GloballyReconciled(state) == state.total = state.available + state.reserved

-----------------------------------------------------------------------------
\* The edge micro-live observed

\* _percentile, a hundred times, of values in order
Percentile(sorted, pct) ==
  LET k == (Len(sorted) - 1) * pct
      low == sorted[1 + k \div 100]
      high == sorted[IF 2 + k \div 100 <= Len(sorted) THEN 2 + k \div 100 ELSE Len(sorted)]
  IN 100 * low + (high - low) * (k % 100)

\* passes_safety_gate against recommend_safety_margin_usd, one standard deviation: the
\* indices of the values above it
Qualifying(values) ==
  LET n == Len(values)
      total == FoldLeft(+, 0, values)
      squares == FoldLeft(LAMBDA s, v : s + v * v, 0, values)
  IN {i \in 1..n : values[i] > 0 /\ (n >= 2 => n * n * values[i] * values[i] > n * squares - total * total)}

\* _group_stats: the rows of each key
GroupStats(keys) == [k \in Range(keys) |-> {i \in DOMAIN keys : keys[i] = k}]

\* _time_slices of rows in the order of their times: the rows of each slice that has some
TimeSlices(times, width) ==
  IF times = <<>> THEN {}
  ELSE LET bucket(n) == {i \in DOMAIN times : /\ times[1] + n * width <= times[i]
                                              /\ times[i] < times[1] + (n + 1) * width}
       IN {bucket(n) : n \in 0 .. (times[Len(times)] - times[1]) \div width} \ {{}}

-----------------------------------------------------------------------------
\* The simulation and real money on the same books

NoSimulatedTrade(detected) == [detected |-> detected, trades |-> FALSE, notional |-> Unknown]

\* compute_sim_side: the size of the ladder that earns most, whoever holds what
SimSide(buy, sell, tiers) ==
  LET nets == TierNets(buy.levels, sell.levels, tiers)
      size == OptimalSize(nets)
      b == SimulateVwap(buy.levels, size)
      s == SimulateVwap(sell.levels, size)
      spent == Least(b.filled, s.filled)
      sold == (spent * b.qty * s.filled) \div (b.filled * s.qty)
  IN IF Profitable(nets) = {} THEN NoSimulatedTrade(sell.price > buy.price)
     ELSE [detected |-> sell.price > buy.price, trades |-> TRUE, notional |-> size,
           qty |-> (spent * b.qty) \div b.filled, spent |-> spent, sold |-> sold,
           fees |-> FeeOn(spent) + FeeOn(sold), net |-> nets[size]]

\* compute_real_side: the size deployed, the units held and what they had cost. Whether
\* it would trade does not depend on whether its quote is executable.
RealSide(buy, sell, sellPool, bid, impact, margin, notional, balance, held, floor) ==
  LET quote == DualLegQuote(buy, sell, notional, notional)
      delta == RouteDelta(sellPool, quote, bid, impact)
      needed == quote.qty * quote.buyPrice
      blocker == Blocker(WouldTrade(delta, margin), Greatest(0, balance - floor), needed,
                         held, quote.qty)
  IN [quote |-> quote, delta |-> delta, needed |-> needed, impact |-> impact,
      balance |-> balance, held |-> held, floor |-> floor,
      sellRealized |-> IF delta = Unknown THEN Unknown
                       ELSE Realized(sellPool, SoldOf(quote, quote.qty)),
      mtm |-> IF quote.qty <= 0 THEN 0 ELSE ConstitutionDelta(BoughtOf(quote, quote.qty), bid),
      fees |-> quote.buyFee + quote.sellFee,
      trades |-> blocker = "NONE",
      reason |-> IF ~quote.executable THEN "QUOTE_REJECTED"
                 ELSE IF blocker # "NONE" THEN blocker ELSE "NONE_EXECUTABLE"]

\* recompute_sim_true_economic: the simulated trade against the units really
\* held; its fees are split evenly between the legs
Recomputed(sim, sellPool, mark) ==
  LET half == sim.fees \div 2
  IN IF sim.notional = Unknown \/ sim.qty <= 0 \/ sellPool.qty * Unit < sim.qty THEN Unknown
     ELSE (sim.sold - half) - (sim.qty * sellPool.cost) \div (sellPool.qty * Unit)
            + (sim.qty * mark) \div Unit - (sim.spent + (sim.fees - half))

\* Why the simulation trades and real money does not

\* the sell inventory: none, less than real money asks for, of unknown cost,
\* or less than the simulation assumed
InventoryCauses(sim, real) ==
  LET wanted == real.quote.qty
      short == real.held * Unit < sim.qty
  IN IF real.held <= 0 THEN <<"SIMULATION_ASSUMED_IMPOSSIBLE_INVENTORY", "SELL_INVENTORY_MISSING">>
     ELSE IF real.held < wanted
          THEN <<"SELL_INVENTORY_MISSING">>
                 \o IF short THEN <<"SIMULATION_ASSUMED_IMPOSSIBLE_INVENTORY">> ELSE <<>>
     ELSE IF real.delta = Unknown THEN <<"SELL_COST_BASIS_UNKNOWN">>
     ELSE IF wanted * Unit < sim.qty THEN <<"SELL_INVENTORY_MISSING">> ELSE <<>>

BiasCauses(sim, real, recomputed) ==
  IF recomputed = Unknown \/ recomputed > 0 \/ sim.net <= 0 THEN <<>>
  ELSE <<"SIMULATION_ACCOUNTING_BIAS">>
         \o IF real.sellRealized # Unknown /\ real.sellRealized < 0
            THEN <<"SELL_COST_BASIS_UNPROFITABLE">> ELSE <<>>

CapitalCauses(sim, real) ==
  IF real.needed >= sim.notional \/ real.balance - real.floor >= sim.notional THEN <<>>
  ELSE <<"INSUFFICIENT_BUY_CAPITAL", "SIMULATION_ASSUMED_IMPOSSIBLE_CAPITAL">>
         \o IF real.balance >= sim.notional THEN <<"RESERVE_FLOOR">> ELSE <<>>

Cause(holds, name) == IF holds THEN <<name>> ELSE <<>>

Causes(sim, real, recomputed) ==
  Cause(~real.quote.lotPass, "MIN_QTY")
    \o Cause(~real.quote.notionalPass, "MIN_NOTIONAL")
    \o Cause(~real.quote.deep, "REAL_DEPTH_INSUFFICIENT")
    \o InventoryCauses(sim, real) \o BiasCauses(sim, real, recomputed) \o CapitalCauses(sim, real)
    \o Cause(real.fees > sim.fees, "REAL_FEES_HIGHER")
    \o Cause(real.impact < 0, "REBALANCE_COST") \o Cause(real.mtm < 0, "INVENTORY_COST")

\* classify_difference, the primary cause first; nothing to explain is <<>>
ClassifyDifference(sim, real, recomputed) ==
  LET causes == Causes(sim, real, recomputed)
  IN IF ~sim.trades \/ real.trades THEN <<>>
     ELSE IF causes # <<>> THEN causes
     ELSE IF real.delta # Unknown /\ real.delta <= 0 THEN <<"FALSE_SIMULATION_EDGE">>
     ELSE <<"OTHER">>
=============================================================================
