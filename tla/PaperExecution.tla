---------------------------- MODULE PaperExecution ----------------------------
(***************************************************************************)
(* What a spot opportunity of the detection loop is worth, whether it is   *)
(* attempted, and what its attempt on paper is said to have done: the      *)
(* triangular loop, the break-even floor, the four execution modes, the    *)
(* validator, the simulated latency and the sampled outcome                *)
(* (app/engines/triangular.py, app/analytics/break_even.py,                *)
(* app/execution/maker_taker.py, execution_simulator.py,                   *)
(* fill_probability.py, latency_engine.py, validator.py,                   *)
(* app/simulation/paper_trader.py).                                        *)
(*                                                                         *)
(* Fees and floors are per mille of the notional, probabilities and their  *)
(* scores per cent; profits are a thousand times, expected values ten      *)
(* million times the dollar. A random draw is the set of what it can give. *)
(***************************************************************************)
EXTENDS Integers, FiniteSets, Sequences
LOCAL INSTANCE SequencesExt
LOCAL INSTANCE FiniteSetsExt

CONSTANTS
  MaxAgeOfQuotes,   \* MAX_QUOTE_AGE_SECONDS
  MaxNewHolding,    \* MAX_NEW_POSITION_HOLDING_SECONDS
  OrderSize,        \* DEFAULT_OPPORTUNITY_CAPITAL_USD
  NotSet            \* a field the engine leaves None

\* compute_break_even: the fees of every leg, and the buffers
BreakEven(legFees, buffers) == FoldLeft(+, 0, legFees) + buffers

-----------------------------------------------------------------------------
\* The loop of three markets of one exchange. A quantity is a fraction.

LOCAL Frac(n, d) ==
  LET common == Max({k \in 1..d : d % k = 0 /\ n % k = 0}) IN [n |-> n \div common, d |-> d \div common]
LOCAL Smaller(x, y) == IF x.n * y.d <= y.n * x.d THEN x ELSE y
LOCAL Times(x, y) == Frac(x.n * y.n, x.d * y.d)
LOCAL Sum2(x, y) == Frac(x.n * y.d + y.n * x.d, x.d * y.d)

\* the listed direction: buy `to` with `from`, else sell `from` for `to`; as a set
FindHop(quotes, from, to) ==
  IF <<to, from>> \in DOMAIN quotes /\ quotes[<<to, from>>].ask > 0
  THEN {[side |-> "buy", quote |-> quotes[<<to, from>>]]}
  ELSE IF <<from, to>> \in DOMAIN quotes /\ quotes[<<from, to>>].bid > 0
       THEN {[side |-> "sell", quote |-> quotes[<<from, to>>]]} ELSE {}

\* a hop spends what is held, as far as the top of the book goes, at the price in
\* dollars of the asset it spends
Walked(walk, hop) ==
  LET q == hop.quote
      rate == IF hop.side = "buy" THEN Frac(1, q.ask) ELSE Frac(q.bid, 1)
      spent == Smaller(walk.held, Frac(IF hop.side = "buy" THEN q.ask * q.askQty ELSE q.bidQty, 1))
  IN [held |-> Times(spent, rate), usd |-> Times(walk.usd, Frac(rate.d, rate.n)),
      paid |-> Append(walk.paid, Times(spent, walk.usd))]

\* _evaluate_path: nothing, or the loop with what it spends, what it ends with, and its
\* fees in thousandths
EvaluatePath(quotes, base, a, b, capital, fee, buffers) ==
  LET hops == {<<x, y, z>> : x \in FindHop(quotes, base, a), y \in FindHop(quotes, a, b),
                             z \in FindHop(quotes, b, base)}
      Walk(h) == FoldLeft(Walked, [held |-> Frac(capital, 1), usd |-> Frac(1, 1), paid |-> <<>>], h)
      Found(h) == LET walk == Walk(h) IN
        [spent |-> walk.paid[1], end |-> walk.held,
         fees |-> Times(Frac(fee, 1), Sum2(Sum2(walk.paid[1], walk.paid[2]), walk.paid[3]))]
      Gain(loop) == Sum2(loop.end, Frac(-loop.spent.n, loop.spent.d))
      floor == BreakEven(<<fee, fee, fee>>, buffers)
  IN {loop \in {Found(h) : h \in {x \in hops : \A i \in 1..3 :
                                     x[i].quote.age <= MaxAgeOfQuotes /\ Walk(x).paid[i].n > 0}} :
        /\ Gain(loop).n > 0
        /\ 1000 * Gain(loop).n * loop.spent.d >= floor * loop.spent.n * Gain(loop).d}

\* detect: both directions of a triple, the forward one first
DetectLoops(quotes, base, a, b, capital, fee, buffers) ==
  [forward |-> EvaluatePath(quotes, base, a, b, capital, fee, buffers),
   backward |-> EvaluatePath(quotes, base, b, a, capital, fee, buffers)]

-----------------------------------------------------------------------------
\* The four execution modes of a cross-exchange trade

LOCAL Clamp(x, low, high) == IF x < low THEN low ELSE IF x > high THEN high ELSE x

\* estimate_maker_fill_probability; SPREAD_REFERENCE_PCT is half a per cent of the middle,
\* and a volatility not yet known counts a half
FillProbability(bid, ask, touch, size, volatility) ==
  LET tightness == Clamp(100 - (40000 * (ask - bid)) \div (ask + bid), 0, 100)
      liquidity == IF size > 0 THEN Clamp((100 * touch) \div (3 * size), 0, 100) ELSE 0
      churn == IF volatility = NotSet THEN 50 ELSE Clamp(volatility, 0, 100)
  IN Clamp((35 * tightness + 30 * liquidity + 20 * churn + 15 * 50) \div 100, 5, 95)

\* the profit of buying for the capital at one price and selling at the other
LOCAL Profit(capital, buyAt, sellAt, buyFee, sellFee) ==
  LET quantity == capital \div buyAt   \* prices divide the capital
  IN 1000 * quantity * (sellAt - buyAt) - buyFee * capital - sellFee * quantity * sellAt

\* evaluate_execution_modes, in its order; a venue has bid, ask, taker and maker fees and
\* the probability that an order resting there fills
ExecutionModes(buy, sell, capital, adverse) ==
  LET tt == Profit(capital, buy.ask, sell.bid, buy.taker, sell.taker)
      mt == Profit(capital, buy.bid, sell.bid, buy.maker, sell.taker)
      tm == Profit(capital, buy.ask, sell.ask, buy.taker, sell.maker)
      mm == Profit(capital, buy.bid, sell.ask, buy.maker, sell.maker)
      naked == -(capital * adverse) - sell.taker * (capital \div buy.bid) * sell.bid
  IN <<[mode |-> "taker_taker", fill |-> 100 * 100, profit |-> tt, value |-> 100 * 100 * tt],
       [mode |-> "maker_taker", fill |-> 100 * buy.fill, profit |-> mt, value |-> 100 * buy.fill * mt],
       [mode |-> "taker_maker", fill |-> 100 * sell.fill, profit |-> tm, value |-> 100 * sell.fill * tm],
       [mode |-> "maker_maker", fill |-> buy.fill * sell.fill, profit |-> mm,
        value |-> buy.fill * (sell.fill * mm + (100 - sell.fill) * naked)]>>

\* best_execution_mode: the first of those worth most
BestExecutionMode(modes) ==
  modes[Min({i \in DOMAIN modes : \A j \in DOMAIN modes : modes[j].value <= modes[i].value})]

\* simulate_best_execution
SimulateBestExecution(buy, sell, capital, adverse) ==
  LET filling(x, touch) ==
        x @@ [fill |-> FillProbability(x.bid, x.ask, touch, capital, x.volatility)]
  IN BestExecutionMode(ExecutionModes(filling(buy, buy.bid * buy.bidQty),
                                      filling(sell, sell.ask * sell.askQty), capital, adverse))

-----------------------------------------------------------------------------
\* From the opportunity to the outcome

\* validate: the first reason not to attempt it
Validate(opp, isOpen) ==
  CASE opp.age # NotSet /\ opp.age > MaxAgeOfQuotes -> "stale_data"
    [] opp.class = "NOT_PROFITABLE" -> "fees_too_high"
    [] opp.class \in {NotSet, "WATCH"} -> "edge_too_low"
    [] opp.holding # NotSet /\ opp.holding > MaxNewHolding -> "holding_too_long"
    [] opp.holding # NotSet /\ opp.legs > 0 /\ isOpen -> "position_already_open"
    [] OTHER -> "approved"

\* revalidate_after_latency: the moves of simulate_price_impact after which the edge stands
StandsAfter(net, floor, moves) == {m \in moves : net + m >= floor}

\* determine_outcome
Outcomes(opp, moves) ==
  LET revalidated == opp.net # NotSet /\ opp.floor # NotSet
      stand == IF revalidated THEN StandsAfter(opp.net, opp.floor, moves) ELSE moves
      rests == opp.mode \notin {NotSet, "taker_taker"} /\ opp.fill # NotSet
      filled == IF opp.capital # NotSet /\ 10 * opp.capital < 9 * OrderSize
                THEN "partial_fill" ELSE "simulated_executed"
  IN IF opp.age # NotSet /\ opp.age > MaxAgeOfQuotes THEN {"simulated_failed"}
     ELSE (IF stand # moves THEN {"edge_disappeared"} ELSE {})
          \cup (IF stand # {} /\ rests /\ opp.fill < 100 * 100 THEN {"missed"} ELSE {})
          \cup (IF stand # {} THEN {filled} ELSE {})
=============================================================================
