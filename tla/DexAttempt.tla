------------------------------ MODULE DexAttempt ------------------------------
(***************************************************************************)
(* What an attempt on a DEX opportunity does (app/onchain/                 *)
(* dex_paper_trader.py): the edge is looked at again after the drift of    *)
(* the wait, sized again for the capital the pool has left, and executed   *)
(* against it. MASTER's grant, which comes before, is in MasterAuthority.  *)
(*                                                                         *)
(* Drifts are in percent of the sell price. An opportunity is what was     *)
(* detected of two pools (dex_cross) or around a loop, which has none.     *)
(***************************************************************************)
EXTENDS OnchainArbitrage

CONSTANTS
  Deals,        \* the opportunities of a cycle, each attempted once
  GasOfChain,   \* what estimate_gas_cost_usd says of one swap
  Drifts,       \* percents the random walk may have moved
  PoolCapital,  \* DexCapitalPool.total_capital_usd
  CycleTime,    \* from one cycle to the next, in half seconds
  MaxClock      \* bound of the time

NoSize == [size |-> NoFigure]

VARIABLES
  clock,        \* scan_time
  waiting,      \* the opportunities of this cycle not yet attempted
  inFlight,     \* DexCapitalPool._reservations
  earned,       \* DexCapitalPool.realized_pnl_usd
  attempt       \* the last DexTradeAttempt, with what it was computed from

attemptVars == <<clock, waiting, inFlight, earned, attempt>>

\* available_capital_usd: what is in flight at that time, whether it failed or not, is locked
InFlightAt(now) == {r \in inFlight : r.until > now}
Available(now) ==
  PoolCapital + earned - FoldSet(LAMBDA r, sum : sum + r.amount, 0, InFlightAt(now))

\* revalidate_edge, in 1/10000 of the capital
EdgeBps(o) == (10000 * o.profit) \div o.capital
Revalidated(o, drift) == EdgeBps(o) + 100 * drift

\* the pool the sell leg stands for, at the price it has drifted to
Drifted(p, drift) ==
  LET base == CHOOSE t \in {p.token0, p.token1} : TRUE
      price == PairPrice(p)
  IN [p EXCEPT !.token0 = base, !.token1 = CHOOSE t \in {p.token0, p.token1} : t # base,
               !.price = [n |-> price.n * (100 + drift), d |-> price.d * 100]]

\* resize_at_attempt: the sizes the pool can pay for, with the gas of one swap
NetsAtAttempt(o, drift, available, gas) ==
  [size \in {s \in SizeTiers : s <= available} \cup {available} |->
     CrossNet(o.buy, Drifted(o.sell, drift), size, gas)]

ResizeAtAttempt(o, drift, available, gas) ==
  IF o.strategy # "dex_cross" \/ available <= 0 THEN NoSize
  ELSE LET nets == NetsAtAttempt(o, drift, available, gas)
       IN IF Profitable(nets) = {} THEN NoSize
          ELSE [size |-> OptimalSize(nets), net |-> nets[OptimalSize(nets)]]

\* without a size: the one of the detection, as far as there is capital, at the edge revalidated
Sized(o, drift, available, gas) ==
  LET resized == ResizeAtAttempt(o, drift, available, gas)
      clipped == Least(o.capital, available)
  IN IF resized # NoSize THEN resized
     ELSE [size |-> clipped, net |-> IF clipped > 0 THEN Bps(clipped, Revalidated(o, drift)) ELSE 0]

\* attempt_dex_trade: why nothing is executed, or NoFigure
Refusal(o, drift, sized, available) ==
  CASE Revalidated(o, drift) <= 0  -> "EDGE_DISAPPEARED"
    [] sized.size <= 0             -> "NO_CAPITAL_AVAILABLE"
    [] sized.net <= 0              -> "NOT_PROFITABLE_AT_SIZE"
    [] sized.size > available      -> "NO_CAPITAL_AVAILABLE"
    [] OTHER                       -> NoFigure

Attempt(o) ==
  /\ o \in waiting
  /\ \E drift \in Drifts :
       LET gas == GasOfChain[o.chain]
           available == Available(clock)
           sized == Sized(o, drift, available, gas)
           refusal == Refusal(o, drift, sized, available)
           record(status, size, net) ==
             [opp |-> o, drift |-> drift, status |-> status, capital |-> size, profit |-> net]
       IN \/ /\ refusal # NoFigure
             /\ attempt' = record(refusal, 0, 0)
             /\ UNCHANGED <<inFlight, earned>>
          \/ /\ refusal = NoFigure
             /\ inFlight' = InFlightAt(clock) \cup
                  {[opp |-> o, amount |-> sized.size, until |-> clock + InclusionTime(o.chain)]}
             /\ \E filled \in BOOLEAN :
                  LET net == IF filled THEN sized.net ELSE -gas IN
                  /\ attempt' = record(IF filled THEN "FILLED" ELSE "FAILED", sized.size, net)
                  /\ earned' = earned + net
  /\ waiting' = waiting \ {o}
  /\ UNCHANGED clock

NextCycle ==
  /\ clock + CycleTime <= MaxClock
  /\ clock' = clock + CycleTime
  /\ waiting' = Deals
  /\ attempt' = NoFigure
  /\ UNCHANGED <<inFlight, earned>>

AttemptInit ==
  /\ clock = 0 /\ waiting = Deals /\ inFlight = {} /\ earned = 0 /\ attempt = NoFigure

AttemptNext == NextCycle \/ \E o \in Deals : Attempt(o)

AttemptSpec == AttemptInit /\ [][AttemptNext]_attemptVars

-----------------------------------------------------------------------------

(* "Never execute if net_profit(size) <= 0": a dex_cross is executed only  *)
(* at a size that earns, at the price it has drifted to, the gas it is     *)
(* charged. Another strategy cannot be sized again.                        *)
ExecutesOnlyProfitableSizes ==
  attempt # NoFigure =>
    (attempt.status \in {"FILLED", "FAILED"} /\ attempt.opp.strategy = "dex_cross" =>
       CrossNet(attempt.opp.buy, Drifted(attempt.opp.sell, attempt.drift), attempt.capital,
                GasOfChain[attempt.opp.chain]) > 0)
=============================================================================
