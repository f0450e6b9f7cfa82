------------------------------- MODULE Sizing --------------------------------
(***************************************************************************)
(* The size that earns most, of a ladder of sizes tried: the sweep that    *)
(* app/analytics/execution_depth.py runs over an order book, and           *)
(* app/onchain/cross_dex_arbitrage.py, multihop_arbitrage.py and           *)
(* flash_loan_research.py over the curves of pools. net is the profit of   *)
(* each size of the ladder.                                                *)
(***************************************************************************)
EXTENDS Integers

Least(x, y)    == IF x <= y THEN x ELSE y
Greatest(x, y) == IF x >= y THEN x ELSE y

Profitable(net) == {s \in DOMAIN net : net[s] > 0}

\* the size of greatest profit, the smallest of several
OptimalSize(net) ==
  CHOOSE s \in Profitable(net) : \A t \in Profitable(net) :
    net[t] < net[s] \/ (net[t] = net[s] /\ s <= t)

SmallestOf(S) == CHOOSE s \in S : \A t \in S : s <= t
LargestOf(S)  == CHOOSE s \in S : \A t \in S : t <= s

\* _interpolate_zero_crossing, between two sizes and their profits
ZeroCrossing(size, profit, larger, loss) ==
  IF loss = profit THEN size
  ELSE size + (profit * (larger - size)) \div (profit - loss)

\* the largest size thought profitable, beyond the optimal one
MaxProfitableSize(net) ==
  LET best == OptimalSize(net)
      larger == {s \in DOMAIN net : s > best}
      losing == larger \ Profitable(net)
      first == SmallestOf(losing)
  IN IF losing # {} THEN ZeroCrossing(best, net[best], first, net[first])
     ELSE IF larger # {} THEN LargestOf(larger) ELSE best
=============================================================================
