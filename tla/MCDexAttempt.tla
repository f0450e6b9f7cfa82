----------------------------- MODULE MCDexAttempt -----------------------------
(***************************************************************************)
(* A small instance of DexAttempt: two gaps between two exchanges of one   *)
(* chain, one in deep pools and one in shallow ones, and a loop of three   *)
(* swaps; the capital of the pool is that of one of them and a little more.*)
(***************************************************************************)
EXTENDS DexAttempt

MCPool(id, n, d, tvl) ==
  [chain |-> "bsc", dex |-> id, id |-> id, token0 |-> "WBNB", token1 |-> "USDT",
   price |-> [n |-> n, d |-> d], tvl |-> tvl, volume |-> 500, fee |-> 30, age |-> NoFigure]

\* as detect_cross_dex_opportunity reports it
MCDeal(p, q) ==
  {[strategy |-> o.strategy, chain |-> o.chain, capital |-> o.capital, profit |-> o.profit,
    buy |-> x[1], sell |-> x[2]] : o \in DetectCross(p, q, 20), x \in OrderPools(p, q)}

MCDeals ==
  MCDeal(MCPool("p", 20, 1, 350000), MCPool("q", 23, 1, 350000))
    \cup MCDeal(MCPool("r", 40, 1, 90000), MCPool("s", 44, 1, 90000))
    \cup {[strategy |-> "dex_multihop", chain |-> "bsc", capital |-> 1000, profit |-> 8]}

MCAttemptNative == [bsc |-> "WBNB", solana |-> "SOL"]
MCNoThreshold == [bsc |-> 9]
MCGasOfChain == [bsc |-> 20]
MCDrifts == {-1, 0, 1}

=============================================================================
