---------------------------- MODULE MCDexDetection ---------------------------
(***************************************************************************)
(* A small instance of DexDetection: two exchanges of one chain that quote *)
(* one pair, either way round and at prices that agree or not, and one     *)
(* exchange of another with three pairs that may close a loop.             *)
(***************************************************************************)
EXTENDS DexDetection, TLC

MCDexVenues ==
  <<[chain |-> "bsc", dex |-> "pancakeswap"], [chain |-> "solana", dex |-> "raydium"],
    [chain |-> "solana", dex |-> "orca"]>>
MCChainOrder == <<"bsc", "solana">>
MCNative == [bsc |-> "WBNB", solana |-> "SOL"]
MCCongested == [bsc |-> 7]
MCDegraded == [bsc |-> 15]

MCRow(venue, id, tokens, n, d, tvl) ==
  [chain |-> MCDexVenues[venue].chain, dex |-> MCDexVenues[venue].dex, id |-> id,
   tokens |-> tokens, price |-> [n |-> n, d |-> d], tvl |-> tvl, volume |-> 500,
   fee |-> 30, age |-> NoFigure]

Loop(n) == {MCRow(1, "p1", <<"WBNB", "USDT">>, 30, 1, 400000),
            MCRow(1, "p2", <<"BTC", "WBNB">>, n, 1, 400000),
            MCRow(1, "p3", <<"USDT", "BTC">>, 1, 600, 400000),
            [MCRow(1, "p4", <<"WBNB">>, 30, 1, 400000) EXCEPT !.price = NoFigure]}

\* A second page that fails, a loop that pays, one that does not.
MCOffers ==
  <<{<<Loop(21), NoFigure>>, <<Loop(20)>>},
    {<<{MCRow(2, "r", <<"SOL", "USDC">>, 20, 1, 400000)}>>, <<NoFigure>>},
    {<<{MCRow(3, "o", <<"USDC", "SOL">>, 1, x, 300000)}>> : x \in {20, 21}}>>
MCGasReadings == {NoFigure, 5, 16}

-----------------------------------------------------------------------------
\* The operators against what they are for, on a few pools.

\* Two pools join SOL and USDC, and three pools close a triangle.
MCPools ==
  (UNION {ParsePool(MCRow(2, id, <<"SOL", "USDC">>, 20, 1, 400000)) : id \in {"r1", "r2"}})
    \cup ParsePool(MCRow(3, "o1", <<"BTC", "SOL">>, 30, 1, 300000))
    \cup ParsePool(MCRow(3, "o2", <<"USDC", "BTC">>, 1, 610, 300000))

\* a simple cycle, said of the whole path at once
IsCycle(path, base) ==
  LET from(i) == path[i].from IN
  /\ from(1) = base /\ ToToken(path[Len(path)]) = base
  /\ \A i \in 1..Len(path) - 1 : ToToken(path[i]) = from(i + 1)
  /\ \A i, j \in DOMAIN path : i # j => path[i].pool.id # path[j].pool.id
  /\ \A i, j \in DOMAIN path : i # j /\ from(i) = from(j) => from(i) = base

ASSUME CyclesAreTheSimpleOnes ==
  \A base \in Stablecoins :
    FindCycles(MCPools, base) =
      {path \in UNION {[1..n -> Hops(MCPools)] : n \in 2..MaxRouteLength} : IsCycle(path, base)}

ASSUME OrderIgnoresTheListing ==
  \A p, q \in MCPools :
    LET back == [q EXCEPT !.token0 = q.token1, !.token1 = q.token0,
                          !.price = [n |-> q.price.d, d |-> q.price.n]]
    IN /\ OrderPools(p, q) = OrderPools(q, p)
       /\ {<<o[1].id, o[2].id>> : o \in OrderPools(p, back)}
            = {<<o[1].id, o[2].id>> : o \in OrderPools(p, q)}

ASSUME ASwapLosesToTheCurve ==
  \A tvl \in {0, 1, 50, 4000}, size \in 0..60 :
    /\ AmmOutput(size, tvl) <= size /\ 2 * AmmOutput(size, tvl) <= tvl
    /\ AmmOutput(size, tvl) <= AmmOutput(size + 1, tvl)

\* A loan that pays repays, and a loan far beyond the pool does not pay.
MCEthPool(id, n) ==
  [chain |-> "bsc", dex |-> id, id |-> id, token0 |-> "WBNB", token1 |-> "USDT",
   price |-> [n |-> n, d |-> 20], tvl |-> 300000, fee |-> 30]
ASSUME LoansRepay ==
  LET x == MCEthPool("p", 20) y == MCEthPool("q", 23) IN
  /\ DetectFlashLoan(x, y, 1) # {} /\ DetectFlashLoan(x, x, 1) = {}
  /\ \A o \in DetectFlashLoan(x, y, 1) :
       /\ PoolsUsed(o) = {"p", "q"}
       /\ \E x2 \in OrderPools(x, y) :
            CrossNet(x2[1], x2[2], o.capital, 2) = o.profit + Bps(o.capital, LoanFeeBps)

ASSUME OnlyKnownChainsAreFastEnough ==
  {c \in {"eth", "bsc", "solana", "base"} : IsCapturable(c)} = {"eth", "bsc", "solana"}

ASSUME ScoresStayInTheirRange ==
  \A c \in {"eth", "bsc", "solana", "base"}, size \in {0, 10, 900}, tvl \in {0, 10, 9000} :
    /\ MevRisk(c, size, tvl) \in 0..1000
    /\ \A legs \in 2..4 : RevertProbability(c, legs) \in 20..250
=============================================================================
