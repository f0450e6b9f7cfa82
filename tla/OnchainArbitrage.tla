--------------------------- MODULE OnchainArbitrage ---------------------------
(***************************************************************************)
(* What the pools of a chain offer: the eligible ones (pool_discovery.py,  *)
(* token_safety.py), what a swap returns and costs (cross_dex_arbitrage.py,*)
(* mev_risk.py, gas_engine.py), and the opportunities found in them, across*)
(* two exchanges, around a loop of swaps (multihop_arbitrage.py), with a   *)
(* flash loan (flash_loan_research.py) or as one atomic bundle             *)
(* (atomic_arbitrage.py), all under app/onchain.                           *)
(*                                                                         *)
(* A price is a fraction [n, d]: units of token1 for one of token0.        *)
(* Amounts are whole, quotients are rounded down; scores are in 1/1000,    *)
(* fees and edges in 1/10000.                                              *)
(***************************************************************************)
EXTENDS Integers, Sequences, FiniteSets, SequencesExt, Sizing

CONSTANTS
  Tokens, Whitelisted,   \* WHITELISTED_SYMBOLS
  Stablecoins,           \* DEX_STABLECOIN_BASE_ASSETS
  Dollars,               \* the quotes a native token is priced against: "USDC", "USDT"
  Native,                \* _NATIVE_TOKEN_SYMBOL_BY_CHAIN
  EvmChains,             \* FLASH_LOAN_EVM_CHAINS, the chains with a gas price
  SizeTiers,             \* DEX_CAPITAL_TEST_TIERS_USD
  LoanTiers,             \* FLASH_LOAN_TEST_AMOUNTS_USD
  MinTvl, MinAge, LiquidityReference, AgeReference, VolumeReference,
  SlippageBps, MevBps, MinEdgeBps, LoanFeeBps,
  MaxRouteLength,
  GasScale,              \* dollars of gas are (native price * gas) / GasScale
  CongestedGas, DegradedGas,   \* _GAS_PRICE_THRESHOLDS_GWEI of each chain
  NoFigure               \* None

ASSUME OnchainAssumption ==
  /\ Stablecoins \subseteq Tokens /\ Whitelisted \subseteq Tokens /\ Dollars \subseteq Tokens
  /\ SizeTiers \subseteq Nat \ {0} /\ LoanTiers \subseteq Nat \ {0}
  /\ IsFiniteSet(SizeTiers) /\ IsFiniteSet(LoanTiers)
  /\ {LiquidityReference, AgeReference, VolumeReference, GasScale} \subseteq Nat \ {0}
  /\ {MinTvl, MinAge, SlippageBps, MevBps, MinEdgeBps, LoanFeeBps, MaxRouteLength} \subseteq Nat
  /\ NoFigure \notin Int

Bps(amount, rate) == (amount * rate) \div 10000

-----------------------------------------------------------------------------
\* Pools

\* what may be read of a pool: two tokens, and a price that is a number
ParsePool(row) ==
  IF Len(row.tokens) # 2 \/ row.price = NoFigure THEN {}
  ELSE {[chain |-> row.chain, dex |-> row.dex, id |-> row.id,
         token0 |-> row.tokens[1], token1 |-> row.tokens[2], price |-> row.price,
         tvl |-> row.tvl, volume |-> row.volume, fee |-> row.fee, age |-> row.age]}

\* fetch_pools: a page that fails ends the paging, those before it count
FetchPools(pages) ==
  LET failed == {i \in DOMAIN pages : pages[i] = NoFigure}
      read == IF failed = {} THEN pages ELSE SubSeq(pages, 1, SmallestOf(failed) - 1)
  IN UNION {UNION {ParsePool(row) : row \in read[i]} : i \in DOMAIN read}

Share(amount, reference) == Least(1000, (1000 * amount) \div reference)

SafetyScore(p) ==
  (400 * (IF {p.token0, p.token1} \subseteq Whitelisted THEN 1000 ELSE 0)
    + 250 * Share(p.tvl, LiquidityReference)
    + 150 * (IF p.age = NoFigure THEN 500 ELSE Share(p.age, AgeReference))
    + 200 * Share(p.volume, VolumeReference)) \div 1000

IsEligible(p) ==
  /\ p.tvl >= MinTvl
  /\ p.token0 \in Whitelisted /\ p.token1 \in Whitelisted
  /\ p.age # NoFigure => p.age >= MinAge
  /\ p.price.n > 0
  /\ SafetyScore(p) >= 600

DiscoverPools(pages) == {p \in FetchPools(pages) : IsEligible(p)}

Connects(p, x, y) == {p.token0, p.token1} = {x, y} /\ x # y

\* _price_of_a_in_b, _price_of_from_to: either order of the tokens
PriceOf(p, from) == IF p.token0 = from THEN p.price ELSE [n |-> p.price.d, d |-> p.price.n]

-----------------------------------------------------------------------------
\* Chains

\* twice the seconds to inclusion, and to the end of an opportunity
InclusionTime(chain) ==
  CASE chain = "eth" -> 38 [] chain = "bsc" -> 11 [] chain = "solana" -> 3 [] OTHER -> 38
LifeTime(chain) ==
  CASE chain = "eth" -> 48 [] chain = "bsc" -> 18 [] chain = "solana" -> 5 [] OTHER -> 24
IsCapturable(chain) == InclusionTime(chain) <= LifeTime(chain)

\* check_chain_health; reading: the gas price, or for Solana any answer
ChainHealth(chain, reading) ==
  IF reading = NoFigure THEN "UNAVAILABLE"
  ELSE IF chain \notin EvmChains THEN "HEALTHY"
  ELSE IF reading > DegradedGas[chain] THEN "DEGRADED"
  ELSE IF reading > CongestedGas[chain] THEN "CONGESTED"
  ELSE "HEALTHY"

\* _find_native_token_price_usd: any pool that quotes it
NativePools(pools, chain) ==
  {p \in pools : \E dollar \in Dollars : Connects(p, Native[chain], dollar)}

\* estimate_gas_cost_usd, unless it raises: no gas price, no estimate
GasRaises(chain, reading) == chain \in EvmChains /\ reading = NoFigure
GasCost(chain, nativePrice, reading) ==
  (nativePrice.n * (IF chain \in EvmChains THEN reading ELSE 1)) \div (nativePrice.d * GasScale)

-----------------------------------------------------------------------------
\* One swap

\* estimate_amm_output_usd, for a pool whose two reserves are worth the same
AmmOutput(size, tvl) ==
  IF tvl <= 0 \/ size <= 0 THEN 0 ELSE (tvl * size) \div (tvl + 2 * size)

SwapOutput(size, p) ==
  AmmOutput(size, p.tvl) - Bps(AmmOutput(size, p.tvl), p.fee)

MevCompetitiveness(chain) ==
  CASE chain = "eth" -> 900 [] chain = "bsc" -> 600 [] chain = "solana" -> 500 [] OTHER -> 700

\* compute_mev_risk_score: a twentieth of the pool is as bad as it gets
MevRisk(chain, size, tvl) ==
  LET sizeRisk == IF tvl > 0 THEN Least(1000, (20 * 1000 * size) \div tvl) ELSE 1000
  IN Least(1000, (6 * sizeRisk + 4 * MevCompetitiveness(chain)) \div 10)

\* mev_buffer_pct_for_risk: up to three times the floor
Buffers(chain, size, tvl) ==
  Bps(size, SlippageBps) + Bps(size, (MevBps * (1000 + 2 * MevRisk(chain, size, tvl))) \div 1000)

-----------------------------------------------------------------------------
\* Two exchanges, one pair

Cheaper(x, y) == x.n * y.d < y.n * x.d

\* The price of one token in the other. Which of the two makes no difference.
PairPrice(p) == PriceOf(p, CHOOSE t \in {p.token0, p.token1} : TRUE)

\* order_buy_sell_pools: none, or the pool to buy at and the one to sell at
OrderPools(p, q) ==
  IF p.chain # q.chain \/ {p.token0, p.token1} # {q.token0, q.token1} THEN {}
  ELSE {o \in {<<p, q>>, <<q, p>>} : Cheaper(PairPrice(o[1]), PairPrice(o[2]))}

\* evaluate_dex_capital_tier
CrossNet(buy, sell, size, gas) ==
  LET bought == SwapOutput(size, buy)
      worth == (bought * PairPrice(sell).n * PairPrice(buy).d)
                 \div (PairPrice(sell).d * PairPrice(buy).n)
  IN SwapOutput(worth, sell) - size - gas - Buffers(buy.chain, size, Least(buy.tvl, sell.tvl))

CrossNets(buy, sell, gas) == [size \in SizeTiers |-> CrossNet(buy, sell, size, gas)]

Enough(net, size) == net * 10000 >= MinEdgeBps * size

Found(strategy, chain, route, nets) ==
  [strategy |-> strategy, chain |-> chain, route |-> route,
   capital |-> OptimalSize(nets), profit |-> nets[OptimalSize(nets)],
   most |-> MaxProfitableSize(nets)]

\* detect_cross_dex_opportunity, with the gas of both swaps
DetectCross(p, q, gas) ==
  {o \in {Found("dex_cross", x[1].chain, <<x[1].id, x[2].id>>, CrossNets(x[1], x[2], 2 * gas)) :
            x \in {x \in OrderPools(p, q) :
                     /\ IsCapturable(x[1].chain)
                     /\ Profitable(CrossNets(x[1], x[2], 2 * gas)) # {}}} :
     Enough(o.profit, o.capital)}

\* find_best_flash_loan_size: what repays the loan and its fee, and earns
Repayable(buy, sell, size, gas) == CrossNet(buy, sell, size, gas) >= Bps(size, LoanFeeBps)
LoanNets(buy, sell, gas) ==
  [size \in {size \in LoanTiers : Repayable(buy, sell, size, gas)} |->
     CrossNet(buy, sell, size, gas) - Bps(size, LoanFeeBps)]

DetectFlashLoan(p, q, gas) ==
  {[Found("flash_loan_research", o[1].chain, <<o[1].id, o[2].id>>, LoanNets(o[1], o[2], 2 * gas))
      EXCEPT !.most = NoFigure] :
     o \in {o \in OrderPools(p, q) :
              o[1].chain \in EvmChains /\ Profitable(LoanNets(o[1], o[2], 2 * gas)) # {}}}

-----------------------------------------------------------------------------
\* A loop of swaps

\* build_token_graph: a pool joins its tokens both ways
Hops(pools) ==
  UNION {{[pool |-> p, from |-> p.token0], [pool |-> p, from |-> p.token1]} : p \in pools}
ToToken(h) == IF h.from = h.pool.token0 THEN h.pool.token1 ELSE h.pool.token0

Reached(path, base) == IF path = <<>> THEN base ELSE ToToken(Last(path))

\* no pool twice, and no token twice but the base asset
MayFollow(path, h, base) ==
  /\ h.from = Reached(path, base)
  /\ \A i \in DOMAIN path : path[i].pool.id # h.pool.id
  /\ ToToken(h) # base => ToToken(h) \notin {ToToken(path[i]) : i \in DOMAIN path}

Paths(pools, base) ==
  LET of[n \in 0..MaxRouteLength] ==
        IF n = 0 THEN {<<>>}
        ELSE {Append(x[1], x[2]) : x \in {x \in of[n - 1] \X Hops(pools) :
                                            MayFollow(x[1], x[2], base)}}
  IN UNION {of[n] : n \in 2..MaxRouteLength}

\* find_cycles
FindCycles(pools, base) == {path \in Paths(pools, base) : Reached(path, base) = base}

\* simulate_route: each swap passes on the value it returns, and the rates say
\* how much of the base asset that is in the end
SimulateRoute(path, size) ==
  FoldLeft(LAMBDA s, h :
             LET rate == PriceOf(h.pool, h.from)
             IN [value |-> SwapOutput(s.value, h.pool), n |-> s.n * rate.n, d |-> s.d * rate.d],
           [value |-> size, n |-> 1, d |-> 1], path)

RouteNet(path, chain, size, gas) ==
  LET end == SimulateRoute(path, size)
      thinnest == SmallestOf({path[i].pool.tvl : i \in DOMAIN path})
  IN (end.value * end.n) \div end.d - size - Len(path) * gas - Buffers(chain, size, thinnest)

RouteNets(path, chain, gas) == [size \in SizeTiers |-> RouteNet(path, chain, size, gas)]
BestOf(nets) == nets[OptimalSize(nets)]

\* detect_multihop_opportunity: the loop that earns most at its own best size
DetectMultihop(pools, base, chain, gas) ==
  LET priced == {[path |-> c, nets |-> RouteNets(c, chain, gas)] : c \in FindCycles(pools, base)}
      earning == {x \in priced : Profitable(x.nets) # {}}
      best == CHOOSE x \in earning : \A y \in earning : BestOf(y.nets) <= BestOf(x.nets)
      found == Found(IF Len(best.path) = 3 THEN "dex_triangular" ELSE "dex_multihop", chain,
                     <<base>> \o [i \in DOMAIN best.path |-> best.path[i].pool.id], best.nets)
  IN IF IsCapturable(chain) /\ earning # {} /\ Enough(found.profit, found.capital)
     THEN {found} ELSE {}

-----------------------------------------------------------------------------
\* One atomic bundle

Legs(o) == IF o.strategy \in {"dex_cross", "flash_loan_research"} THEN 2 ELSE Len(o.route) - 1

\* estimate_revert_probability
RevertProbability(chain, legs) ==
  20 + (230 * (6 * MevCompetitiveness(chain) + 4 * Least(1000, (1000 * (legs - 1)) \div 3))) \div 10000

\* mutant: the bundle is assumed to land, and to save the gas of the legs
BundleValueIfLanded(profit, revert, gas) == profit + gas

\* simulate_atomic_bundle: gas is paid even when it reverts
BundleValue(profit, revert, gas) == ((1000 - revert) * profit - revert * gas) \div 1000

\* as_atomic_opportunity
AtomicTwin(o, gas) ==
  [o EXCEPT !.strategy = "atomic",
            !.profit = BundleValue(o.profit, RevertProbability(o.chain, Legs(o)), gas)]
=============================================================================
