------------------------------ MODULE MCCapital -------------------------------
(***************************************************************************)
(* Seven machines that share no state, checked in one run: the portfolio   *)
(* of the economic ledger, the sequence of purchases against the floors,   *)
(* the reconciliation of a balance, the selection of candidates, the       *)
(* shadow orchestrator, the paper ledger and the detection on DEXs. The    *)
(* initial state says which of them runs.                                  *)
(***************************************************************************)
EXTENDS EconomicPortfolio, CapitalSequence, Reconciliation, CandidateSelection,
  SymbolUniverse, Reports, MCShadowTrading, PaperLedger, MCDexDetection

CONSTANTS o1, o2, k1, k2, old, big

VARIABLE machine

vars == <<machine, portfolioVars, sequenceVars, reconciliationVars, selectionVars, shadowVars,
          paperVars, dexVars>>

MCBooks == {[ask |-> 10, bid |-> 9, size |-> 9], [ask |-> 14, bid |-> 13, size |-> 9]}
MCHoldings == {SeedPool(3, 10), SeedPool(3, 14)}
MCTops == {[ask |-> 10, bid |-> 10], [ask |-> 13, bid |-> 12]}
MCDeltas == {-1, 2}

\* Of the paper ledger: two opportunities with a position key each, and a deployment over
\* a ledger with an old position, its duplicate, which earned more than the first keeps
\* locked, and one larger than the capital.
MCPosition == [o \in Opps |-> IF o = o1 THEN k1 ELSE k2]
MCHolding == [k \in PositionKeys |-> IF k \in LegacyKeys THEN 9 ELSE 1]
MCAmounts == [o \in Opps |-> IF o = o1 THEN 3 ELSE 1]
MCNets == {-1, 1}
OldRow(k, capital, net, at) ==
  [key |-> k, capital |-> capital, net |-> net, at |-> at, kind |-> "open"]
MCLedgers == {<<OldRow(old, 2, 1, 0), OldRow(old, 1, 3, 1), OldRow(big, 7, 0, 1)>>}

Init ==
  /\ machine \in {"portfolio", "sequence", "reconciliation", "selection", "shadow", "paper", "dex"}
  /\ IF machine = "portfolio" THEN PortfolioInit
     ELSE /\ engine = "twin" /\ gap = {} /\ moves = MaxMoves
          /\ usdt = [e \in Exchanges |-> 0] /\ start = usdt /\ realized = usdt
          /\ pool = [e \in Exchanges |-> EmptyPool]
  /\ SequenceInit /\ ReconciliationInit
  /\ IF machine = "selection" THEN SelectionInit
     ELSE /\ top \in {[x \in Sites |-> t] : t \in {[ask |-> 10, bid |-> 10]}}
          /\ held = [x \in Sites |-> 0] /\ dollars = held
          /\ clock = 0 /\ entries = [k \in Directions \X Reasons |-> NoEntry]
  /\ IF machine = "shadow" THEN ShadowInit ELSE ShadowInit /\ granularity = "scans"
  /\ PaperInit
  /\ DexInit

Next ==
  /\ UNCHANGED machine
  /\ \/ /\ machine = "portfolio" /\ PortfolioNext
        /\ UNCHANGED <<sequenceVars, reconciliationVars, selectionVars, shadowVars, paperVars, dexVars>>
     \/ /\ machine = "sequence" /\ SequenceNext
        /\ UNCHANGED <<portfolioVars, reconciliationVars, selectionVars, shadowVars, paperVars, dexVars>>
     \/ /\ machine = "reconciliation" /\ ReconciliationNext
        /\ UNCHANGED <<portfolioVars, sequenceVars, selectionVars, shadowVars, paperVars, dexVars>>
     \/ /\ machine = "selection" /\ SelectionNext
        /\ UNCHANGED <<portfolioVars, sequenceVars, reconciliationVars, shadowVars, paperVars, dexVars>>
     \/ /\ machine = "shadow" /\ ShadowNext
        /\ UNCHANGED <<portfolioVars, sequenceVars, reconciliationVars, selectionVars, paperVars, dexVars>>
     \/ /\ machine = "paper" /\ PaperNext
        /\ UNCHANGED <<portfolioVars, sequenceVars, reconciliationVars, selectionVars, shadowVars, dexVars>>
     \/ /\ machine = "dex" /\ DexNext
        /\ UNCHANGED <<portfolioVars, sequenceVars, reconciliationVars, selectionVars, shadowVars, paperVars>>

Spec == Init /\ [][Next]_vars

-----------------------------------------------------------------------------
(* The operators of the quotes, the books, the floors and the reports      *)
(* against what they are for, over small inputs: each ASSUME is evaluated  *)
(* once, before the run.                                                   *)

LOCAL Level(p, q) == [price |-> p, qty |-> q]
LOCAL AskSides == {<<>>} \cup {<<Level(2, q), Level(3, r)>> : q, r \in 0..2}
LOCAL BidSides == {<<Level(p, q), Level(2, 2)>> : p \in 2..5, q \in 0..2}

\* the price of the i-th unit of a side
LOCAL UnitPrice(levels, i) ==
  LET before(n) == FoldLeft(LAMBDA sum, l : sum + l.qty, 0, SubSeq(levels, 1, n))
  IN levels[CHOOSE n \in DOMAIN levels : before(n - 1) < i /\ i <= before(n)].price

LOCAL Depth(levels) == FoldLeft(LAMBDA sum, l : sum + l.qty, 0, levels)

\* A walk takes the first units of the side, as many as there are.
ASSUME AWalkTakesTheFirstUnits ==
  \A levels \in AskSides, target \in 0..5 :
    LET walk == VwapForTargetQty(levels, target) IN
    /\ walk.filled = Least(target, Depth(levels))
    /\ walk.cost = FoldFunctionOnSet(+, 0, [i \in 1..walk.filled |-> UnitPrice(levels, i)],
                                     1..walk.filled)

\* Books that do not cross offer no size that earns.
ASSUME NoEdgeWithoutACross ==
  \A asks \in AskSides, bids \in BidSides :
    asks # <<>> /\ asks[1].price >= bids[1].price /\ asks[1].qty > 0 /\ bids[1].qty > 0
      => Profitable(TierNets(asks, bids, 1..6)) = {}

\* The largest size thought profitable lies between the best one and the first
\* that loses.
ASSUME LargestProfitableIsBracketed ==
  \A net \in [{1, 3, 7} -> -2..2] :
    Profitable(net) # {} =>
      LET best == OptimalSize(net) most == MaxProfitableSize(net) IN
      /\ best <= most
      /\ \A s \in {1, 3, 7} : s > best /\ net[s] <= 0 => most <= s

\* What both exchanges can trade: the largest such multiple of both steps.
ASSUME CommonQtyIsTheLargest ==
  \A quoted, owned \in 0..9, steps \in {<<1, 1>>, <<1, 3>>, <<2, 4>>} :
    LET common == {q \in 0..Least(quoted, owned) : q % steps[1] = 0 /\ q % steps[2] = 0}
    IN CommonQty(quoted, owned, steps[1], steps[2]) = LargestOf(common)

\* A larger request is never quoted for less.
LOCAL ALeg(price, levels, step) ==
  [price |-> price, levels |-> levels, step |-> step, minQty |-> 1, minNotional |-> NoMinimum,
   tradable |-> TRUE]
ASSUME QuotesGrowWithTheRequest ==
  \A step \in 1..2 :
    LET buy == ALeg(2, <<Level(2, 3), Level(3, 4)>>, 1)
        sell == ALeg(3, <<Level(3, 4)>>, step)
        at == ObserveAtTiers(buy, sell, 0..12)
    IN \A x, y \in 0..12 : x <= y =>
         /\ at[x].qty <= at[y].qty
         /\ at[y].deep => at[x].deep

-----------------------------------------------------------------------------
LOCAL Fees == {<<0, Quote>>, <<1, Quote>>, <<1, Base>>}
LOCAL FillsOf(qs) == {Fill(q, p, f[1], f[2]) : q \in qs, p \in {3, 5}, f \in Fees}
LOCAL Pools == {EmptyPool, SeedPool(2, 4), [qty |-> 3, cost |-> 7]}

\* Judged together, the purchase and both legs are worth what they change:
\* whatever the units sold had cost, and however the cost was rounded.
ASSUME JointDeltaIsTheChangeOfWealth ==
  \A stock \in Pools, c \in FillsOf({2, 4}), s \in FillsOf({1, 3}), b \in FillsOf({1}), mark \in 3..4 :
    LET delta == JointDelta(stock, c, s, b, mark, mark, 0)
        kept == stock.qty + NetIn(c) - NetOut(s)
    IN delta # Unknown =>
         delta = Proceeds(s) - CostOf(c) - CostOf(b) + (NetIn(b) + kept) * mark - stock.cost

\* The accounts explain the net worth: a sale realizes what it no longer shows.
ASSUME SalesReconcile ==
  \A stock \in Pools, f \in FillsOf(1..3) :
    CanSell(stock, f) =>
      LET after == ApplySell(stock, f)
          prices == [e \in {"here"} |-> 4]
          open(p) == TotalUnrealized([e \in {"here"} |-> p], prices)
      IN Reconciled(Realized(stock, f) + open(after) - open(stock),
                    stock.qty * 4, Proceeds(f) + after.qty * 4, 0)

\* A purchase at the mark is under water by its fee, and never a gain.
ASSUME PurchasesPayTheirFee ==
  \A f \in FillsOf(1..3) :
    /\ ConstitutionDelta(f, f.price) <= 0
    /\ Underwater(ApplyBuy(EmptyPool, f), f.price) <=> (f.fee > 0 /\ NetIn(f) > 0)

\* Liquidated, an account is worth no more after a purchase than before.
ASSUME LiquidationNeverGains ==
  \A f \in FillsOf(1..2), bid \in 2..3, owned \in 0..2 :
    LET worth(purse, q) == LiquidationNetWorth(purse, [a \in {"btc", "odd"} |-> q],
                                              [a \in {"btc"} |-> bid])
    IN f.price >= bid => worth(30 - CostOf(f), owned + NetIn(f)) <= worth(30, owned)

\* A ledger that missed a purchase says too little, one that missed a sale too much.
ASSUME GapsAreDiagnosed ==
  \A stock \in Pools, f \in FillsOf(1..3) :
    /\ NetIn(f) > 0 => DiagnoseGap(stock, ApplyBuy(stock, f).qty, 0) = "LEDGER_UNDERSTATES_REAL_BALANCE"
    /\ CanSell(stock, f) =>
         DiagnoseGap(stock, ApplySell(stock, f).qty, 0) \in
           {"LEDGER_OVERSTATES_REAL_BALANCE", "ZERO_REAL_BALANCE"}

\* A route nothing is wrong with is the one that can be traded, and no reason
\* hides that the cost of what would be sold is not known.
ASSUME RejectionsAreComplete ==
  \A stock \in Pools, purse, owned \in {0, 9}, bid \in {2, 5}, natural \in {1, 8} :
    LET buy == ALeg(2, <<Level(2, 3)>>, 1) sell == ALeg(5, <<Level(5, 3)>>, 1)
        o == RouteObservation(buy, sell, stock, bid, 0, 0, natural, purse, owned, {2, 8})
        reason == ClassifyRejection(o, stock, 0, 0)
    IN /\ reason = "OTHER" => o.blocker = "NONE" /\ o.delta # Unknown /\ o.bps # Unknown
       /\ o.quote.executable /\ o.quote.deep /\ o.blocker = "NONE" => reason = "OTHER"
       /\ o.quote.qty > 0 /\ o.positive => o.byTier[8] # Unknown

-----------------------------------------------------------------------------
\* The simulation and real money on the same books

LOCAL ToBuy(q)     == ALeg(2, <<Level(2, q), Level(3, 4)>>, 1)
LOCAL ToSell(p, q) == ALeg(p, <<Level(p, q)>>, 1)
LOCAL Sim(q, p)     == SimSide(ToBuy(q), ToSell(p, 9), {4, 8, 16})

\* The simulation never trades books that do not cross.
ASSUME ASimulatedTradeCrosses ==
  \A q \in 0..4, p \in 1..5 : Sim(q, p).trades => Sim(q, p).detected

\* Held against the units that must be sold, the simulated profit stands as far as
\* those units had cost no more than the bought ones are worth, and only then.
ASSUME ProfitStandsOnTheCostOfTheUnits ==
  \A q \in 1..4, p \in 3..5, mark \in 2..4, stock \in {SeedPool(9, c) : c \in 1..5} :
    LET sim == Sim(q, p)
        delta == Recomputed(sim, stock, mark)
    IN sim.trades =>
         /\ delta # Unknown
         /\ stock.cost <= stock.qty * mark => delta >= sim.sold - sim.spent - sim.fees - 1
         /\ stock.cost > stock.qty * mark => delta <= sim.sold - sim.spent - sim.fees + 1

\* What real money refuses and the simulation trades is always put down to
\* something; when no cause is known, it is the dollars that were missing.
ASSUME EveryDifferenceIsExplained ==
  \A p \in 3..5, stock \in {EmptyPool, SeedPool(9, 2), SeedPool(9, 6)}, owned \in {0, 2, 9},
     wallet \in {0, 4, 9, 20}, floor \in {0, 5}, bid \in {2, 3},
     notional \in {8, 24} :
    LET sim == Sim(8, p)
        real == RealSide(ToBuy(8), ToSell(p, 9), stock, bid, 0, 0, notional, wallet, owned, floor)
        causes == ClassifyDifference(sim, real, Recomputed(sim, stock, bid))
    IN /\ causes # <<>> <=> sim.trades /\ ~real.trades
       /\ IsInjective(causes)
       /\ causes = <<"OTHER">> => wallet - floor < real.needed

\* A quote that is refused for its minimum counts as a trade all the same.
ASSUME RefusedQuoteCountsAsTrade ==
  LET dear == [ToSell(5, 9) EXCEPT !.minNotional = 99]
      real == RealSide(ToBuy(4), dear, SeedPool(9, 2), 2, 0, 0, 8, 20, 9, 0)
  IN real.reason = "QUOTE_REJECTED" /\ real.trades

-----------------------------------------------------------------------------
\* The universe of symbols

MCFixedPairs == {<<"usdc", "USDT">>, <<"eth", "fdusd">>}
MCNotOnBybit == {<<"eth", "fdusd">>}

LOCAL Asked == {"binance", "okx", "bybit"}
LOCAL Answers == {Silent} \cup UNION {[as -> {0, 2, 3, Unreadable}] : as \in SUBSET {"btc", "eth"}}
LOCAL Heard == {[x \in Asked |-> Fetched(answers[x])] : answers \in [Asked -> Answers]}

\* Whatever fails, the engine has assets to scan: either those fixed in advance, or ones
\* that two exchanges confirmed, each subscribed to wherever it was confirmed.
ASSUME AUniverseIsFixedOrConfirmed ==
  \A results \in Heard : \A ranked \in Discovered(results) :
    LET assets == EffectiveAssets(results, ranked) IN
    \/ assets = StaticAssets
    \/ /\ assets # {} /\ ~Degraded(results)
       /\ \A a \in assets :
            /\ Cardinality({x \in ListedOn(results, a) : <<a, "USDT">> \in SpotSymbols(x, assets)}) >= 2
            /\ \A b \in OnTwoOrMore(results) \ assets :
                 ThinnestVolume(results, b) <= ThinnestVolume(results, a)

\* A row that cannot be read counts as a symbol that is not listed: it can change the
\* universe although every exchange answered.
ASSUME UnreadableRowsShrinkTheUniverse ==
  LET answers == [x \in Asked |-> [a \in {"btc", "eth"} |-> 3]]
      torn == [answers EXCEPT !["okx"]["eth"] = Unreadable, !["bybit"]["eth"] = Unreadable]
      heard(as) == [x \in Asked |-> Fetched(as[x])]
  IN ~Degraded(heard(torn)) /\ "eth" \in OnTwoOrMore(heard(answers)) \ OnTwoOrMore(heard(torn))

\* An asset confirmed on two exchanges is subscribed to on the third as well.
ASSUME SubscribedBeyondWhereListed ==
  \E results \in Heard : \E ranked \in Discovered(results) :
    LET assets == EffectiveAssets(results, ranked) IN
    /\ assets # StaticAssets
    /\ \E a \in assets, x \in Asked :
         x \notin ListedOn(results, a) /\ <<a, "USDT">> \in SpotSymbols(x, assets)

-----------------------------------------------------------------------------
\* The floors

ASSUME FloorsAreBounded ==
  \A cap \in 0..9, halves \in 0..4 : ReserveFloor(cap, halves, 3, 6) \in 3..6

ASSUME ImbalanceIsSymmetric ==
  \A a, b \in 0..8 :
    /\ ImbalanceScore(a, b) = ImbalanceScore(b, a)
    /\ ImbalanceScore(a, b) \in 0..100
    /\ ImbalanceScore(a, b) = 0 <=> a = b

\* An exchange needs rebalancing when a trade of nothing would breach its floor.
ASSUME NeedIsABreach ==
  \A a, b, floor \in 0..4 :
    IsRebalanceNeeded(a, b, floor, floor) <=> WouldBreach(a, floor, 0) \/ WouldBreach(b, floor, 0)

\* Only what the exchange would take is sold, and only below the floor.
ASSUME OnlyTheLargestIsSold ==
  \A value, minNotional \in 0..3, q, below, largest \in BOOLEAN :
    ClassifyPosition(value, minNotional, q, below, largest) = "SELL_TO_USDT"
      <=> value >= minNotional /\ below /\ largest

\* The component named as binding is the floor, except that a cap below the
\* structural minimum is named although it does not bind.
ASSUME TheBindingComponentBinds ==
  \A minNotional \in 0..3, cap \in 0..6, buys, sells \in 0..3, total \in {0, 20, 60} :
    LET structural == StructuralMinimum(minNotional)
        buffer == OperatingBuffer(3, cap, buys, sells, 2)
        share == EqualShareCap(total, 2, 5)
        floor == DynamicFloor(structural, buffer, share)
    IN CASE BindingComponent(structural, buffer, share) = "STRUCTURAL_MINIMUM" -> floor = structural
         [] BindingComponent(structural, buffer, share) = "OPERATING_BUFFER" -> floor = buffer
         [] OTHER -> floor = share \/ (share < structural /\ floor = structural)
-----------------------------------------------------------------------------
\* Loops, modes and outcomes on paper

LOCAL Market(bid, ask, bidQty, askQty) ==
  [bid |-> bid, ask |-> ask, bidQty |-> bidQty, askQty |-> askQty, age |-> 0]
LOCAL LoopMarkets(ab, bb, ba, spread, thin) ==
  (<<"a", "usd">> :> Market(ab, ab + spread, 99, 99))
  @@ (<<"b", "usd">> :> Market(bb, bb + spread, 99, 99))
  @@ (<<"b", "a">> :> Market(ba, ba + spread, thin, thin))
LOCAL Triangles == {LoopMarkets(ab, bb, ba, spread, thin) :
  ab \in 2..4, bb \in 3..9, ba \in 1..3, spread \in 0..1, thin \in {1, 99}}

\* A loop that is kept earns the buffers over what its three fees cost, however the hops
\* were cut by the depth: the fees are charged on what each hop cost in dollars.
ASSUME AKeptLoopEarnsItsBuffers ==
  \A quotes \in Triangles, fee \in {0, 10}, buffers \in {0, 80, 130} :
    LET loops == DetectLoops(quotes, "usd", "a", "b", 8, fee, buffers) IN
    \A loop \in loops.forward \cup loops.backward :
      \* 1000 (end - spent) - fees >= buffers * spent, over the common denominator
      loop.fees.d * (1000 * loop.end.n * loop.spent.d - (1000 + buffers) * loop.spent.n * loop.end.d)
        >= loop.fees.n * loop.end.d * loop.spent.d

\* With books that do not cross, a triple never pays in both directions.
ASSUME OneDirectionPays ==
  \A quotes \in Triangles :
    LET loops == DetectLoops(quotes, "usd", "a", "b", 8, 0, 0)
    IN loops.forward = {} \/ loops.backward = {}

\* A loop that a smaller capital would find is not found when its second hop is thin: what
\* that hop cannot spend is counted as lost.
ASSUME AThinHopHidesTheLoop ==
  \E quotes \in Triangles : \E small \in 1..7 :
    /\ DetectLoops(quotes, "usd", "a", "b", small, 0, 0).forward # {}
    /\ DetectLoops(quotes, "usd", "a", "b", 99, 0, 0).forward = {}

LOCAL Venue(bid, ask, fee) ==
  [bid |-> bid, ask |-> ask, bidQty |-> 9, askQty |-> 9, taker |-> fee, maker |-> fee \div 2,
   volatility |-> NotSet]
LOCAL VenuePrices == {<<2, 2>>, <<2, 3>>, <<3, 3>>, <<3, 4>>, <<4, 4>>, <<4, 6>>}
LOCAL TakerProfit(buy, sell) ==
  ExecutionModes(buy @@ [fill |-> 50], sell @@ [fill |-> 50], 12, 1)[1].profit

\* The mode that is chosen never promises less, once filled, than taking both legs; and
\* when taking both loses, it is one that may not fill.
ASSUME ChosenModeIsNoWorse ==
  \A b, s \in VenuePrices, fee \in {0, 2, 100} :
    LET buy == Venue(b[1], b[2], fee) sell == Venue(s[1], s[2], fee)
        best == SimulateBestExecution(buy, sell, 12, 1)
    IN /\ best.profit >= TakerProfit(buy, sell)
       /\ TakerProfit(buy, sell) < 0 => best.mode # "taker_taker" /\ best.fill < 100 * 100

LOCAL Papers ==
  [age : {NotSet, 1, 3}, class : {NotSet, "NOT_PROFITABLE", "WATCH", "GOOD"},
   holding : {NotSet, 8, 9000}, legs : {0, 2}, net : {NotSet, 2, 5}, floor : {NotSet, 3},
   mode : {NotSet, "taker_taker", "maker_maker"}, fill : {NotSet, 25, 10000},
   capital : {NotSet, 899, 900}]

\* What the validator approves is never reported as simulated_failed: that status cannot
\* come from the detection loop. And only an order that rests can be missed.
ASSUME ApprovedIsNeverStale ==
  \A paper \in Papers, isOpen \in BOOLEAN :
    LET may == Outcomes(paper, -1 .. 1) IN
    /\ may # {}
    /\ Validate(paper, isOpen) = "approved" => "simulated_failed" \notin may
    /\ "missed" \in may => paper.mode = "maker_maker" /\ paper.fill < 10000

\* The net spread is compared with a floor for the gross one: what clears the floor before
\* its fees, and earns after them, may be gone although no price moved.
ASSUME GoneWithoutAMove ==
  \A gross, fees \in 0..6 :
    LET floor == BreakEven(<<fees>>, 1)
        paper == [age |-> 0, net |-> gross - fees, floor |-> floor, mode |-> "taker_taker",
                fill |-> 10000, capital |-> 1000]
    IN Outcomes(paper, {0}) = IF gross >= fees + floor THEN {"simulated_executed"} ELSE {"edge_disappeared"}
-----------------------------------------------------------------------------
\* The reports

LOCAL Signal == [age |-> 0, class |-> "GOOD", holding |-> 8, legs |-> 2, net |-> 5]
LOCAL FunnelRows ==
  {[SaveOpportunity([Signal EXCEPT !.class = class, !.net = net], isOpen, 0) EXCEPT !.trades = trades] :
     class \in {"NOT_PROFITABLE", "WATCH", "GOOD"}, net \in {0, 5}, isOpen \in BOOLEAN,
     trades \in {{}, {[status |-> "missed", at |-> 0]}, {[status |-> "partial_fill", at |-> 0]}}}

\* Every row detected is either rejected or executable, and what is closed was executed.
ASSUME RejectedOrExecutable ==
  \A r \in FunnelRows, q \in FunnelRows :
    LET f == Funnel(<<r, q>>, 0, 9) IN
    /\ f.rejected \cup f.executable = f.detected /\ f.rejected \cap f.executable = {}
    /\ f.closed \subseteq f.executed
    /\ ObservedTicks(<<r, q>>, 0, 9) >= Cardinality(f.detected)
    /\ LET outcomes == AttemptOutcomes(<<r, q>>, 0, 9) IN
       FoldFunction(+, 0, outcomes) = Cardinality(r.trades) + Cardinality(q.trades)

\* The stages are not nested: an opportunity that was executed counts as rejected once it is
\* seen again while its position is open.
ASSUME ExecutedThenRejected ==
  LET approved == [SaveOpportunity(Signal, FALSE, 0) EXCEPT
                     !.trades = {[status |-> "simulated_executed", at |-> 0]}]
      f == Funnel(<<UpdateOpportunity(approved, Signal, TRUE)>>, 0, 9)
  IN f.executed = {1} /\ f.rejected = {1} /\ f.executable = {}

LOCAL DexTrade(net, status, completeAt) ==
  [net |-> net, capital |-> 3, status |-> status, attemptAt |-> 1, completeAt |-> completeAt]
LOCAL DexTables == {<<DexTrade(n, s, c), DexTrade(1, "dex_filled", 4)>> :
  n \in {-4, 2}, s \in {"dex_filled", "dex_failed"}, c \in {2, 4}}

\* The two ledgers reconcile as long as no engine holds more than its equity.
ASSUME ReconciledUnlessOvercommitted ==
  \A trades \in DexTables, equity, engaged \in 0..3, total \in 0..9 :
    LET dex == DexCapitalSnapshot(trades, total, 0, 3) IN
    GloballyReconciled(GlobalCapitalState(equity, engaged, dex)) <=> engaged <= equity /\ dex.locked <= dex.equity

\* The profit of a trade that is still under way counts as realized.
ASSUME ProfitBeforeItsTime ==
  DexCapitalSnapshot(<<DexTrade(2, "dex_filled", 4)>>, 9, 0, 3).equity = 11

LOCAL Values == {SortSeq(v, <) : v \in SeqOf(-2..3, 4) \ {<<>>}}
ASSUME PercentilesAreOrdered ==
  \A v \in Values :
    /\ Percentile(v, 0) = 100 * v[1] /\ Percentile(v, 100) = 100 * v[Len(v)]
    /\ \A p, q \in {0, 10, 25, 50, 75, 90, 100} : p <= q => Percentile(v, p) <= Percentile(v, q)

\* An edge that never varies qualifies always; one that earns on average may qualify never.
ASSUME GateAsksForSteadiness ==
  /\ \A v \in Values : v[1] = v[Len(v)] /\ v[1] > 0 => Qualifying(v) = DOMAIN v
  /\ Qualifying(<<2, 2, 2, 2, 2, 2, 2, 2, 2, 2, -19>>) = {}

\* Every observation is in one slice of time, and every group has its own.
ASSUME SlicesPartition ==
  \A times \in {SortSeq(t, <) : t \in SeqOf(0..5, 3)}, width \in 1..3 :
    LET slices == TimeSlices(times, width) groups == GroupStats(times) IN
    /\ UNION slices = DOMAIN times
    /\ \A s, t \in slices : s = t \/ s \cap t = {}
    /\ \A k \in DOMAIN groups : \E s \in slices : groups[k] \subseteq s
=============================================================================
