# Verification of robottrading

This directory holds TLA+ specifications of the crypto-arbitrage program in
`src/`, the TLC configurations that check them on small instances, and theorems
about them with proofs checked by TLAPS. Line numbers are of the files in `src/`;
paths are relative to `src/app/` unless they begin with `src/` or name `main.py`,
`shadow_orchestrator.py` or `altcoin_scanner.py`.

* [The system](#the-system) - its parts, their state, how they interact
* [The modules](#the-modules) - which module models which code, and how
* [The runs](#the-runs) - what is checked, on which instances, and what it shows
* [Fairness](#fairness)
* [What is proved](#what-is-proved)
* [Findings and observations](#findings-and-observations)
* [Not modelled](#not-modelled)
* [Plan](#plan)

## The system

Four programs share one code base and one database.

**Real money.** `LiveArbitrageExecutor.execute_one_arbitrage` buys on one
exchange and sells on another; `InventoryConstitutionExecutor.constitute_inventory`
buys the inventory that a later sell leg needs. Both are coroutines behind an
in-memory guard (limits, slots, kill switch). They are called by an orchestrator
script that is not part of the repository, and stopped by operators. What that
script must survive is in `operations/`; what it decides with is in
`execution/candidate_selection.py`, `true_economic_*.py`, `capital_rebalancer.py`.

**Paper trading.** `main.py` runs collectors that fill a market-data store, and
two asyncio tasks that read it: `detection_loop` (CEX: exchanges, five virtual
portfolios) and `dex_detection_loop` (DEX: chains, one capital pool). They find
opportunities, simulate trades against capital held in memory, and save rows to
Postgres, from which the portfolios are rebuilt at the next start. A MASTER
allocator may gate the attempts of both. The same process answers the HTTP API,
whose reports include the live preflight and the inventory advice.

**Shadow orchestrator.** `shadow_orchestrator.py` reads the rows the engines
persisted and decides what one common pool would have given each.

**Scanner.** `altcoin_scanner.py` quotes the whole universe and stores what it
saw for the reports of the engine process.

Everything runs on one event loop per process: code between two `await`s is
atomic, and any other task may run at each `await`. That is the granularity of
every module.

### Components

| component | state | operations | interacts with | what is hard | what makes it correct |
|---|---|---|---|---|---|
| **Live execution guard** (`execution/live_guard.py`) | kill switch, in-flight count, settings | admit, register start / end, engage, disengage | called by the executor, by operators | checked once, at admission; a counter raised and lowered around some twenty ways out | bounded concurrency; nothing starts beside an unreviewed critical end |
| **Live arbitrage executor** (`execution/live_arbitrage_executor.py`, `dual_leg_quote.py`, `binance_filters.py`) | the locals of each call, two to three orders on two exchanges | quote, size, buy, confirm, sell, confirm, neutralize | exchanges, guard | late, lost, partial or ambiguous answers at each leg; trades listed late; a read that raises in between; rounding and fees | never sell more than was bought and not listed yet; a neutralized position is flat; every call ends |
| **Inventory constitution** (`execution/inventory_constitution_executor.py`, `inventory_guard.py`) | its own guard; one order per call | quote, buy, confirm, quote again | exchanges, then the arbitrage executor | an order that fills after its call gave up on it; fees in base asset, unlisted, or in several assets | spending is never forgotten; what it reports as ready is held |
| **Exchange clients** (`execution/*_live_trade_client.py`, `*_account_client.py`, `bybit_client.py`) | none | place, ask for a status, its trades, the fee; read account, rules, book | executors, observers | a status and its trades are two readings; orders drop out of lists | a priced, terminal report is the whole order |
| **Live universe and observers** (`execution/live_universe.py`, `micro_live.py`, `dual_leg_observer.py`, `scanner/market_snapshot.py`) | caches with a time to live | refresh, read, observe | exchanges, reports | each of a dozen calls may fail on its own | lists of one reading; nothing older than its time to live is used |
| **Live readiness** (`execution/live_preflight.py`, `live_readiness_gate.py`, `live_ranker.py`) | none | rank, read accounts and keys, report | exchanges, operators | ten calls with an `except` each; balances move meanwhile | what is unknown never counts as safe |
| **Operations layer** (`operations/order_intent_log.py`, `persistent_kill_switch.py`, `preflight.py`) | two files that survive a crash | start / resolve an intent, save / clear the switch, evaluate at startup | external orchestrator | a crash between two writes, or within one | never resume over an unknown order or an unreviewed incident |
| **Circuit breaker** (`operations/circuit_breaker.py`) | failure counts and cooldowns per scope | record failure / success | external orchestrator | a cooldown ends without a reset of the count | a scope is paused by its own failures only |
| **Incident handling** (`operations/incident_*.py`, `recovery_actions.py`, `reconciliation_self_healing.py`, `execution/reconciliation.py`) | a file of known incidents; ledger events | classify, plan, record, reconcile | external orchestrator | the first matching substring decides; subsets of events that explain a difference | a stop means that nothing explains the difference |
| **Economic ledger and gate** (`execution/true_economic_*.py`, `digital_twin.py`, `v4_session_replay.py`, `rejection_classifier.py`, `reporting/real_net_worth.py`) | a cost-basis pool per exchange | buy, sell, judge, replay | candidate selection | fees in either asset, charged once; units bought at different prices | claimed profit is the change in worth; a gain is realized, not owed to a mark |
| **Reserves and rebalancing** (`execution/capital_rebalancer.py`, `dynamic_reserve_floor.py`) | none (a replayed sequence) | breach, shortfall, sell, floors | candidate selection | a sale's own fee | the floor holds over any sequence |
| **Candidate selection** (`execution/candidate_selection.py`) | rejection cache | classify, select | external orchestrator | a remembered refusal that outlives its reason | what is suppressed would be refused again now |
| **MASTER allocator** (`orchestration/global_allocator.py`, `control.py`) | reservations with release times, realized P&L, the authority flag | reserve, adjust, resolve, check and roll back, enable | both loops, operators, the status page | two loops at different awaits with different ideas of the time; aborted cycles | never grant more than there is; cover what the executors hold; lose no result |
| **Paper trading** (`simulation/`) | balances, capital locks, position keys; rows in `simulated_trades` | simulate, lock, prune, force exit, rebuild, check | CEX loop, database | memory changes before rows are flushed, rows before they are committed; a crash at any await | no lock taken beyond the balance, no position opened or closed twice, equity equals the ledger |
| **Risk engine** (`risk/risk_engine.py`, `limits.py`) | kill switch | engage, disengage | loops, ledger check, operators | read before an await and relied on after it | once engaged nothing new executes |
| **Market data** (`market_data/`, `collectors/`) | last quote and book per market, update event | connect, merge, update, wait, clear | collectors write, engines read | deltas, reconnections; an update between a wake-up and the clear | a published book is the venue's; no update is lost; no spread is slept through |
| **Detection and tracking** (`opportunity/`, `engines/`, `execution/validator.py`, `maker_taker.py`, `latency_engine.py`) | signals seen lately, with the id of their row | scan, observe, expire, validate, simulate an execution | store, CEX loop | stale inputs with different clocks | opportunities rest on live data; one row per signal |
| **On-chain engines** (`onchain/`, `main.py`) | keys seen lately; `dex_capital_pool` | read pools, detect, attempt | DEX loop, MASTER | a slow cycle; four detectors that see the same gap | a gap is attempted once, of an opportunity and its twin the better one |
| **Shadow trading** (`shadow/`, `shadow_orchestrator.py`) | ledger, open positions (memory); decisions (rows) | fetch, decide, commit | reads the engines' rows | a batch that is rolled back; rows of one gap in different batches | no gap allocated twice, no opportunity credited twice |
| **Scanner** (`scanner/`, `altcoin_scanner.py`) | streaks, missed edges (memory); rows | stage A, stage B, commit | exchanges, database | failures per row and per symbol; restarts | what the reports call persistent was seen more than once |
| **Inventory advice** (`execution/inventory_manager.py`, `reporting/short_term_regime.py`) | none | regime, best direction, buy, give up | the scanner's rows | several purchases share each limit | all limits hold together |
| **Reporting**, **analytics** | none | aggregate rows | database, API | - | the parts add up |
| **Database**, **API and dashboard** | none beyond the above | - | - | - | - |

## The modules

    GuardedAttempts                 what a guard promises (abstract)
       ^        ^        ^          RefinesGuardedAttempts, LivesImplementGuard
       |        |        |
    ArbitrageExecutor  InventoryConstitution  SafeResume -- Incidents
    OrderClients   LiveUniverse   VenueReads   LiveReadiness
    AltcoinScan <- InventoryAdvice

    Sizing <- MarketQuotes <- EconomicLedger <- EconomicPortfolio -> Rebalancing
                   ^                ^                                   ^
           CandidateSelection       Reports                      CapitalSequence
    Reconciliation

    MasterAuthority     both loops, allocator, DEX pool, "5K" portfolio
    PaperLedger         one portfolio, its ledger, crash and recovery
    DepthFeed, Detection, SymbolUniverse     from the venues to the loop
    PaperExecution <- Reports (which also extends EconomicLedger)
    Sizing <- OnchainArbitrage <- DexDetection, DexAttempt
    ShadowTrading

An arrow points from the module that extends to the one that is extended (read
`A <- B` as "B extends A"). A module that only defines operators (Sizing,
MarketQuotes, EconomicLedger, Rebalancing, Incidents, OnchainArbitrage,
SymbolUniverse, PaperExecution, Reports) is checked against reference definitions
by the ASSUMEs of `MCCapital`, `MCDexDetection` and `MCOperations`, and by the
state machines built on it.

The `MC` modules instantiate the components for TLC. The theorems are in
`GuardedAttemptsProofs`, `ArbitrageExecutorProofs`, `ExposureProofs` (inventory and
MASTER), `PaperLedgerProofs`, `CapitalProofs`, `OperationsProofs` and `FeedProofs`;
`Sums` holds the lemmas about sums over finite sets, folds, iterations, least and
largest elements and quotients that they share.

### Real money

**GuardedAttempts** is the abstract specification of both guards. Attempts are
idle, refused, running, or ended: clean, critical, or by raising. Beginning needs
a free slot and a clear kill switch; a critical end engages the switch *in the
same step*; only an operator clears it, and has then reviewed every critical end
(`reviewed`, an observer: the code keeps no such record, the operator does).

**ArbitrageExecutor** is `execute_one_arbitrage` with `live_guard.py`. `pc[a]`
names the `await` a call is suspended at and `loc[a]` holds the locals that
matter after it; one action is the code between two awaits.

| action | code |
|---|---|
| `Refuse`, `Begin` | `assert_arbitrage_allowed`, `register_arbitrage_start` (live_guard 96-124) |
| `QuoteRejected`, `QuoteAccepted` | the fresh dual-leg quote and its verdict |
| `SizeRejected`, `SubmitBuy` | `compute_common_dual_leg_qty`, the minima, the second quote, the buy |
| `BuyUnknown`, `BuyZeroFill`, `BuyFilled` | `_await_terminal` of the buy and the three ways it ends |
| `ReadSellBalance`, `SellNotViable`, `SubmitSell` | the sell side's balance, lot step and book, read after the fill |
| `SellSubmissionRaises`, `SellUnknown`, `SellZeroFill`, `SellFilled` | the sell's confirmation |
| `ResidualIsDust`, `NeutralizeResidual` | what a partly filled sell leaves |
| `NeuReadBalance` ... `NeuUnconfirmed` | `_neutralize` |
| `ReadRaises` | every read that only a `finally` surrounds |
| `Match` | the exchanges (external): fill, partly fill, or ignore an order at any later moment |

A confirmed leg counts what `_get_status` counts (`Confirmed`): on an exchange of
`ListsTrades`, any part of the executed quantity and of its fee, since the code sums
the trades listed so far (425-427); elsewhere the order's own total. So `loc` holds
what the call believes of its legs, and `order` what they did. Prices and depths are
abstracted to their verdict, so a quote is an arbitrary choice; quantities are naturals
in a unit finer than the lot steps, so rounding, fees and the reserve step of `_neutralize` are exact. `ambiguousSell` is what the
result's reason records of a sell whose submission raised.

**InventoryConstitution** is `constitute_inventory` with `inventory_guard.py`.
`result[a]` is the fields of `InventoryConstitutionResult` a caller acts on. `Reports`
is what `_get_status` may say of a filled order: where trades are listed, of any part
of them, with the fee that part was charged (330-333).
`PostFillRaises` is the comparison with a minimum notional the exchange does not
publish (`None`).

**SafeResume** runs attempts over many lives of the process. `log` and `kill` are
the memory of a life, `logFile` and `killFile` the two files, either of which a
crash may leave `Torn` between its truncation and its writing. `ReadLog`,
`ReadKill` are the start's preflight; an operator reviews, resolves and clears.
The order of the session's own steps is that of the docstrings. **Incidents** is
the taxonomy, the plan of recovery actions and the knowledge base: an incident
type is the set of the table's substrings that it contains.

**OrderClients** is one market order with the client of the exchange that has it:
the exchange executes, lists and forgets; `caller` polls as `_await_terminal` and
`_get_status` do, the status and the trades in separate readings. **LiveUniverse**
is the fetch of three exchanges one after the other, Bybit in pages, with its
cache. **VenueReads** is one observer (`watcher` chooses which of three) with its
caches; an hour, a minute, or a failure may pass between any two readings.
**LiveReadiness** is `build_multi_symbol_preflight_report`, each of its readings a
step that may fail.

**AltcoinScan** is the cycle of the scanner: stage A, the promoted symbols, stage
B with its failures, the three trackers, the transaction and restarts.
**InventoryAdvice** extends it with the report that reads the committed rows.

### Capital

**MarketQuotes** and **Sizing** are books, quotes of both legs, the common
quantity and the choice of a size. **EconomicLedger** is the cost-basis pool, the
gate, the verdicts and the net worth; **EconomicPortfolio** moves dollars and
pools by the engine chosen at the start: the digital twin, a past session through
the gate, or a past session as it was. **Rebalancing** is the floors and
decisions, **CapitalSequence** a replayed sequence against them.
**CandidateSelection** is the classification with the cache. **Reconciliation**
compares a ledger with an account, some movements of which are reported late.

### Paper trading

**MasterAuthority** is `global_allocator`, `master_control`,
`risk_engine.kill_switch`, the DEX pool, the "5K" portfolio and the position
tracker, with the parts of both loops that use them. `cex` and `dex` are the
coroutines: where they are suspended, the `scan_time` their cycle read, and the
grant in hand. Every write to the database may raise and abort the cycle. Pruning
(`Pruned`) is destructive as in the code, also for a later caller with an older
time. `ghost` holds observers: the sum of the governed results, the executions
after a kill, and whether an operator enabled MASTER while it was overdrawn.

**PaperLedger** is `detection_loop` around one portfolio: a scan is a transaction
(`rows`), the commit appends it to `db`, and a failure anywhere drops the rows and
keeps `balance`, `locks`, `tracker` and `tracked`. `broken` is a session that a
swallowed error has left unusable. `Crash` drops memory and rows at any await;
`Restart` is `rebuild_portfolio_state`. A forced exit reverses what
`_find_opening_trade` finds, the most recent opening row of the key; without such a
row it frees the lock and writes nothing. `drift` observes the credits of failed
scans. Times are those of the scan: `executed_at` is taken to be the scan's time.

**DepthFeed** is one depth collector, with connections that drop and back off, and
messages in flight; a message carries beside its content the book it was made
from, which only properties read. **Detection** is the store's quotes and books, its
event, the wait and the scan; an entry carries its age, which stops counting once
every check calls it too old. The scan is the one of the cross-exchange and
stablecoin engines (`QuoteSpreadScanner`), with the freshness and skew checks, the
recent book or else the quote. `main.py` leaves the basis and funding engines out of
the loop (806-821), and so does the module, with the store's futures and funding
rates, which only they read; the cycles of the triangular engines, which the loop
does run, are left out of the scan. **SymbolUniverse** is the discovery at start and the
subscriptions. **PaperExecution** is the triangular engine, the break-even floor,
the execution modes, the validator and what a simulated attempt may come to.

**OnchainArbitrage** is the pools, the curve, gas and the four detectors with the
atomic twin; **DexDetection** the cycle that reads venue after venue, prices chain
after chain and attempts what is new; **DexAttempt** an attempt's revalidation,
resizing and execution against the pool. **ShadowTrading** is both batches of the
shadow orchestrator with rolled-back transactions and restarts. **Reports** is the
reports whose rules are worth stating, the comparator of simulated and real trades
among them.

## The runs

A composed run (`execution`, `exposure`, `operations`, `capital`) holds machines that
share no state: the initial state says which of them runs, so the state space is
their sum and each property is checked over all of them.

| run | checks | shows |
|---|---|---|
| `execution` | one call: `TypeOK`, `NeverOversold`, `NeutralizedIsFlat`, `EveryCallEnds` | every fill, fee, partial listing and quantity two different lot steps tell apart |
| | two calls: `SlotsCountRunningCalls`, `NoBuyWhileUnreviewed`, `RefinesGuardedAttempts` | the default limit of one, the kill switch toggled at any await |
| | feed: `PublishedMirrorsVenue` | snapshots, deltas, drops and reconnections |
| | detection: `NoLostWakeup`, `NothingSleptThrough`, `EveryUpdateIsScanned` | updates at any await of the loop, entries that age while it sleeps |
| `exposure` | inventory: `EveryPurchaseIsReported`, `ReadyIsCovered`, `RefinesGuardedAttempts` | two purchases; orders that fill late, trades listed in part, three kinds of fee, unpublished minima |
| | MASTER: `AuthorityIsSolvent`, `MasterCoversPortfolio`, `PnlReconciles`, `KillStopsCex` | both loops and the operators, interleaved at every await |
| `operations` | lives: `NoSessionOverARecord`, `PausedByItsOwnFailures`, `LivesImplementGuard` | crashes at any step and inside a file write; all lives together implement a guard that never forgets |
| | order: `PricedReportIsExact` | what three clients report of an order that executes and finishes between polls |
| | universe: `UniverseIsOneReading`; reads: `ReadIsFresh`; readiness: `UnknownIsNeverSafe` | each reading may fail, and what is read changes meanwhile |
| | scan: `ExposureWithinLimits`, `NoBuyOnOneSighting` | scans, failed rows and restarts, and the advice taken from what was committed |
| `capital` | portfolio: `WealthBridge`, `GainIsRealized` | three engines over moving books, fees in either asset |
| | `FloorHeldButForFees`; `StopMeansUnexplained`; `SuppressedIsStillRefused` | a sequence of purchases; late and foreign events; prices and balances that move under the cache |
| | shadow: `TwinsNeverBothAllocated` | batches that roll back, and restarts |
| | ledger: `NewLocksAreCovered`, `TrackerCoversLocks`, `NoDuplicatePositions`, `LedgerReconciles`, `ForcedOnce` | scans that fail at any write or crash at any await, and the recovery |
| | DEX: `PersistentGapAttemptedOnce`, `TwinNeverAttempted` | venues and gas readings that fail, cycles longer than the poll interval |
| `executor_gap`, `executor_residual`, `executor_oversold`, `master_dex_kill`, `overcommit`, `shadow_credit`, `dex_double`, `dex_unprofitable_size` | one documented claim each | the claim fails (see Findings) |

What the properties leave out, so that nobody reads more into them than they say:
`NeverOversold` allows an oversale of what the sell exchange had not listed at the
confirmation, and `NeutralizedIsFlat` a remainder of what the buy exchange had not
listed. `PricedReportIsExact` supposes that the trades were
all listed when asked for. `WealthBridge` relates dollars, cost and claimed profit, and
would not see a fee charged twice in proceeds and profit alike. `LedgerReconciles` takes the
credits of failed scans (`drift`) into account and does not rule them out.

`capital` also evaluates the reference checks of `MCCapital` and
`MCDexDetection`, and `operations` those of `MCOperations`: pure operators against
what they are for, over small inputs. Among them: a walk of a book takes the
first units of the side; the common quantity is the largest multiple of both
steps; a joint decision is worth the change of wealth it makes; a book without a
cross offers no size; find_cycles finds exactly the simple cycles; a kept
triangular loop earns its buffers and at most one direction pays; the chosen
execution mode is no worse than taking; an approved opportunity is never stale;
the global capital reconciles unless an engine holds more than its equity.

### Bounds, and why they are enough

* **Calls.** Slots and review concern a call and those beside it: two calls under
  `MaxConcurrent = 1` (the default) reach every conflict; the theorems hold for any
  number. Quantities and partial listings are exercised by one call (the two of the
  other machine buy one quantity, `OneQuantity`), because calls that do not overlap
  share only the balances and the orders they left open; what those can do to
  `NeutralizedIsFlat` takes three calls, and is settled by the theorem.
* **Quantities.** Lot steps 2 and 1, quotes of 1 to 5, a balance of 4, fees 0
  to 2: below, at and above a step, a minimum and the balance, with fees that
  cost a whole step or the whole fill. The exchange of the fine step lists trades,
  the other does not, and each is the buy side of one request and the sell side of
  the other.
* **Inventory.** Prices 1 and 2, notionals of 2, 3, 4 and 6 about the cap of 5,
  minimum notionals of 3, 2 and unpublished, a fee of 1 in base, in quote or in
  several assets; the market of the coarse step lists its trades.
* **MASTER.** Capital 2 + 1, requests of 3, 2 and 1: granted in full, sized
  down, refused. Holding times 1 and 2 against a clock of 0 to 1 (0 to 2 in
  `master_dex_kill`): a lock expires while the other loop still works with the
  time before.
* **Lives.** Three attempts on two symbols of one exchange, a trip threshold of 2,
  a cooldown of 1 and a clock to 3: a pause, its end and the trip that follows at
  once. An attempt is made once, so lives are bounded by attempts and crashes.
* **Order.** A quantity of 3 in trades of 1 and 2, three fee assets, two polls: a
  poll between any two trades and after the last.
* **Readings.** Two coins, one change of listing, two observations, one of each
  reading altered once: old beside new is possible for each pair of readings.
* **Scan.** Two symbols, three exchanges, three cycles, one fault, a confirmation
  of 2: one sighting, a streak, a streak cut by a fault. The advice has
  situations in which each limit binds.
* **Portfolio.** Two exchanges, two books, pools bought above and below them,
  three moves: buy, sell above or below cost, and rebalance in every order.
* **Sequence.** Two venues, notionals 10 and 20, a floor of 25 of 60 dollars, four
  events: the fourth meets the fee of the third. The theorem has no bound.
* **Reconciliation.** Four events of two assets with movements -1 and 2: a
  mismatch that needs two missing events, and one that a foreign one would fit.
* **Candidates.** Two sites, two books, three holdings, two purses, one tick.
* **Ledger.** Capital 2, a cap of 3, two positions, opportunities of 3 and 1,
  profits of -1 and 1; an old position that outlives the hard stop of 3, with a
  duplicate that earned more than the first keeps locked (the ledger in which the
  forced exit overcommits the portfolio), beside one larger than the capital. The
  clock runs from 3 to 4: a new position (held for 1) expires, an old one becomes
  overdue. `Liveness = 0` and `ReentryDelay = 0` are the tightest case of each.
* **Shadow.** Five rows, of which two are twins and two one signal, in batches of
  two, one failure, two lives: twins split over batches by the limit, but only if
  they are of different instants (see Observations).
* **DEX.** Three venues on two chains, three cycles of which any may take twice
  the interval, offers that agree or not, failing pages and gas readings.
* **Feed.** Books of at most one bid and two asks, one published level, two
  messages in flight, three moves of the venue; ages up to each limit and beyond.
* **Detection.** Two venues, one with a book, two prices, ages up to each limit
  and one beyond: either entry may be fresh, old, absent or out of step.
* **Symmetry.** None is declared; in `execution` and `exposure` one of the two
  orders of interchangeable requests is chosen in the initial state instead.

`CHECK_DEADLOCK` is off only in `execution`, `capital` and `overcommit`, whose
machines end when their bounds are used up.

## Fairness

All of it is in `ExecutionSpec`. The executor: weak fairness of `Advance(a)`, a call's
own code after admission, since every HTTP request has a total timeout and
`_await_terminal` a deadline (live_arbitrage_executor 333), so that an admitted call is
never suspended for ever. Nothing is assumed of exchanges (`Match`) or operators.

The detection loop: weak fairness of its scan, of `WaitForUpdate` and of `PauseEnds`,
which the event loop resumes when they can run, and of `Tick`, since time passes.
`IterationEnds`, which stands for the database and HTTP awaits of an iteration, has
none: that no iteration lasts for ever is the premise of `EveryUpdateIsScanned`
(`[]<>(loop # "store")`) instead. Nothing is assumed of collectors.

The other specifications state safety only.

## What is proved

Every safety property of a passing run is a theorem of its specification, for every value of the constants that satisfies the named
assumptions of the modules: `AttemptsAssumption`, `ExecutorAssumption`,
`InventoryAssumption`, `MasterAssumption`, `LedgerAssumption`, `ResumeAssumption`,
`OrderAssumption`, `UniverseAssumption`, `ReadsAssumption`, `ReadinessAssumption`,
`ScanAssumption`, `AdviceAssumption`, `PortfolioAssumption`, `QuoteAssumption`,
`SequenceAssumption`, `SelectionAssumption`, `ReconciliationAssumption`,
`ShadowAssumption`, `DepthFeedAssumption`, `DetectionAssumption`, `DexAssumption`,
`OnchainAssumption`, `UnknownAssumption`. They ask for finite sets where a
cardinality, a sum or a best element is taken, settings of their types, positive lots
and divisors, absent figures told from numbers, a buy and a sell side that differ.

| module | theorem | statement |
|---|---|---|
| `GuardedAttemptsProofs` | `GuardedTypeCorrect`, `GuardedBoundedConcurrency`, `GuardedCriticalHoldsKill`, `GuardedNothingRunsUnreviewed` | the abstract guard's invariants |
| `ArbitrageExecutorProofs` | `TypeCorrect` | `[]TypeOK`: no quantity becomes negative |
| | `NeverOversells` | `[]NeverOversold`, for any partial listing, lot steps, fees, balances and overlapping calls |
| | `NeutralizedPositionsAreFlat` | with one slot, `[]NeutralizedIsFlat`, over any number of calls |
| | `SlotsCounted`, `ImplementsGuard` | `[]SlotsCountRunningCalls`; `Spec => RefinesGuardedAttempts` |
| | `NoBuyUnreviewed` | with one slot, `Spec => NoBuyWhileUnreviewed` |
| | `OrdersAreSentOnce`, `CallsOnlyMoveForward` | `Spec => EachOrderIsSentOnce`; every step of a call brings it nearer to its end |
| `ExposureProofs` | `PurchasesReported`, `ReadyCovered` | spending is never forgotten; what is reported as ready is bought, and held where the fee is known |
| | `PurchaseSlotsCounted`, `PurchasesImplementGuard` | the counter of the inventory's guard; `ConstitutionSpec => RefinesGuardedAttempts` |
| | `PnlIsReconciled`, `PositionsAreCovered`, `MasterIsSolvent` | MASTER's books: the result, the reservations of open positions, the solvency of the authority |
| | `KillLeavesOne` | `[]KillStopsCex`: at most the one opportunity already approved is executed after the switch |
| `PaperLedgerProofs` | `LockedKeysAreBlocked`, `PositionsNeverOverlap`, `ExitsAreForcedOnce` | `[]TrackerCoversLocks`, `[]NoDuplicatePositions`, `[]ForcedOnce` |
| | `EquityIsTheLedgers`, `LocksAreTakenCovered` | `[]LedgerReconciles`; `PaperSpec => NewLocksAreCovered`, for any ledger |
| `OperationsProofs` | `ResumeTypeCorrect`, `ResumePausedByItsOwnFailures`, `ResumeNoSessionOverARecord` | the types of the lives; a scope paused by its own failures only; no session while a kill switch record, also a torn one, is on disk: for any incidents and number of crashes |
| | `ResumeImplementsGuard` | `ResumeSpec => LivesImplementGuard`, where an unresolved intent or a torn file stands in for a lost kill switch |
| | `UniverseOneReading`, `ReadsAreFresh` | the lists of the universe served agree with each other; what an observation goes by is younger than its time to live |
| | `OrderReportsAreExact` | `[]PricedReportIsExact`, for any trades and polls |
| | `ReadinessKnowsWhatItSays` | if `StepsNest`, `[]UnknownIsNeverSafe` |
| | `PurchasesWithinLimits`, `PurchasesWereSeenTwice` | `[]ExposureWithinLimits`; with two confirmations or more, `[]NoBuyOnOneSighting` |
| `CapitalProofs` | `PortfolioWealthBridge`, `PortfolioNoCostWithoutUnits`, `PortfolioGainIsRealized` | the books of the three engines, for any prices, fees and sequence |
| | `SequenceFloorHeld`, `FloorWithinBounds` | the floor over any number of purchases; the bounds of the dynamic floor |
| | `SelectionSuppressedIsStillRefused` | the rejection cache |
| | `ReconciliationStopsUnexplained` | `[]StopMeansUnexplained`, for any events, movements and tolerance |
| | `ShadowAllocatesOneTwin` | `[]TwinsNeverBothAllocated`, for any rows, batch size, failures and lives |
| | `NoEdgeWithoutACross`, `CommonQtyIsTheLargest` | books that do not cross offer no size that earns; the common quantity is the largest that both sides trade |
| | `JointDeltaIsTheChangeOfWealth`, `SalesReconcile` | the verdict on a purchase with its arbitrage, and the accounts of a sale, are the change in worth |
| | `PurchasesPayTheirFee`, `LiquidationNeverGains` | a purchase alone is never a gain, at its own price or at the bid |
| `FeedProofs` | `FeedPublishedMirrorsVenue`, `DetectionNoLostWakeup`, `DetectionNothingSleptThrough` | the published book; the event; no spread slept through, for any venues, prices and age limits |
| | `GapsAreAttemptedOnce` | if no cycle takes more than another interval, `[]PersistentGapAttemptedOnce` |
| | `BundlesAreNeverAttempted` | `[]TwinNeverAttempted`, for any pools, prices, gas and lengths of loops |
| | `LoopsAreTheSimpleCycles`, `LargestSizeIsBracketed` | the loop search is exact; the largest size thought profitable lies between the best one and the first that loses |

**Hypotheses.** Five theorems assume more than the types, and each says so in its
statement. *One slot* is the default of the setting. `StepsNest` is the condition
under which live_readiness_gate 76-78 may take the coarser step for both: it is a
multiple of the finer one. *Durations at most 2*, that is one poll interval, is
where the program's own liveness window of two intervals ends; a slower cycle does
attempt a gap again. *Two confirmations* is what "confirmed" means; with one, the
streak's start is the sighting.

**Never oversold.** `NeverOversold` is not inductive: it speaks of what has been
filled, and an order that has been sent may fill at any later moment, after its
call has moved on. `OrdersInv` says what each call may have sent at each await
and bounds what is *asked for* instead of what is filled: a sell order asks for
at most what the buy filled; a neutralization asks for at most what the buy filled
less what the call *knows* a finished sell sold, and is sent only when no sell is still
open. What the call knows is never more than what is so (`ConfirmedTypes`), and what the
two differ by is `UnlistedSell`. That last conjunct is the reason it holds: the code polls the sell
order to a terminal status, or gives up with `UNKNOWN_SELL_LEG` and sends nothing
more. The exception, a sell whose submission raised, carries `ambiguousSell`.
`OrdersStep` proves `OrdersInv` over each action, from `TypeOK` and the two
arithmetic lemmas `RoundDownBounds` and `SafeQtyBounds`; what a call does cannot
disturb another (`OnlyOneMoves`).

**Flat.** `NeutralizedIsFlat` compares what was sold with what was bought, and the
neutralization sells what the *balance* allows: the question is who else may have
taken from it. `PositionsInv` says that while every answer of the exchanges is known
(`MarketKnown`) a call that has ended left no open order (`PositionIsHeld`), so that
the one running call is the only one that trades (`OnlyTheRunningCallTrades`, from
`CallsDoNotOverlap`) and its sell leg fills elsewhere. What a partly listed buy hides
from the call (`UnlistedBuy`) is fixed when the leg is confirmed (`UnlistedStays`) and
is all that the neutralization may leave beyond its rounding. Proving it showed which answers
must be known: the order for a *residual* may be open when its call reports
BOTH_FILLED, since its result is dropped (821). With three calls it can fill after
the second has sold that inventory, take what the third has bought, and leave the
third's neutralization short; TLC finds the sequence. `LeftTheMarketUnknown`
therefore counts a call that sent such an order; one call alone does not show it.

**The guard.** The refinement maps a call to its phase: suspended calls run, the
critical outcomes are critical. A step of the executor maps to one step of the
guard (`Begin`, `Refuse`, an end, an operator) or to a stutter. `Begin` is the
interesting one: the code compares a counter, the specification the number of
running calls, so the refinement rests on `SlotsCounted`; that an end is clean
or critical rests on `ResultOnlyAtEnd`. `NoBuyUnreviewed` is then carried over.
With two slots it is false, by the code's design: a call admitted earlier
re-checks nothing.

**Purchases.** `CallOK` relates, for each purchase, where it is suspended, what its
order did and what it reports. The bound of what is ready is the same arithmetic as
the code's: `SafeNotionalCovered` shows that `compute_max_safe_notional` never returns
more than the net quantity is worth, nor more than was asked for; `NetFilledCovered`,
that the net quantity of a report is within what the order executed and, if the report
names the asset of the fee, within what the fee left, whichever trades were listed. The
refinement is that of the executor.

**MASTER.** `PnlIsReconciled` is inductive with the types; two need an invariant more. `PositionsAreCovered`
rests on `KeyIsFree`: the tracker blocks a key for at least as long as the portfolio
locks its capital, so that a trade never replaces a live lock with a later one while
MASTER's reservation is the earlier one's. `KillLeavesOne` rests on `NoneAwaits`:
after the one opportunity that was approved before the switch, the loop stands at no
point from which it could execute another. `MasterIsSolvent` is inductive with the
types and the loops' places, but compares sums at two times: a loop sizes a grant with
the time its cycle read, and at the real clock, which is later, less is locked
(`LockedLater`, `ReserveSolvent`); a settlement that leaves MASTER enabled has checked
(`SettleSolvent`).

**The paper ledger.** `PaperInv` joins what memory and rows say of each other:
`LocksOK` (a lock runs for the holding time of its key, and that of an old position
is of a committed row without an exit), `TrackerOK` (a lock never outlasts the block
of its key), `RowsOK` (an open position blocks its key or has ended at the horizon
of the scan), `LedgerOK` and `AtRest`. `NoDuplicatePositions` and `TrackerCoversLocks`
are then consequences, and `LedgerReconciles` follows from what each step appends
(`NetOfAppend`, `NetOfBoth`). A restart is the hard step: it rebuilds the locks by a
loop over the rows, which the model writes as a recursive function. That the function
exists (`RecoveryExists`), and that the invariant holds after each row
(`RecoveryOK`, `RecoveryIsSound`), are shown by the first row that would violate it.
`NewLocksAreCovered` is a property of steps, not of states, because no state invariant
holds: a forced exit may leave more locked than there is (`overcommit`). Only a trade
and the recovery take locks (`CommitmentsCovered`), each against what is then free.

**Sums.** The provers have no induction over data: the library's theorems take a
predicate as a parameter. What a sum over a finite set is, is proved instead from a
least counterexample. `SumsOnExists` shows that the recursion over subsets that the
fold stands for has a solution, from the smallest set for which it would not have one
(`LeastSet`); the rest (`SumAdd`, `SumTake`, `SumUnion`, `SumChange`, `SumAtMost`,
`SumNat`, `SumCounts`) cites the recursion. `LeastNumber` is the same for numbers.

**Over many lives.** The refinement of `LivesImplementGuard` has no variable of the
code for its kill switch: it is engaged as long as a critical end, or a crash in
the middle of an attempt, is not reviewed. What makes the code behave as if it
had one is `ResumeInv`: for each unsettled attempt, either the switch in memory or
the incident in hand, or a record that the next start must read (an unresolved
intent, a torn file, a stored switch) stands for it, and no step clears the last
of these before the review. It needs a fact about the taxonomy, that every mark a
critical end can carry leads to a plan that stops (`PersonMeansStop`), which is
proved over the sixteen rules from the first that matches (`FirstRule`).

**Readings.** `ReadIsFresh` is not inductive: it compares with the time of the
read, and the code with the time of the observation that cached it. `ReadsInv`
adds that an entry's date never exceeds the time it was read (`IsEntry`), so an
entry that passes `Fresh` is younger than the code takes it for.

**Orders and readiness.** `OrderInv` says that a wait which has seen a terminal word is
about an order that is over: what is executed then stays so, whichever trades were
listed. `ReadinessInv` keeps for each reading that it is what is so, or nothing; since
balances move, only for as long as no transfer was made.

**Advice.** The purchases of a report are a loop over the assets, each sized against
what the earlier ones have spent; `AllPurchasesFit` takes the first asset after which
they would not fit. `PurchasesWereSeenTwice` follows the rows back to the cycles:
`SightInv` says that a row of a life was written of a sighting of that life, that a
streak starts at one (`RowIsSeen`), and that a life writes one row of a direction at
a time; a persistence of another moment than the row's is then a second sighting.

**Books.** `LedgerInv` is the bridge with types and `Covered` (no cost without
units): the sale's cost is rounded, so the pool must give up exactly what the
sale is charged (`SellFromPool`). `GainIsRealized` then follows because a purchase
marked at the bid of the exchange it was made on never gains (`PurchaseGainsNothing`).
`SequenceFloorHeld` shows that one sale meets the shortfall but for its fee
(`SaleMeetsShortfall`) and that the next purchase asks for the remainder too.

**Twins.** Two rows of one event at one instant are allocated once because both batches
are made of whole instants (`WholeInstants`): the engines commit an instant at once,
and the batch that is cut at its limit drops its last instant whole (`TrimmedIsWhole`).
A failure rolls back the rows and the deciding set together. With scans instead of
opportunities as the unit of a commit the property is empty, and the invariant says so.

**Reconciliation.** What happened is reported or found, not both; the events a stop
has looked at are those not reported, so that no set of events of the account explains
the difference (`NetOfApart`).

**Gaps.** `PersistentGapAttemptedOnce` compares cycles, and the code times. `WatchInv`
says that what was sighted in the last priced cycle was last seen at its scan time, and
is still watched while the next one is priced, if that one took no longer than the
window; pruning at the end of a cycle keeps what is still watched.

**Feed.** The invariant of `PublishedMirrorsVenue` is a chain: the local copy is
the book of the last processed message, and each message in flight leads from the
book of the one before it (`DeltaLeadsToTheNewBook`, `AppendKeepsChain`,
`TailKeepsChain`); a reconnection clears the copy and starts a new chain.

**No retry.** `EachOrderIsSentOnce`, stated with its proof, says that no step sends an order again or changes a
finished one. It rests on `OrdersInv`: where a call stands before it submits a leg, it has
sent no order for that leg (`OrdersFollowLegs`), whichever way it came. That
`CallsOnlyMoveForward` is the part of `EveryCallEnds` without fairness: the number of
steps a call may still take (`StepsLeft`) falls with each of them.

**Bundles.** An atomic bundle is worth its opportunity's profit when it does not revert,
and costs its gas when it does (`BundleIsWorthLess`), so the duplicate check, which keeps the better
row, drops it. That is simple arithmetic once every figure is a number, which is where
the work is: the pools of a page are well formed (`DiscoveredArePools`, hence the
invariant `FetchedArePools`); the paths are finite and made of hops (`PathsAreFinite`);
a walk along a path returns a number and a rate (`WalkIsTyped`); the best size of a
ladder exists and earns (`OptimalIsBest`, `FoundEarns`). The search itself is shown to
be exact (`LoopsAreTheSimpleCycles`): the paths of each length are, by the first length
for which they would not be, all the walks of that length.

**Before the trade.** What a walk of a book returns has whatever its first level finds
and each further one keeps (`WalkKeeps`). Kept are "no more coins than the best price
gives" on one side and "no fewer" on the other (`WalkAgainstPrice`), for any number of
levels. `NoEdgeWithoutACross` is their quotient, and needs the quantities to be exact,
which `Unit` sees to; the division at the end only rounds down. The verdicts on
purchases are identities in which the rounded cost of what is sold cancels, since the
pool gives up what the sale is charged (`SellFromPool`).

**Folds and iterations.** These proofs need recursions other than sums to have a solution
of a type: `IterationExists`, `FoldsOnExists` and `FoldsOnType` of `Sums`, again from a
least counterexample.

**Only model-checked.** Liveness (`EveryCallEnds`, `EveryUpdateIsScanned`), which the
prover's backends do not cover under fairness. Those reference checks of pure operators
that no theorem generalizes (of the books: that a walk takes the first units, that
quotes grow with the request; the execution modes, the reports, the universe of
symbols), which compare two definitions over bounded inputs.

## Findings and observations

Each finding is a run that TLC must find violated.

* `executor_gap`: after the buy filled, a balance, lot-step or book read that
  raises ends the call without a result and with the kill switch clear, where the
  docstring promises a result for every attempt (live_arbitrage_executor 41-43).
* `executor_residual`: the result of the residual's neutralization is ignored
  (821); BOTH_FILLED is reported with a residual "never left unhedged" still held.
* `executor_oversold`: a sell whose trades are only partly listed at its confirmation
  leaves a residual (811) that has been sold already and is sold again, where the
  comment calls any residual "a leftover naked position" (805-810).
* `overcommit`: a forced exit frees the lock of the position the recovery rebuilt, the
  earliest of its key, and takes back the profit of the most recent one (time_stop
  75-81); the portfolio is then committed beyond its balance, where "available_capital
  must never go negative" (portfolios 60-61).
* `master_dex_kill`: with the kill switch engaged the DEX loop skips only the
  MASTER gate and executes the full request (main 489).
* `shadow_credit`: a batch that raises after it decided is rolled back and decided
  again, but the pool in memory was credited already (shadow_orchestrator 131),
  where "each opportunity is evaluated exactly once" (reconstruct 160).
* `dex_double`: a gap between two exchanges is found as a cross-DEX opportunity
  and as a loop of two swaps; the duplicate check compares only atomic twins (main
  415-418), and both are attempted.
* `dex_unprofitable_size`: when no size earns, the attempt falls back to the
  detection's percentage on what capital is left, and NOT_PROFITABLE_AT_SIZE
  cannot come about (dex_paper_trader 270-282).

Seen while modelling, not runs of their own:

* **Executor.** When submitting the sell raises, the position is sold again at
  once although the first order may have arrived; the result says
  BUY_ONLY_NEUTRALIZED, "sell leg failed" (122). A residual's order that fills after
  its call has returned can take from what a later call neutralizes (see *Flat*).
* **Inventory.** An exchange without a minimum notional makes the comparison after
  the fill raise (`PostFillRaises`), and the purchase has no result (208);
  `net_filled_qty` is the gross quantity while no trade is listed or when the fee is in
  several assets: of such a fee the report says nothing (`feeAsset` is `none`), and
  `ReadyIsCovered` then bounds what is ready by the gross quantity only.
* **Clients.** Bybit's docstring tells callers to fall back to the order history;
  `_get_status` does not. An OKX acknowledgement with an error code does not raise.
  `okx_live_trade_client` 14-16 says that no file imports it; the executor does.
* **Operations.** The breaker's state is memory only. SCRIPT ERROR and REPEATED
  EXECUTION ERROR come after lower rules in the table although "the safer
  classification wins" (incident_taxonomy 18-20). After an UNKNOWN ORDER STATE that
  was recovered the guard stays latched until a restart. The kill switch is to be
  checked first (persistent_kill_switch 10-12); preflight checks it last.
* **Universe and readings.** A total outage publishes an empty universe; unreadable
  rows shrink the discovered universe although malformed answers are to count as
  unreachable (symbol_discovery 53-57); an asset confirmed on two exchanges is
  subscribed on the third. A `None` fee or rule set is cached for an hour. An empty
  visible depth has no slippage, so a quote without depth can be executable.
* **Readiness.** OKX's keys are never read, though the best candidate may be on
  OKX; the proposed size may exceed the cap by rounding up to a step.
* **Capital.** The twin's reserve check ignores the buy's fee (digital_twin 163
  and 180), and so does INSUFFICIENT_BALANCE; REBALANCE_FIRST leaves the floor
  short by the fee; the replay through the gate never asks for dollars.
* **MASTER.** `dex_cross` is sized again after the grant and may exceed it
  (dex_paper_trader 267); a loss booked while the whole pool is reserved makes
  the available capital negative and rolls MASTER back in ordinary operation,
  which `AuthorityIsSolvent` allows since the same step rolls back. A restart
  makes the allocator new at full capital while the portfolio keeps its positions.
* **Ledger.** The ledger check runs only after a commit (main 718), so scans that
  keep failing are not checked. A swallowed flush error leaves the scan's shared
  session unusable (main 599), so a telemetry failure may roll a scan back. The
  tracker keeps the id of a rolled-back row, and each further trade of that signal
  fails after its credit. Recovery skips *every* position of a key that was ever
  forced out (`LegacyKeys`). A forced exit frees the capital and leaves the key
  blocked until its nominal end. The kill switch is memory.
* **Detection.** A Bybit book with an empty side is not republished. Opportunities
  priced at the scan are acted upon after the awaits of the same iteration (main 527).
* **Paper execution.** What a thin middle hop cannot spend counts as lost, so a
  loop that pays for less capital is missed (triangular 104-139;
  `AThinHopHidesTheLoop`). Revalidation compares the *net* spread with the floor of
  the *gross* one (latency_engine 110), so a profitable trade may be gone without
  a move (`GoneWithoutAMove`). An opportunity whose best mode is a maker's may be
  missed, and is credited the taker's profit otherwise.
* **DEX.** Flash loans need two venues on one EVM chain, of which the configured
  venues have none; an attempt is charged one swap of gas, a detection two.
* **Shadow.** A restart replays the open positions and not the reservations of
  the batch's instant; a batch of one instant larger than BATCH_SIZE would split
  twins.
* **Scanner and advice.** A streak survives cycles in which its direction was not
  observed; a regime is anchored to the latest row, however old; holdings without
  a price count as nothing, so exposure limits can be exceeded in truth; one row
  that cannot be flushed loses the cycle's transaction but not its trackers.
* **Reports.** The funnel's stages are said to be subsets of one another
  (execution_funnel 3-4), but *rejected* and *executable* are complements and an
  executed opportunity becomes rejected when it is observed again
  (`ExecutedThenRejected`). `global_capital` realizes the profit of a DEX trade in
  flight (`ProfitBeforeItsTime`). The comparator says it follows the precedence of
  `rejection_classifier` and does not.

## Not modelled

* Cancellation of the executors' tasks; a crash of their process is SafeResume,
  at the granularity of an attempt and of each write of its two files.
* The orchestrator script that calls the executors: it is not in the repository;
  its steps in SafeResume and CandidateSelection follow the docstrings.
* `assert_execution_allowed` and the single-exchange `/live/execute` endpoint.
* In the executors, prices and depths (verdicts there; computed in MarketQuotes).
* Rounding to cents (`simulation/money.py`), the recovery's 120-day lookback, and
  the randomness of slippage and failures, which is a choice among outcomes.
* The five portfolios are one in PaperLedger: they share the scan that fails and
  nothing else.
* The restart of the MASTER allocator, which its docstring accepts.
* The basis and funding engines, which main 806-821 leaves out of the loop, with the
  futures and funding rates they read; the triangular engines' cycles within the scan
  (their arithmetic is in PaperExecution).
* Top-of-book collectors and REST pollers beyond their calls, the volatility
  history, signing and timestamps of requests, the parsing of a pool's name.
* Reports that group and print rows, `capital_velocity`, scores that only order a
  report, ORM mappings, API views and the dashboard: reads without state and
  without a rule that is not already one of the modules'.

## Plan

Done: the abstract guard and its three refinements; the inventory, the allocator,
the ledger, the operations layer, the economic ledger and its gate, reserves,
candidates, reconciliation, feeds and detection, the clients and observers, the
scanner and its advice, the on-chain loop, the shadow orchestrator, the reports
with rules of their own; proofs of all safety properties of the runs, and of what
the quotes, the verdicts and the search for loops compute.

Next, in order of value:

1. A composition of `MasterAuthority` with `DexAttempt`, so that the size used
   after a grant is computed in the run that grants.
2. The replay engine (`simulation/replay_engine.py`), whose engines read the real
   clock while its events carry their own.
