--------------------------- MODULE MasterAuthority ---------------------------
(***************************************************************************)
(* Who may draw on the simulated capital: the MASTER allocator of          *)
(* app/orchestration/global_allocator.py, its rollback switch control.py   *)
(* and the risk kill switch, over the two loops of main.py that share      *)
(* them, detection_loop (CEX, the "5K" portfolio) and dex_detection_loop   *)
(* (the DEX capital pool of app/onchain/dex_paper_trader.py).              *)
(*                                                                         *)
(* Both loops run on one event loop: an action is the code between two     *)
(* awaits.  A loop keeps the scan_time it read when its cycle began, while *)
(* the clock, the other loop and the operators move on.  Amounts and times *)
(* are natural numbers.                                                    *)
(***************************************************************************)
EXTENDS Integers, FiniteSets, Functions

CONSTANTS
  CexIds, DexIds,      \* opportunities, each with its id
  Cutover,             \* the CEX ones MASTER governs (cross_exchange)
  Cross,               \* the DEX ones sized again at the attempt (dex_cross)
  Capital,             \* capital_usd of each opportunity
  PortfolioTotal, DexTotal,    \* the "5K" portfolio and the DEX pool
  PerTradeCap,         \* max_capital_for_portfolio
  CexHolding, DexHolding,      \* holding_period_seconds, nominal
  ReentryDelay,        \* min_reentry_delay_seconds
  Inclusions,          \* bound: chain inclusion latencies
  CexResults,          \* bound: net profits a simulated trade may book
  DexProfits, Gas,     \* bound: projected profits; what a failed attempt costs
  Operations,          \* bound: what operators and the status page do in an instance
  MaxTime              \* bound of the clock

Ids   == CexIds \cup DexIds
Total == PortfolioTotal + DexTotal     \* GLOBAL_CAPITAL_TOTAL_USD

ASSUME MasterAssumption ==
  /\ IsFiniteSet(Ids) /\ CexIds \cap DexIds = {}
  /\ Cutover \subseteq CexIds /\ Cross \subseteq DexIds
  /\ Capital \in [Ids -> Nat \ {0}]
  /\ {PortfolioTotal, DexTotal, PerTradeCap, CexHolding, DexHolding, Gas} \subseteq Nat \ {0}
  /\ Inclusions \subseteq Nat \ {0} /\ DexProfits \subseteq Nat \ {0}
  /\ CexResults \subseteq Int
  /\ ReentryDelay \in Nat
  /\ Operations \subseteq {"kill", "rollback", "status"}

VARIABLES
  now,                 \* time.time()
  enabled, kill,       \* master_control, risk_engine
  alloc,               \* global_allocator
  pool,                \* dex_capital_pool
  portfolio,           \* the "5K" VirtualPortfolio: balance and locks
  tracker,             \* position_tracker: until when each CEX position blocks its key
  seen,                \* dex_opportunity_tracker: already attempted
  cex, dex,            \* the two loops
  ghost                \* observers, read by properties only

vars == <<now, enabled, kill, alloc, pool, portfolio, tracker, seen, cex, dex, ghost>>

\* A reservation of amount 0 is none.
NoReservation == [amount |-> 0, release |-> 0]

Min2(x, y) == IF x <= y THEN x ELSE y
Max2(x, y) == IF x >= y THEN x ELSE y

\* _prune_expired: for good, also for a later caller with an older time
Pruned(res, t) ==
  [i \in DOMAIN res |->
     IF res[i].release <= t THEN [res[i] EXCEPT !.amount = 0, !.release = 0] ELSE res[i]]
Locked(res, t) == LET left == Pruned(res, t) IN SumFunction([i \in DOMAIN res |-> left[i].amount])

AllocAvailable(t) == Total + alloc.pnl - Locked(alloc.res, t)
PoolAvailable(t)  == DexTotal + pool.pnl - Locked(pool.res, t)
PortfolioAvailable(t) == Max2(0, portfolio.balance - Locked(portfolio.res, t))

\* pc: where the coroutine is suspended.  grant: amount granted, 0 when MASTER did
\* not gate this attempt.  used, profit: what the executor reported.  held: the kill
\* switch was engaged when the DEX cycle began and has been since (observer).
\* Asleep: the coroutine's locals are gone.
Asleep(i) == [pc |-> "sleeping", scan |-> 0, id |-> i, grant |-> 0,
              used |-> 0, profit |-> 0, held |-> FALSE]
CexAsleep == Asleep(CHOOSE i \in CexIds : TRUE)
DexAsleep == Asleep(CHOOSE i \in DexIds : TRUE)

\* between two opportunities of a cycle
Between(loop, asleep) ==
  [asleep EXCEPT !.pc = "scanning", !.scan = loop.scan, !.held = loop.held]

\* observer: a result under MASTER's authority that is not settled yet
Pending(loop) == IF loop.pc = "saving" /\ loop.grant > 0 THEN loop.profit ELSE 0

-----------------------------------------------------------------------------
(* Granting and settling                                                   *)

Gated == enabled /\ ~kill

\* try_reserve_for_opportunity sizes down to what is left
Grantable(id, t) == Min2(Capital[id], AllocAvailable(t))

Reserve(id, t, holding) ==
  alloc' = [alloc EXCEPT !.res =
              [Pruned(alloc.res, t) EXCEPT
                 ![id] = [amount |-> Grantable(id, t), release |-> t + holding]]]

Shrunk(res, id, used) ==
  IF used < res[id].amount THEN [res EXCEPT ![id].amount = Max2(used, 0)] ELSE res

\* mutant: only a profit is resolved
SettleProfitOnly(l) ==
  LET res == Pruned(Shrunk(alloc.res, l.id, l.used), l.scan)
      pnl == alloc.pnl + Max2(0, l.profit)
  IN  /\ alloc' = [pnl |-> pnl, res |-> res]
      /\ enabled' = (enabled /\ Total + pnl - Locked(res, l.scan) >= 0)

\* mutant: the invariant is not checked after a settlement
SettleUnchecked(l) ==
  /\ alloc' = [pnl |-> alloc.pnl + l.profit, res |-> Shrunk(alloc.res, l.id, l.used)]
  /\ UNCHANGED enabled

\* adjust_reservation, resolve_pnl, then, only while MASTER is enabled,
\* check_invariant and rollback
Settle(l) ==
  LET shrunk == Shrunk(alloc.res, l.id, l.used)
      res    == IF enabled THEN Pruned(shrunk, l.scan) ELSE shrunk
      pnl    == alloc.pnl + l.profit
  IN  /\ alloc' = [pnl |-> pnl, res |-> res]
      /\ enabled' = (enabled /\ Total + pnl - Locked(res, l.scan) >= 0)

-----------------------------------------------------------------------------
(* detection_loop                                                          *)

CexScan ==
  /\ cex.pc = "sleeping"
  /\ cex' = [cex EXCEPT !.pc = "scanning", !.scan = now]
  /\ UNCHANGED <<now, enabled, kill, alloc, pool, portfolio, tracker, seen, dex, ghost>>

\* mutant: the kill switch is not looked at before the position is opened
CexApproveKilled(id) ==
  /\ cex.pc = "scanning"
  /\ tracker[id] <= cex.scan
  /\ tracker' = [tracker EXCEPT ![id] = cex.scan + CexHolding + ReentryDelay]
  /\ cex' = [cex EXCEPT !.pc = "observing", !.id = id]
  /\ UNCHANGED <<now, enabled, kill, alloc, pool, portfolio, seen, dex, ghost>>

\* validate, the kill switch, open_position; then the observers are awaited
CexApprove(id) ==
  /\ cex.pc = "scanning"
  /\ tracker[id] <= cex.scan
  /\ ~kill
  /\ tracker' = [tracker EXCEPT ![id] = cex.scan + CexHolding + ReentryDelay]
  /\ cex' = [cex EXCEPT !.pc = "observing", !.id = id]
  /\ UNCHANGED <<now, enabled, kill, alloc, pool, portfolio, seen, dex, ghost>>

CexGated == Gated /\ cex.id \in Cutover

CexRejected ==
  /\ cex.pc = "observing"
  /\ CexGated
  /\ Grantable(cex.id, cex.scan) <= 0
  /\ alloc' = [alloc EXCEPT !.res = Pruned(@, cex.scan)]
  /\ cex' = Between(cex, CexAsleep)
  /\ UNCHANGED <<now, enabled, kill, pool, portfolio, tracker, seen, dex, ghost>>

\* simulate is given the grant, or the opportunity as it was detected
CexAsked == IF CexGated THEN Grantable(cex.id, cex.scan) ELSE Capital[cex.id]

\* mutant: the grant's cap is not handed to the executor
CexCapitalUncapped == Min2(Capital[cex.id], Min2(PortfolioAvailable(cex.scan), PerTradeCap))

CexCapital == Min2(CexAsked, Min2(PortfolioAvailable(cex.scan), PerTradeCap))

CexSimulate(used, profit) ==
  /\ cex.pc = "observing"
  /\ CexGated => Grantable(cex.id, cex.scan) > 0
  /\ IF CexGated THEN Reserve(cex.id, cex.scan, CexHolding) ELSE UNCHANGED alloc
  /\ cex' = [cex EXCEPT !.pc = "saving", !.used = used, !.profit = profit,
                        !.grant = IF CexGated THEN Grantable(cex.id, cex.scan) ELSE 0]
  /\ ghost' = [ghost EXCEPT !.governed = @ + (IF CexGated THEN profit ELSE 0),
                            !.lateCex  = @ + (IF kill THEN 1 ELSE 0)]
  /\ UNCHANGED <<now, enabled, kill, pool, tracker, seen, dex>>

\* lock_capital, the backstop under simulate, is never refused here: used is
\* within what is available, and its lock and the balance move by the same profit.

\* missed, edge disappeared, stale, or no capital left in the portfolio
CexNotTraded == CexSimulate(0, 0) /\ UNCHANGED portfolio

CexTrades(profit) ==
  /\ CexCapital > 0
  /\ CexSimulate(CexCapital, profit)
  /\ portfolio' =
       [balance |-> portfolio.balance + profit,
        res |-> [Pruned(portfolio.res, cex.scan) EXCEPT
                   ![cex.id] = [amount |-> CexCapital + profit,
                                release |-> cex.scan + CexHolding,
                                capital |-> CexCapital, governed |-> CexGated]]]

CexSaved ==
  /\ cex.pc = "saving"
  /\ IF cex.grant > 0 THEN Settle(cex) ELSE UNCHANGED <<alloc, enabled>>
  /\ cex' = Between(cex, CexAsleep)
  /\ UNCHANGED <<now, kill, pool, portfolio, tracker, seen, dex, ghost>>

\* a write raised: the rest of the scan is dropped
CexAborts ==
  /\ cex.pc \in {"scanning", "observing", "saving"}
  /\ cex' = CexAsleep
  /\ ghost' = [ghost EXCEPT !.governed = @ - Pending(cex)]
  /\ UNCHANGED <<now, enabled, kill, alloc, pool, portfolio, tracker, seen, dex>>

CexScanEnds ==
  /\ cex.pc = "scanning"
  /\ cex' = CexAsleep
  /\ UNCHANGED <<now, enabled, kill, alloc, pool, portfolio, tracker, seen, dex, ghost>>

-----------------------------------------------------------------------------
(* dex_detection_loop                                                      *)

DexCycle ==
  /\ dex.pc = "sleeping"
  /\ dex' = [dex EXCEPT !.pc = "scanning", !.scan = now, !.held = kill]
  /\ UNCHANGED <<now, enabled, kill, alloc, pool, portfolio, tracker, seen, cex, ghost>>

DexNew(id) == dex.pc = "scanning" /\ id \notin seen /\ seen' = seen \cup {id}

DexRejected(id) ==
  /\ DexNew(id)
  /\ Gated
  /\ Grantable(id, dex.scan) <= 0
  /\ alloc' = [alloc EXCEPT !.res = Pruned(@, dex.scan)]
  /\ UNCHANGED <<now, enabled, kill, pool, portfolio, tracker, cex, dex, ghost>>

DexAsked(id) == IF Gated THEN Grantable(id, dex.scan) ELSE Capital[id]

DexAttempted(id, used, profit) ==
  /\ DexNew(id)
  /\ Gated => Grantable(id, dex.scan) > 0
  /\ IF Gated THEN Reserve(id, dex.scan, DexHolding) ELSE UNCHANGED alloc
  /\ dex' = [dex EXCEPT !.pc = "saving", !.id = id, !.used = used, !.profit = profit,
                        !.grant = IF Gated THEN Grantable(id, dex.scan) ELSE 0]
  /\ ghost' = [ghost EXCEPT !.governed = @ + (IF Gated THEN profit ELSE 0)]
  /\ UNCHANGED <<now, enabled, kill, portfolio, tracker, cex>>

\* edge disappeared, no capital, not profitable at any size
DexNotAttempted(id) == DexAttempted(id, 0, 0) /\ UNCHANGED pool

\* resize_at_attempt sizes a dex_cross from the pool, not from the grant
DexCapitals(id) ==
  LET available == PoolAvailable(dex.scan)
  IN  {Min2(DexAsked(id), available)} \cup (IF id \in Cross THEN 1..available ELSE {})

\* execution_complete is counted from the detection, after the cycle began
DexExecutes(id, used, profit) ==
  /\ used > 0
  /\ DexAttempted(id, used, profit)
  /\ \E detected \in dex.scan..now, inclusion \in Inclusions :
       pool' = [pnl |-> pool.pnl + profit,
                res |-> [Pruned(pool.res, dex.scan) EXCEPT
                           ![id] = [amount |-> used, release |-> detected + inclusion]]]

DexFilled(id) == \E used \in DexCapitals(id), p \in DexProfits : DexExecutes(id, used, p)
DexFailed(id) == \E used \in DexCapitals(id) : DexExecutes(id, used, -Gas)

DexSaved ==
  /\ dex.pc = "saving"
  /\ IF dex.grant > 0 THEN Settle(dex) ELSE UNCHANGED <<alloc, enabled>>
  /\ dex' = Between(dex, DexAsleep)
  /\ UNCHANGED <<now, kill, pool, portfolio, tracker, seen, cex, ghost>>

DexAborts ==
  /\ dex.pc \in {"scanning", "saving"}
  /\ dex' = DexAsleep
  /\ ghost' = [ghost EXCEPT !.governed = @ - Pending(dex)]
  /\ UNCHANGED <<now, enabled, kill, alloc, pool, portfolio, tracker, seen, cex>>

DexCycleEnds ==
  /\ dex.pc = "scanning"
  /\ dex' = DexAsleep
  /\ UNCHANGED <<now, enabled, kill, alloc, pool, portfolio, tracker, seen, cex, ghost>>

-----------------------------------------------------------------------------
(* Operators, reads and time                                               *)

Unmoved == UNCHANGED <<now, pool, portfolio, tracker, seen>>

OperatorEngages ==
  /\ ~kill
  /\ kill' = TRUE
  /\ ghost' = [ghost EXCEPT !.lateCex = 0]
  /\ Unmoved /\ UNCHANGED <<enabled, alloc, cex, dex>>

OperatorDisengages ==
  /\ kill
  /\ kill' = FALSE
  /\ dex' = [dex EXCEPT !.held = FALSE]
  /\ ghost' = [ghost EXCEPT !.lateCex = 0]
  /\ Unmoved /\ UNCHANGED <<enabled, alloc, cex>>

OperatorRollsBack ==
  /\ enabled
  /\ enabled' = FALSE
  /\ Unmoved /\ UNCHANGED <<kill, alloc, cex, dex, ghost>>

\* /master/enable looks at nothing: it may restore an overdrawn authority
OperatorEnables ==
  /\ ~enabled
  /\ enabled' = TRUE
  /\ ghost' = [ghost EXCEPT !.excused = AllocAvailable(now) < 0]
  /\ Unmoved /\ UNCHANGED <<kill, alloc, cex, dex>>

\* /master/status prunes at the time of the request
StatusRead ==
  /\ alloc' = [alloc EXCEPT !.res = Pruned(@, now)]
  /\ Unmoved /\ UNCHANGED <<enabled, kill, cex, dex, ghost>>

Tick ==
  /\ now < MaxTime
  /\ now' = now + 1
  /\ UNCHANGED <<enabled, kill, alloc, pool, portfolio, tracker, seen, cex, dex, ghost>>

-----------------------------------------------------------------------------

NoLock == [amount |-> 0, release |-> 0, capital |-> 0, governed |-> FALSE]

Init ==
  /\ now = 0
  /\ enabled = TRUE
  /\ kill = FALSE
  /\ alloc = [pnl |-> 0, res |-> [i \in Ids |-> NoReservation]]
  /\ pool = [pnl |-> 0, res |-> [i \in DexIds |-> NoReservation]]
  /\ portfolio = [balance |-> PortfolioTotal, res |-> [i \in CexIds |-> NoLock]]
  /\ tracker = [i \in CexIds |-> 0]
  /\ seen = {}
  /\ cex = CexAsleep
  /\ dex = DexAsleep
  /\ ghost = [governed |-> 0, lateCex |-> 0, excused |-> FALSE]

CexNext ==
  \/ CexScan \/ CexScanEnds \/ CexAborts
  \/ \E id \in CexIds : CexApprove(id)
  \/ CexRejected \/ CexNotTraded
  \/ \E p \in CexResults : CexTrades(p)
  \/ CexSaved

DexNext ==
  \/ DexCycle \/ DexCycleEnds \/ DexAborts
  \/ \E id \in DexIds : \/ DexRejected(id) \/ DexNotAttempted(id)
                        \/ DexFilled(id) \/ DexFailed(id)
  \/ DexSaved

OperatorNext ==
  \/ "kill" \in Operations /\ (OperatorEngages \/ OperatorDisengages)
  \/ "rollback" \in Operations /\ (OperatorRollsBack \/ OperatorEnables)
  \/ "status" \in Operations /\ StatusRead

Next == CexNext \/ DexNext \/ OperatorNext \/ Tick

Spec == Init /\ [][Next]_vars

-----------------------------------------------------------------------------
(* Properties                                                              *)

(* "Any violation triggers an immediate rollback": at every instant, seen  *)
(* with the real clock and whichever loop is suspended where, a MASTER     *)
(* that is enabled has not granted more than the capital and its results   *)
(* leave, unless an operator enabled it while it was overdrawn.            *)
AuthorityIsSolvent ==
  enabled => AllocAvailable(now) >= 0 \/ ghost.excused

(* MASTER's books cover the executor's: what an open position of the "5K"  *)
(* portfolio was opened with under MASTER's authority stays reserved in    *)
(* the allocator as long as the portfolio keeps it locked, also when the   *)
(* scan that opened it was aborted.                                        *)
MasterCoversPortfolio ==
  \A id \in CexIds :
    LET lock == portfolio.res[id] IN
    lock.governed /\ lock.amount > 0 /\ lock.release > now =>
      /\ alloc.res[id].amount >= lock.capital
      /\ alloc.res[id].release >= lock.release

(* No result under MASTER's authority is lost or counted twice, profit or  *)
(* loss: the allocator's realized P&L is that of the executions it         *)
(* granted, but for those still being saved and those whose cycle was      *)
(* aborted before it settled them.                                         *)
PnlReconciles == alloc.pnl + Pending(cex) + Pending(dex) = ghost.governed

(* "stops all new paper executions immediately": once the kill switch is   *)
(* engaged at most one opportunity of the CEX loop still executes, the one *)
(* it had approved and was awaiting the observers for.                     *)
KillStopsCex == ghost.lateCex <= 1

-----------------------------------------------------------------------------
(* What the documentation claims and the code does not do                  *)

(* "it takes effect on the very next scan": in a cycle that began after    *)
(* the kill switch engaged, nothing is executed against the DEX pool.      *)
KillStopsDex == [][dex.held => UNCHANGED pool]_vars
=============================================================================
