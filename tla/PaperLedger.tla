----------------------------- MODULE PaperLedger -----------------------------
(***************************************************************************)
(* A paper portfolio and its trade ledger: detection_loop of main.py with  *)
(* the validator, the opportunity and position trackers, PaperTrader, the  *)
(* time stop, the ledger check and, after a crash, the recovery of state   *)
(* of app/simulation/state_recovery.py.                                    *)
(*                                                                         *)
(* A scan is one database transaction; the portfolio's balance and locks,  *)
(* the trackers and the kill switch are memory.  A trade is credited in    *)
(* memory before its row is flushed, so a scan that fails rolls its rows   *)
(* back and keeps its credits; a restart does the opposite.  One portfolio *)
(* stands for the five: they share nothing but the scan that fails.        *)
(* MASTER's grants are in MasterAuthority.                                 *)
(***************************************************************************)
EXTENDS Integers, Sequences, FiniteSets, Functions

CONSTANTS
  NoOpp,           \* between two opportunities of a scan
  Opps,            \* opportunities, one per dedup key of the OpportunityTracker
  PositionKeys,            \* position keys (strategy, exchange of the first leg, symbol)
  LegacyKeys,      \* keys of positions older than the holding-time limit; no engine detects them
  Position,        \* the position key of each opportunity
  Holding,         \* holding_period_seconds of each key
  Capital,         \* capital_usd of each opportunity
  Initial,         \* initial_capital_usd
  PerTradeCap, MaxPositions,   \* RiskLimits
  Nets,            \* bound: net profits a simulated trade may book
  UnwindCost,      \* EMERGENCY_UNWIND_COST_PCT of a position's capital
  ReentryDelay,    \* DEFAULT_MIN_REENTRY_DELAY_SECONDS
  HardStop,        \* HARD_STOP_HOLDING_SECONDS
  Liveness,        \* DEFAULT_LIVENESS_SECONDS
  CheckInterval,   \* LEDGER_CHECK_INTERVAL_SECONDS
  Ledgers,         \* the ledgers a deployment may start from
  Start, MaxTime   \* bounds of the clock

\* A row of simulated_trades with the opportunity it refers to, for the statuses
\* in EXECUTED_STATUSES; the other statuses have no effect on any sum.
TradeRow == [key : PositionKeys, capital : Nat, net : Int, at : Nat, kind : {"open", "exit"}]

ASSUME LedgerAssumption ==
  /\ NoOpp \notin Opps /\ LegacyKeys \subseteq PositionKeys /\ IsFiniteSet(PositionKeys)
  /\ Position \in [Opps -> PositionKeys \ LegacyKeys]
  /\ Holding \in [PositionKeys -> Nat \ {0}]
  /\ \A k \in PositionKeys \ LegacyKeys : Holding[k] <= HardStop   \* validate: HOLDING_TOO_LONG
  /\ Capital \in [Opps -> Nat \ {0}]
  /\ {Initial, PerTradeCap, MaxPositions, CheckInterval} \subseteq Nat \ {0}
  /\ {UnwindCost, ReentryDelay, HardStop, Liveness, Start, MaxTime} \subseteq Nat
  /\ Nets \subseteq Int
  /\ Ledgers \subseteq Seq(TradeRow)
  /\ \A l \in Ledgers : \A i \in DOMAIN l :
       /\ l[i].key \in LegacyKeys /\ l[i].kind = "open" /\ l[i].at <= Start
       /\ l[i].capital + l[i].net > 0           \* as Credit: no loss eats the whole capital

VARIABLES
  now,
  db,          \* the committed rows, in the order of executed_at
  \* the scan
  pc, scan,    \* scan: its scan_time
  todo, opp,   \* opportunities left, the one being processed
  rows,        \* what its transaction has flushed
  broken,      \* a swallowed error left the session unusable
  \* memory
  balance, locks, tracker,
  tracked,     \* opportunity_tracker: last sighting, and where the row it refers to is
  kill, lastCheck,
  drift        \* observer: credits of this process whose rows were rolled back

scanVars   == <<pc, scan, todo, opp, rows, broken>>
memoryVars == <<balance, locks, tracker, tracked, kill, lastCheck, drift>>
paperVars == <<now, db, scanVars, memoryVars>>

NoLock   == [amount |-> 0, expiry |-> 0, opened |-> 0]
NoTrack  == [seen |-> 0, row |-> "none"]

Min2(x, y) == IF x <= y THEN x ELSE y
Max2(x, y) == IF x >= y THEN x ELSE y
NetTotal(ledger) == SumFunction([i \in DOMAIN ledger |-> ledger[i].net])

-----------------------------------------------------------------------------
(* VirtualPortfolio and OpenPositionTracker                                *)

PrunedLocks(l, t) == [k \in PositionKeys |-> IF l[k].expiry <= t THEN NoLock ELSE l[k]]
LockedTotal(l) == SumFunction([k \in PositionKeys |-> l[k].amount])
OpenKeys(l) == {k \in PositionKeys : l[k].expiry > 0}
FreeCapital(t) == Max2(0, balance - LockedTotal(PrunedLocks(locks, t)))

\* lock_capital: what the key held before is free for it
Fits(l, equity, key, amount) == amount <= equity - (LockedTotal(l) - l[key].amount)

Occupied(key, t) == tracker[key] > t

-----------------------------------------------------------------------------
(* One scan: validate, track, record, trade                                *)

ScanBegins ==
  /\ pc = "sleeping"
  /\ pc' = "scanning"
  /\ scan' = now
  /\ \E detected \in SUBSET Opps : todo' = detected
  /\ UNCHANGED <<now, db, opp, rows, broken, memoryVars>>

\* An error nobody swallows: the session rolls its rows back, memory stays.
SessionLost ==
  /\ pc' = "sleeping" /\ scan' = 0 /\ todo' = {} /\ opp' = NoOpp
  /\ rows' = <<>> /\ broken' = FALSE

\* the tracker does not learn that the row it refers to was rolled back
Lost(t) == [o \in Opps |-> IF t[o].row = "pending" THEN [t[o] EXCEPT !.row = "lost"] ELSE t[o]]

\* any write may raise; after an error that was swallowed every one does
ScanFails ==
  /\ pc \in {"scanning", "deciding", "trading"}
  /\ SessionLost
  /\ tracked' = Lost(tracked)
  /\ drift' = drift + NetTotal(rows)
  /\ UNCHANGED <<now, db, balance, locks, tracker, kill, lastCheck>>

\* observe: a continuation keeps the id of the row, whatever became of it; one
\* not seen for longer than the liveness window gets a new row (expire_stale only
\* drops such entries earlier)
Observed(o) ==
  IF tracked[o].row # "none" /\ scan - tracked[o].seen <= Liveness
  THEN [tracked EXCEPT ![o].seen = scan]
  ELSE [tracked EXCEPT ![o] = [seen |-> scan, row |-> "pending"]]

\* the opportunity's row is written, or raises after the tracker was updated
ObserveFails(o) ==
  /\ pc = "scanning" /\ o \in todo
  /\ SessionLost
  /\ tracked' = Lost(Observed(o))
  /\ drift' = drift + NetTotal(rows)
  /\ UNCHANGED <<now, db, balance, locks, tracker, kill, lastCheck>>

\* validate, observe, save_opportunity or update_opportunity_tracking, then the
\* telemetry whose error is swallowed.  worth: fresh data and enough edge.
Observe(o, worth, telemetryFails) ==
  /\ pc = "scanning" /\ o \in todo /\ ~broken
  /\ todo' = todo \ {o}
  /\ IF worth /\ ~Occupied(Position[o], scan)
     THEN pc' = "deciding" /\ opp' = o
     ELSE UNCHANGED <<pc, opp>>
  /\ tracked' = Observed(o)
  /\ broken' = telemetryFails
  /\ UNCHANGED <<now, db, scan, rows, balance, locks, tracker, kill, lastCheck, drift>>

Halted ==
  /\ pc = "deciding" /\ kill
  /\ pc' = "scanning" /\ opp' = NoOpp
  /\ UNCHANGED <<now, db, scan, todo, rows, broken, memoryVars>>

\* open_position, before it is known whether anything is traded; then the observers
\* write through the same session, their errors swallowed too
Decide(observerFails) ==
  LET key == Position[opp] IN
  /\ pc = "deciding" /\ ~kill
  /\ tracker' = [tracker EXCEPT ![key] = scan + Holding[key] + ReentryDelay]
  /\ broken' = (broken \/ observerFails)
  /\ pc' = "trading"
  /\ UNCHANGED <<now, db, scan, todo, opp, rows, balance, locks, tracked, kill, lastCheck, drift>>

\* save_simulated_trade refers to the opportunity's row (a foreign key)
CanSave == ~broken /\ tracked[opp].row # "lost"

\* missed, edge gone, too many positions or no capital: a row that counts for nothing
NotTraded ==
  /\ pc = "trading" /\ CanSave
  /\ pc' = "scanning" /\ opp' = NoOpp
  /\ UNCHANGED <<now, db, scan, todo, rows, broken, memoryVars>>

\* mutant: what is locked is not subtracted
TradedCapitalUnlocked == Min2(Capital[opp], Min2(Max2(0, balance), PerTradeCap))

TradedCapital == Min2(Capital[opp], Min2(FreeCapital(scan), PerTradeCap))

\* simulate credits the profit and locks it with the principal, in memory
Credit(capital, net) ==
  LET key == Position[opp] IN
  /\ Cardinality(OpenKeys(PrunedLocks(locks, scan))) < MaxPositions
  /\ capital > 0 /\ capital + net > 0      \* no loss eats the whole capital
  /\ balance' = balance + net
  /\ locks' = [PrunedLocks(locks, scan) EXCEPT
                 ![key] = [amount |-> capital + net, expiry |-> scan + Holding[key],
                           opened |-> scan]]

Trade(net) ==
  /\ pc = "trading" /\ CanSave
  /\ Credit(TradedCapital, net)
  /\ rows' = Append(rows, [key |-> Position[opp], capital |-> TradedCapital, net |-> net,
                           at |-> scan, kind |-> "open"])
  /\ pc' = "scanning" /\ opp' = NoOpp
  /\ UNCHANGED <<now, db, scan, todo, broken, tracker, tracked, kill, lastCheck, drift>>

TradeNotSaved(net) ==
  /\ pc = "trading"
  /\ Credit(TradedCapital, net)
  /\ SessionLost
  /\ tracked' = Lost(tracked)
  /\ drift' = drift + NetTotal(rows) + net
  /\ UNCHANGED <<now, db, tracker, kill, lastCheck>>

-----------------------------------------------------------------------------
(* The end of a scan: time stop, commit, ledger check                      *)

Overdue == {k \in PositionKeys : /\ PrunedLocks(locks, scan)[k].expiry > 0
                         /\ scan - locks[k].opened > HardStop}

\* _find_opening_trade: the most recent one, which need not be the one the lock is of
OpeningTrades(k) ==
  LET ledger == db \o rows IN {i \in DOMAIN ledger : ledger[i].key = k /\ ledger[i].kind = "open"}
OpeningTrade(k) ==
  (db \o rows)[CHOOSE i \in OpeningTrades(k) : \A j \in OpeningTrades(k) : j <= i]

\* the profit it was opened with is taken back, and the unwind is paid
Reversed(k) ==
  LET opening == OpeningTrade(k)
      adjustment == -opening.net - UnwindCost
  IN
  /\ balance' = balance + adjustment
  /\ rows' = Append(rows, [key |-> k, capital |-> opening.capital, net |-> adjustment,
                           at |-> scan, kind |-> "exit"])

\* without an opening trade there is nothing to reverse
ForceExit(k) ==
  /\ pc = "scanning" /\ todo = {} /\ ~broken
  /\ k \in Overdue
  /\ locks' = [PrunedLocks(locks, scan) EXCEPT ![k] = NoLock]
  /\ IF OpeningTrades(k) = {} THEN UNCHANGED <<balance, rows>> ELSE Reversed(k)
  /\ UNCHANGED <<now, db, pc, scan, todo, opp, broken, tracker, tracked, kill, lastCheck, drift>>

Saved(t) ==
  [o \in Opps |-> IF t[o].row = "none" \/ scan - t[o].seen > Liveness THEN NoTrack
                  ELSE IF t[o].row = "pending" THEN [t[o] EXCEPT !.row = "saved"] ELSE t[o]]

CheckDue == scan - lastCheck >= CheckInterval

CommitScan ==
  /\ pc = "scanning" /\ todo = {} /\ ~broken /\ Overdue = {}
  /\ db' = db \o rows
  /\ rows' = <<>>
  /\ tracked' = Saved(tracked)
  /\ IF CheckDue THEN pc' = "checking" /\ lastCheck' = scan
                 ELSE pc' = "sleeping" /\ UNCHANGED lastCheck
  /\ scan' = 0
  /\ UNCHANGED <<now, todo, opp, broken, balance, locks, tracker, kill, drift>>

\* check_ledger_integrity
Check ==
  /\ pc = "checking"
  /\ kill' = (kill \/ balance < 0 \/ balance # Initial + NetTotal(db))
  /\ pc' = "sleeping"
  /\ UNCHANGED <<now, db, scan, todo, opp, rows, broken, balance, locks, tracker,
                 tracked, lastCheck, drift>>

\* its query raises: the next one is an interval away
CheckRaises ==
  /\ pc = "checking"
  /\ pc' = "sleeping"
  /\ UNCHANGED <<now, db, scan, todo, opp, rows, broken, memoryVars>>

-----------------------------------------------------------------------------
(* Crash and recovery                                                      *)

NoMemory ==
  /\ balance' = Initial
  /\ locks' = [k \in PositionKeys |-> NoLock]
  /\ tracker' = [k \in PositionKeys |-> 0]
  /\ tracked' = [o \in Opps |-> NoTrack]
  /\ kill' = FALSE /\ lastCheck' = 0 /\ drift' = 0

Crash ==
  /\ pc # "down"
  /\ pc' = "down" /\ scan' = 0 /\ todo' = {} /\ opp' = NoOpp
  /\ rows' = <<>> /\ broken' = FALSE
  /\ NoMemory
  /\ UNCHANGED <<now, db>>

\* mutant: nothing tells a forced exit from an open position
ForceClosedNever(k) == FALSE

ForceClosed(k) == \E i \in DOMAIN db : db[i].key = k /\ db[i].kind = "exit"

ClosesAt(row) == row.at + Holding[row.key]

StillOpen(i) ==
  /\ db[i].kind = "open"
  /\ ~ForceClosed(db[i].key)
  /\ ClosesAt(db[i]) > now

\* later trades of a key that is still open are duplicates
Recovered(i) ==
  StillOpen(i) /\ \A j \in 1..(i - 1) : db[j].key = db[i].key => ~StillOpen(j)

\* mutant: every restart starts from the initial capital
RecoveredBalanceFresh == Initial

RecoveredBalance == Initial + NetTotal(db)

\* a position that does not fit is left without a lock
RecoveredLocks ==
  LET l[i \in 0..Len(db)] ==
        IF i = 0 THEN [k \in PositionKeys |-> NoLock]
        ELSE LET row == db[i]
                 amount == row.capital + row.net
             IN  IF Recovered(i) /\ Fits(l[i - 1], RecoveredBalance, row.key, amount)
                 THEN [l[i - 1] EXCEPT ![row.key] =
                         [amount |-> amount, expiry |-> ClosesAt(row), opened |-> row.at]]
                 ELSE l[i - 1]
  IN  l[Len(db)]

\* mutant: the trackers start empty
RecoveredTrackerEmpty == [k \in PositionKeys |-> 0]

\* mutant: the remaining time counted from the opening
RecoveredTrackerFromOpening ==
  [k \in PositionKeys |->
     IF \E i \in DOMAIN db : db[i].key = k /\ Recovered(i)
     THEN LET row == db[CHOOSE i \in DOMAIN db : db[i].key = k /\ Recovered(i)]
          IN  row.at + (ClosesAt(row) - now) + ReentryDelay
     ELSE 0]

\* its key is blocked all the same
RecoveredTracker ==
  [k \in PositionKeys |->
     IF \E i \in DOMAIN db : db[i].key = k /\ Recovered(i)
     THEN ClosesAt(db[CHOOSE i \in DOMAIN db : db[i].key = k /\ Recovered(i)]) + ReentryDelay
     ELSE 0]

RestartProcess ==
  /\ pc = "down"
  /\ pc' = "sleeping"
  /\ balance' = RecoveredBalance
  /\ locks' = RecoveredLocks
  /\ tracker' = RecoveredTracker
  /\ UNCHANGED <<now, db, scan, todo, opp, rows, broken, tracked, kill, lastCheck, drift>>

-----------------------------------------------------------------------------
(* Requests and time                                                       *)

OperatorEngages ==
  /\ pc # "down" /\ ~kill
  /\ kill' = TRUE
  /\ UNCHANGED <<now, db, scanVars, balance, locks, tracker, tracked, lastCheck, drift>>

OperatorDisengages ==
  /\ pc # "down" /\ kill
  /\ kill' = FALSE
  /\ UNCHANGED <<now, db, scanVars, balance, locks, tracker, tracked, lastCheck, drift>>

\* /capital/pool prunes at the time of the request, also during a scan that began earlier
CapitalPoolRead ==
  /\ pc # "down"
  /\ locks' = PrunedLocks(locks, now)
  /\ UNCHANGED <<now, db, scanVars, balance, tracker, tracked, kill, lastCheck, drift>>

TimePasses ==
  /\ now < MaxTime
  /\ now' = now + 1
  /\ UNCHANGED <<db, scanVars, memoryVars>>

-----------------------------------------------------------------------------

PaperInit ==
  /\ now = Start
  /\ db \in Ledgers
  /\ pc = "down" /\ scan = 0 /\ todo = {} /\ opp = NoOpp /\ rows = <<>> /\ broken = FALSE
  /\ balance = Initial
  /\ locks = [k \in PositionKeys |-> NoLock]
  /\ tracker = [k \in PositionKeys |-> 0]
  /\ tracked = [o \in Opps |-> NoTrack]
  /\ kill = FALSE /\ lastCheck = 0 /\ drift = 0

PaperNext ==
  \/ ScanBegins \/ ScanFails
  \/ \E o \in Opps : ObserveFails(o)
  \/ \E o \in Opps, worth, telemetryFails \in BOOLEAN : Observe(o, worth, telemetryFails)
  \/ Halted
  \/ \E observerFails \in BOOLEAN : Decide(observerFails)
  \/ NotTraded
  \/ \E net \in Nets : Trade(net) \/ TradeNotSaved(net)
  \/ \E k \in PositionKeys : ForceExit(k)
  \/ CommitScan \/ Check \/ CheckRaises
  \/ Crash \/ RestartProcess
  \/ OperatorEngages \/ OperatorDisengages \/ CapitalPoolRead
  \/ TimePasses

PaperSpec == PaperInit /\ [][PaperNext]_paperVars

-----------------------------------------------------------------------------
(* Properties                                                              *)

(* lock_capital: available capital never goes negative. A forced exit that *)
(* takes back more than the lock it frees breaks it.                       *)
NoOvercommit == LockedTotal(locks) <= Max2(0, balance)

(* Whatever losses, forced exits, failed scans and duplicates have left of *)
(* it, the portfolio never takes a lock beyond its balance: neither a new  *)
(* trade, with the profit it locks besides its capital, nor the recovery   *)
(* of positions that were sized under other rules. A portfolio that is     *)
(* committed beyond its balance takes none.                                *)
TakesLocks == \E k \in PositionKeys : locks'[k] \notin {NoLock, locks[k]}
NewLocksAreCovered ==
  [][TakesLocks => LockedTotal(locks') <= Max2(0, balance')]_paperVars

(* A position that keeps capital locked also blocks its key, across failed *)
(* scans and restarts: otherwise the next detection trades it again.       *)
TrackerCoversLocks ==
  \A k \in PositionKeys : locks[k].expiry > 0 => tracker[k] >= locks[k].expiry

(* In the ledger, two positions of one key never overlap: no restart and   *)
(* no failed scan makes the program open a position it already has.        *)
NoDuplicatePositions ==
  LET ledger == db \o rows IN
  \A i, j \in DOMAIN ledger :
    /\ i < j
    /\ ledger[i].key = ledger[j].key /\ ledger[i].key \notin LegacyKeys
    => ClosesAt(ledger[i]) <= ledger[j].at

(* The live equity is the ledger's, but for the rows of the running scan   *)
(* and the credits of scans that failed; a restart forgets only the latter.*)
LedgerReconciles ==
  pc # "down" => balance = Initial + NetTotal(db) + NetTotal(rows) + drift

(* A forced exit reverses its position once, over any number of crashes    *)
(* and restarts between its lock's release, its row and its commit.        *)
ForcedOnce ==
  LET ledger == db \o rows IN
  \A i, j \in DOMAIN ledger :
    ledger[i].kind = "exit" /\ ledger[j].kind = "exit" /\ ledger[i].key = ledger[j].key => i = j
=============================================================================
