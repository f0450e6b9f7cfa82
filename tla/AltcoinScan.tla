------------------------------ MODULE AltcoinScan ------------------------------
(***************************************************************************)
(* altcoin_scanner.py: the process that scans the whole universe in two    *)
(* stages and keeps what it saw for the reports of the engine process.     *)
(* Stage A ranks every pair by the tickers of Binance and Bybit            *)
(* (fast_discovery), stage B quotes the promoted symbols on every pair of  *)
(* exchanges (cross_exchange_scanner).  Streaks, vanished edges and the    *)
(* totals of what was missed live in memory (continuity_tracker,           *)
(* missed_opportunity_tracker); the rows go to the database, one           *)
(* transaction a cycle.  One unit of time is the pause between two cycles. *)
(***************************************************************************)
EXTENDS Integers, Sequences, FiniteSets, FiniteSetsExt, SequencesExt

CONSTANTS
  Universe,        \* the common symbols, in the order of the universe
  Tickers,         \* what stage A may read: [spread: <<symbol, leg>> -> Int, momentum: symbol -> Nat]
  Outcomes,        \* what stage B may find of a symbol: leg -> quote
  MinRawSpread, MaxStageB, MomentumTopUp,
  LastTick,        \* bound on the clock
  MaxCycles,       \* bound on the cycles
  MaxFaults,       \* bound on what fails: calls, scans, transactions, the process
  Lost             \* a symbol whose scan raised

ASSUME ScanAssumption ==
  /\ {MaxStageB, MomentumTopUp, LastTick, MaxCycles, MaxFaults} \subseteq Nat
  /\ MinRawSpread \in Nat \ {0} /\ Universe \in Seq(STRING)

Symbols == {Universe[i] : i \in DOMAIN Universe}
LiveLegs == {<<"binance", "bybit">>, <<"bybit", "binance">>}
Legs == {l \in {"binance", "bybit", "okx"} \X {"binance", "bybit", "okx"} : l[1] # l[2]}
Routes == Symbols \X Legs
Causes == {"INSUFFICIENT_DEPTH", "MIN_NOTIONAL", "FEES", "SAFETY_MARGIN", "LATENCY",
           "EDGE_DISAPPEARED", "OTHER"}

VARIABLES
  tick, cycles, life, faults,
  cycle,    \* the cycle under way: its start, what stage A promoted, for which reason
  streaks,  \* ContinuityTracker: key -> since when it is positive
  fading,   \* EdgeDisappearanceTracker: key -> the last positive profit
  missed,   \* MissedOpportunityTracker: cause -> count and profit
  table,    \* altcoin_scan_observations, as committed
  totals,   \* the summaries of what was missed and the counters, as committed
  seen      \* what the process observed, whatever became of the rows

scanVars == <<tick, cycles, life, faults, cycle, streaks, fading, missed, table, totals, seen>>

-----------------------------------------------------------------------------
(* Stage A.                                                                *)

\* Best spread first; the sort is stable.
RanksBefore(t, k, m) ==
  LET place(x) == 2 * SelectInSeq(Universe, LAMBDA s : s = x[1]) + (IF x[2][1] = "binance" THEN 0 ELSE 1)
  IN  \/ t.spread[k] > t.spread[m]
      \/ t.spread[k] = t.spread[m] /\ place(k) < place(m)

\* The first n directions of an order, given what comes before each.
FirstOf(n, before) == {k \in DOMAIN before : Cardinality(before[k]) < n}

RawEdges(t) == {k \in DOMAIN t.spread : t.spread[k] >= MinRawSpread}

\* Momentum tops up at most n slots.
TopUps(t, n) ==
  LET rest == DOMAIN t.spread \ RawEdges(t)
      moves(k) == t.momentum[k[1]]
  IN  FirstOf(Min({n, MomentumTopUp}),
        [k \in rest |-> {m \in rest : \/ moves(m) > moves(k)
                                      \/ moves(m) = moves(k) /\ RanksBefore(t, m, k)}])

\* discover_candidates: what has a spread, best first, as far as stage B
\* can take it, then what has momentum in the slots that are left.
DiscoverCandidates(t) ==
  [edges |-> RawEdges(t),
   raw |-> FirstOf(MaxStageB, [k \in RawEdges(t) |-> {m \in RawEdges(t) : RanksBefore(t, m, k)}]),
   momentum |-> TopUps(t, Max({0, MaxStageB - Cardinality(RawEdges(t))}))]

NoTickers == [spread |-> <<>>, momentum |-> <<>>]
NoCycle == [at |-> -1, open |-> FALSE, found |-> [raw |-> {}, momentum |-> {}, edges |-> {}], rest |-> 0]

\* The start of run_one_cycle.  A ticker call that fails leaves nothing to
\* discover, and so does a universe without symbols.
StageA ==
  /\ ~cycle.open /\ tick >= cycle.rest /\ cycles < MaxCycles /\ cycles' = cycles + 1
  /\ \E t \in Tickers \cup {NoTickers} :
        /\ faults' = faults + (IF t = NoTickers THEN 1 ELSE 0) /\ faults' <= MaxFaults
        /\ cycle' = [at |-> tick, open |-> TRUE, found |-> DiscoverCandidates(t), rest |-> cycle.rest]
  /\ UNCHANGED <<tick, life, streaks, fading, missed, table, totals, seen>>

-----------------------------------------------------------------------------
(* Stage B and what is remembered of it.                                   *)

Executable(q) == q.reason = "none"
IsPositive(q) == Executable(q) /\ q.net > 0
IsLive(k) == k[2] \in LiveLegs

\* net <= recommend_safety_margin_usd(nets): a standard deviation of the
\* cycle, compared by squares; no margin for less than two quotes.
WithinMargin(net, of) ==
  LET n == Cardinality(DOMAIN of)
      sum == MapThenSumSet(LAMBDA k : of[k].net, DOMAIN of)
      squares == MapThenSumSet(LAMBDA k : of[k].net * of[k].net, DOMAIN of)
  IN  n >= 2 /\ n * n * net * net <= n * squares - sum * sum

\* classify_miss: NotAMiss for what could be acted on.
NotAMiss == "none"
ClassifyMiss(q, of) ==
  CASE ~q.filled                    -> "INSUFFICIENT_DEPTH"
    [] q.filled /\ ~Executable(q)   -> IF q.reason = "minimum" THEN "MIN_NOTIONAL"
                                       ELSE IF q.reason = "net" THEN "FEES" ELSE "OTHER"
    [] q.filled /\ Executable(q)    -> IF WithinMargin(q.net, of) THEN "SAFETY_MARGIN"
                                       ELSE IF q.slow THEN "LATENCY" ELSE NotAMiss

\* ContinuityTracker.observe and current_persistence_seconds
NoStreak == -1

Continued(since, positive) ==
  IF ~positive THEN NoStreak ELSE IF since = NoStreak THEN tick ELSE since

Row(k, q) ==
  LET since == Continued(streaks[k], IsPositive(q))
  IN  [key |-> k, at |-> cycle.at, seenAt |-> tick, life |-> life, net |-> q.net,
       positive |-> IsPositive(q),
       status |-> IF ~IsPositive(q) THEN "none" ELSE IF since = streaks[k] THEN "continuation" ELSE "new",
       persistence |-> IF IsPositive(q) THEN tick - since ELSE 0]

\* EdgeDisappearanceTracker.observe: the profit that has just gone.
Vanished(k, q) == ~IsPositive(q) /\ fading[k] # NoStreak

\* An edge that vanished is the only cause counted for its tick.
CausesOfTick(k, q, of) ==
  IF Vanished(k, q) THEN {"EDGE_DISAPPEARED"} ELSE {ClassifyMiss(q, of)} \ {NotAMiss}

ProfitMissed(c, k, q) ==
  IF c = "EDGE_DISAPPEARED" THEN fading[k]
  ELSE IF c \in {"INSUFFICIENT_DEPTH", "SAFETY_MARGIN", "LATENCY"} THEN Max({0, q.net}) ELSE 0

Recorded(of) ==
  [c \in Causes |->
     LET hit == {k \in DOMAIN of : IsLive(k) /\ c \in CausesOfTick(k, of[k], of)}
     IN  [count |-> missed[c].count + Cardinality(hit),
          profit |-> missed[c].profit + MapThenSumSet(LAMBDA k : ProfitMissed(c, k, of[k]), hit)]]

StageBSymbols == {k[1] : k \in cycle.found.raw \cup cycle.found.momentum}

\* The rest of run_one_cycle.  A symbol whose scan raises is skipped.  A row
\* that cannot be flushed leaves the session unusable until a rollback, and
\* nothing rolls back: the commit raises and the whole cycle is lost, while
\* the trackers keep what they observed.
StageB ==
  /\ cycle.open
  /\ \E quotes \in [StageBSymbols -> Outcomes \cup {Lost}], committed \in BOOLEAN :
       LET of == [k \in {k \in Routes : /\ k[1] \in StageBSymbols /\ quotes[k[1]] # Lost
                                      /\ k[2] \in DOMAIN quotes[k[1]]} |-> quotes[k[1]][k[2]]]
           positives == {k \in DOMAIN of : IsPositive(of[k])}
           lost == {s \in StageBSymbols : quotes[s] = Lost}
       IN  /\ faults' = faults + Cardinality(lost) + (IF committed THEN 0 ELSE 1)
           /\ faults' <= MaxFaults
           /\ streaks' = [k \in Routes |-> IF k \in DOMAIN of
                                          THEN Continued(streaks[k], IsPositive(of[k])) ELSE streaks[k]]
           /\ fading' = [k \in Routes |-> IF k \in DOMAIN of /\ IsLive(k)
                                        THEN IF IsPositive(of[k]) THEN of[k].net ELSE NoStreak
                                        ELSE fading[k]]
           /\ missed' = Recorded(of)
           /\ seen' = seen \cup {[key |-> k, at |-> tick, life |-> life, positive |-> k \in positives] : k \in DOMAIN of}
           /\ IF committed
              THEN /\ table' = table \cup {Row(k, of[k]) : k \in DOMAIN of}
                   /\ totals' = [missed |-> missed', edges |-> Cardinality(cycle.found.edges),
                                 deep |-> Cardinality(StageBSymbols),
                                 positive |-> Cardinality({k \in positives : IsLive(k)})]
              ELSE UNCHANGED <<table, totals>>
  /\ cycle' = [NoCycle EXCEPT !.rest = tick + 1]
  /\ UNCHANGED <<tick, cycles, life>>

ScanTick == /\ tick < LastTick /\ tick' = tick + 1
        /\ UNCHANGED <<cycles, life, faults, cycle, streaks, fading, missed, table, totals, seen>>

NothingMissed == [c \in Causes |-> [count |-> 0, profit |-> 0]]

\* The process stops and starts again: its memory is new.
ScannerRestarts ==
  /\ faults < MaxFaults /\ faults' = faults + 1 /\ life' = life + 1
  /\ cycle' = NoCycle
  /\ streaks' = [k \in Routes |-> NoStreak] /\ fading' = [k \in Routes |-> NoStreak]
  /\ missed' = NothingMissed
  /\ UNCHANGED <<tick, cycles, table, totals, seen>>

ScanInit ==
  /\ tick = 0 /\ cycles = 0 /\ life = 0 /\ faults = 0 /\ cycle = NoCycle
  /\ streaks = [k \in Routes |-> NoStreak] /\ fading = streaks /\ missed = NothingMissed
  /\ table = {} /\ totals = [missed |-> NothingMissed, edges |-> 0, deep |-> 0, positive |-> 0]
  /\ seen = {}

ScanNext == StageA \/ StageB \/ ScanTick \/ ScannerRestarts

ScanSpec == ScanInit /\ [][ScanNext]_scanVars
=============================================================================
