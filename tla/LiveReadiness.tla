----------------------------- MODULE LiveReadiness -----------------------------
(***************************************************************************)
(* The report that answers "may live trading start?":                      *)
(* build_multi_symbol_preflight_report (app/execution/live_preflight.py)   *)
(* over the ranking of live_ranker.py and the account gate of              *)
(* live_readiness_gate.py.  Some ten readings of three exchanges, one      *)
(* after the other; any may fail, and balances move meanwhile.  Whatever   *)
(* is not known must not count as safe.                                    *)
(***************************************************************************)
EXTENDS Integers, Sequences, FiniteSets

CONSTANTS
  Listing,       \* the symbols of the universe, in the order of their names
  MaxSymbols,    \* how many of them are scanned
  Quotes,        \* what scanning a symbol may find: sets of quotes
  BinanceKeys, BybitKeys,      \* the scopes the keys may have
  BinanceLots, BybitLots,      \* the filters: [step, minQty, minNotional]
  AskPrice, LegCap,            \* max_notional_per_leg_usdt
  Purses, Hoards,              \* what an account may hold, in USDT and in coins
  LatencyUnit,                 \* a second, in the unit of a quote's latency
  MaxTransfers,                \* bound on the balances that move meanwhile
  NotRead

ASSUME ReadinessAssumption ==
  /\ {AskPrice, LegCap, LatencyUnit} \subseteq Nat \ {0} /\ MaxSymbols \in Nat
  /\ \A f \in BinanceLots \cup BybitLots : f.step \in Nat \ {0} /\ f.minQty \in Nat /\ f.minNotional \in Nat

LiveExchanges == {"binance", "bybit", "okx"}

VARIABLES
  purse, hoard,    \* what each exchange holds: USDT and the symbol's coin
  transfers,
  scopes, lots,    \* the keys' scopes and the filters
  stage,           \* the next reading, or "done"
  knows,           \* what the report has read so far, NotRead where it failed
  ranked,          \* the opportunities, in the order they were found
  gate             \* the account gate, NotRead until it is complete

readinessVars == <<purse, hoard, transfers, scopes, lots, stage, knows, ranked, gate>>

-----------------------------------------------------------------------------
(* Ranking.                                                                *)

Amount(x) == IF x = NotRead THEN 0 ELSE x

\* check_prepositioning: a balance that could not be read counts as none.
Prepositioned(q, usdt, coins) ==
  /\ Amount(usdt[q.buy]) >= q.qty * q.price
  /\ Amount(coins[q.sell]) >= q.qty

Score(q, executableNow) ==
  IF ~executableNow \/ q.net <= 0 THEN 0
  ELSE (q.net * 1000 * LatencyUnit) \div (LatencyUnit + q.latency)

\* A RankedOpportunity.
Ranked(q, usdt, coins) ==
  LET now == Prepositioned(q, usdt, coins) /\ q.executable
  IN  [quote |-> q, executableNow |-> now, score |-> Score(q, now)]

\* The first of the best, if any has a score: the sort is stable.
BestCandidate ==
  LET best == {i \in DOMAIN ranked : \A j \in DOMAIN ranked : ranked[j].score <= ranked[i].score}
      i == CHOOSE k \in best : \A j \in best : k <= j
  IN  IF best = {} \/ ranked[i].score <= 0 THEN NotRead ELSE ranked[i]

-----------------------------------------------------------------------------
(* The account gate.                                                       *)

LargerOf(a, b) == IF a > b THEN a ELSE b
CeilDiv(a, b) == (a + b - 1) \div b

\* the least multiple of the step that is worth the notional
RoundedUp(notional, step) == CeilDiv(notional, AskPrice * step) * step

\* _smallest_common_order_size: the coarser step serves both exchanges.
SmallestCommonOrder(b, y) ==
  LET required == LargerOf(LargerOf(b.minNotional, b.minQty * AskPrice),
                           LargerOf(y.minNotional, y.minQty * AskPrice))
      qty == RoundedUp(required, LargerOf(b.step, y.step))
  IN  IF required > LegCap THEN NotRead ELSE [qty |-> qty, notional |-> qty * AskPrice]

\* What the scope that was read permits; an unread one is not safe.
BinanceTradeReady(s) == s # NotRead /\ s.trade /\ ~s.withdraw
BybitTradeReady(s) == s # NotRead /\ ~s.readOnly /\ s.spot /\ ~s.withdraw

\* mutant: a scope that cannot be read leaves the flag as it was set first
WithdrawalsDisabledIfUnread(s) == s = NotRead \/ ~s.withdraw

WithdrawalsDisabled(s) == s # NotRead /\ ~s.withdraw

\* FirstLiveGateReport; its self tests of the guard and the ledger pass.
Gate(k) ==
  LET size == IF k.filters THEN SmallestCommonOrder(lots.binance, lots.bybit) ELSE NotRead
      covered == /\ size # NotRead
                 /\ k.gateUsdt # NotRead /\ k.gateUsdt >= size.notional
                 /\ k.gateCoins # NotRead /\ k.gateCoins >= size.qty
      trades == BinanceTradeReady(k.restrictions) /\ BybitTradeReady(k.keyInfo)
      closed == WithdrawalsDisabled(k.restrictions) /\ WithdrawalsDisabled(k.keyInfo)
  IN  [trades |-> trades, closed |-> closed, size |-> size,
       ready |-> trades /\ closed /\ covered]

\* What "the coarser step serves both" takes for granted of the venues.
StepsNest ==
  \A b \in BinanceLots, y \in BybitLots :
    LET coarser == LargerOf(b.step, y.step) IN coarser % b.step = 0 /\ coarser % y.step = 0

-----------------------------------------------------------------------------
(* The readings, in the order of the report.                               *)

Unread == [usdt |-> [x \in LiveExchanges |-> NotRead], wallet |-> NotRead, universe |-> FALSE,
           listing |-> <<>>, scanned |-> 0, restrictions |-> NotRead, gateUsdt |-> NotRead, keyInfo |-> NotRead,
           gateCoins |-> NotRead, filters |-> FALSE]

Goes(from, to) == stage = from /\ stage' = to
World == <<purse, hoard, transfers, scopes, lots>>

\* get_universe answers whatever fails below it, perhaps nothing; the flag
\* is for the coins Binance and Bybit share, the scan is of any pair's.
ReadUniverse ==
  /\ Goes("universe", "usdt")
  /\ \E found \in BOOLEAN, l \in {<<>>, Listing} :
        /\ found => l # <<>>
        /\ knows' = [knows EXCEPT !.universe = found, !.listing = l]
  /\ UNCHANGED <<World, ranked, gate>>

\* rank_live_opportunities: the USDT of the three exchanges, each at once
\* known or not.  Without Bybit's wallet its coins are unknown as well.
ReadUsdt ==
  /\ Goes("usdt", "scan")
  /\ \E ok \in [LiveExchanges -> BOOLEAN] :
       knows' = [knows EXCEPT
         !.usdt = [x \in LiveExchanges |-> IF ok[x] THEN purse[x] ELSE NotRead],
         !.wallet = IF ok["bybit"] THEN hoard["bybit"] ELSE NotRead]
  /\ UNCHANGED <<World, ranked, gate>>

\* The next symbol is scanned, or its scan fails; Binance's and OKX's coins
\* are read for it, Bybit's are of the wallet read before.
ScanSymbol ==
  /\ stage = "scan" /\ knows.scanned < Len(knows.listing) /\ knows.scanned < MaxSymbols
  /\ \E found \in Quotes, ok \in [{"binance", "okx"} -> BOOLEAN] :
       LET coins == [x \in LiveExchanges |->
                       IF x = "bybit" THEN knows.wallet ELSE IF ok[x] THEN hoard[x] ELSE NotRead]
           of == [i \in DOMAIN found |-> Ranked(found[i], knows.usdt, coins)]
       IN  ranked' = ranked \o of
  /\ knows' = [knows EXCEPT !.scanned = @ + 1]
  /\ UNCHANGED <<World, stage, gate>>

EndRanking ==
  /\ Goes("scan", "restrictions")
  /\ knows.scanned = Len(knows.listing) \/ knows.scanned = MaxSymbols
  /\ UNCHANGED <<World, knows, ranked, gate>>

\* build_first_live_gate_report: five readings, each of which may fail.
ReadRestrictions ==
  /\ Goes("restrictions", "account")
  /\ \E v \in {scopes.binance, NotRead} : knows' = [knows EXCEPT !.restrictions = v]
  /\ UNCHANGED <<World, ranked, gate>>

ReadGateUsdt ==
  /\ Goes("account", "keyInfo")
  /\ \E v \in {purse["binance"], NotRead} : knows' = [knows EXCEPT !.gateUsdt = v]
  /\ UNCHANGED <<World, ranked, gate>>

ReadKeyInfo ==
  /\ Goes("keyInfo", "wallet")
  /\ \E v \in {scopes.bybit, NotRead} : knows' = [knows EXCEPT !.keyInfo = v]
  /\ UNCHANGED <<World, ranked, gate>>

ReadGateCoins ==
  /\ Goes("wallet", "filters")
  /\ \E v \in {hoard["bybit"], NotRead} : knows' = [knows EXCEPT !.gateCoins = v]
  /\ UNCHANGED <<World, ranked, gate>>

ReadFilters ==
  /\ Goes("filters", "done")
  /\ \E ok \in BOOLEAN : /\ knows' = [knows EXCEPT !.filters = ok]
                         /\ gate' = Gate([knows EXCEPT !.filters = ok])
  /\ UNCHANGED <<World, ranked>>

\* ready_to_start
ReadyToStart ==
  /\ stage = "done" /\ gate.trades /\ gate.closed /\ knows.universe
  /\ BestCandidate # NotRead /\ BestCandidate.executableNow

\* A transfer, or a trade of somebody else, moves a balance.
Transfer ==
  /\ stage # "done" /\ transfers < MaxTransfers /\ transfers' = transfers + 1
  /\ \/ \E x \in LiveExchanges, a \in Purses : purse' = [purse EXCEPT ![x] = a] /\ UNCHANGED hoard
     \/ \E x \in LiveExchanges, a \in Hoards : hoard' = [hoard EXCEPT ![x] = a] /\ UNCHANGED purse
  /\ UNCHANGED <<scopes, lots, stage, knows, ranked, gate>>

ReadinessInit ==
  /\ \E a \in Purses, c \in Hoards :
        purse = [x \in LiveExchanges |-> a] /\ hoard = [x \in LiveExchanges |-> c]
  /\ transfers = 0
  /\ \E b \in BinanceKeys, y \in BybitKeys : scopes = [binance |-> b, bybit |-> y]
  /\ \E b \in BinanceLots, y \in BybitLots : lots = [binance |-> b, bybit |-> y]
  /\ stage = "universe" /\ knows = Unread /\ ranked = <<>> /\ gate = NotRead

ReadinessNext ==
  \/ ReadUniverse \/ ReadUsdt \/ ScanSymbol \/ EndRanking
  \/ ReadRestrictions \/ ReadGateUsdt \/ ReadKeyInfo \/ ReadGateCoins \/ ReadFilters
  \/ Transfer

ReadinessSpec == ReadinessInit /\ [][ReadinessNext]_readinessVars

-----------------------------------------------------------------------------
(* Properties.                                                             *)

\* Whichever readings fail, what the report asserts is so: if it says that
\* withdrawals are disabled, both keys forbid them; if it says ready, both
\* may trade; and the size it proposes is one both exchanges take and, if
\* no balance moved meanwhile, one the two accounts can pay.
UnknownIsNeverSafe ==
  stage = "done" =>
     /\ gate.closed => ~scopes.binance.withdraw /\ ~scopes.bybit.withdraw
     /\ ReadyToStart => scopes.binance.trade /\ scopes.bybit.spot /\ ~scopes.bybit.readOnly
     /\ gate.ready =>
          /\ \A f \in {lots.binance, lots.bybit} :
               /\ gate.size.qty % f.step = 0 /\ gate.size.qty >= f.minQty
               /\ gate.size.notional >= f.minNotional
          /\ transfers = 0 => gate.size.notional <= purse["binance"] /\ gate.size.qty <= hoard["bybit"]
=============================================================================
