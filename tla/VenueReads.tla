------------------------------ MODULE VenueReads ------------------------------
(***************************************************************************)
(* What the observers of the live path read from an exchange before they   *)
(* judge an opportunity: MicroLiveOrchestrator (app/execution/micro_live), *)
(* DualLegObserver and the scanner's MultiExchangeSnapshotFetcher, over    *)
(* the account clients of the three exchanges, with the quote micro-live   *)
(* computes (reality_quote, binance_filters).  The symbol's rules and the  *)
(* fee are kept for an hour, the account for a minute; any call may raise, *)
(* and a signed one cannot be made without a key.                          *)
(*                                                                         *)
(* One symbol.  Quantities are counted in the finest lot, so that dividing *)
(* dollars by a price rounds down to it.  Rates are parts of RateUnit.     *)
(***************************************************************************)
EXTENDS Integers, Sequences, SequencesExt

CONSTANTS
  Instruments,    \* what an exchange may publish of the symbol, or Nothing
  FeeRates,       \* what it may answer for the account's taker fee, or Nothing
  Readings,       \* the books it may answer: [bid, ask, asks, bids]
  AccountUsdt,    \* the free balances the account may have
  Wanted,         \* the sizes asked for, in dollars
  Spread,         \* gross_spread_pct, in parts of RateUnit
  RateUnit, DefaultRate,
  Cap,            \* micro_live_cap_usdt
  AccountTtl, InfoTtl,
  LatestTime,     \* bound on the clock
  MaxAlterations, \* bound on what the exchanges alter
  MaxObservations,\* bound on the observations
  Nothing

ASSUME ReadsAssumption ==
  /\ {RateUnit, Cap, AccountTtl, InfoTtl} \subseteq Nat \ {0}
  /\ {Spread, DefaultRate, LatestTime, MaxAlterations, MaxObservations} \subseteq Nat
  /\ AccountUsdt \subseteq Nat /\ Wanted \subseteq Nat

ReadSites == {"binance", "bybit", "okx"}
Unlimited == 1000000
Absent == [at |-> 0, read |-> 0, value |-> Nothing, filled |-> FALSE]

VARIABLES
  published,    \* what each exchange publishes: its instrument and its fee
  funds,        \* free USDT on Binance
  keyed,        \* the API keys are configured
  hour, altered,
  watcher,      \* the observer; the three have caches of their own
  begun,
  memo,         \* its caches: exchange, kind -> entry
  work,         \* the observation under way
  tally         \* MicroLiveState.observations, by bucket

readsVars == <<published, funds, keyed, hour, altered, watcher, begun, memo, work, tally>>

-----------------------------------------------------------------------------
(* Parsing.                                                                *)

Given(x, default) == IF x = Nothing THEN default ELSE x

\* parse_symbol_rules of the three exchanges: a filter that is not published
\* does not bind; OKX publishes neither a largest size nor a least notional.
ParseRules(x, i) ==
  [minQty      |-> Given(i.minQty, 0),
   maxQty      |-> IF x = "okx" THEN Unlimited ELSE Given(i.maxQty, Unlimited),
   step        |-> Given(i.step, 0),
   minNotional |-> IF x = "okx" THEN Nothing ELSE i.minNotional,
   trading     |-> i.trading]

RoundDownToStep(v, step) == IF step <= 0 THEN v ELSE (v \div step) * step

\* validate_order: the parts of the verdict; a sale costs nothing.
ValidateOrder(rules, side, price, requested, balance) ==
  LET qty == RoundDownToStep(requested, rules.step)
      notional == qty * price
      cost == IF side = "buy" THEN notional ELSE 0
  IN  [qty |-> qty,
       status |-> rules.trading,
       lot |-> rules.minQty <= qty /\ qty <= rules.maxQty /\ qty > 0,
       notional |-> rules.minNotional = Nothing \/ notional >= rules.minNotional,
       balance |-> cost <= balance]

-----------------------------------------------------------------------------
(* The quote of micro-live.                                                *)

AbsDiff(a, b) == IF a > b THEN a - b ELSE b - a
LesserOf(a, b) == IF a < b THEN a ELSE b

\* _vwap_for_target_qty: what the visible levels fill of qty, and its cost.
WalkLevels(levels, qty) ==
  FoldLeft(LAMBDA acc, l :
             LET take == LesserOf(qty - acc.filled, l.qty)
             IN  [filled |-> acc.filled + take, cost |-> acc.cost + take * l.price],
           [filled |-> 0, cost |-> 0], levels)

\* The loss to slippage of qty at the reference price: none when nothing is
\* visible, the whole size at least when the visible levels do not suffice.
SlippageCost(walk, qty, reference) ==
  IF walk.filled <= 0 \/ reference <= 0 THEN 0
  ELSE IF walk.filled < qty
       THEN LET loss == (AbsDiff(walk.cost, reference * walk.filled) * qty) \div walk.filled
            IN  IF loss > reference * qty THEN loss ELSE reference * qty
       ELSE AbsDiff(walk.cost, reference * qty)

RejectionBucket(v, net) ==
  IF ~v.notional THEN "min_notional"
  ELSE IF ~v.lot THEN "lot_size"
  ELSE IF ~v.balance THEN "balance"
  ELSE IF net <= 0 THEN "net_profit_leq_zero" ELSE "other"

Buckets == {"executable", "min_notional", "lot_size", "balance", "net_profit_leq_zero", "other"}

\* compute_reality_quote; net is counted in dollars times RateUnit.
RealityQuote(rules, reading, side, wanted, balance, rate) ==
  LET reference == IF side = "buy" THEN reading.ask ELSE reading.bid
      levels == IF side = "buy" THEN reading.asks ELSE reading.bids
      desired == LesserOf(wanted, Cap)
      v == ValidateOrder(rules, side, reference, IF reference > 0 THEN desired \div reference ELSE 0, balance)
      size == v.qty * reference
      net == size * Spread - size * rate
               - RateUnit * SlippageCost(WalkLevels(levels, v.qty), v.qty, reference)
      executable == v.status /\ v.lot /\ v.notional /\ v.balance /\ net > 0
  IN  [executable |-> executable, qty |-> v.qty, size |-> size,
       bucket |-> IF executable THEN "executable" ELSE RejectionBucket(v, net)]

-----------------------------------------------------------------------------
(* The caches.                                                             *)

Observers == {"micro", "dual", "scanner"}

\* The calls each observer makes, in its order.
Program == [micro   |-> <<"account", "rules", "book", "depth", "fee">>,
            dual    |-> <<"book", "rules", "fee", "depth">>,
            scanner |-> <<"book", "depth", "rules", "fee">>]

TtlOf(kind) == IF kind = "account" THEN AccountTtl ELSE InfoTtl

\* mutant: what was read once is used for ever
FreshForever(entry, at, kind) == entry.filled

Fresh(entry, at, kind) == entry.filled /\ at - entry.at < TtlOf(kind)

Resting == [busy |-> FALSE, site |-> "binance", at |-> 0, left |-> <<>>,
            got |-> [k \in {"account", "rules", "fee"} |-> Absent],
            book |-> Nothing, side |-> "buy", wanted |-> 0, result |-> Nothing]

\* An observation starts at the time it takes for its own.
BeginObservation(x, side, wanted) ==
  [Resting EXCEPT !.busy = TRUE, !.site = x, !.at = hour, !.left = Program[watcher],
                  !.side = side, !.wanted = wanted]

\* Micro-live looks at the Binance leg of an opportunity, the pair observer
\* at that leg first.
Observe(x, side, wanted) ==
  /\ ~work.busy /\ begun < MaxObservations /\ begun' = begun + 1
  /\ IF watcher = "scanner" THEN side = "buy" ELSE x = "binance"
  /\ work' = BeginObservation(x, side, wanted)
  /\ UNCHANGED <<published, funds, keyed, hour, altered, watcher, memo, tally>>

Slot(kind) == <<work.site, kind>>
Next1 == Head(work.left)
Busy(kind) == work.left # <<>> /\ Next1 = kind

Proceed(kind, entry) == [work EXCEPT !.left = Tail(@), !.got[kind] = entry]
Abandon == work' = [Resting EXCEPT !.result = Nothing]

\* What is cached and young enough is used without a call.
UseCached(kind) ==
  /\ Busy(kind) /\ Fresh(memo[Slot(kind)], work.at, kind)
  /\ work' = Proceed(kind, memo[Slot(kind)])
  /\ UNCHANGED <<published, funds, keyed, hour, altered, watcher, begun, memo, tally>>

MustCall(kind) == Busy(kind) /\ ~Fresh(memo[Slot(kind)], work.at, kind)
Entry(value) == [at |-> work.at, read |-> hour, value |-> value, filled |-> TRUE]
Keep(kind, value) == memo' = [memo EXCEPT ![Slot(kind)] = Entry(value)]

\* Binance raises SymbolNotFound for a symbol it does not list, and nothing
\* is kept; Bybit and OKX answer nothing, and that is kept.  Either way, and
\* when the call raises, the observation is abandoned.
ReadRules ==
  /\ MustCall("rules")
  /\ LET i == published[work.site].instrument
     IN  \/ /\ i # Nothing
            /\ Keep("rules", ParseRules(work.site, i))
            /\ work' = Proceed("rules", Entry(ParseRules(work.site, i)))
         \/ /\ i = Nothing /\ Abandon
            /\ IF work.site = "binance" THEN UNCHANGED memo ELSE Keep("rules", Nothing)
         \/ Abandon /\ UNCHANGED memo
  /\ UNCHANGED <<published, funds, keyed, hour, altered, watcher, begun, tally>>

\* rules that were kept as missing
RulesMissing ==
  /\ work.got["rules"].filled /\ work.got["rules"].value = Nothing
  /\ Abandon
  /\ UNCHANGED <<published, funds, keyed, hour, altered, watcher, begun, memo, tally>>

\* The fee is signed.  Without a key there is none: micro-live asks again
\* next time, the others keep that there is none.  When the call raises,
\* micro-live goes on without a fee and the others give up.
ReadFee ==
  /\ MustCall("fee")
  /\ LET fee == published[work.site].fee
         without == Proceed("fee", Absent)
     IN  \/ keyed /\ Keep("fee", fee) /\ work' = Proceed("fee", Entry(fee))
         \/ /\ ~keyed
            /\ IF watcher = "micro" THEN UNCHANGED memo ELSE Keep("fee", Nothing)
            /\ work' = without
         \/ /\ keyed /\ UNCHANGED memo
            /\ IF watcher = "micro" THEN work' = without ELSE Abandon
  /\ UNCHANGED <<published, funds, keyed, hour, altered, watcher, begun, tally>>

\* _get_account_snapshot: what cannot be read is absent, never the old one.
ReadAccount ==
  /\ MustCall("account")
  /\ \/ keyed /\ Keep("account", funds) /\ work' = Proceed("account", Entry(funds))
     \/ UNCHANGED memo /\ work' = Proceed("account", Absent)
  /\ UNCHANGED <<published, funds, keyed, hour, altered, watcher, begun, tally>>

\* The book and its depth are read anew each time; a book is not answered
\* for a symbol that is not listed.
ReadBook ==
  /\ Busy("book") \/ Busy("depth")
  /\ \/ /\ published[work.site].instrument # Nothing
        /\ IF Next1 = "book"
           THEN \E b \in Readings : work' = [work EXCEPT !.left = Tail(@),
                                 !.book = IF watcher = "micro" THEN b ELSE Nothing]
           ELSE work' = [work EXCEPT !.left = Tail(@)]
     \/ Abandon
  /\ UNCHANGED <<published, funds, keyed, hour, altered, watcher, begun, memo, tally>>

RateIn(w) == Given(w.got["fee"].value, DefaultRate)
BalanceIn(w) == Given(w.got["account"].value, 0)
Complete == work.busy /\ work.left = <<>> /\ work.result = Nothing

\* observe_reality_quote computes and records its quote.
QuoteMicro ==
  /\ Complete /\ watcher = "micro"
  /\ LET q == RealityQuote(work.got["rules"].value, work.book, work.side, work.wanted,
                           BalanceIn(work), RateIn(work))
     IN  /\ work' = [work EXCEPT !.result = q]
         /\ tally' = [tally EXCEPT ![q.bucket] = LesserOf(@ + 1, 1)]
  /\ UNCHANGED <<published, funds, keyed, hour, altered, watcher, begun, memo>>

\* The second leg of a pair is read after the first, at a time of its own.
SecondLeg ==
  /\ Complete /\ watcher = "dual" /\ work.site = "binance"
  /\ work' = BeginObservation("bybit", IF work.side = "buy" THEN "sell" ELSE "buy", work.wanted)
  /\ UNCHANGED <<published, funds, keyed, hour, altered, watcher, begun, memo, tally>>

\* A pair or a snapshot is handed on.
Deliver ==
  /\ \/ watcher = "micro" /\ work.result # Nothing
     \/ Complete /\ watcher = "dual" /\ work.site = "bybit"
     \/ Complete /\ watcher = "scanner"
  /\ work' = Resting
  /\ UNCHANGED <<published, funds, keyed, hour, altered, watcher, begun, memo, tally>>

\* The exchanges, the operator and the clock.
Alter ==
  /\ altered < MaxAlterations /\ altered' = altered + 1
  /\ \/ \E x \in ReadSites, i \in Instruments :
          published' = [published EXCEPT ![x].instrument = i] /\ UNCHANGED <<funds, keyed>>
     \/ \E x \in ReadSites, r \in FeeRates :
          published' = [published EXCEPT ![x].fee = r] /\ UNCHANGED <<funds, keyed>>
     \/ \E u \in AccountUsdt : funds' = u /\ UNCHANGED <<published, keyed>>
     \/ keyed' = ~keyed /\ UNCHANGED <<published, funds>>
  /\ UNCHANGED <<hour, watcher, begun, memo, work, tally>>

HourPasses ==
  /\ hour < LatestTime /\ hour' = hour + 1
  /\ UNCHANGED <<published, funds, keyed, altered, watcher, begun, memo, work, tally>>

ReadsInit ==
  /\ \E i \in Instruments \ {Nothing}, r \in FeeRates :
        published = [x \in ReadSites |-> [instrument |-> i, fee |-> r]]
  /\ funds \in AccountUsdt /\ keyed \in BOOLEAN /\ hour = 0 /\ altered = 0
  /\ watcher \in Observers /\ begun = 0
  /\ memo = [s \in ReadSites \X {"account", "rules", "fee"} |-> Absent]
  /\ work = Resting /\ tally = [b \in Buckets |-> 0]

ReadsNext ==
  \/ \E x \in ReadSites, side \in {"buy", "sell"}, w \in Wanted : Observe(x, side, w)
  \/ \E k \in {"account", "rules", "fee"} : UseCached(k)
  \/ ReadRules \/ RulesMissing \/ ReadFee \/ ReadAccount \/ ReadBook
  \/ QuoteMicro \/ SecondLeg \/ Deliver \/ Alter \/ HourPasses

ReadsSpec == ReadsInit /\ [][ReadsNext]_readsVars

-----------------------------------------------------------------------------
(* Properties.                                                             *)

\* Whatever failed in between, what an observation goes by was answered by
\* the exchange less than its time to live before the observation began.
ReadIsFresh ==
  \A k \in {"account", "rules", "fee"} :
     work.got[k].filled => work.at - work.got[k].read < TtlOf(k)

=============================================================================
