----------------------------- MODULE OrderClients -----------------------------
(***************************************************************************)
(* One market order as the trade clients of the three exchanges            *)
(* (app/execution/{binance,bybit,okx}_live_trade_client.py) place and      *)
(* report it, and as LiveArbitrageExecutor polls it: _place_market_buy,    *)
(* _get_status and _await_terminal.  The exchange executes the order trade *)
(* by trade, may list a trade later than the status that counts it         *)
(* (Binance), and may stop listing an order that is finished (Bybit).      *)
(* Quantities are natural numbers; a trade pays one unit of one asset.     *)
(***************************************************************************)
EXTENDS Integers, Sequences, FiniteSets, Functions

CONSTANTS
  OrderQty,    \* the quantity of the base asset asked for
  TradeQtys,   \* bound: what one trade may execute
  MaxPolls,    \* bound: the polls before the deadline
  Price,       \* of the base asset in the quote asset
  Null

ASSUME OrderAssumption ==
  /\ OrderQty \in Nat \ {0} /\ Price \in Nat \ {0} /\ MaxPolls \in Nat
  /\ TradeQtys \subseteq Nat \ {0}

OrderVenues == {"binance", "bybit", "okx"}
FeeAssets == {"base", "quote", "promo"}
LiveStates == {"new", "partial"}
EndStates  == {"filled", "cancelled", "partialCancelled", "rejected", "expired"}

VARIABLES
  site,      \* the exchange of the order
  exchange,  \* its side of the order: id, state, trades, how many trades it lists
  caller,    \* the executor: what placing did, what it waits for, polls made
  report     \* the last normalized status, or Null

orderVars == <<site, exchange, caller, report>>

-----------------------------------------------------------------------------
(* What an exchange says of an order, and what its client makes of it.     *)

\* Each exchange has words of its own: Binance and OKX have one word for a
\* cancellation, filled in part or not.
Says(v, s) ==
  CASE v = "binance" /\ s = "filled" -> "FILLED"
    [] v = "binance" /\ s \in {"cancelled", "partialCancelled"} -> "CANCELED"
    [] v = "binance" /\ s = "rejected" -> "REJECTED"
    [] v = "binance" /\ s = "expired" -> "EXPIRED"
    [] v = "binance" /\ s = "partial" -> "PARTIALLY_FILLED"
    [] v = "bybit" /\ s = "filled" -> "Filled"
    [] v = "bybit" /\ s \in {"cancelled", "expired"} -> "Cancelled"
    [] v = "bybit" /\ s = "partialCancelled" -> "PartiallyFilledCanceled"
    [] v = "bybit" /\ s = "rejected" -> "Rejected"
    [] v = "bybit" /\ s = "partial" -> "PartiallyFilled"
    [] v = "okx" /\ s = "filled" -> "filled"
    [] v = "okx" /\ s \in EndStates \ {"filled"} -> "canceled"
    [] OTHER -> "open"

\* is_terminal of the three status classes.
BinanceTerminal == {"FILLED", "CANCELED", "REJECTED", "EXPIRED"}
BybitTerminal == {"Filled", "Cancelled", "Rejected", "PartiallyFilledCanceled", "Deactivated"}
OkxTerminal == {"filled", "canceled"}
TerminalWords == [binance |-> BinanceTerminal, bybit |-> BybitTerminal, okx |-> OkxTerminal]

\* mutant: a status that counts an execution is taken for final
IsTerminalOnceExecuted(v, word) ==
  word \in TerminalWords[v] \cup {"PARTIALLY_FILLED", "PartiallyFilled"}

IsTerminal(v, word) == word \in TerminalWords[v]

Total(trades) == SumFunction([i \in DOMAIN trades |-> trades[i].qty])

\* aggregate_binance_trades, cumFeeDetail: what was paid in each asset.
FeesByAsset(trades) ==
  [a \in FeeAssets |-> Cardinality({i \in DOMAIN trades : trades[i].asset = a})]

\* resolve_fee: a fee in several assets has no amount and no price.
ResolveFee(fees) ==
  LET nonzero == {a \in FeeAssets : fees[a] > 0}
  IN  IF nonzero = {} THEN [asset |-> Null, amount |-> 0, usd |-> 0]
      ELSE IF Cardinality(nonzero) > 1 THEN [asset |-> Null, amount |-> 0, usd |-> Null]
      ELSE LET a == CHOOSE x \in nonzero : TRUE
           IN  [asset |-> a, amount |-> fees[a],
                usd |-> CASE a = "quote" -> fees[a]
                          [] a = "base"  -> fees[a] * Price
                          [] OTHER       -> Null]

NetBaseQtyAfterFee(gross, fee) ==
  IF fee.asset # "base" THEN gross
  ELSE IF fee.amount > gross THEN 0 ELSE gross - fee.amount

\* _NormalizedOrderStatus of gross units paid for by these trades.
\* complete: observer, every trade of the order was among them.
Normalized(v, word, gross, trades, complete) ==
  LET fee == ResolveFee(FeesByAsset(trades))
  IN  [terminal |-> IsTerminal(v, word), filled |-> gross,
       net |-> NetBaseQtyAfterFee(gross, fee), usd |-> fee.usd, complete |-> complete]

-----------------------------------------------------------------------------
(* Placing it.                                                             *)

\* OKX takes letters and digits only: an id with a hyphen is refused.
ToOkxClientOrderId(id) == [id EXCEPT !.hyphen = FALSE]
ClientOrderId(v) ==
  LET id == [hyphen |-> TRUE] IN IF v = "okx" THEN ToOkxClientOrderId(id) ELSE id
AcceptsId(v, id) == v = "okx" => ~id.hyphen

\* The exchange accepts the order or not; the call returns or raises.  It
\* raises when the answer is lost, accepted or not.
Placed(accepted, raised) ==
  /\ caller.waits = "place"
  /\ caller' = [caller EXCEPT !.waits = "poll", !.raised = raised]
  /\ accepted => AcceptsId(site, ClientOrderId(site))
  /\ exchange' = IF accepted THEN [exchange EXCEPT !.id = ClientOrderId(site), !.state = "new"]
                 ELSE exchange
  /\ UNCHANGED <<site, report>>

\* raise_for_status
PlaceOnBinance ==
  /\ site = "binance"
  /\ \E accepted, raised \in BOOLEAN : (accepted \/ raised) /\ Placed(accepted, raised)

\* a retCode other than 0 is raised
PlaceOnBybit ==
  /\ site = "bybit"
  /\ \E accepted, raised \in BOOLEAN : (accepted \/ raised) /\ Placed(accepted, raised)

\* a refusal (sCode) is a field of the acknowledgement nobody reads
PlaceOnOkx ==
  /\ site = "okx"
  /\ \E accepted, raised \in BOOLEAN : Placed(accepted, raised)

-----------------------------------------------------------------------------
(* The exchange.                                                           *)

Alive == exchange.state \in LiveStates
Executed == Total(exchange.trades)
Word == Says(site, exchange.state)

\* Binance may pay a later trade in another asset, when the discount token
\* runs out; OKX and Bybit name one asset for an order.
Execute(qty, asset) ==
  /\ Alive /\ Executed + qty <= OrderQty
  /\ (site # "binance" /\ exchange.trades # <<>>) => asset = exchange.trades[1].asset
  /\ exchange' = [exchange EXCEPT
       !.trades = Append(@, [qty |-> qty, asset |-> asset]),
       !.state  = IF Executed + qty = OrderQty THEN "filled" ELSE "partial"]
  /\ UNCHANGED <<site, caller, report>>

\* The book is exhausted, or the order is refused after the acknowledgement.
Finish ==
  /\ Alive
  /\ \E s \in IF exchange.trades = <<>> THEN {"cancelled", "rejected", "expired"}
              ELSE {"partialCancelled", "expired"} :
        exchange' = [exchange EXCEPT !.state = s]
  /\ UNCHANGED <<site, caller, report>>

ListTrade ==
  /\ site = "binance" /\ exchange.listed < Len(exchange.trades)
  /\ exchange' = [exchange EXCEPT !.listed = @ + 1]
  /\ UNCHANGED <<site, caller, report>>

RollOff ==
  /\ site = "bybit" /\ exchange.state \in EndStates /\ ~exchange.rolled
  /\ exchange' = [exchange EXCEPT !.rolled = TRUE]
  /\ UNCHANGED <<site, caller, report>>

Known == exchange.state # "none" /\ exchange.id = ClientOrderId(site) /\ ~exchange.rolled

-----------------------------------------------------------------------------
(* _await_terminal over _get_status.                                       *)

\* A poll is answered: a terminal answer ends the wait, another is kept as
\* the last result and the poll repeated.
Answered(r) ==
  /\ report' = r
  /\ caller' = [caller EXCEPT !.polls = @ + 1,
                              !.waits = IF r # Null /\ r.terminal THEN "done" ELSE "poll"]
  /\ UNCHANGED <<site, exchange>>

Polls(v) == site = v /\ caller.waits = "poll" /\ caller.polls < MaxPolls /\ Known

\* Binance, while the order is open or when it ended with nothing executed:
\* the status has no fee to report.
PollOpenOnBinance ==
  /\ Polls("binance")
  /\ ~IsTerminal(site, Word) \/ Executed = 0
  /\ Answered(Normalized(site, Word, Executed, <<>>, exchange.trades = <<>>))

PollOnBybit == Polls("bybit") /\ Answered(Normalized(site, Word, Executed, exchange.trades, TRUE))
PollOnOkx   == Polls("okx") /\ Answered(Normalized(site, Word, Executed, exchange.trades, TRUE))

\* Binance: the status says the order is over; its trades are asked for next.
PollOrder ==
  /\ Polls("binance") /\ IsTerminal(site, Word) /\ Executed > 0
  /\ caller' = [caller EXCEPT !.waits = "trades", !.word = Word, !.executed = Executed]
  /\ UNCHANGED <<site, exchange, report>>

PollTrades ==
  /\ caller.waits = "trades"
  /\ LET trades == SubSeq(exchange.trades, 1, exchange.listed)
     IN  Answered(Normalized(site, caller.word,
                             IF trades # <<>> THEN Total(trades) ELSE caller.executed,
                             trades, exchange.listed = Len(exchange.trades)))

\* A poll raises, as it does when Binance knows no such order, or finds
\* nothing: the last result is forgotten.
PollFails ==
  /\ caller.waits \in {"poll", "trades"} /\ caller.polls < MaxPolls
  /\ Answered(Null)

\* LEG_CONFIRMATION_TIMEOUT_SECONDS are over.
Deadline ==
  /\ caller.waits = "poll"
  /\ caller' = [caller EXCEPT !.waits = "timeout"]
  /\ UNCHANGED <<site, exchange, report>>

OrderInit ==
  /\ site \in OrderVenues
  /\ exchange = [id |-> Null, state |-> "none", trades |-> <<>>, listed |-> 0, rolled |-> FALSE]
  /\ caller = [waits |-> "place", raised |-> FALSE, polls |-> 0, word |-> "open", executed |-> 0]
  /\ report = Null

OrderNext ==
  \/ PlaceOnBinance \/ PlaceOnBybit \/ PlaceOnOkx
  \/ \E q \in TradeQtys, a \in FeeAssets : Execute(q, a)
  \/ Finish \/ ListTrade \/ RollOff
  \/ PollOpenOnBinance \/ PollOnBybit \/ PollOnOkx \/ PollOrder \/ PollTrades \/ PollFails \/ Deadline

OrderSpec == OrderInit /\ [][OrderNext]_orderVars

-----------------------------------------------------------------------------
(* Properties.                                                             *)

\* What the executor trades on: once the wait ends with a terminal report
\* whose fee has a price, the quantity it names is all the order ever
\* executes, and the net quantity is what the account gained.  It needs the
\* trades to be listed when they are asked for, which Binance does not owe.
PricedReportIsExact ==
  (caller.waits = "done" /\ report.usd # Null /\ report.complete) =>
     /\ report.filled = Executed
     /\ report.net = Executed - FeesByAsset(exchange.trades)["base"]
=============================================================================
