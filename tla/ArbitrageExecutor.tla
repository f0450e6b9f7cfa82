-------------------------- MODULE ArbitrageExecutor --------------------------
(***************************************************************************)
(* app/execution/live_arbitrage_executor.py with the guard of              *)
(* app/execution/live_guard.py: concurrent calls of execute_one_arbitrage, *)
(* each a coroutine that may be suspended at every await, against          *)
(* exchanges that fill, partly fill, reject, lose or answer too late.      *)
(*                                                                         *)
(* pc[a] names the await the attempt is suspended at; one action is the    *)
(* code between two awaits.  The market's prices and depths are abstracted *)
(* to their verdict (executable and profitable, or not); quantities of the *)
(* base asset are natural numbers of a unit finer than the lot steps.      *)
(***************************************************************************)
EXTENDS Integers, FiniteSets

CONSTANTS
  Attempts,            \* calls of execute_one_arbitrage, one element per call
  Exchanges,           \* EXCHANGES
  Symbols,
  Requests,            \* the (symbol, buy, sell, notional) calls that are made
  Step, MinQty,        \* lot step and minimum quantity of each exchange
  InitialBalance,      \* base asset held on each exchange at the start
  QuoteQtys,           \* bound: the quantities a quote may be executable for
  Fees,                \* base-asset fees a buy fill may be charged
  ListsTrades,         \* exchanges whose fills are counted from a list of trades (Binance)
  LiveTradingEnabled, SymbolAllowlist, AllowedDirections,
  MaxNotionalPerLeg, MaxConcurrent        \* the settings of the guard

ASSUME ExecutorAssumption ==
  /\ IsFiniteSet(Attempts)
  /\ Requests \subseteq [symbol : Symbols, buy : Exchanges, sell : Exchanges, notional : Int]
  /\ \A r \in Requests : r.buy # r.sell
  /\ Step \in [Exchanges -> Nat \ {0}]
  /\ MinQty \in [Exchanges -> Nat \ {0}]
  /\ InitialBalance \in Nat
  /\ QuoteQtys \subseteq Nat \ {0}
  /\ Fees \subseteq Nat
  /\ ListsTrades \subseteq Exchanges
  /\ LiveTradingEnabled \in BOOLEAN
  /\ MaxNotionalPerLeg \in Nat
  /\ MaxConcurrent \in Nat

VARIABLES
  killSwitch, inFlight,  \* live_guard
  req,                   \* the arguments of each call
  pc, loc,               \* where each call is suspended, its local variables
  outcome,               \* the result it returned, or "none"
  order, balance,        \* the exchanges: the orders sent to them, the base asset held
  reviewed               \* observer: attempts ended critical when an operator disengaged

guardVars    == <<killSwitch, inFlight>>
exchangeVars == <<order, balance>>
vars == <<killSwitch, inFlight, req, pc, loc, outcome, order, balance, reviewed>>

Legs == {"buy", "sell", "neu"}   \* the client order ids buy-, sell- and neu-<attempt>

Suspended == {"quote", "size", "buy", "sellBalance", "sellLeg", "sell",
              "residual", "neuBalance", "neuSize", "neu"}
PCs == {"idle", "ended", "raised"} \cup Suspended

CriticalOutcomes == {"NEUTRALIZATION_FAILED", "UNKNOWN_BUY_LEG", "UNKNOWN_SELL_LEG"}
ArbitrageOutcome == {"NO_TRADE_REFUSED", "NO_TRADE_UNPROFITABLE", "NO_FILL",
                     "BOTH_FILLED", "BUY_ONLY_NEUTRALIZED"} \cup CriticalOutcomes

\* st: "done" is a terminal status the exchange reports; an order that is
\* rejected or never arrives stays "sent", polling its id never ends.
Order   == [st : {"none", "sent", "done"}, qty : Nat, filled : Nat, fee : Nat]
NoOrder == [st |-> "none", qty |-> 0, filled |-> 0, fee |-> 0]
Sent(q) == [st |-> "sent", qty |-> q, filled |-> 0, fee |-> 0]

\* qty: the quantity the attempt is working on (quote.executable_qty, then
\* common_qty, final_sell_qty_raw, the quantity to neutralize).  net:
\* buy_status.net_base_qty.  neuFor: which call of _neutralize is running.
\* bought: buy_filled_qty as the exchange confirmed it, 0 before.  sold:
\* sell_filled_qty, once it leaves a residual.  Both stay in the result, as
\* ambiguousSell does in its reason.
Locals == [qty : Nat, net : Nat, neuFor : {"position", "residual"},
           bought : Nat, sold : Nat, ambiguousSell : BOOLEAN]
NoLocals == [qty |-> 0, net |-> 0, neuFor |-> "position",
             bought |-> 0, sold |-> 0, ambiguousSell |-> FALSE]

Min2(x, y) == IF x <= y THEN x ELSE y
Max2(x, y) == IF x >= y THEN x ELSE y

RoundDown(q, step) == IF step <= 0 THEN q ELSE q - (q % step)

BuyEx(a)  == req[a].buy
SellEx(a) == req[a].sell
Where(a, l) == IF l = "sell" THEN SellEx(a) ELSE BuyEx(a)
Available(a, ex) == balance[req[a].symbol][ex]   \* _get_available_base_balance

Running(a) == pc[a] \in Suspended

-----------------------------------------------------------------------------
(* The guard                                                               *)

\* mutant: one call too many
ArbitrageAllowedOffByOne(r) ==
  /\ ~killSwitch
  /\ LiveTradingEnabled
  /\ inFlight <= MaxConcurrent

ArbitrageAllowed(r) ==
  /\ ~killSwitch
  /\ LiveTradingEnabled
  /\ SymbolAllowlist # {} => r.symbol \in SymbolAllowlist
  /\ AllowedDirections # {} => <<r.buy, r.sell>> \in AllowedDirections
  /\ r.notional > 0
  /\ r.notional <= MaxNotionalPerLeg
  /\ inFlight < MaxConcurrent

RegisterEnd == inFlight' = Max2(0, inFlight - 1)

OperatorEngages ==
  /\ ~killSwitch
  /\ killSwitch' = TRUE
  /\ UNCHANGED <<inFlight, req, pc, loc, outcome, exchangeVars, reviewed>>

OperatorDisengages ==
  /\ killSwitch
  /\ killSwitch' = FALSE
  /\ reviewed' = reviewed \cup {a \in Attempts : outcome[a] \in CriticalOutcomes}
  /\ UNCHANGED <<inFlight, req, pc, loc, outcome, exchangeVars>>

-----------------------------------------------------------------------------
(* How an attempt moves on, returns its result, or lets an exception out   *)
(* of its try/finally.                                                     *)

Goto(a, p) ==
  /\ pc' = [pc EXCEPT ![a] = p]
  /\ UNCHANGED <<guardVars, outcome>>

\* the locals die with the coroutine; what the result says stays
DropLocals(a) ==
  loc' = [loc EXCEPT ![a] = [loc[a] EXCEPT !.qty = 0, !.net = 0, !.neuFor = "position"]]

Return(a, o) ==
  /\ pc' = [pc EXCEPT ![a] = "ended"]
  /\ outcome' = [outcome EXCEPT ![a] = o]
  /\ DropLocals(a)
  /\ RegisterEnd

ReturnClean(a, o)    == Return(a, o) /\ UNCHANGED killSwitch
ReturnCritical(a, o) == Return(a, o) /\ killSwitch' = TRUE

SetQty(a, q) == loc' = [loc EXCEPT ![a].qty = q]

Submit(a, l, q) ==
  /\ order' = [order EXCEPT ![a][l] = Sent(q)]
  /\ UNCHANGED balance

\* The awaits between the quote and the final status that no try protects:
\* balance, lot-step and order-book reads.
Unprotected == {"size", "sellBalance", "sellLeg", "residual", "neuBalance", "neuSize"}

\* mutant: no finally, the slot of a call that raises is never released
ReadRaisesKeepsSlot(a) ==
  /\ pc[a] \in Unprotected
  /\ pc' = [pc EXCEPT ![a] = "raised"]
  /\ DropLocals(a)
  /\ UNCHANGED <<guardVars, req, outcome, exchangeVars, reviewed>>

ReadRaises(a) ==
  /\ pc[a] \in Unprotected
  /\ pc' = [pc EXCEPT ![a] = "raised"]
  /\ DropLocals(a)
  /\ RegisterEnd
  /\ UNCHANGED <<killSwitch, req, outcome, exchangeVars, reviewed>>

-----------------------------------------------------------------------------
(* execute_one_arbitrage, up to the buy                                    *)

Refuse(a) ==
  /\ pc[a] = "idle"
  /\ ~ArbitrageAllowed(req[a])
  /\ pc' = [pc EXCEPT ![a] = "ended"]
  /\ outcome' = [outcome EXCEPT ![a] = "NO_TRADE_REFUSED"]
  /\ UNCHANGED <<guardVars, req, loc, exchangeVars, reviewed>>

Begin(a) ==
  /\ pc[a] = "idle"
  /\ ArbitrageAllowed(req[a])
  /\ inFlight' = inFlight + 1
  /\ pc' = [pc EXCEPT ![a] = "quote"]
  /\ UNCHANGED <<killSwitch, req, loc, outcome, exchangeVars, reviewed>>

\* _fresh_dual_leg_quote returned None, or a quote not executable or without profit
QuoteRejected(a) ==
  /\ pc[a] = "quote"
  /\ ReturnClean(a, "NO_TRADE_UNPROFITABLE")
  /\ UNCHANGED <<req, exchangeVars, reviewed>>

QuoteAccepted(a) ==
  /\ pc[a] = "quote"
  /\ \E q \in QuoteQtys : SetQty(a, q)
  /\ Goto(a, "size")
  /\ UNCHANGED <<req, exchangeVars, reviewed>>

CommonQty(a) ==
  RoundDown(Min2(loc[a].qty, Available(a, SellEx(a))),
            Max2(Step[BuyEx(a)], Step[SellEx(a)]))

\* sized_quote.executable_qty, when the dollar size buys q of the base asset
SizedQty(a, q) == Min2(RoundDown(q, Step[BuyEx(a)]), RoundDown(q, Step[SellEx(a)]))

Tradable(a, q) == q >= MinQty[BuyEx(a)] /\ q >= MinQty[SellEx(a)]

\* common_qty below a minimum, or not net-positive at that size
SizeRejected(a) ==
  /\ pc[a] = "size"
  /\ ReturnClean(a, "NO_TRADE_UNPROFITABLE")
  /\ UNCHANGED <<req, exchangeVars, reviewed>>

SubmitBuy(a) ==
  /\ pc[a] = "size"
  /\ Tradable(a, CommonQty(a))
  /\ \E q \in 1..CommonQty(a) :
       /\ Tradable(a, SizedQty(a, q))
       /\ Submit(a, "buy", SizedQty(a, q))
  /\ SetQty(a, CommonQty(a))
  /\ Goto(a, "buy")
  /\ UNCHANGED <<req, reviewed>>

-----------------------------------------------------------------------------
(* The buy leg's confirmation                                              *)

\* mutant: an unconfirmed buy is reported, the kill switch forgotten
BuyUnknownWithoutKill(a) ==
  /\ pc[a] = "buy"
  /\ ReturnClean(a, "UNKNOWN_BUY_LEG")
  /\ UNCHANGED <<req, exchangeVars, reviewed>>

\* mutant: polling without a deadline
BuyWaitsForever(a) == FALSE

\* the submission raised, or no terminal status within the timeout
BuyUnknown(a) ==
  /\ pc[a] = "buy"
  /\ ReturnCritical(a, "UNKNOWN_BUY_LEG")
  /\ UNCHANGED <<req, exchangeVars, reviewed>>

BuyZeroFill(a) ==
  /\ pc[a] = "buy"
  /\ order[a]["buy"].st = "done"
  /\ order[a]["buy"].filled = 0
  /\ ReturnClean(a, "NO_FILL")
  /\ UNCHANGED <<req, exchangeVars, reviewed>>

\* mutant: not floored at zero
NetOfUnfloored(o) == o.filled - o.fee

NetOf(o) == Max2(0, o.filled - o.fee)   \* net_base_qty_after_fee

\* What _get_status makes of a finished order that filled: the exchange's own
\* total, with its fee or (nothing listed yet, several fee assets) without; on
\* an exchange that lists trades, any part of the fill and of its fee, since
\* the trades listed so far are summed.
Confirmed(a, l) ==
  LET o  == order[a][l]
      ex == Where(a, l) IN
  {[filled |-> o.filled, fee |-> f] : f \in {0, o.fee}}
    \cup {c \in [filled : 1 .. o.filled - 1, fee : 0 .. o.fee] :
            ex \in ListsTrades /\ RoundDown(c.filled, Step[ex]) = c.filled}

BuyFilled(a) ==
  /\ pc[a] = "buy"
  /\ order[a]["buy"].st = "done"
  /\ order[a]["buy"].filled > 0
  /\ \E c \in Confirmed(a, "buy") :
       loc' = [loc EXCEPT ![a].bought = c.filled, ![a].net = NetOf(c)]
  /\ Goto(a, "sellBalance")
  /\ UNCHANGED <<req, exchangeVars, reviewed>>

-----------------------------------------------------------------------------
(* The sell leg                                                            *)

\* mutant: the sell leg is sized from common_qty, not from what the buy brought
ReadSellBalanceIgnoresFill(a) ==
  /\ pc[a] = "sellBalance"
  /\ SetQty(a, Min2(Available(a, SellEx(a)), loc[a].qty))
  /\ Goto(a, "sellLeg")
  /\ UNCHANGED <<req, exchangeVars, reviewed>>

ReadSellBalance(a) ==
  /\ pc[a] = "sellBalance"
  /\ SetQty(a, Min2(Min2(loc[a].net, Available(a, SellEx(a))), loc[a].qty))
  /\ Goto(a, "sellLeg")
  /\ UNCHANGED <<req, exchangeVars, reviewed>>

NeutralizePosition(a, ambiguous) ==
  /\ loc' = [loc EXCEPT ![a] = [loc[a] EXCEPT !.qty = loc[a].net, !.neuFor = "position",
                                              !.ambiguousSell = ambiguous]]
  /\ Goto(a, "neuBalance")
  /\ UNCHANGED <<req, exchangeVars, reviewed>>

\* quantity too small, no rules, no book, not tradable, or no longer positive
SellNotViable(a) ==
  /\ pc[a] = "sellLeg"
  /\ NeutralizePosition(a, FALSE)

SellQty(a) == RoundDown(loc[a].qty, Step[SellEx(a)])

SubmitSell(a) ==
  /\ pc[a] = "sellLeg"
  /\ SellQty(a) >= MinQty[SellEx(a)]
  /\ Submit(a, "sell", SellQty(a))
  /\ Goto(a, "sell")
  /\ UNCHANGED <<req, loc, reviewed>>

SellSubmissionRaises(a) ==
  /\ pc[a] = "sell"
  /\ NeutralizePosition(a, TRUE)

SellUnknown(a) ==
  /\ pc[a] = "sell"
  /\ ReturnCritical(a, "UNKNOWN_SELL_LEG")
  /\ UNCHANGED <<req, exchangeVars, reviewed>>

SellZeroFill(a) ==
  /\ pc[a] = "sell"
  /\ order[a]["sell"].st = "done"
  /\ order[a]["sell"].filled = 0
  /\ NeutralizePosition(a, FALSE)

Residual(a, sold) == loc[a].net - sold   \* raw_residual_qty

SellFilled(a) ==
  /\ pc[a] = "sell"
  /\ order[a]["sell"].st = "done"
  /\ order[a]["sell"].filled > 0
  /\ \E c \in Confirmed(a, "sell") :
       IF Residual(a, c.filled) > 0
       THEN Goto(a, "residual") /\ loc' = [loc EXCEPT ![a].sold = c.filled]
       ELSE ReturnClean(a, "BOTH_FILLED")
  /\ UNCHANGED <<req, exchangeVars, reviewed>>

\* no lot step, below the minimum, or worth a cent or less
ResidualIsDust(a) ==
  /\ pc[a] = "residual"
  /\ ReturnClean(a, "BOTH_FILLED")
  /\ UNCHANGED <<req, exchangeVars, reviewed>>

NeutralizeResidual(a) ==
  LET residual == RoundDown(Residual(a, loc[a].sold), Step[BuyEx(a)]) IN
  /\ pc[a] = "residual"
  /\ residual >= MinQty[BuyEx(a)]
  /\ loc' = [loc EXCEPT ![a].qty = residual, ![a].neuFor = "residual"]
  /\ Goto(a, "neuBalance")
  /\ UNCHANGED <<req, exchangeVars, reviewed>>

-----------------------------------------------------------------------------
(* _neutralize                                                             *)

NeuReadBalance(a) ==
  /\ pc[a] = "neuBalance"
  /\ SetQty(a, Min2(loc[a].qty, Available(a, BuyEx(a))))
  /\ Goto(a, "neuSize")
  /\ UNCHANGED <<req, exchangeVars, reviewed>>

\* one lot step of reserve; step 0 stands for an exchange whose rules are not available
SafeQty(q, step) ==
  LET rounded == RoundDown(q, step)
  IN  IF step > 0 /\ rounded > step THEN rounded - step ELSE rounded

LotSteps(a) == {0, Step[BuyEx(a)]}

\* What the caller makes of _neutralize's result: for a residual, nothing.
NeutralizeReturns(a, isFilled) ==
  IF loc[a].neuFor = "residual" THEN ReturnClean(a, "BOTH_FILLED")
  ELSE IF isFilled THEN ReturnClean(a, "BUY_ONLY_NEUTRALIZED")
  ELSE ReturnCritical(a, "NEUTRALIZATION_FAILED")

NeuSkipped(a) ==
  /\ pc[a] = "neuSize"
  /\ \E step \in LotSteps(a) : SafeQty(loc[a].qty, step) <= 0
  /\ NeutralizeReturns(a, FALSE)
  /\ UNCHANGED <<req, exchangeVars, reviewed>>

SubmitNeutralization(a) ==
  /\ pc[a] = "neuSize"
  /\ \E step \in LotSteps(a) :
       /\ SafeQty(loc[a].qty, step) > 0
       /\ Submit(a, "neu", SafeQty(loc[a].qty, step))
  /\ Goto(a, "neu")
  /\ UNCHANGED <<req, loc, reviewed>>

\* mutant: any terminal status counts as filled
NeuTerminalIsFilled(a) ==
  /\ pc[a] = "neu"
  /\ order[a]["neu"].st = "done"
  /\ NeutralizeReturns(a, TRUE)
  /\ UNCHANGED <<req, exchangeVars, reviewed>>

NeuFilled(a) ==
  /\ pc[a] = "neu"
  /\ order[a]["neu"].st = "done"
  /\ order[a]["neu"].filled = order[a]["neu"].qty
  /\ NeutralizeReturns(a, TRUE)
  /\ UNCHANGED <<req, exchangeVars, reviewed>>

\* submission raised, timed out, or terminal without being FILLED
NeuUnconfirmed(a) ==
  /\ pc[a] = "neu"
  /\ NeutralizeReturns(a, FALSE)
  /\ UNCHANGED <<req, exchangeVars, reviewed>>

-----------------------------------------------------------------------------
(* The exchanges (external): an order sent is matched at some moment,      *)
(* wholly, partly or not at all, or never.  One that is not a multiple of  *)
(* the lot step, or sells more than is held, is never matched.             *)

Match(a, l) ==
  LET o    == order[a][l]
      ex   == Where(a, l)
      held == Available(a, ex)
  IN
  /\ o.st = "sent"
  /\ RoundDown(o.qty, Step[ex]) = o.qty
  /\ l # "buy" => o.qty <= held
  /\ \E filled \in 0..o.qty, fee \in (IF l = "buy" THEN Fees ELSE {0}) :
       /\ RoundDown(filled, Step[ex]) = filled
       /\ filled = 0 => fee = 0
       /\ LET done == [o EXCEPT !.st = "done", !.filled = filled, !.fee = fee] IN
          /\ order' = [order EXCEPT ![a][l] = done]
          /\ balance' = [balance EXCEPT ![req[a].symbol][ex] =
                           IF l = "buy" THEN @ + NetOf(done) ELSE @ - filled]
  /\ UNCHANGED <<guardVars, req, pc, loc, outcome, reviewed>>

-----------------------------------------------------------------------------

Init ==
  /\ killSwitch = FALSE
  /\ inFlight = 0
  /\ req \in [Attempts -> Requests]
  /\ pc = [a \in Attempts |-> "idle"]
  /\ loc = [a \in Attempts |-> NoLocals]
  /\ outcome = [a \in Attempts |-> "none"]
  /\ order = [a \in Attempts |-> [l \in Legs |-> NoOrder]]
  /\ balance = [s \in Symbols |-> [ex \in Exchanges |-> InitialBalance]]
  /\ reviewed = {}

\* what a call does once it has been admitted
Advance(a) ==
  \/ ReadRaises(a)
  \/ QuoteRejected(a) \/ QuoteAccepted(a) \/ SizeRejected(a) \/ SubmitBuy(a)
  \/ BuyUnknown(a) \/ BuyZeroFill(a) \/ BuyFilled(a)
  \/ ReadSellBalance(a) \/ SellNotViable(a) \/ SubmitSell(a)
  \/ SellSubmissionRaises(a) \/ SellUnknown(a) \/ SellZeroFill(a) \/ SellFilled(a)
  \/ ResidualIsDust(a) \/ NeutralizeResidual(a)
  \/ NeuReadBalance(a) \/ NeuSkipped(a) \/ SubmitNeutralization(a)
  \/ NeuFilled(a) \/ NeuUnconfirmed(a)

Next ==
  \/ OperatorEngages
  \/ OperatorDisengages
  \/ \E a \in Attempts : Refuse(a) \/ Begin(a) \/ Advance(a)
  \/ \E a \in Attempts, l \in Legs : Match(a, l)

Spec == Init /\ [][Next]_vars

-----------------------------------------------------------------------------
(* Properties                                                              *)

TypeOK ==
  /\ killSwitch \in BOOLEAN
  /\ inFlight \in Nat
  /\ req \in [Attempts -> Requests]
  /\ pc \in [Attempts -> PCs]
  /\ loc \in [Attempts -> Locals]
  /\ outcome \in [Attempts -> ArbitrageOutcome \cup {"none"}]
  /\ order \in [Attempts -> [Legs -> Order]]
  /\ balance \in [Symbols -> [Exchanges -> Nat]]
  /\ reviewed \subseteq Attempts

(* The guard's in-flight counter is exactly the number of calls between    *)
(* their admission and their end, on every way out: a return, or an        *)
(* exception through the try/finally.                                      *)
SlotsCountRunningCalls ==
  inFlight = Cardinality({a \in Attempts : Running(a)})

(* The guard's promise, as GuardedAttempts states it: bounded concurrency, *)
(* every critical end engages the kill switch in the same step, and only   *)
(* an operator releases it.                                                *)
Phase(a) ==
  CASE pc[a] = "idle"   -> "idle"
    [] pc[a] = "raised" -> "raised"
    [] Running(a)       -> "running"
    [] OTHER            -> IF outcome[a] = "NO_TRADE_REFUSED" THEN "refused"
                           ELSE IF outcome[a] \in CriticalOutcomes THEN "critical"
                           ELSE "clean"

Guarded == INSTANCE GuardedAttempts
             WITH phase <- [a \in Attempts |-> Phase(a)],
                  kill <- killSwitch

RefinesGuardedAttempts == Guarded!Spec

(* What the trade list of a confirmed leg left out of its fill.             *)
UnlistedBuy(a)  == IF loc[a].bought = 0 THEN 0 ELSE order[a]["buy"].filled - loc[a].bought
UnlistedSell(a) == IF loc[a].sold = 0 THEN 0 ELSE order[a]["sell"].filled - loc[a].sold

(* Across its sell leg and its neutralization an attempt never sells more  *)
(* than its own buy leg brought, however the exchanges answer and however  *)
(* late, except for sales its sell exchange had not listed when it         *)
(* confirmed the sell leg: those are sold again as a residual, and nothing *)
(* beyond them.  A sell whose submission raised is recorded in the         *)
(* result's reason and left out.                                           *)
NeverOversold ==
  \A a \in Attempts :
    ~loc[a].ambiguousSell =>
      order[a]["sell"].filled + order[a]["neu"].filled
        <= order[a]["buy"].filled + UnlistedSell(a)

(* What the attempt still holds of what it bought.                         *)
Exposure(a) ==
  NetOf(order[a]["buy"]) - order[a]["sell"].filled - order[a]["neu"].filled

\* The last case: a residual's order may be open when its call ends, and fill
\* later, since what _neutralize returns for a residual is not looked at.
LeftTheMarketUnknown(a) ==
  \/ outcome[a] \in CriticalOutcomes
  \/ pc[a] = "raised"
  \/ loc[a].ambiguousSell
  \/ outcome[a] = "BOTH_FILLED" /\ order[a]["neu"].st # "none"

(* A position reported as neutralized is flat: what is left of it is less  *)
(* than two lot steps (the rounding and the one step of reserve) and the   *)
(* purchases the buy exchange had not listed when it confirmed the leg,    *)
(* and no more than a fee it had not reported is sold short; as long as    *)
(* no attempt has left the exchanges in a state the program does not know. *)
(* It needs the calls not to overlap: MaxConcurrent = 1.                   *)
NeutralizedIsFlat ==
  (\A a \in Attempts : ~LeftTheMarketUnknown(a)) =>
    \A a \in Attempts :
      outcome[a] = "BUY_ONLY_NEUTRALIZED" =>
        /\ Exposure(a) < 2 * Step[BuyEx(a)] + UnlistedBuy(a)
        /\ Exposure(a) >= -order[a]["buy"].fee

(* No buy order leaves while an attempt that ended UNKNOWN or with a       *)
(* failed neutralization waits for its operator: also not from a call that *)
(* was admitted earlier and re-checks nothing.  It needs MaxConcurrent = 1.*)
NoBuyWhileUnreviewed ==
  [][\A a \in Attempts :
       order[a]["buy"].st = "none" /\ order'[a]["buy"].st # "none" =>
         \A b \in Attempts : outcome[b] \in CriticalOutcomes => b \in reviewed]_vars

(* Every admitted call ends, and its slot is released: no answer, late     *)
(* answer or failing poll suspends it for ever.                            *)
EveryCallEnds ==
  \A a \in Attempts : Running(a) ~> (pc[a] \in {"ended", "raised"})

-----------------------------------------------------------------------------
(* Why an attempt never oversells: what is suspended where has sent which  *)
(* orders, and the quantity each later order may ask for is bounded by     *)
(* what the buy filled, less what a finished sell leg sold.                *)

BeforeBuy  == {"idle", "quote", "size"}
BeforeSell == BeforeBuy \cup {"buy", "sellBalance", "sellLeg"}
BeforeNeu  == BeforeSell \cup {"sell", "residual", "neuBalance", "neuSize"}
Bought     == {"sellBalance", "sellLeg", "sell", "residual"}

OrdersFollowLegs(a) ==
  LET buy  == order[a]["buy"]
      sell == order[a]["sell"]
      neu  == order[a]["neu"]
      SoldLeaves(q) == sell.st # "sent" /\ q + sell.filled <= buy.filled + UnlistedSell(a)
  IN
  /\ \A l \in Legs : /\ order[a][l].filled <= order[a][l].qty
                     /\ order[a][l].st # "done" => order[a][l].filled = 0
  /\ pc[a] \in BeforeBuy  => buy.st = "none"
  /\ pc[a] \in BeforeSell => sell.st = "none"
  /\ pc[a] \in BeforeNeu  => neu.st = "none"
  /\ pc[a] \in BeforeNeu \ (BeforeBuy \cup {"buy"}) => buy.st = "done"
  /\ sell.st # "none" \/ neu.st # "none" => buy.st = "done"
  /\ loc[a].bought <= buy.filled /\ loc[a].sold <= sell.filled
  /\ pc[a] \in Bought => loc[a].net <= buy.filled
  /\ pc[a] = "sellLeg" => loc[a].qty <= loc[a].net
  /\ pc[a] \in BeforeNeu \ {"residual", "neuBalance", "neuSize"} => loc[a].sold = 0
  /\ pc[a] = "residual" => sell.st = "done" /\ loc[a].sold > 0
  /\ sell.st # "none" => sell.qty <= buy.filled
  /\ ~loc[a].ambiguousSell =>
       /\ pc[a] \in {"neuBalance", "neuSize"} => SoldLeaves(loc[a].qty)
       /\ neu.st # "none" => SoldLeaves(neu.qty)

OrdersInv == \A a \in Attempts : OrdersFollowLegs(a)

(* Why a neutralized position is flat: while every answer is known, an     *)
(* ended call has no open order, so the position of the one that runs is   *)
(* still on its buy exchange when the neutralization reads the balance.    *)
MarketKnown == \A a \in Attempts : ~LeftTheMarketUnknown(a)

RaisedSellsAreLate(a) ==
  /\ loc[a].ambiguousSell => pc[a] \in {"neuBalance", "neuSize", "neu", "ended", "raised"}
  /\ pc[a] = "neu" => order[a]["neu"].st # "none"

PositionIsHeld(a) ==
  LET bought  == NetOf(order[a]["buy"])
      unsold  == order[a]["sell"].filled = 0
      Sells(q) == unsold /\ bought < q + 2 * Step[BuyEx(a)] + UnlistedBuy(a)
  IN
  /\ pc[a] = "ended" => \A l \in Legs : order[a][l].st # "sent"
  /\ Running(a) /\ order[a]["buy"].st = "done" /\ order[a]["neu"].st = "none" =>
       bought <= Available(a, BuyEx(a))
  /\ pc[a] \in Bought => bought <= loc[a].net + UnlistedBuy(a)
  /\ loc[a].neuFor = "position" =>
       /\ pc[a] \in {"neuBalance", "neuSize"} => unsold /\ bought <= loc[a].qty + UnlistedBuy(a)
       /\ pc[a] = "neu" => Sells(order[a]["neu"].qty)
  /\ outcome[a] = "BUY_ONLY_NEUTRALIZED" => Sells(order[a]["neu"].filled)

PositionsInv ==
  /\ \A a \in Attempts : RaisedSellsAreLate(a)
  /\ MarketKnown => \A a \in Attempts : PositionIsHeld(a)

-----------------------------------------------------------------------------
(* What the module's documentation claims and the code does not do         *)

(* "this module returns a complete LiveArbitrageResult either way ... so   *)
(* the ledger never has a silent gap for an attempt that was actually      *)
(* made": a call that ends by raising had sent no order.                   *)
NoSilentGap ==
  \A a \in Attempts : pc[a] = "raised" => order[a]["buy"].st = "none"

(* The residual of a sell that filled partly is "never left unhedged": if  *)
(* the attempt had to sell a residual and reports BOTH_FILLED, that order  *)
(* filled or the kill switch stopped the program.                          *)
ResidualIsHedged ==
  \A a \in Attempts :
    outcome[a] = "BOTH_FILLED" /\ order[a]["neu"].st # "none" =>
      order[a]["neu"].filled = order[a]["neu"].qty \/ killSwitch

(* "Any residual (buy filled more than sell could match ...) is a leftover *)
(* naked position": what an attempt sells as a residual it had left over,  *)
(* unless submitting its sell raised.                                      *)
ResidualIsLeftOver ==
  \A a \in Attempts :
    ~loc[a].ambiguousSell =>
      order[a]["sell"].filled + order[a]["neu"].filled <= order[a]["buy"].filled
=============================================================================
