------------------------ MODULE InventoryConstitution ------------------------
(***************************************************************************)
(* app/execution/inventory_constitution_executor.py with its own guard,    *)
(* app/execution/inventory_guard.py: calls of constitute_inventory, each a *)
(* coroutine that buys base asset on the exchange a later arbitrage will   *)
(* sell on, and reports how large an arbitrage that purchase can carry.    *)
(*                                                                         *)
(* A quote is abstracted to its verdict and the sell exchange's best bid;  *)
(* prices are USDT per unit of the base asset, quantities natural numbers. *)
(***************************************************************************)
EXTENDS Integers, FiniteSets

CONSTANTS
  Attempts,             \* calls of constitute_inventory, one element per call
  Markets,              \* a symbol on an exchange of EXCHANGES
  Requests,             \* the (market to buy on, requested notional) calls that are made
  Step,                 \* the lot step of each market
  MinNotional,          \* its minimum notional, or Unpublished
  Unpublished,
  Prices,               \* bound: the prices an order fills at and a bid is quoted at
  FeeKinds,             \* how a fill's fee is charged: "base", "quote", "several" assets
  Fees,                 \* bound: base asset a fill may be charged
  ListsTrades,          \* markets whose fills are counted from a list of trades (Binance)
  Enabled, MaxUsdtPerAsset, MaxConcurrent     \* the settings of the guard

ASSUME InventoryAssumption ==
  /\ IsFiniteSet(Attempts)
  /\ Requests \subseteq [market : Markets, notional : Int]
  /\ Step \in [Markets -> Nat \ {0}]
  /\ Unpublished \notin Nat
  /\ MinNotional \in [Markets -> Nat \cup {Unpublished}]
  /\ Prices \subseteq Nat \ {0}
  /\ FeeKinds \subseteq {"base", "quote", "several"}
  /\ Fees \subseteq Nat
  /\ ListsTrades \subseteq Markets
  /\ Enabled \in BOOLEAN
  /\ MaxUsdtPerAsset \in Nat
  /\ MaxConcurrent \in Nat

VARIABLES
  killSwitch, inFlight,  \* inventory_guard
  req, pc,               \* each call's arguments, where it is suspended
  result,                \* its InventoryConstitutionResult
  order,                 \* the exchanges: the one order of each call
  reviewed               \* observer: calls ended UNKNOWN when an operator disengaged

guardVars == <<killSwitch, inFlight>>
constitutionVars == <<killSwitch, inFlight, req, pc, result, order, reviewed>>

Suspended == {"quote", "confirm", "postQuote"}

\* st: "done" is a terminal status the exchange reports; an order that is
\* rejected or never arrives stays "sent".  fee is what the fill cost in base asset;
\* kind, what it was charged in: base, quote or several assets.
NoOrder == [st |-> "none", filled |-> 0, fee |-> 0, kind |-> "quote"]

\* An InventoryConstitutionResult. feeAsset: "none" when the report names no single asset;
\* price: the best bid when max_safe_arbitrage_notional_usdt was computed.
NoResult == [outcome |-> "none", netFilled |-> 0, feeAsset |-> "none",
             maxSafe |-> 0, price |-> 0, ready |-> FALSE]

Lesser(x, y) == IF x <= y THEN x ELSE y
Greater(x, y) == IF x >= y THEN x ELSE y
RoundDown(q, step) == q - (q % step)

Market(a)   == req[a].market
Notional(a) == req[a].notional
Running(a)  == pc[a] \in Suspended

-----------------------------------------------------------------------------
(* inventory_guard                                                         *)

\* mutant: the kill switch is not looked at
AllowedIgnoringKill(r) ==
  /\ Enabled
  /\ r.notional \in 1..MaxUsdtPerAsset
  /\ inFlight < MaxConcurrent

Allowed(r) ==
  /\ ~killSwitch
  /\ Enabled
  /\ r.notional > 0
  /\ r.notional <= MaxUsdtPerAsset
  /\ inFlight < MaxConcurrent

RegisterEnd == inFlight' = Greater(0, inFlight - 1)

EngageKillSwitch ==
  /\ ~killSwitch
  /\ killSwitch' = TRUE
  /\ UNCHANGED <<inFlight, req, pc, result, order, reviewed>>

DisengageKillSwitch ==
  /\ killSwitch
  /\ killSwitch' = FALSE
  /\ reviewed' = reviewed \cup {a \in Attempts : result[a].outcome = "UNKNOWN"}
  /\ UNCHANGED <<inFlight, req, pc, result, order>>

-----------------------------------------------------------------------------
(* constitute_inventory                                                    *)

Refuse(a) ==
  /\ pc[a] = "idle"
  /\ ~Allowed(req[a])
  /\ pc' = [pc EXCEPT ![a] = "ended"]
  /\ result' = [result EXCEPT ![a].outcome = "NO_TRADE_REFUSED"]
  /\ UNCHANGED <<guardVars, req, order, reviewed>>

Begin(a) ==
  /\ pc[a] = "idle"
  /\ Allowed(req[a])
  /\ inFlight' = inFlight + 1
  /\ pc' = [pc EXCEPT ![a] = "quote"]
  /\ UNCHANGED <<killSwitch, req, result, order, reviewed>>

Return(a, r) ==
  /\ pc' = [pc EXCEPT ![a] = "ended"]
  /\ result' = [result EXCEPT ![a] = r]
  /\ RegisterEnd

\* no quote (every exception of the fetch is caught), not executable or no profit
EdgeInsufficient(a) ==
  /\ pc[a] = "quote"
  /\ Return(a, [result[a] EXCEPT !.outcome = "NO_TRADE_EDGE_INSUFFICIENT"])
  /\ UNCHANGED <<killSwitch, req, order, reviewed>>

\* A market buy of the requested notional, whatever quantity the quote is for.
SubmitBuy(a) ==
  /\ pc[a] = "quote"
  /\ \E p \in Prices : RoundDown(Notional(a) \div p, Step[Market(a)]) > 0
  /\ order' = [order EXCEPT ![a].st = "sent"]
  /\ pc' = [pc EXCEPT ![a] = "confirm"]
  /\ UNCHANGED <<guardVars, req, result, reviewed>>

\* mutant: a timeout is taken for an order that did not fill
TimeoutMeansNoFill(a) ==
  /\ pc[a] = "confirm"
  /\ Return(a, [result[a] EXCEPT !.outcome = "NO_FILL"])
  /\ UNCHANGED <<killSwitch, req, order, reviewed>>

\* the submission raised, or no terminal status within the timeout
BuyUnknown(a) ==
  /\ pc[a] = "confirm"
  /\ killSwitch' = TRUE
  /\ Return(a, [result[a] EXCEPT !.outcome = "UNKNOWN"])
  /\ UNCHANGED <<req, order, reviewed>>

BuyZeroFill(a) ==
  /\ pc[a] = "confirm"
  /\ order[a].st = "done"
  /\ order[a].filled = 0
  /\ Return(a, [result[a] EXCEPT !.outcome = "NO_FILL"])
  /\ UNCHANGED <<killSwitch, req, order, reviewed>>

Held(a) == Greater(0, order[a].filled - order[a].fee)

\* resolve_fee: a fee is reported with its asset only when it was charged in one
Whole(o) ==
  [filled |-> o.filled, fee |-> IF o.kind = "base" THEN o.fee ELSE 0,
   asset |-> IF o.kind = "several" \/ (o.kind = "base" /\ o.fee = 0) THEN "none" ELSE o.kind]

\* Some of an order's trades are summed for all of them. A trade is not charged
\* more base asset than it bought; base fees listed among others are not reported.
Listed(o) ==
  {c \in [filled : 1 .. o.filled - 1, fee : 0 .. o.fee, asset : {"none", "base", "quote"}] :
     /\ o.kind # "several" => c.asset \in {"none", o.kind}
     /\ c.fee > 0 <=> c.asset = "base"
     /\ \/ o.fee - c.fee <= o.filled - c.filled
        \/ o.kind = "several" /\ c.asset = "none"}

\* What _get_status may report of a filled order: all of it, and on an exchange that
\* lists trades also the trades listed so far, or without any, its quantity alone.
Reports(a) ==
  {Whole(order[a])}
    \cup IF Market(a) \in ListsTrades
         THEN Listed(order[a]) \cup {[filled |-> order[a].filled, fee |-> 0, asset |-> "none"]}
         ELSE {}

\* mutant: the fee is not deducted, whatever its asset
NetFilledIgnoresFee(c) == c.filled

\* net_base_qty_after_fee
NetFilled(c) == IF c.asset = "base" THEN Greater(0, c.filled - c.fee) ELSE c.filled

BuyFilled(a) ==
  /\ pc[a] = "confirm"
  /\ order[a].st = "done"
  /\ order[a].filled > 0
  /\ \E c \in Reports(a) :
       result' = [result EXCEPT ![a].outcome = "FILLED", ![a].feeAsset = c.asset,
                                ![a].netFilled = NetFilled(c)]
  /\ pc' = [pc EXCEPT ![a] = "postQuote"]
  /\ UNCHANGED <<guardVars, req, order, reviewed>>

\* compute_max_safe_notional
SafeNotional(a, p) ==
  LET notional == Lesser(RoundDown(result[a].netFilled, Step[Market(a)]) * p, Notional(a))
  IN  IF notional < MinNotional[Market(a)] THEN 0 ELSE notional

\* the comparison with min_notional is only reached with something to sell
ComparesMinNotional(a) == result[a].netFilled > 0

PostFillQuoted(a) ==
  /\ pc[a] = "postQuote"
  /\ ComparesMinNotional(a) => MinNotional[Market(a)] # Unpublished
  /\ \E p \in Prices, valid \in BOOLEAN :
       LET safe == IF ComparesMinNotional(a) THEN SafeNotional(a, p) ELSE 0 IN
       Return(a, [result[a] EXCEPT !.maxSafe = safe, !.price = p,
                                   !.ready = valid /\ safe > 0])
  /\ UNCHANGED <<killSwitch, req, order, reviewed>>

\* min_notional is None: the comparison raises, outside any except
PostFillRaises(a) ==
  /\ pc[a] = "postQuote"
  /\ ComparesMinNotional(a)
  /\ MinNotional[Market(a)] = Unpublished
  /\ pc' = [pc EXCEPT ![a] = "raised"]
  /\ result' = [result EXCEPT ![a] = NoResult]
  /\ RegisterEnd
  /\ UNCHANGED <<killSwitch, req, order, reviewed>>

PostFillUnquoted(a) ==
  /\ pc[a] = "postQuote"
  /\ Return(a, result[a])
  /\ UNCHANGED <<killSwitch, req, order, reviewed>>

-----------------------------------------------------------------------------
(* The exchanges: a market order fills, partly fills or expires.           *)

Match(a) ==
  /\ order[a].st = "sent"
  /\ \E p \in Prices, kind \in FeeKinds, fee \in Fees :
     \E q \in 0..(Notional(a) \div p) :
       order' = [order EXCEPT ![a] =
                   [st |-> "done", filled |-> q, kind |-> kind,
                    fee |-> IF kind = "quote" THEN 0 ELSE Lesser(fee, q)]]
  /\ UNCHANGED <<guardVars, req, pc, result, reviewed>>

-----------------------------------------------------------------------------

ConstitutionInit ==
  /\ killSwitch = FALSE
  /\ inFlight = 0
  /\ req \in [Attempts -> Requests]
  /\ pc = [a \in Attempts |-> "idle"]
  /\ result = [a \in Attempts |-> NoResult]
  /\ order = [a \in Attempts |-> NoOrder]
  /\ reviewed = {}

Advance(a) ==
  \/ EdgeInsufficient(a) \/ SubmitBuy(a)
  \/ BuyUnknown(a) \/ BuyZeroFill(a) \/ BuyFilled(a)
  \/ PostFillQuoted(a) \/ PostFillRaises(a) \/ PostFillUnquoted(a)

ConstitutionNext ==
  \/ EngageKillSwitch
  \/ DisengageKillSwitch
  \/ \E a \in Attempts : Refuse(a) \/ Begin(a) \/ Advance(a) \/ Match(a)

ConstitutionSpec == ConstitutionInit /\ [][ConstitutionNext]_constitutionVars

-----------------------------------------------------------------------------
(* Properties                                                              *)

(* The same promise as the arbitrage executor's: bounded concurrency, an   *)
(* order whose fate is unknown engages the kill switch in the same step.   *)
Phase(a) ==
  CASE pc[a] = "idle"   -> "idle"
    [] pc[a] = "raised" -> "raised"
    [] Running(a)       -> "running"
    [] OTHER            -> IF result[a].outcome = "NO_TRADE_REFUSED" THEN "refused"
                           ELSE IF result[a].outcome = "UNKNOWN" THEN "critical"
                           ELSE "clean"

Guarded == INSTANCE GuardedAttempts
             WITH phase <- [a \in Attempts |-> Phase(a)],
                  kill <- killSwitch

RefinesGuardedAttempts ==
  /\ Guarded!Init
  /\ [][UNCHANGED constitutionVars \/ [Guarded!Next]_(Guarded!gvars)]_constitutionVars

(* Spending is never forgotten: what a call that returned bought is in a   *)
(* FILLED result, or an UNKNOWN one waits for (or had) its review.  An     *)
(* order may still fill after its call gave up on it.                      *)
EveryPurchaseIsReported ==
  \A a \in Attempts :
    pc[a] = "ended" /\ order[a].filled > 0 =>
      \/ result[a].outcome = "FILLED"
      \/ result[a].outcome = "UNKNOWN" /\ (killSwitch \/ a \in reviewed)

(* A purchase reported ready carries the arbitrage it advertises, however  *)
(* many of its trades were listed when it was confirmed: at the bid it was *)
(* computed from, max_safe_arbitrage_notional_usdt is worth no more than   *)
(* was bought, no more than was requested, and when the report names the   *)
(* fee's asset, no more than the fee left in the wallet. Of a fee that is  *)
(* not listed yet, or is spread over several assets, the program knows     *)
(* nothing.                                                                *)
ReadyIsCovered ==
  \A a \in Attempts :
    result[a].ready =>
      /\ result[a].maxSafe <= Notional(a)
      /\ result[a].maxSafe <= order[a].filled * result[a].price
      /\ result[a].feeAsset # "none" => result[a].maxSafe <= Held(a) * result[a].price
=============================================================================
