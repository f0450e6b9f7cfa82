----------------------- MODULE ArbitrageExecutorProofs -----------------------
EXTENDS ArbitrageExecutor, FiniteSetTheorems, TLAPS

(* Rounding down to a lot step yields a quantity, and never a larger one.   *)
LEMMA RoundDownBounds ==
  ASSUME NEW q \in Nat, NEW step \in Nat
  PROVE  RoundDown(q, step) \in Nat /\ RoundDown(q, step) <= q
<1>1. CASE step = 0
  BY <1>1 DEF RoundDown
<1>2. CASE step > 0
  <2>1. q % step \in Nat /\ q % step <= q
    BY <1>2
  <2>. QED
    BY <2>1, <1>2 DEF RoundDown
<1>. QED
  BY <1>1, <1>2

(* One lot step of reserve is never negative and never adds.                *)
LEMMA SafeQtyBounds ==
  ASSUME NEW q \in Nat, NEW step \in Nat
  PROVE  SafeQty(q, step) \in Nat /\ SafeQty(q, step) <= q
<1>. DEFINE rounded == RoundDown(q, step)
<1>1. rounded \in Nat /\ rounded <= q
  BY RoundDownBounds
<1>2. SafeQty(q, step) = IF step > 0 /\ rounded > step THEN rounded - step ELSE rounded
  BY DEF SafeQty
<1>. HIDE DEF rounded
<1>. QED
  BY <1>1, <1>2

-----------------------------------------------------------------------------
(* Types                                                                    *)

LEMMA RequestTypes ==
  ASSUME TypeOK, NEW a \in Attempts
  PROVE  /\ req[a].symbol \in Symbols
         /\ BuyEx(a) \in Exchanges /\ SellEx(a) \in Exchanges /\ BuyEx(a) # SellEx(a)
         /\ Step[BuyEx(a)] \in Nat \ {0} /\ Step[SellEx(a)] \in Nat \ {0}
         /\ MinQty[BuyEx(a)] \in Nat \ {0} /\ MinQty[SellEx(a)] \in Nat \ {0}
         /\ Available(a, BuyEx(a)) \in Nat /\ Available(a, SellEx(a)) \in Nat
BY ExecutorAssumption DEF TypeOK, BuyEx, SellEx, Available

LEMMA SetQtyTypes ==
  ASSUME TypeOK, NEW a \in Attempts, NEW q \in Nat, SetQty(a, q)
  PROVE  loc' \in [Attempts -> Locals]
<1>1. [loc[a] EXCEPT !.qty = q] \in Locals
  BY DEF TypeOK, Locals
<1>. QED
  BY <1>1 DEF SetQty, TypeOK

LEMMA DropLocalsTypes ==
  ASSUME TypeOK, NEW a \in Attempts, DropLocals(a)
  PROVE  loc' \in [Attempts -> Locals]
<1>1. [loc[a] EXCEPT !.qty = 0, !.net = 0, !.neuFor = "position"] \in Locals
  BY DEF TypeOK, Locals
<1>. QED
  BY <1>1 DEF DropLocals, TypeOK

LEMMA NeutralizePositionLocals ==
  ASSUME TypeOK, NEW a \in Attempts, NEW ambiguous \in BOOLEAN, NeutralizePosition(a, ambiguous)
  PROVE  /\ loc'[a].qty = loc[a].net /\ loc'[a].ambiguousSell = ambiguous
         /\ loc'[a].bought = loc[a].bought /\ loc'[a].sold = loc[a].sold
<1>1. loc[a] \in Locals
  BY DEF TypeOK
<1>2. loc'[a] = [loc[a] EXCEPT !.qty = loc[a].net, !.neuFor = "position",
                              !.ambiguousSell = ambiguous]
  BY DEF NeutralizePosition, TypeOK
<1>. QED
  BY <1>1, <1>2 DEF Locals

LEMMA DropLocalsKeepsResult ==
  ASSUME TypeOK, NEW a \in Attempts, DropLocals(a)
  PROVE  /\ loc'[a].ambiguousSell = loc[a].ambiguousSell
         /\ loc'[a].bought = loc[a].bought /\ loc'[a].sold = loc[a].sold
<1>1. loc[a] \in Locals
  BY DEF TypeOK
<1>2. loc'[a] = [loc[a] EXCEPT !.qty = 0, !.net = 0, !.neuFor = "position"]
  BY DEF DropLocals, TypeOK
<1>. QED
  BY <1>1, <1>2 DEF Locals

(* What a confirmation reports is at most what filled and what was charged, *)
(* and something when something filled.                                     *)
LEMMA ConfirmedTypes ==
  ASSUME TypeOK, NEW a \in Attempts, NEW l \in Legs, NEW c \in Confirmed(a, l)
  PROVE  /\ c.filled \in Nat /\ c.fee \in Nat
         /\ c.filled <= order[a][l].filled /\ c.fee <= order[a][l].fee
         /\ order[a][l].filled > 0 => c.filled > 0
<1>1. order[a][l].filled \in Nat /\ order[a][l].fee \in Nat
  BY DEF TypeOK, Order
<1>2. CASE \E f \in {0, order[a][l].fee} : c = [filled |-> order[a][l].filled, fee |-> f]
  BY <1>1, <1>2
<1>3. CASE c \in [filled : 1 .. order[a][l].filled - 1, fee : 0 .. order[a][l].fee]
  BY <1>1, <1>3
<1>. QED
  BY <1>2, <1>3 DEF Confirmed

(* The net quantity of a confirmation, and what its listing leaves out.     *)
LEMMA ConfirmedNet ==
  ASSUME TypeOK, NEW a \in Attempts, NEW l \in Legs, NEW c \in Confirmed(a, l)
  PROVE  /\ NetOf(c) \in Nat /\ NetOf(c) <= c.filled
         /\ NetOf(order[a][l]) <= NetOf(c) + (order[a][l].filled - c.filled)
<1>1. order[a][l].filled \in Nat /\ order[a][l].fee \in Nat
  BY DEF TypeOK, Order
<1>. QED
  BY <1>1, ConfirmedTypes DEF NetOf, Max2

LEMMA GotoTypes ==
  ASSUME TypeOK, NEW a \in Attempts, NEW p \in PCs, Goto(a, p)
  PROVE  /\ killSwitch' \in BOOLEAN /\ inFlight' \in Nat
         /\ pc' \in [Attempts -> PCs]
         /\ outcome' \in [Attempts -> ArbitrageOutcome \cup {"none"}]
BY DEF TypeOK, Goto, guardVars

LEMMA ReturnTypes ==
  ASSUME TypeOK, NEW a \in Attempts, NEW o \in ArbitrageOutcome,
         ReturnClean(a, o) \/ ReturnCritical(a, o)
  PROVE  /\ killSwitch' \in BOOLEAN /\ inFlight' \in Nat
         /\ pc' \in [Attempts -> PCs]
         /\ loc' \in [Attempts -> Locals]
         /\ outcome' \in [Attempts -> ArbitrageOutcome \cup {"none"}]
<1>1. loc' \in [Attempts -> Locals]
  BY DropLocalsTypes DEF ReturnClean, ReturnCritical, Return
<1>2. killSwitch' \in BOOLEAN
  BY DEF TypeOK, ReturnClean, ReturnCritical
<1>3. inFlight' \in Nat
  BY DEF TypeOK, ReturnClean, ReturnCritical, Return, RegisterEnd, Max2
<1>4. /\ pc' \in [Attempts -> PCs]
      /\ outcome' \in [Attempts -> ArbitrageOutcome \cup {"none"}]
  BY DEF TypeOK, ReturnClean, ReturnCritical, Return, PCs
<1>. QED
  BY <1>1, <1>2, <1>3, <1>4

LEMMA SubmitTypes ==
  ASSUME TypeOK, NEW a \in Attempts, NEW l \in Legs, NEW q \in Nat, Submit(a, l, q)
  PROVE  /\ order' \in [Attempts -> [Legs -> Order]]
         /\ balance' = balance
<1>1. Sent(q) \in Order
  BY DEF Sent, Order
<1>2. order' = [order EXCEPT ![a] = [order[a] EXCEPT ![l] = Sent(q)]] /\ balance' = balance
  BY DEF Submit, TypeOK
<1>. QED
  BY <1>1, <1>2 DEF TypeOK

LEMMA CommonQtyTypes ==
  ASSUME TypeOK, NEW a \in Attempts
  PROVE  CommonQty(a) \in Nat
<1>1. /\ Min2(loc[a].qty, Available(a, SellEx(a))) \in Nat
      /\ Max2(Step[BuyEx(a)], Step[SellEx(a)]) \in Nat
  BY RequestTypes DEF Min2, Max2, TypeOK, Locals
<1>. QED
  BY <1>1, RoundDownBounds DEF CommonQty

LEMMA SizedQtyTypes ==
  ASSUME TypeOK, NEW a \in Attempts, NEW q \in Nat
  PROVE  SizedQty(a, q) \in Nat
<1>1. /\ RoundDown(q, Step[BuyEx(a)]) \in Nat
      /\ RoundDown(q, Step[SellEx(a)]) \in Nat
  BY RoundDownBounds, RequestTypes
<1>. QED
  BY <1>1 DEF SizedQty, Min2

(* Every variable keeps its type, in the steps of every call.               *)
THEOREM TypeCorrect == Spec => []TypeOK
<1>1. Init => TypeOK
  <2>1. NoLocals \in Locals /\ NoOrder \in Order
    BY DEF NoLocals, Locals, NoOrder, Order
  <2>2. Init => balance \in [Symbols -> [Exchanges -> Nat]]
    BY ExecutorAssumption DEF Init
  <2>3. Init => /\ loc \in [Attempts -> Locals]
                /\ order \in [Attempts -> [Legs -> Order]]
    BY <2>1 DEF Init
  <2>4. Init => killSwitch \in BOOLEAN
    BY DEF Init
  <2>5. Init => /\ inFlight \in Nat
                /\ pc \in [Attempts -> PCs]
                /\ outcome \in [Attempts -> ArbitrageOutcome \cup {"none"}]
                /\ reviewed \subseteq Attempts
    BY DEF Init, PCs
  <2>. QED
    BY <2>2, <2>3, <2>4, <2>5 DEF Init, TypeOK
<1>2. TypeOK /\ [Next]_vars => TypeOK'
  <2> SUFFICES ASSUME TypeOK, [Next]_vars PROVE TypeOK'
    OBVIOUS
  <2>1. CASE UNCHANGED vars
    BY <2>1 DEF vars, guardVars, exchangeVars, TypeOK
  <2>2. CASE OperatorEngages \/ OperatorDisengages
    BY <2>2 DEF OperatorEngages, OperatorDisengages, exchangeVars, TypeOK
  <2>3. ASSUME NEW a \in Attempts, Refuse(a) \/ Begin(a) \/ ReadRaises(a)
        PROVE  TypeOK'
    <3>1. CASE Refuse(a)
      BY <3>1 DEF Refuse, guardVars, exchangeVars, TypeOK, PCs, ArbitrageOutcome
    <3>2. CASE Begin(a)
      BY <3>2 DEF Begin, exchangeVars, TypeOK, PCs, Suspended
    <3>3. CASE ReadRaises(a)
      BY <3>3, DropLocalsTypes DEF ReadRaises, RegisterEnd, Max2, exchangeVars, TypeOK, PCs
    <3>. QED
      BY <2>3, <3>1, <3>2, <3>3
  <2>4. ASSUME NEW a \in Attempts,
               QuoteRejected(a) \/ SizeRejected(a) \/ BuyUnknown(a) \/ BuyZeroFill(a)
               \/ SellUnknown(a) \/ ResidualIsDust(a)
        PROVE  TypeOK'
    <3>1. PICK o \in ArbitrageOutcome : ReturnClean(a, o) \/ ReturnCritical(a, o)
      BY <2>4 DEF QuoteRejected, SizeRejected, BuyUnknown, BuyZeroFill, SellUnknown,
                  ResidualIsDust, ArbitrageOutcome, CriticalOutcomes
    <3>2. UNCHANGED <<req, exchangeVars, reviewed>>
      BY <2>4 DEF QuoteRejected, SizeRejected, BuyUnknown, BuyZeroFill, SellUnknown,
                  ResidualIsDust
    <3>. QED
      BY <3>1, <3>2, ReturnTypes DEF TypeOK, exchangeVars
  <2>5. ASSUME NEW a \in Attempts, NeuSkipped(a) \/ NeuFilled(a) \/ NeuUnconfirmed(a)
        PROVE  TypeOK'
    <3>1. PICK o \in ArbitrageOutcome : ReturnClean(a, o) \/ ReturnCritical(a, o)
      BY <2>5 DEF NeuSkipped, NeuFilled, NeuUnconfirmed, NeutralizeReturns,
                  ArbitrageOutcome, CriticalOutcomes
    <3>2. UNCHANGED <<req, exchangeVars, reviewed>>
      BY <2>5 DEF NeuSkipped, NeuFilled, NeuUnconfirmed
    <3>. QED
      BY <3>1, <3>2, ReturnTypes DEF TypeOK, exchangeVars
  <2>6. ASSUME NEW a \in Attempts,
               QuoteAccepted(a) \/ BuyFilled(a) \/ ReadSellBalance(a) \/ NeuReadBalance(a)
        PROVE  TypeOK'
    <3>. USE DEF PCs, Suspended
    <3>1. CASE QuoteAccepted(a)
      BY <3>1, ExecutorAssumption, SetQtyTypes, GotoTypes
         DEF QuoteAccepted, exchangeVars, TypeOK
    <3>2. CASE BuyFilled(a)
      <4>1. PICK c \in Confirmed(a, "buy") :
              loc' = [loc EXCEPT ![a].bought = c.filled, ![a].net = NetOf(c)]
        BY <3>2 DEF BuyFilled
      <4>2. c.filled \in Nat /\ NetOf(c) \in Nat
        BY ConfirmedTypes, ConfirmedNet DEF Legs
      <4>3. [loc[a] EXCEPT !.bought = c.filled, !.net = NetOf(c)] \in Locals
        BY <4>2 DEF TypeOK, Locals
      <4>4. loc' \in [Attempts -> Locals]
        BY <4>1, <4>3 DEF TypeOK
      <4>. QED
        BY <4>4, <3>2, GotoTypes DEF BuyFilled, exchangeVars, TypeOK
    <3>3. CASE ReadSellBalance(a)
      <4>1. Min2(Min2(loc[a].net, Available(a, SellEx(a))), loc[a].qty) \in Nat
        BY RequestTypes DEF Min2, TypeOK, Locals
      <4>. QED
        BY <4>1, <3>3, SetQtyTypes, GotoTypes DEF ReadSellBalance, exchangeVars, TypeOK
    <3>4. CASE NeuReadBalance(a)
      <4>1. Min2(loc[a].qty, Available(a, BuyEx(a))) \in Nat
        BY RequestTypes DEF Min2, TypeOK, Locals
      <4>. QED
        BY <4>1, <3>4, SetQtyTypes, GotoTypes DEF NeuReadBalance, exchangeVars, TypeOK
    <3>. QED
      BY <2>6, <3>1, <3>2, <3>3, <3>4
  <2>7. ASSUME NEW a \in Attempts,
               SellNotViable(a) \/ SellSubmissionRaises(a) \/ SellZeroFill(a)
        PROVE  TypeOK'
    <3>1. PICK ambiguous \in BOOLEAN : NeutralizePosition(a, ambiguous)
      BY <2>7 DEF SellNotViable, SellSubmissionRaises, SellZeroFill
    <3>2. [loc[a] EXCEPT !.qty = loc[a].net, !.neuFor = "position",
                         !.ambiguousSell = ambiguous] \in Locals
      BY DEF TypeOK, Locals
    <3>3. loc' \in [Attempts -> Locals]
      BY <3>1, <3>2 DEF NeutralizePosition, TypeOK
    <3>. QED
      BY <3>1, <3>3, GotoTypes DEF NeutralizePosition, exchangeVars, TypeOK, PCs, Suspended
  <2>8. ASSUME NEW a \in Attempts, SellFilled(a) PROVE TypeOK'
    <3>1. PICK c \in Confirmed(a, "sell") :
            \/ Goto(a, "residual") /\ loc' = [loc EXCEPT ![a].sold = c.filled]
            \/ ReturnClean(a, "BOTH_FILLED")
      BY <2>8 DEF SellFilled
    <3>2. CASE Goto(a, "residual") /\ loc' = [loc EXCEPT ![a].sold = c.filled]
      <4>1. c.filled \in Nat
        BY ConfirmedTypes DEF Legs
      <4>2. [loc[a] EXCEPT !.sold = c.filled] \in Locals
        BY <4>1 DEF TypeOK, Locals
      <4>3. loc' \in [Attempts -> Locals]
        BY <3>2, <4>2 DEF TypeOK
      <4>. QED
        BY <2>8, <3>2, <4>3, GotoTypes DEF SellFilled, exchangeVars, TypeOK, PCs, Suspended
    <3>3. CASE ReturnClean(a, "BOTH_FILLED")
      BY <2>8, <3>3, ReturnTypes DEF SellFilled, exchangeVars, TypeOK, ArbitrageOutcome
    <3>. QED
      BY <3>1, <3>2, <3>3
  <2>9. ASSUME NEW a \in Attempts, NeutralizeResidual(a) PROVE TypeOK'
    <3>. DEFINE residual == RoundDown(Residual(a, loc[a].sold), Step[BuyEx(a)])
    <3>1. residual \in Nat
      <4>1. Residual(a, loc[a].sold) \in Int
        BY DEF Residual, TypeOK, Locals
      <4>. QED
        BY <4>1, <2>9, RequestTypes DEF NeutralizeResidual, RoundDown
    <3>2. [loc[a] EXCEPT !.qty = residual, !.neuFor = "residual"] \in Locals
      BY <3>1 DEF TypeOK, Locals
    <3>3. loc' \in [Attempts -> Locals]
      BY <2>9, <3>2 DEF NeutralizeResidual, TypeOK
    <3>. QED
      BY <2>9, <3>3, GotoTypes DEF NeutralizeResidual, exchangeVars, TypeOK, PCs, Suspended
  <2>10. ASSUME NEW a \in Attempts, SubmitBuy(a) PROVE TypeOK'
    <3>1. CommonQty(a) \in Nat
      BY CommonQtyTypes
    <3>2. PICK q \in 1..CommonQty(a) : Submit(a, "buy", SizedQty(a, q))
      BY <2>10 DEF SubmitBuy
    <3>3. SizedQty(a, q) \in Nat
      BY <3>1, SizedQtyTypes
    <3>4. order' \in [Attempts -> [Legs -> Order]] /\ balance' = balance
      BY <3>2, <3>3, SubmitTypes DEF Legs
    <3>. QED
      BY <3>1, <3>4, <2>10, SetQtyTypes, GotoTypes DEF SubmitBuy, TypeOK, PCs, Suspended
  <2>11. ASSUME NEW a \in Attempts, SubmitSell(a) PROVE TypeOK'
    <3>1. SellQty(a) \in Nat
      BY RoundDownBounds, RequestTypes DEF SellQty, TypeOK, Locals
    <3>2. order' \in [Attempts -> [Legs -> Order]] /\ balance' = balance
      BY <2>11, <3>1, SubmitTypes DEF SubmitSell, Legs
    <3>. QED
      BY <3>2, <2>11 DEF SubmitSell, Goto, guardVars, TypeOK, PCs, Suspended
  <2>12. ASSUME NEW a \in Attempts, SubmitNeutralization(a) PROVE TypeOK'
    <3>1. PICK step \in LotSteps(a) : Submit(a, "neu", SafeQty(loc[a].qty, step))
      BY <2>12 DEF SubmitNeutralization
    <3>2. SafeQty(loc[a].qty, step) \in Nat
      BY SafeQtyBounds, RequestTypes DEF LotSteps, TypeOK, Locals
    <3>3. order' \in [Attempts -> [Legs -> Order]] /\ balance' = balance
      BY <3>1, <3>2, SubmitTypes DEF Legs
    <3>. QED
      BY <3>3, <2>12 DEF SubmitNeutralization, Goto, guardVars, TypeOK, PCs, Suspended
  <2>13. ASSUME NEW a \in Attempts, NEW l \in Legs, Match(a, l) PROVE TypeOK'
    <3>. DEFINE o  == order[a][l]
                ex == Where(a, l)
                s  == req[a].symbol
    <3>1. ex \in Exchanges /\ s \in Symbols
      BY RequestTypes DEF Where
    <3>2. o \in Order /\ balance[s] \in [Exchanges -> Nat] /\ balance[s][ex] \in Nat
      BY <3>1 DEF TypeOK
    <3>3. PICK filled \in 0..o.qty, fee \in Nat, held \in Nat :
            /\ order' = [order EXCEPT ![a][l] = [o EXCEPT !.st = "done", !.filled = filled,
                                                         !.fee = fee]]
            /\ balance' = [balance EXCEPT ![s][ex] = held]
      <4>1. PICK filled \in 0..o.qty, fee \in (IF l = "buy" THEN Fees ELSE {0}) :
              LET done == [o EXCEPT !.st = "done", !.filled = filled, !.fee = fee]
              IN  /\ order' = [order EXCEPT ![a][l] = done]
                  /\ balance' = [balance EXCEPT ![s][ex] =
                                   IF l = "buy" THEN @ + NetOf(done) ELSE @ - filled]
        BY <2>13 DEF Match
      <4>2. fee \in Nat /\ filled \in Nat /\ filled <= o.qty
        BY <3>2, ExecutorAssumption DEF Order
      <4>. DEFINE done == [o EXCEPT !.st = "done", !.filled = filled, !.fee = fee]
      <4>3. NetOf(done) \in Nat
        BY <3>2, <4>2 DEF NetOf, Max2, Order
      <4>4. l # "buy" => balance[s][ex] - filled \in Nat
        <5>1. l # "buy" => o.qty <= balance[s][ex]
          BY <2>13 DEF Match, Available
        <5>. QED
          BY <5>1, <3>2, <4>2 DEF Order
      <4>5. CASE l = "buy"
        <5>1. balance' = [balance EXCEPT ![s][ex] = @ + NetOf(done)]
          BY <4>1, <4>5
        <5>2. balance[s][ex] + NetOf(done) \in Nat
          BY <3>2, <4>3
        <5>. QED
          BY <4>1, <4>2, <5>1, <5>2
      <4>6. CASE l # "buy"
        <5>1. balance' = [balance EXCEPT ![s][ex] = @ - filled]
          BY <4>1, <4>6
        <5>. QED
          BY <4>1, <4>2, <4>4, <4>6, <5>1
      <4>. QED
        BY <4>5, <4>6
    <3>4. [o EXCEPT !.st = "done", !.filled = filled, !.fee = fee] \in Order
      <4>1. o.qty \in Nat /\ filled \in Nat
        BY <3>2 DEF Order
      <4>. QED
        BY <4>1, <3>2 DEF Order
    <3>5. order' \in [Attempts -> [Legs -> Order]]
      BY <3>3, <3>4 DEF TypeOK
    <3>6. balance' \in [Symbols -> [Exchanges -> Nat]]
      BY <3>1, <3>3 DEF TypeOK
    <3>. QED
      BY <3>5, <3>6, <2>13 DEF Match, guardVars, TypeOK
  <2>. QED
    BY <2>1, <2>2, <2>3, <2>4, <2>5, <2>6, <2>7, <2>8, <2>9, <2>10, <2>11, <2>12, <2>13
       DEF Next, Advance
<1>. QED
  BY <1>1, <1>2, PTL DEF Spec

-----------------------------------------------------------------------------
(* Orders                                                                   *)

\* A step of one call, or of the exchange on one of its orders, leaves the
\* others' suspension points, locals and orders alone.
OthersUntouched(a) ==
  \A b \in Attempts \ {a} : /\ pc'[b] = pc[b]
                            /\ loc'[b] = loc[b]
                            /\ order'[b] = order[b]

LEMMA OnlyOneMoves ==
  ASSUME TypeOK, OrdersInv, NEW a \in Attempts,
         OthersUntouched(a), OrdersFollowLegs(a)'
  PROVE  OrdersInv'
<1>1. ASSUME NEW b \in Attempts \ {a} PROVE OrdersFollowLegs(b)'
  BY <1>1 DEF OrdersInv, OthersUntouched, OrdersFollowLegs, UnlistedSell
<1>. QED
  BY <1>1 DEF OrdersInv

\* The types of one call's state, as the steps below use them.
LEMMA CallTypes ==
  ASSUME TypeOK, NEW a \in Attempts
  PROVE  /\ loc[a].qty \in Nat /\ loc[a].net \in Nat /\ loc[a].ambiguousSell \in BOOLEAN
         /\ loc[a].bought \in Nat /\ loc[a].sold \in Nat
         /\ \A l \in Legs : /\ order[a][l].qty \in Nat /\ order[a][l].filled \in Nat
                            /\ order[a][l].fee \in Nat
                            /\ order[a][l].st \in {"none", "sent", "done"}
BY DEF TypeOK, Locals, Order

\* What a call has been told of its legs stays.
SameConfirmed(a) ==
  /\ loc'[a].ambiguousSell = loc[a].ambiguousSell
  /\ loc'[a].bought = loc[a].bought /\ loc'[a].sold = loc[a].sold

LEMMA ReturnKeepsOrders ==
  ASSUME TypeOK, OrdersInv, NEW a \in Attempts, DropLocals(a),
         pc' = [pc EXCEPT ![a] = "ended"] \/ pc' = [pc EXCEPT ![a] = "raised"],
         order' = order
  PROVE  OrdersInv'
<1>1. OthersUntouched(a)
  BY DEF OthersUntouched, DropLocals, TypeOK
<1>2. /\ pc'[a] \in {"ended", "raised"} /\ SameConfirmed(a)
  BY DEF DropLocals, TypeOK, Locals, SameConfirmed
<1>3. OrdersFollowLegs(a)'
  BY <1>2 DEF OrdersInv, OrdersFollowLegs, Bought, BeforeNeu, BeforeSell, BeforeBuy, SameConfirmed,
     UnlistedSell
<1>. QED
  BY <1>1, <1>3, OnlyOneMoves

LEMMA OrdersStep == TypeOK /\ OrdersInv /\ [Next]_vars => OrdersInv'
<1> SUFFICES ASSUME TypeOK, OrdersInv, [Next]_vars PROVE OrdersInv'
  OBVIOUS
<1>. QED
  <2>1. CASE UNCHANGED vars \/ OperatorEngages \/ OperatorDisengages
    BY <2>1 DEF vars, OperatorEngages, OperatorDisengages, exchangeVars, OrdersInv,
                OrdersFollowLegs, UnlistedSell
  <2>2. ASSUME NEW a \in Attempts,
               QuoteRejected(a) \/ SizeRejected(a) \/ BuyUnknown(a) \/ BuyZeroFill(a)
               \/ SellUnknown(a) \/ ResidualIsDust(a)
        PROVE  OrdersInv'
    BY <2>2, ReturnKeepsOrders
       DEF QuoteRejected, SizeRejected, BuyUnknown, BuyZeroFill, SellUnknown,
           ResidualIsDust, ReturnClean, ReturnCritical, Return, exchangeVars
  <2>3. ASSUME NEW a \in Attempts,
               ReadRaises(a) \/ NeuSkipped(a) \/ NeuFilled(a) \/ NeuUnconfirmed(a)
        PROVE  OrdersInv'
    BY <2>3, ReturnKeepsOrders
       DEF ReadRaises, NeuSkipped, NeuFilled, NeuUnconfirmed, NeutralizeReturns,
           ReturnClean, ReturnCritical, Return, exchangeVars
  <2>4. ASSUME NEW a \in Attempts, Refuse(a) \/ Begin(a) PROVE OrdersInv'
    <3>1. OthersUntouched(a)
      BY <2>4 DEF OthersUntouched, TypeOK, Refuse, Begin, exchangeVars
    <3>2. pc[a] = "idle" /\ pc'[a] \in {"ended", "quote"}
         /\ loc'[a] = loc[a] /\ order'[a] = order[a]
      BY <2>4 DEF Refuse, Begin, exchangeVars, TypeOK
    <3>3. OrdersFollowLegs(a)'
      BY <3>2, CallTypes DEF OrdersInv, OrdersFollowLegs, Bought, BeforeNeu, BeforeSell, BeforeBuy, Legs, UnlistedSell
    <3>. QED
      BY <3>1, <3>3, OnlyOneMoves
  <2>5. ASSUME NEW a \in Attempts, QuoteAccepted(a) PROVE OrdersInv'
    <3>1. OthersUntouched(a)
      BY <2>5 DEF OthersUntouched, TypeOK, QuoteAccepted, SetQty, Goto, exchangeVars
    <3>2. /\ pc[a] = "quote" /\ pc'[a] = "size"
          /\ SameConfirmed(a) /\ order'[a] = order[a]
      BY <2>5 DEF QuoteAccepted, SetQty, Goto, exchangeVars, TypeOK, Locals, SameConfirmed
    <3>3. OrdersFollowLegs(a)'
      BY <3>2, CallTypes DEF OrdersInv, OrdersFollowLegs, Bought, BeforeNeu, BeforeSell, BeforeBuy, Legs, UnlistedSell, SameConfirmed
    <3>. QED
      BY <3>1, <3>3, OnlyOneMoves
  <2>6. ASSUME NEW a \in Attempts, BuyFilled(a) PROVE OrdersInv'
    <3>1. OthersUntouched(a)
      BY <2>6 DEF OthersUntouched, TypeOK, BuyFilled, Goto, exchangeVars
    <3>2. /\ pc[a] = "buy" /\ pc'[a] = "sellBalance"
          /\ order[a]["buy"].st = "done" /\ order'[a] = order[a]
      BY <2>6 DEF BuyFilled, Goto, exchangeVars, TypeOK
    <3>3. PICK c \in Confirmed(a, "buy") :
            loc' = [loc EXCEPT ![a].bought = c.filled, ![a].net = NetOf(c)]
      BY <2>6 DEF BuyFilled
    <3>4. /\ NetOf(c) \in Nat /\ NetOf(c) <= order[a]["buy"].filled
          /\ c.filled \in Nat /\ c.filled <= order[a]["buy"].filled
      BY ConfirmedTypes, ConfirmedNet, CallTypes DEF Legs
    <3>5. /\ loc'[a].bought = c.filled /\ loc'[a].net = NetOf(c) /\ loc'[a].sold = loc[a].sold
          /\ loc'[a].ambiguousSell = loc[a].ambiguousSell
      BY <3>3 DEF TypeOK, Locals
    <3>6. OrdersFollowLegs(a)'
      BY <3>2, <3>4, <3>5, CallTypes DEF OrdersInv, OrdersFollowLegs, Bought, BeforeNeu, BeforeSell, BeforeBuy, Legs, UnlistedSell
    <3>. QED
      BY <3>1, <3>6, OnlyOneMoves
  <2>7. ASSUME NEW a \in Attempts, ReadSellBalance(a) PROVE OrdersInv'
    <3>1. OthersUntouched(a)
      BY <2>7 DEF OthersUntouched, TypeOK, ReadSellBalance, SetQty, Goto, exchangeVars
    <3>2. /\ pc[a] = "sellBalance" /\ pc'[a] = "sellLeg" /\ order'[a] = order[a]
      BY <2>7 DEF ReadSellBalance, Goto, exchangeVars, TypeOK
    <3>3. /\ loc'[a].net = loc[a].net /\ SameConfirmed(a)
          /\ loc'[a].qty = Min2(Min2(loc[a].net, Available(a, SellEx(a))), loc[a].qty)
      BY <2>7 DEF ReadSellBalance, SetQty, TypeOK, Locals, SameConfirmed
    <3>4. loc'[a].qty <= loc'[a].net
      BY <3>3, RequestTypes, CallTypes DEF Min2
    <3>5. OrdersFollowLegs(a)'
      BY <3>2, <3>3, <3>4, CallTypes DEF OrdersInv, OrdersFollowLegs, Bought, BeforeNeu, BeforeSell, BeforeBuy, Legs, UnlistedSell, SameConfirmed
    <3>. QED
      BY <3>1, <3>5, OnlyOneMoves
  <2>8. ASSUME NEW a \in Attempts, NeuReadBalance(a) PROVE OrdersInv'
    <3>1. OthersUntouched(a)
      BY <2>8 DEF OthersUntouched, TypeOK, NeuReadBalance, SetQty, Goto, exchangeVars
    <3>2. /\ pc[a] = "neuBalance" /\ pc'[a] = "neuSize" /\ order'[a] = order[a]
      BY <2>8 DEF NeuReadBalance, Goto, exchangeVars, TypeOK
    <3>3. /\ SameConfirmed(a)
          /\ loc'[a].qty = Min2(loc[a].qty, Available(a, BuyEx(a)))
      BY <2>8 DEF NeuReadBalance, SetQty, TypeOK, Locals, SameConfirmed
    <3>4. loc'[a].qty <= loc[a].qty /\ loc'[a].qty \in Nat
      BY <3>3, RequestTypes, CallTypes DEF Min2
    <3>5. OrdersFollowLegs(a)'
      BY <3>2, <3>3, <3>4, CallTypes DEF OrdersInv, OrdersFollowLegs, Bought, BeforeNeu, BeforeSell, BeforeBuy, Legs, UnlistedSell, SameConfirmed
    <3>. QED
      BY <3>1, <3>5, OnlyOneMoves
  <2>9. ASSUME NEW a \in Attempts, SellNotViable(a) \/ SellSubmissionRaises(a) \/ SellZeroFill(a) PROVE OrdersInv'
    <3>1. OthersUntouched(a)
      BY <2>9 DEF OthersUntouched, TypeOK, SellNotViable, SellSubmissionRaises, SellZeroFill,
                  NeutralizePosition, Goto, exchangeVars
    <3>2. /\ pc'[a] = "neuBalance" /\ order'[a] = order[a] /\ loc'[a].qty = loc[a].net
          /\ loc'[a].bought = loc[a].bought /\ loc'[a].sold = loc[a].sold
      <4>1. PICK ambiguous \in BOOLEAN : NeutralizePosition(a, ambiguous)
        BY <2>9 DEF SellNotViable, SellSubmissionRaises, SellZeroFill
      <4>. QED
        BY <2>9, <4>1, NeutralizePositionLocals
           DEF SellNotViable, SellSubmissionRaises, SellZeroFill, NeutralizePosition,
               Goto, exchangeVars, TypeOK
    <3>3. \/ pc[a] = "sellLeg"
          \/ pc[a] = "sell" /\ loc'[a].ambiguousSell
          \/ /\ pc[a] = "sell"
             /\ order[a]["sell"].st = "done" /\ order[a]["sell"].filled = 0
      <4>1. CASE SellNotViable(a)
        BY <4>1 DEF SellNotViable
      <4>2. CASE SellSubmissionRaises(a)
        <5>1. loc'[a].ambiguousSell = TRUE
          BY <4>2 DEF SellSubmissionRaises, NeutralizePosition, TypeOK, Locals
        <5>. QED
          BY <4>2, <5>1 DEF SellSubmissionRaises
      <4>3. CASE SellZeroFill(a)
        BY <4>3 DEF SellZeroFill
      <4>. QED
        BY <2>9, <4>1, <4>2, <4>3
    <3>4. OrdersFollowLegs(a)'
      BY <3>2, <3>3, CallTypes DEF OrdersInv, OrdersFollowLegs, Bought, BeforeNeu, BeforeSell, BeforeBuy, Legs, UnlistedSell
    <3>. QED
      BY <3>1, <3>4, OnlyOneMoves
  <2>10. ASSUME NEW a \in Attempts, SellFilled(a) PROVE OrdersInv'
    <3>1. OthersUntouched(a)
      BY <2>10 DEF OthersUntouched, TypeOK, SellFilled, ReturnClean, Return,
                  DropLocals, Goto, exchangeVars
    <3>2. /\ pc[a] = "sell" /\ pc'[a] \in {"residual", "ended"}
          /\ order[a]["sell"].st = "done" /\ order'[a] = order[a]
      BY <2>10 DEF SellFilled, ReturnClean, Return, Goto, exchangeVars, TypeOK
    <3>3. /\ loc'[a].ambiguousSell = loc[a].ambiguousSell /\ loc'[a].bought = loc[a].bought
          /\ pc'[a] = "ended" => loc'[a].sold = loc[a].sold
          /\ pc'[a] = "residual" =>
               /\ loc'[a].net = loc[a].net /\ loc'[a].sold \in Nat \ {0}
               /\ loc'[a].sold <= order[a]["sell"].filled
      <4>1. PICK c \in Confirmed(a, "sell") :
              \/ Goto(a, "residual") /\ loc' = [loc EXCEPT ![a].sold = c.filled]
              \/ ReturnClean(a, "BOTH_FILLED")
        BY <2>10 DEF SellFilled
      <4>2. /\ c.filled \in Nat \ {0} /\ c.filled <= order[a]["sell"].filled
        BY <2>10, ConfirmedTypes DEF SellFilled, Legs
      <4>3. CASE Goto(a, "residual") /\ loc' = [loc EXCEPT ![a].sold = c.filled]
        <5>1. loc[a] \in Locals /\ loc'[a] = [loc[a] EXCEPT !.sold = c.filled]
          BY <4>3 DEF TypeOK
        <5>. QED
          BY <4>2, <4>3, <5>1 DEF Goto, TypeOK, Locals
      <4>4. CASE ReturnClean(a, "BOTH_FILLED")
        BY <4>4, DropLocalsKeepsResult DEF ReturnClean, Return, TypeOK
      <4>. QED
        BY <4>1, <4>3, <4>4
    <3>4. OrdersFollowLegs(a)'
      BY <3>2, <3>3, CallTypes DEF OrdersInv, OrdersFollowLegs, Bought, BeforeNeu, BeforeSell, BeforeBuy, Legs, UnlistedSell
    <3>. QED
      BY <3>1, <3>4, OnlyOneMoves
  <2>11. ASSUME NEW a \in Attempts, NeutralizeResidual(a) PROVE OrdersInv'
    <3>1. OthersUntouched(a)
      BY <2>11 DEF OthersUntouched, TypeOK, NeutralizeResidual, Goto, exchangeVars
    <3>2. /\ pc[a] = "residual" /\ pc'[a] = "neuBalance" /\ order'[a] = order[a]
      BY <2>11 DEF NeutralizeResidual, Goto, exchangeVars, TypeOK
    <3>. DEFINE residual == Residual(a, loc[a].sold)
    <3>3. /\ RoundDown(residual, Step[BuyEx(a)]) \in Nat
          /\ RoundDown(residual, Step[BuyEx(a)]) <= residual
      BY <2>11, RequestTypes, CallTypes DEF NeutralizeResidual, RoundDown, Residual
    <3>4. loc'[a].qty = RoundDown(residual, Step[BuyEx(a)]) /\ SameConfirmed(a)
      BY <2>11 DEF NeutralizeResidual, TypeOK, Locals, SameConfirmed
    <3>5. loc'[a].qty \in Nat /\ loc'[a].qty + loc[a].sold <= loc[a].net
      BY <3>3, <3>4, CallTypes DEF Residual
    <3>6. OrdersFollowLegs(a)'
      BY <3>2, <3>4, <3>5, CallTypes DEF OrdersInv, OrdersFollowLegs, Bought, BeforeNeu, BeforeSell, BeforeBuy, Legs, UnlistedSell, SameConfirmed
    <3>. QED
      BY <3>1, <3>6, OnlyOneMoves
  <2>12. ASSUME NEW a \in Attempts, SubmitBuy(a) PROVE OrdersInv'
    <3>1. OthersUntouched(a)
      BY <2>12 DEF OthersUntouched, TypeOK, SubmitBuy, Submit, SetQty, Goto
    <3>2. /\ pc[a] = "size" /\ pc'[a] = "buy" /\ SameConfirmed(a)
      BY <2>12 DEF SubmitBuy, SetQty, Goto, TypeOK, Locals, SameConfirmed
    <3>3. CommonQty(a) \in Nat
      BY <2>12, CommonQtyTypes
    <3>4. PICK q \in Nat : order'[a] = [order[a] EXCEPT !["buy"] = Sent(q)]
      <4>1. PICK p \in 1..CommonQty(a) : Submit(a, "buy", SizedQty(a, p))
        BY <2>12 DEF SubmitBuy
      <4>2. SizedQty(a, p) \in Nat
        BY <3>3, SizedQtyTypes
      <4>3. order'[a] = [order[a] EXCEPT !["buy"] = Sent(SizedQty(a, p))]
        BY <4>1 DEF Submit, TypeOK
      <4>. QED
        BY <4>2, <4>3
    <3>5. order'[a]["buy"] = Sent(q) /\ \A l \in Legs \ {"buy"} : order'[a][l] = order[a][l]
      BY <3>4 DEF TypeOK, Legs
    <3>6. Sent(q).filled = 0 /\ Sent(q).qty = q /\ Sent(q).st = "sent"
      BY DEF Sent
    <3>7. OrdersFollowLegs(a)'
      BY <3>2, <3>3, <3>4, <3>5, <3>6, CallTypes DEF OrdersInv, OrdersFollowLegs, Bought, BeforeNeu, BeforeSell, BeforeBuy, Legs, UnlistedSell, SameConfirmed
    <3>. QED
      BY <3>1, <3>7, OnlyOneMoves
  <2>13. ASSUME NEW a \in Attempts, SubmitSell(a) PROVE OrdersInv'
    <3>1. OthersUntouched(a)
      BY <2>13 DEF OthersUntouched, TypeOK, SubmitSell, Submit, Goto
    <3>2. /\ pc[a] = "sellLeg" /\ pc'[a] = "sell" /\ loc'[a] = loc[a]
      BY <2>13 DEF SubmitSell, Goto, TypeOK
    <3>3. SellQty(a) \in Nat /\ SellQty(a) <= loc[a].qty
      BY RoundDownBounds, RequestTypes, CallTypes DEF SellQty
    <3>4. /\ order'[a]["sell"] = Sent(SellQty(a))
          /\ \A l \in Legs \ {"sell"} : order'[a][l] = order[a][l]
      BY <2>13 DEF SubmitSell, Submit, TypeOK, Legs
    <3>5. /\ order'[a]["sell"].qty = SellQty(a) /\ order'[a]["sell"].filled = 0
          /\ order'[a]["sell"].st = "sent"
      BY <3>4 DEF Sent
    <3>6. OrdersFollowLegs(a)'
      BY <3>2, <3>3, <3>4, <3>5, CallTypes DEF OrdersInv, OrdersFollowLegs, Bought, BeforeNeu, BeforeSell, BeforeBuy, Legs, UnlistedSell
    <3>. QED
      BY <3>1, <3>6, OnlyOneMoves
  <2>14. ASSUME NEW a \in Attempts, SubmitNeutralization(a) PROVE OrdersInv'
    <3>1. OthersUntouched(a)
      BY <2>14 DEF OthersUntouched, TypeOK, SubmitNeutralization, Submit, Goto
    <3>2. /\ pc[a] = "neuSize" /\ pc'[a] = "neu" /\ loc'[a] = loc[a]
      BY <2>14 DEF SubmitNeutralization, Goto, TypeOK
    <3>3. PICK step \in LotSteps(a) : Submit(a, "neu", SafeQty(loc[a].qty, step))
      BY <2>14 DEF SubmitNeutralization
    <3>4. /\ SafeQty(loc[a].qty, step) \in Nat
          /\ SafeQty(loc[a].qty, step) <= loc[a].qty
      BY SafeQtyBounds, RequestTypes, CallTypes DEF LotSteps
    <3>5. /\ order'[a]["neu"] = Sent(SafeQty(loc[a].qty, step))
          /\ \A l \in Legs \ {"neu"} : order'[a][l] = order[a][l]
      BY <3>3 DEF Submit, TypeOK, Legs
    <3>6. /\ order'[a]["neu"].qty = SafeQty(loc[a].qty, step) /\ order'[a]["neu"].filled = 0
          /\ order'[a]["neu"].st = "sent"
      BY <3>5 DEF Sent
    <3>7. UnlistedSell(a)' = UnlistedSell(a) /\ UnlistedSell(a) \in Int
      BY <3>2, <3>5, CallTypes DEF UnlistedSell, Legs
    <3>8. OrdersFollowLegs(a)
      BY DEF OrdersInv
    <3>9. /\ order'[a]["buy"] = order[a]["buy"] /\ order'[a]["sell"] = order[a]["sell"]
          /\ order[a]["buy"].st = "done"
      BY <3>2, <3>5, <3>8 DEF OrdersFollowLegs, BeforeNeu, BeforeSell, BeforeBuy, Legs
    <3>10. ~loc[a].ambiguousSell =>
             /\ order[a]["sell"].st # "sent"
             /\ order'[a]["neu"].qty + order[a]["sell"].filled
                  <= order[a]["buy"].filled + UnlistedSell(a)
      BY <3>2, <3>4, <3>6, <3>7, <3>8, CallTypes DEF OrdersFollowLegs, Legs
    <3>11. OrdersFollowLegs(a)'
      BY <3>2, <3>4, <3>6, <3>7, <3>8, <3>9, <3>10, CallTypes
         DEF OrdersFollowLegs, Bought, BeforeNeu, BeforeSell, BeforeBuy, Legs
    <3>. QED
      BY <3>1, <3>11, OnlyOneMoves
  <2>15. ASSUME NEW a \in Attempts, NEW l \in Legs, Match(a, l) PROVE OrdersInv'
    <3>1. OthersUntouched(a)
      BY <2>15 DEF OthersUntouched, TypeOK, Match
    <3>2. pc'[a] = pc[a] /\ loc'[a] = loc[a]
      BY <2>15 DEF Match, TypeOK
    <3>3. PICK filled \in 0..order[a][l].qty, fee \in IF l = "buy" THEN Fees ELSE {0} :
           order' = [order EXCEPT ![a][l] = [order[a][l] EXCEPT !.st = "done",
                                              !.filled = filled, !.fee = fee]]
      BY <2>15 DEF Match
    <3>4. /\ order[a][l].st = "sent"
          /\ order'[a][l].st = "done" /\ order'[a][l].filled <= order[a][l].qty
          /\ order'[a][l].qty = order[a][l].qty
          /\ order'[a][l].filled \in Nat
      BY <2>15, <3>3, CallTypes DEF Match, TypeOK, Order
    <3>5. \A m \in Legs \ {l} : order'[a][m] = order[a][m]
      BY <3>3 DEF TypeOK
    <3>6. OrdersFollowLegs(a)'
      BY <3>2, <3>3, <3>4, <3>5, CallTypes DEF OrdersInv, OrdersFollowLegs, Bought, BeforeNeu, BeforeSell, BeforeBuy, Legs, UnlistedSell
    <3>. QED
      BY <3>1, <3>6, OnlyOneMoves
  <2>. QED
    BY <2>1, <2>2, <2>3, <2>4, <2>5, <2>6, <2>7, <2>8, <2>9, <2>10, <2>11, <2>12, <2>13, <2>14, <2>15 DEF Next, Advance

LEMMA OrdersInvariant == Spec => []OrdersInv
<1>1. Init => OrdersInv
  <2> SUFFICES ASSUME Init, NEW a \in Attempts PROVE OrdersFollowLegs(a)
    BY DEF OrdersInv
  <2>1. pc[a] = "idle" /\ \A l \in Legs : order[a][l] = NoOrder
    BY DEF Init
  <2>2. loc[a].bought = 0 /\ loc[a].sold = 0
    BY DEF Init, NoLocals
  <2>. QED
    BY <2>1, <2>2 DEF OrdersFollowLegs, NoOrder, Bought, BeforeNeu, BeforeSell, BeforeBuy, Legs
<1>. QED
  BY <1>1, TypeCorrect, OrdersStep, PTL DEF Spec

(* An attempt never sells, over its sell leg and its neutralization, more   *)
(* than its buy leg brought and the sales its sell exchange had not listed  *)
(* when it confirmed the leg: the quantity of each later order was bounded  *)
(* by the fills reported when it was sent, and no fill arrives afterwards   *)
(* that the attempt did not account for.                                    *)
THEOREM NeverOversells == Spec => []NeverOversold
<1>1. TypeOK /\ OrdersInv => NeverOversold
  <2> SUFFICES ASSUME TypeOK, OrdersInv, NEW a \in Attempts, ~loc[a].ambiguousSell
               PROVE  order[a]["sell"].filled + order[a]["neu"].filled
                        <= order[a]["buy"].filled + UnlistedSell(a)
    BY DEF NeverOversold
  <2>1. OrdersFollowLegs(a)
    BY DEF OrdersInv
  <2>2. CASE order[a]["neu"].st = "none"
    BY <2>1, <2>2, CallTypes DEF OrdersFollowLegs, Legs, UnlistedSell
  <2>3. CASE order[a]["neu"].st # "none"
    BY <2>1, <2>3, CallTypes DEF OrdersFollowLegs, Legs, UnlistedSell
  <2>. QED
    BY <2>2, <2>3
<1>. QED
  BY <1>1, TypeCorrect, OrdersInvariant, PTL

-----------------------------------------------------------------------------
(* Slots                                                                    *)

RunningCalls == {a \in Attempts : Running(a)}

LEMMA RunningIsFinite ==
  IsFiniteSet(RunningCalls) /\ Cardinality(RunningCalls) \in Nat
BY ExecutorAssumption, FS_Subset, FS_CardinalityType DEF RunningCalls

LEMMA SlotReleased ==
  ASSUME TypeOK, SlotsCountRunningCalls, NEW a \in Attempts, Running(a), RegisterEnd,
         pc' = [pc EXCEPT ![a] = "ended"] \/ pc' = [pc EXCEPT ![a] = "raised"]
  PROVE  SlotsCountRunningCalls'
<1>1. RunningCalls' = RunningCalls \ {a} /\ a \in RunningCalls
  BY DEF RunningCalls, Running, Suspended, TypeOK
<1>2. Cardinality(RunningCalls') = Cardinality(RunningCalls) - 1
  BY <1>1, RunningIsFinite, FS_RemoveElement
<1>3. Cardinality(RunningCalls) >= 1
  BY <1>1, RunningIsFinite, FS_EmptySet
<1>. QED
  BY <1>2, <1>3, RunningIsFinite DEF SlotsCountRunningCalls, RunningCalls, RegisterEnd, Max2

LEMMA SlotKept ==
  ASSUME TypeOK, SlotsCountRunningCalls, NEW a \in Attempts, Running(a),
         NEW p \in Suspended, Goto(a, p)
  PROVE  SlotsCountRunningCalls'
<1>1. RunningCalls' = RunningCalls
  BY DEF RunningCalls, Running, Goto, TypeOK
<1>. QED
  BY <1>1 DEF SlotsCountRunningCalls, RunningCalls, Goto, guardVars

\* What a step of an admitted call does to its suspension point, the guard and
\* its outcome: it goes on, it raises, or it returns a result.
Continues(a)     == Running(a) /\ \E p \in Suspended : Goto(a, p)
Raises(a)        == /\ Running(a) /\ RegisterEnd
                    /\ pc' = [pc EXCEPT ![a] = "raised"]
                    /\ UNCHANGED <<killSwitch, outcome>>
ReturnsClean(a)  == /\ Running(a)
                    /\ \E o \in ArbitrageOutcome \ (CriticalOutcomes \cup {"NO_TRADE_REFUSED"}) :
                         ReturnClean(a, o)
ReturnsCritical(a) == Running(a) /\ \E o \in CriticalOutcomes : ReturnCritical(a, o)

LEMMA AdvanceKinds ==
  ASSUME NEW a \in Attempts, Advance(a)
  PROVE  /\ Continues(a) \/ Raises(a) \/ ReturnsClean(a) \/ ReturnsCritical(a)
         /\ reviewed' = reviewed
<1>1. ASSUME ReadRaises(a)
      PROVE  Raises(a) /\ reviewed' = reviewed
  BY <1>1 DEF ReadRaises, Raises, Running, Suspended, Unprotected
<1>2. ASSUME QuoteRejected(a) \/ SizeRejected(a) \/ BuyZeroFill(a) \/ ResidualIsDust(a)
      PROVE  ReturnsClean(a) /\ reviewed' = reviewed
  BY <1>2 DEF QuoteRejected, SizeRejected, BuyZeroFill, ResidualIsDust, ReturnsClean,
              Running, Suspended, ArbitrageOutcome, CriticalOutcomes
<1>3. ASSUME BuyUnknown(a) \/ SellUnknown(a)
      PROVE  ReturnsCritical(a) /\ reviewed' = reviewed
  BY <1>3 DEF BuyUnknown, SellUnknown, ReturnsCritical, Running, Suspended, CriticalOutcomes
<1>4. ASSUME QuoteAccepted(a) \/ SubmitBuy(a) \/ BuyFilled(a) \/ ReadSellBalance(a)
             \/ SellNotViable(a) \/ SubmitSell(a) \/ SellSubmissionRaises(a)
             \/ SellZeroFill(a) \/ NeutralizeResidual(a) \/ NeuReadBalance(a)
             \/ SubmitNeutralization(a)
      PROVE  Continues(a) /\ reviewed' = reviewed
  BY <1>4 DEF QuoteAccepted, SubmitBuy, BuyFilled, ReadSellBalance, SellNotViable,
              SubmitSell, SellSubmissionRaises, SellZeroFill, NeutralizeResidual,
              NeuReadBalance, SubmitNeutralization, NeutralizePosition, Continues,
              Running, Suspended
<1>5. ASSUME SellFilled(a)
      PROVE  (Continues(a) \/ ReturnsClean(a)) /\ reviewed' = reviewed
  BY <1>5 DEF SellFilled, Continues, ReturnsClean, Running, Suspended, ArbitrageOutcome,
              CriticalOutcomes
<1>6. ASSUME NeuSkipped(a) \/ NeuFilled(a) \/ NeuUnconfirmed(a)
      PROVE  (ReturnsClean(a) \/ ReturnsCritical(a)) /\ reviewed' = reviewed
  BY <1>6 DEF NeuSkipped, NeuFilled, NeuUnconfirmed, NeutralizeReturns, ReturnsClean,
              ReturnsCritical, Running, Suspended, ArbitrageOutcome, CriticalOutcomes
<1>. QED
  BY <1>1, <1>2, <1>3, <1>4, <1>5, <1>6 DEF Advance

(* The guard's counter is the number of admitted calls that have not ended, *)
(* whichever way each of them ends.                                         *)
THEOREM SlotsCounted == Spec => []SlotsCountRunningCalls
<1>1. Init => SlotsCountRunningCalls
  <2> SUFFICES ASSUME Init PROVE SlotsCountRunningCalls
    OBVIOUS
  <2>1. {a \in Attempts : Running(a)} = {}
    BY DEF Init, Running, Suspended
  <2>. QED
    BY <2>1, FS_EmptySet DEF Init, SlotsCountRunningCalls
<1>2. TypeOK /\ SlotsCountRunningCalls /\ [Next]_vars => SlotsCountRunningCalls'
  <2> SUFFICES ASSUME TypeOK, SlotsCountRunningCalls, [Next]_vars
               PROVE  SlotsCountRunningCalls'
    OBVIOUS
  <2>1. ASSUME pc' = pc, inFlight' = inFlight PROVE SlotsCountRunningCalls'
    BY <2>1 DEF SlotsCountRunningCalls, Running
  <2>2. CASE OperatorEngages \/ OperatorDisengages \/ UNCHANGED vars
    BY <2>1, <2>2 DEF OperatorEngages, OperatorDisengages, vars
  <2>3. ASSUME NEW a \in Attempts, NEW l \in Legs, Match(a, l)
        PROVE  SlotsCountRunningCalls'
    BY <2>1, <2>3 DEF Match, guardVars
  <2>4. ASSUME NEW a \in Attempts, Refuse(a) PROVE SlotsCountRunningCalls'
    <3>1. RunningCalls' = RunningCalls
      BY <2>4 DEF Refuse, RunningCalls, Running, Suspended, TypeOK
    <3>. QED
      BY <3>1, <2>4 DEF Refuse, guardVars, SlotsCountRunningCalls, RunningCalls
  <2>5. ASSUME NEW a \in Attempts, Begin(a) PROVE SlotsCountRunningCalls'
    <3>1. RunningCalls' = RunningCalls \cup {a} /\ a \notin RunningCalls
      BY <2>5 DEF Begin, RunningCalls, Running, Suspended, TypeOK
    <3>2. Cardinality(RunningCalls') = Cardinality(RunningCalls) + 1
      BY <3>1, RunningIsFinite, FS_AddElement
    <3>. QED
      BY <3>2, <2>5 DEF Begin, SlotsCountRunningCalls, RunningCalls
  <2>6. ASSUME NEW a \in Attempts, Advance(a) PROVE SlotsCountRunningCalls'
    <3>1. CASE Continues(a)
      BY <3>1, SlotKept DEF Continues
    <3>2. CASE Raises(a) \/ ReturnsClean(a) \/ ReturnsCritical(a)
      BY <3>2, SlotReleased
         DEF Raises, ReturnsClean, ReturnsCritical, ReturnClean, ReturnCritical, Return
    <3>. QED
      BY <2>6, <3>1, <3>2, AdvanceKinds
  <2>. QED
    BY <2>2, <2>3, <2>4, <2>5, <2>6 DEF Next
<1>. QED
  BY <1>1, <1>2, TypeCorrect, PTL DEF Spec

-----------------------------------------------------------------------------
(* The abstract guard                                                       *)

PhaseOf == [a \in Attempts |-> Phase(a)]

LEMMA PhaseMoves ==
  ASSUME TypeOK, NEW a \in Attempts, NEW p,
         \E x : pc' = [pc EXCEPT ![a] = x],
         outcome' = outcome \/ \E o : outcome' = [outcome EXCEPT ![a] = o],
         Phase(a)' = p
  PROVE  PhaseOf' = [PhaseOf EXCEPT ![a] = p]
<1>1. ASSUME NEW b \in Attempts, b # a PROVE pc'[b] = pc[b] /\ outcome'[b] = outcome[b]
  BY <1>1 DEF TypeOK
<1>2. ASSUME NEW b \in Attempts, b # a PROVE Phase(b)' = Phase(b)
  BY <1>1, <1>2 DEF Phase, Running
<1>. QED
  BY <1>2 DEF PhaseOf

LEMMA PhaseStays ==
  ASSUME pc' = pc, outcome' = outcome
  PROVE  PhaseOf' = PhaseOf
BY DEF PhaseOf, Phase, Running

LEMMA RunningPhase ==
  ASSUME TypeOK
  PROVE  /\ \A a \in Attempts : Running(a) <=> Phase(a) = "running"
         /\ RunningCalls = Guarded!Running
<1>1. \A a \in Attempts : Running(a) <=> Phase(a) = "running"
  BY DEF Phase, Running, Suspended
<1>. QED
  BY <1>1 DEF RunningCalls, Guarded!Running

LEMMA CriticalPhase ==
  ASSUME TypeOK, NEW a \in Attempts, pc[a] = "ended", outcome[a] \in CriticalOutcomes
  PROVE  Phase(a) = "critical"
BY DEF Phase, Running, Suspended, CriticalOutcomes

\* A result exists only once its call has ended.
ResultOnlyAtEnd == \A a \in Attempts : outcome[a] # "none" => pc[a] = "ended"

LEMMA ResultInvariant == Spec => []ResultOnlyAtEnd
<1>1. Init => ResultOnlyAtEnd
  BY DEF Init, ResultOnlyAtEnd
<1>2. TypeOK /\ ResultOnlyAtEnd /\ [Next]_vars => ResultOnlyAtEnd'
  <2> SUFFICES ASSUME TypeOK, ResultOnlyAtEnd, [Next]_vars PROVE ResultOnlyAtEnd'
    OBVIOUS
  <2>1. CASE OperatorEngages \/ OperatorDisengages \/ UNCHANGED vars
    BY <2>1 DEF OperatorEngages, OperatorDisengages, vars, ResultOnlyAtEnd
  <2>2. ASSUME NEW a \in Attempts, NEW l \in Legs, Match(a, l) PROVE ResultOnlyAtEnd'
    BY <2>2 DEF Match, ResultOnlyAtEnd
  <2>3. ASSUME NEW a \in Attempts, Refuse(a) \/ Begin(a) PROVE ResultOnlyAtEnd'
    BY <2>3 DEF Refuse, Begin, ResultOnlyAtEnd, TypeOK
  <2>4. ASSUME NEW a \in Attempts, Continues(a) \/ Raises(a) PROVE ResultOnlyAtEnd'
    BY <2>4 DEF Continues, Raises, Goto, Running, Suspended, ResultOnlyAtEnd, TypeOK
  <2>5. ASSUME NEW a \in Attempts, ReturnsClean(a) \/ ReturnsCritical(a)
        PROVE  ResultOnlyAtEnd'
    BY <2>5 DEF ReturnsClean, ReturnsCritical, ReturnClean, ReturnCritical, Return,
                ResultOnlyAtEnd, TypeOK
  <2>. QED
    BY <2>1, <2>2, <2>3, <2>4, <2>5, AdvanceKinds DEF Next
<1>. QED
  BY <1>1, <1>2, TypeCorrect, PTL DEF Spec

LEMMA GuardStep ==
  ASSUME TypeOK, SlotsCountRunningCalls, ResultOnlyAtEnd, [Next]_vars
  PROVE  [Guarded!Next]_(Guarded!gvars)
<1>. USE DEF PhaseOf
<1>1. ASSUME NEW a \in Attempts, Refuse(a) PROVE Guarded!Refuse(a)
  <2>1. Phase(a) = "idle"
    BY <1>1 DEF Refuse, Phase, Running, Suspended
  <2>2. pc'[a] = "ended" /\ outcome'[a] = "NO_TRADE_REFUSED"
    BY <1>1 DEF Refuse, TypeOK
  <2>3. Phase(a)' = "refused"
    BY <2>2 DEF Phase, Running, Suspended
  <2>4. PhaseOf' = [PhaseOf EXCEPT ![a] = "refused"]
    BY <1>1, <2>3, PhaseMoves DEF Refuse
  <2>. QED
    BY <1>1, <2>1, <2>4 DEF Refuse, guardVars, Guarded!Refuse
<1>2. ASSUME NEW a \in Attempts, Begin(a) PROVE Guarded!Begin(a)
  <2>1. Phase(a) = "idle"
    BY <1>2 DEF Begin, Phase, Running, Suspended
  <2>2. pc'[a] = "quote"
    BY <1>2 DEF Begin, TypeOK
  <2>3. Phase(a)' = "running"
    BY <2>2 DEF Phase, Running, Suspended
  <2>4. PhaseOf' = [PhaseOf EXCEPT ![a] = "running"]
    BY <1>2, <2>3, PhaseMoves DEF Begin
  <2>5. Cardinality(Guarded!Running) < MaxConcurrent
    BY <1>2, RunningPhase DEF Begin, ArbitrageAllowed, SlotsCountRunningCalls, RunningCalls
  <2>6. ~killSwitch
    BY <1>2 DEF Begin, ArbitrageAllowed
  <2>. QED
    BY <1>2, <2>1, <2>4, <2>5, <2>6 DEF Begin, Guarded!Begin, Guarded!Cardinality, Cardinality
<1>3. ASSUME NEW a \in Attempts, Continues(a), reviewed' = reviewed
      PROVE  UNCHANGED Guarded!gvars
  <2>1. Phase(a) = "running" /\ Phase(a)' = "running"
    BY <1>3 DEF Continues, Goto, Phase, Running, Suspended, TypeOK
  <2>2. PhaseOf' = [PhaseOf EXCEPT ![a] = "running"]
    BY <1>3, <2>1, PhaseMoves DEF Continues, Goto
  <2>3. PhaseOf' = PhaseOf
    BY <2>1, <2>2
  <2>. QED
    BY <1>3, <2>3 DEF Continues, Goto, guardVars, Guarded!gvars
<1>4. ASSUME NEW a \in Attempts, Raises(a) \/ ReturnsClean(a), reviewed' = reviewed
      PROVE  Guarded!End(a)
  <2>1. Phase(a) = "running"
    BY <1>4, RunningPhase DEF Raises, ReturnsClean
  <2>2. Phase(a)' \in {"clean", "raised"}
    <3>1. CASE Raises(a)
      <4>1. pc'[a] = "raised"
        BY <3>1 DEF Raises, TypeOK
      <4>. QED
        BY <4>1 DEF Phase, Running, Suspended
    <3>2. CASE ReturnsClean(a)
      <4>1. pc'[a] = "ended" /\ outcome'[a] \notin CriticalOutcomes \cup {"NO_TRADE_REFUSED"}
        BY <3>2 DEF ReturnsClean, ReturnClean, Return, TypeOK
      <4>. QED
        BY <4>1 DEF Phase, Running, Suspended
    <3>. QED
      BY <1>4, <3>1, <3>2
  <2>3. /\ \E x : pc' = [pc EXCEPT ![a] = x]
        /\ outcome' = outcome \/ \E o : outcome' = [outcome EXCEPT ![a] = o]
        /\ killSwitch' = killSwitch
    BY <1>4 DEF Raises, ReturnsClean, ReturnClean, Return
  <2>4. PhaseOf' = [PhaseOf EXCEPT ![a] = Phase(a)']
    BY <2>3, PhaseMoves
  <2>. QED
    BY <1>4, <2>1, <2>2, <2>3, <2>4 DEF Guarded!End
<1>5. ASSUME NEW a \in Attempts, ReturnsCritical(a), reviewed' = reviewed
      PROVE  Guarded!EndCritical(a)
  <2>1. Phase(a) = "running"
    BY <1>5, RunningPhase DEF ReturnsCritical
  <2>2. pc'[a] = "ended" /\ outcome'[a] \in CriticalOutcomes
    BY <1>5 DEF ReturnsCritical, ReturnCritical, Return, TypeOK
  <2>3. Phase(a)' = "critical"
    BY <2>2 DEF Phase, Running, Suspended, CriticalOutcomes
  <2>4. PhaseOf' = [PhaseOf EXCEPT ![a] = "critical"]
    BY <1>5, <2>3, PhaseMoves DEF ReturnsCritical, ReturnCritical, Return
  <2>5. killSwitch' = TRUE
    BY <1>5 DEF ReturnsCritical, ReturnCritical
  <2>. QED
    BY <1>5, <2>1, <2>4, <2>5 DEF Guarded!EndCritical
<1>6. ASSUME OperatorEngages PROVE Guarded!Engage
  BY <1>6, PhaseStays DEF OperatorEngages, Guarded!Engage
<1>7. ASSUME OperatorDisengages PROVE Guarded!Disengage
  <2>1. {a \in Attempts : outcome[a] \in CriticalOutcomes} = Guarded!Critical
    <3>1. ASSUME NEW a \in Attempts
          PROVE  outcome[a] \in CriticalOutcomes <=> Phase(a) = "critical"
      BY CriticalPhase DEF ResultOnlyAtEnd, Phase, Running, Suspended, CriticalOutcomes
    <3>. QED
      BY <3>1 DEF Guarded!Critical
  <2>. QED
    BY <1>7, <2>1, PhaseStays DEF OperatorDisengages, Guarded!Disengage
<1>8. ASSUME NEW a \in Attempts, NEW l \in Legs, Match(a, l)
      PROVE  UNCHANGED Guarded!gvars
  BY <1>8, PhaseStays DEF Match, guardVars, Guarded!gvars
<1>9. ASSUME UNCHANGED vars PROVE UNCHANGED Guarded!gvars
  BY <1>9, PhaseStays DEF vars, Guarded!gvars
<1>10. ASSUME NEW a \in Attempts, Advance(a)
       PROVE  Guarded!Next \/ UNCHANGED Guarded!gvars
  BY <1>10, <1>3, <1>4, <1>5, AdvanceKinds DEF Guarded!Next
<1>. QED
  BY <1>1, <1>2, <1>6, <1>7, <1>8, <1>9, <1>10 DEF Next, Guarded!Next

(* The executor keeps what the guard promises: each step of a call, of an   *)
(* exchange or of an operator is a step of GuardedAttempts or leaves its    *)
(* state alone.                                                             *)
THEOREM ImplementsGuard == Spec => RefinesGuardedAttempts
<1>1. Init => Guarded!Init
  BY DEF Init, Guarded!Init, Phase, Running, Suspended
<1>2. TypeOK /\ SlotsCountRunningCalls /\ ResultOnlyAtEnd /\ [Next]_vars
        => [Guarded!Next]_(Guarded!gvars)
  BY GuardStep
<1>. QED
  BY <1>1, <1>2, TypeCorrect, SlotsCounted, ResultInvariant, PTL
     DEF Spec, RefinesGuardedAttempts, Guarded!Spec

GuardTheorems == INSTANCE GuardedAttemptsProofs
                   WITH phase <- [a \in Attempts |-> Phase(a)],
                        kill <- killSwitch

(* With one slot no buy order leaves while an attempt that ended in an      *)
(* unknown or unhedged state waits for its operator: the abstract guard's   *)
(* theorem, carried over by the refinement.                                 *)
THEOREM NoBuyUnreviewed ==
  ASSUME MaxConcurrent = 1
  PROVE  Spec => NoBuyWhileUnreviewed
<1>1. GuardTheorems!AttemptsAssumption
  BY ExecutorAssumption
     DEF GuardTheorems!AttemptsAssumption, GuardTheorems!IsFiniteSet, IsFiniteSet
<1>2. GuardTheorems!Spec => []GuardTheorems!NothingRunsUnreviewed
  BY <1>1, GuardTheorems!GuardedNothingRunsUnreviewed, PTL
<1>3. GuardTheorems!Next <=> Guarded!Next
  BY DEF GuardTheorems!Next, GuardTheorems!Refuse, GuardTheorems!Begin, GuardTheorems!End,
         GuardTheorems!EndCritical, GuardTheorems!Engage, GuardTheorems!Disengage,
         GuardTheorems!Running, GuardTheorems!Critical, GuardTheorems!Cardinality,
         Guarded!Next, Guarded!Refuse, Guarded!Begin, Guarded!End,
         Guarded!EndCritical, Guarded!Engage, Guarded!Disengage,
         Guarded!Running, Guarded!Critical, Guarded!Cardinality
<1>4. /\ GuardTheorems!Init <=> Guarded!Init
      /\ GuardTheorems!NothingRunsUnreviewed <=> Guarded!NothingRunsUnreviewed
  BY DEF GuardTheorems!Init, GuardTheorems!gvars, GuardTheorems!NothingRunsUnreviewed,
         GuardTheorems!Running, GuardTheorems!Critical,
         Guarded!Init, Guarded!gvars, Guarded!NothingRunsUnreviewed,
         Guarded!Running, Guarded!Critical
<1>5. [GuardTheorems!Next]_(GuardTheorems!gvars) <=> [Guarded!Next]_(Guarded!gvars)
  BY <1>3 DEF GuardTheorems!gvars, Guarded!gvars
<1>6. Spec => []Guarded!NothingRunsUnreviewed
  BY <1>2, <1>4, <1>5, ImplementsGuard, PTL
     DEF RefinesGuardedAttempts, Guarded!Spec, GuardTheorems!Spec
<1>7. TypeOK /\ ResultOnlyAtEnd /\ Guarded!NothingRunsUnreviewed /\ [Next]_vars
        => [\A a \in Attempts :
              order[a]["buy"].st = "none" /\ order'[a]["buy"].st # "none" =>
                \A b \in Attempts : outcome[b] \in CriticalOutcomes => b \in reviewed]_vars
  <2> SUFFICES ASSUME TypeOK, ResultOnlyAtEnd, Guarded!NothingRunsUnreviewed, [Next]_vars,
                      NEW a \in Attempts, NEW b \in Attempts,
                      order[a]["buy"].st = "none", order'[a]["buy"].st # "none",
                      outcome[b] \in CriticalOutcomes
               PROVE  b \in reviewed
    OBVIOUS
  <2>1. Running(a)
    <3>1. SubmitBuy(a) => Running(a)
      BY DEF SubmitBuy, Running, Suspended
    <3>2. order' # order
      OBVIOUS
    <3>3. ASSUME NEW l \in Legs, NEW c \in Attempts, Match(c, l) PROVE FALSE
      <4>1. PICK o : order' = [order EXCEPT ![c][l] = o] /\ order[c][l].st = "sent"
        BY <3>3 DEF Match
      <4>. QED
        BY <4>1 DEF TypeOK, Legs
    <3>4. ASSUME NEW c \in Attempts, SubmitSell(c) \/ SubmitNeutralization(c) PROVE FALSE
      <4>1. PICK l \in {"sell", "neu"} : \E q : order' = [order EXCEPT ![c][l] = Sent(q)]
        BY <3>4 DEF SubmitSell, SubmitNeutralization, Submit
      <4>2. PICK q : order' = [order EXCEPT ![c][l] = Sent(q)]
        BY <4>1
      <4>. QED
        BY <4>2 DEF TypeOK, Legs
    <3>5. ASSUME NEW c \in Attempts, SubmitBuy(c), c # a PROVE FALSE
      <4>1. PICK q : order' = [order EXCEPT ![c]["buy"] = Sent(q)]
        BY <3>5 DEF SubmitBuy, Submit
      <4>. QED
        BY <4>1, <3>5 DEF TypeOK, Legs
    <3>6. ASSUME NEW c \in Attempts, Refuse(c) \/ Begin(c) \/ Advance(c)
          PROVE  SubmitBuy(c) \/ SubmitSell(c) \/ SubmitNeutralization(c)
      BY <3>2, <3>6 DEF Refuse, Begin, Advance, exchangeVars, ReadRaises, QuoteRejected,
         QuoteAccepted, SizeRejected, BuyUnknown, BuyZeroFill, BuyFilled, ReadSellBalance,
         SellNotViable, SellSubmissionRaises, SellUnknown, SellZeroFill, SellFilled,
         ResidualIsDust, NeutralizeResidual, NeutralizePosition, NeuReadBalance,
         NeuSkipped, NeuFilled, NeuUnconfirmed
    <3>. QED
      BY <3>1, <3>2, <3>3, <3>4, <3>5, <3>6
         DEF Next, OperatorEngages, OperatorDisengages, exchangeVars, vars
  <2>2. a \in Guarded!Running
    BY <2>1, RunningPhase DEF RunningCalls
  <2>3. b \in Guarded!Critical
    BY CriticalPhase DEF ResultOnlyAtEnd, CriticalOutcomes, Guarded!Critical
  <2>. QED
    BY <2>2, <2>3 DEF Guarded!NothingRunsUnreviewed
<1>. QED
  BY <1>6, <1>7, TypeCorrect, ResultInvariant, PTL DEF NoBuyWhileUnreviewed, Spec

-----------------------------------------------------------------------------
(* A neutralized position is flat                                           *)

\* The rounding and the reserve take less than two lot steps.
LEMMA SafeQtyLosesLittle ==
  ASSUME NEW q \in Nat, NEW lot \in Nat \ {0}, NEW step \in {0, lot}
  PROVE  q < SafeQty(q, step) + 2 * lot
<1>1. CASE step = 0
  BY <1>1 DEF SafeQty, RoundDown
<1>2. CASE step = lot
  <2>1. q % lot \in 0..(lot - 1)
    OBVIOUS
  <2>2. RoundDown(q, step) = q - (q % lot)
    BY <1>2 DEF RoundDown
  <2>. QED
    BY <2>1, <2>2, <1>2 DEF SafeQty
<1>. QED
  BY <1>1, <1>2

\* A step of one call leaves the others where they are.
LEMMA OtherCallsStay ==
  ASSUME TypeOK, NEW a \in Attempts, NEW b \in Attempts, a # b,
         Refuse(b) \/ Begin(b) \/ Advance(b)
  PROVE  /\ pc'[a] = pc[a] /\ outcome'[a] = outcome[a]
         /\ loc'[a] = loc[a] /\ order'[a] = order[a]
<1>1. CASE Refuse(b) \/ Begin(b)
  BY <1>1 DEF Refuse, Begin, exchangeVars, TypeOK
<1>2. CASE Advance(b)
  <2>1. pc'[a] = pc[a] /\ outcome'[a] = outcome[a]
    BY <1>2, AdvanceKinds DEF Continues, Raises, ReturnsClean, ReturnsCritical,
       ReturnClean, ReturnCritical, Return, Goto, TypeOK
  <2>2. loc'[a] = loc[a] /\ order'[a] = order[a]
    BY <1>2 DEF Advance, Submit, SetQty, DropLocals, Return, ReturnClean, ReturnCritical,
       NeutralizeReturns, NeutralizePosition, ReadRaises, QuoteRejected, QuoteAccepted,
       SizeRejected, SubmitBuy, BuyUnknown, BuyZeroFill, BuyFilled, ReadSellBalance,
       SellNotViable, SubmitSell, SellSubmissionRaises, SellUnknown, SellZeroFill,
       SellFilled, ResidualIsDust, NeutralizeResidual, NeuReadBalance, NeuSkipped,
       SubmitNeutralization, NeuFilled, NeuUnconfirmed, exchangeVars, TypeOK
  <2>. QED
    BY <2>1, <2>2
<1>. QED
  BY <1>1, <1>2

\* A call that has ended stays as it is; only its open orders may still move.
LEMMA EndedCallsStay ==
  ASSUME TypeOK, [Next]_vars, NEW a \in Attempts, pc[a] \in {"ended", "raised"}
  PROVE  /\ pc'[a] = pc[a] /\ outcome'[a] = outcome[a] /\ loc'[a] = loc[a]
         /\ order[a]["neu"].st # "none" => order'[a]["neu"].st # "none"
<1>1. CASE OperatorEngages \/ OperatorDisengages \/ UNCHANGED vars
  BY <1>1 DEF OperatorEngages, OperatorDisengages, exchangeVars, vars
<1>2. ASSUME NEW b \in Attempts, Refuse(b) \/ Begin(b) PROVE b # a /\ loc' = loc /\ order' = order
                 /\ pc'[a] = pc[a] /\ outcome'[a] = outcome[a]
  BY <1>2 DEF Refuse, Begin, exchangeVars, TypeOK
<1>3. ASSUME NEW b \in Attempts, NEW l \in Legs, Match(b, l)
      PROVE  /\ pc' = pc /\ outcome' = outcome /\ loc' = loc
             /\ order[a]["neu"].st # "none" => order'[a]["neu"].st # "none"
  <2>1. PICK filled \in 0..order[b][l].qty, fee \in IF l = "buy" THEN Fees ELSE {0} :
         order' = [order EXCEPT ![b][l] = [order[b][l] EXCEPT !.st = "done",
                                            !.filled = filled, !.fee = fee]]
    BY <1>3 DEF Match
  <2>. QED
    BY <2>1, <1>3 DEF Match, TypeOK, Order, Legs
<1>4. ASSUME NEW b \in Attempts, Advance(b)
      PROVE  /\ b # a /\ pc'[a] = pc[a] /\ outcome'[a] = outcome[a]
             /\ loc'[a] = loc[a] /\ order'[a] = order[a]
  <2>1. b # a
    BY <1>4, AdvanceKinds DEF Continues, Raises, ReturnsClean, ReturnsCritical, Running,
       Suspended
  <2>. QED
    BY <2>1, <1>4, OtherCallsStay
<1>. QED
  BY <1>1, <1>2, <1>3, <1>4 DEF Next

AnyRaisedSellIsLate == \A a \in Attempts : RaisedSellsAreLate(a)

\* A call that neutralizes knows whether its sell was submitted, to its end.
LEMMA RaisedSellStep ==
  ASSUME TypeOK, OrdersInv, [Next]_vars, NEW a \in Attempts, RaisedSellsAreLate(a)
  PROVE  /\ RaisedSellsAreLate(a)'
         /\ loc[a].ambiguousSell => loc'[a].ambiguousSell
<1>1. CASE OperatorEngages \/ OperatorDisengages \/ UNCHANGED vars
  BY <1>1 DEF OperatorEngages, OperatorDisengages, exchangeVars, vars, RaisedSellsAreLate
<1>2. ASSUME NEW b \in Attempts, Refuse(b) \/ Begin(b)
      PROVE  RaisedSellsAreLate(a)' /\ loc' = loc
  BY <1>2 DEF Refuse, Begin, exchangeVars, TypeOK, RaisedSellsAreLate
<1>3. ASSUME NEW b \in Attempts, NEW l \in Legs, Match(b, l)
      PROVE  RaisedSellsAreLate(a)' /\ loc' = loc
  <2>1. PICK filled \in 0..order[b][l].qty, fee \in IF l = "buy" THEN Fees ELSE {0} :
         order' = [order EXCEPT ![b][l] = [order[b][l] EXCEPT !.st = "done",
                                            !.filled = filled, !.fee = fee]]
    BY <1>3 DEF Match
  <2>2. order[a]["neu"].st # "none" => order'[a]["neu"].st # "none"
    BY <2>1 DEF TypeOK, Order, Legs
  <2>. QED
    BY <2>2, <1>3 DEF Match, RaisedSellsAreLate
<1>4. ASSUME NEW b \in Attempts, a # b, Advance(b)
      PROVE  RaisedSellsAreLate(a)' /\ loc'[a] = loc[a]
  BY <1>4, OtherCallsStay DEF RaisedSellsAreLate
<1>5. ASSUME Advance(a)
      PROVE  RaisedSellsAreLate(a)' /\ (loc[a].ambiguousSell => loc'[a].ambiguousSell)
  <2>1. CASE QuoteAccepted(a) \/ SubmitBuy(a) \/ BuyFilled(a) \/ ReadSellBalance(a)
             \/ SellNotViable(a) \/ SubmitSell(a) \/ SellSubmissionRaises(a)
             \/ SellZeroFill(a) \/ NeutralizeResidual(a)
    <3>1. pc[a] \in Suspended \ {"neuBalance", "neuSize", "neu"}
      BY <2>1 DEF QuoteAccepted, SubmitBuy, BuyFilled, ReadSellBalance, SellNotViable,
         SubmitSell, SellSubmissionRaises, SellZeroFill, NeutralizeResidual, Suspended
    <3>2. ~loc[a].ambiguousSell
      BY <3>1 DEF RaisedSellsAreLate, Suspended
    <3>3. CASE SellNotViable(a) \/ SellSubmissionRaises(a) \/ SellZeroFill(a)
               \/ NeutralizeResidual(a)
      <4>1. pc'[a] = "neuBalance"
        BY <3>3 DEF SellNotViable, SellSubmissionRaises, SellZeroFill, NeutralizeResidual,
           NeutralizePosition, Goto, TypeOK
      <4>. QED
        BY <3>2, <4>1 DEF RaisedSellsAreLate
    <3>4. CASE QuoteAccepted(a) \/ SubmitBuy(a) \/ BuyFilled(a) \/ ReadSellBalance(a)
               \/ SubmitSell(a)
      <4>1. pc'[a] # "neu"
        BY <3>4 DEF QuoteAccepted, SubmitBuy, BuyFilled, ReadSellBalance, SubmitSell, Goto,
           TypeOK
      <4>2. loc'[a].ambiguousSell = loc[a].ambiguousSell
        BY <3>4 DEF QuoteAccepted, SubmitBuy, BuyFilled, ReadSellBalance, SubmitSell, SetQty,
           TypeOK, Locals
      <4>. QED
        BY <3>2, <4>1, <4>2 DEF RaisedSellsAreLate
    <3>. QED
      BY <2>1, <3>3, <3>4
  <2>2. CASE NeuReadBalance(a) \/ SubmitNeutralization(a)
    <3>1. \/ pc'[a] = "neuSize"
          \/ pc'[a] = "neu" /\ order'[a]["neu"].st # "none"
      BY <2>2 DEF NeuReadBalance, SubmitNeutralization, Goto, Submit, Sent, TypeOK, Legs
    <3>2. loc'[a].ambiguousSell = loc[a].ambiguousSell
      BY <2>2 DEF NeuReadBalance, SubmitNeutralization, SetQty, TypeOK, Locals
    <3>. QED
      BY <3>1, <3>2 DEF RaisedSellsAreLate
  <2>3. ASSUME SellFilled(a), pc'[a] = "residual", loc'[a].ambiguousSell = loc[a].ambiguousSell
        PROVE  RaisedSellsAreLate(a)' /\ (loc[a].ambiguousSell => loc'[a].ambiguousSell)
    BY <2>3 DEF SellFilled, RaisedSellsAreLate
  <2>4. ASSUME DropLocals(a), pc'[a] \in {"ended", "raised"}
        PROVE  RaisedSellsAreLate(a)' /\ (loc[a].ambiguousSell => loc'[a].ambiguousSell)
    BY <2>4 DEF DropLocals, RaisedSellsAreLate, TypeOK
  <2>5. CASE ReadRaises(a) \/ QuoteRejected(a) \/ SizeRejected(a) \/ BuyUnknown(a)
             \/ BuyZeroFill(a) \/ SellUnknown(a) \/ ResidualIsDust(a) \/ NeuSkipped(a)
             \/ NeuFilled(a) \/ NeuUnconfirmed(a)
    BY <2>5, <2>4 DEF ReadRaises, QuoteRejected, SizeRejected, BuyUnknown, BuyZeroFill,
       SellUnknown, ResidualIsDust, NeuSkipped, NeuFilled, NeuUnconfirmed,
       NeutralizeReturns, ReturnClean, ReturnCritical, Return, TypeOK
  <2>6. CASE SellFilled(a)
    <3>1. \/ /\ pc'[a] = "residual"
             /\ \E q : loc' = [loc EXCEPT ![a].sold = q]
          \/ pc'[a] = "ended" /\ DropLocals(a)
      BY <2>6 DEF SellFilled, ReturnClean, Return, Goto, TypeOK
    <3>2. pc'[a] = "residual" /\ (\E q : loc' = [loc EXCEPT ![a].sold = q]) =>
            loc'[a].ambiguousSell = loc[a].ambiguousSell
      BY DEF TypeOK, Locals
    <3>. QED
      BY <2>6, <3>1, <3>2, <2>3, <2>4
  <2>. QED
    BY <1>5, <2>1, <2>2, <2>5, <2>6 DEF Advance
<1>. QED
  BY <1>1, <1>2, <1>3, <1>4, <1>5 DEF Next

\* What is unknown stays unknown.
LEMMA MarketWasKnown ==
  ASSUME TypeOK, OrdersInv, ResultOnlyAtEnd, AnyRaisedSellIsLate, [Next]_vars, MarketKnown'
  PROVE  MarketKnown
<1> SUFFICES ASSUME NEW a \in Attempts, LeftTheMarketUnknown(a) PROVE LeftTheMarketUnknown(a)'
  BY DEF MarketKnown
<1>1. CASE loc[a].ambiguousSell
  BY <1>1, RaisedSellStep DEF AnyRaisedSellIsLate, LeftTheMarketUnknown
<1>2. CASE ~loc[a].ambiguousSell
  <2>1. pc[a] \in {"ended", "raised"}
    BY <1>2 DEF LeftTheMarketUnknown, ResultOnlyAtEnd, CriticalOutcomes
  <2>. QED
    BY <2>1, EndedCallsStay DEF LeftTheMarketUnknown
<1>. QED
  BY <1>1, <1>2

OneRuns == \A a, b \in Attempts : Running(a) /\ Running(b) => a = b

\* With one slot the calls do not overlap.
LEMMA CallsDoNotOverlap ==
  ASSUME MaxConcurrent = 1
  PROVE  Spec => []OneRuns
<1>1. Init => OneRuns
  BY DEF Init, OneRuns, Running, Suspended
<1>2. TypeOK /\ SlotsCountRunningCalls /\ OneRuns /\ [Next]_vars => OneRuns'
  <2> SUFFICES ASSUME TypeOK, SlotsCountRunningCalls, OneRuns, [Next]_vars PROVE OneRuns'
    OBVIOUS
  <2>1. ASSUME pc' = pc PROVE OneRuns'
    BY <2>1 DEF OneRuns, Running
  <2>2. CASE OperatorEngages \/ OperatorDisengages \/ UNCHANGED vars
    BY <2>1, <2>2 DEF OperatorEngages, OperatorDisengages, vars
  <2>3. ASSUME NEW a \in Attempts, NEW l \in Legs, Match(a, l) PROVE OneRuns'
    BY <2>1, <2>3 DEF Match
  <2>4. ASSUME NEW a \in Attempts, Refuse(a) PROVE OneRuns'
    BY <2>4 DEF Refuse, OneRuns, Running, Suspended, TypeOK
  <2>5. ASSUME NEW a \in Attempts, Begin(a) PROVE OneRuns'
    <3>1. inFlight < 1 /\ inFlight \in Nat
      BY <2>5 DEF Begin, ArbitrageAllowed, TypeOK
    <3>2. RunningCalls = {}
      BY <3>1, RunningIsFinite, FS_EmptySet DEF SlotsCountRunningCalls, RunningCalls
    <3>. QED
      BY <2>5, <3>2 DEF Begin, OneRuns, Running, RunningCalls, TypeOK
  <2>6. ASSUME NEW a \in Attempts, Advance(a) PROVE OneRuns'
    <3>1. Running(a) /\ \E p \in PCs : pc' = [pc EXCEPT ![a] = p]
      BY <2>6, AdvanceKinds DEF Continues, Raises, ReturnsClean, ReturnsCritical,
         ReturnClean, ReturnCritical, Return, Goto, PCs
    <3>2. \A b \in Attempts : Running(b)' => Running(b)
      BY <3>1 DEF Running, TypeOK
    <3>. QED
      BY <3>2 DEF OneRuns
  <2>. QED
    BY <2>2, <2>3, <2>4, <2>5, <2>6 DEF Next
<1>. QED
  BY <1>1, <1>2, TypeCorrect, SlotsCounted, PTL DEF Spec

\* What is bought after the fee, and what a fee can take of it.
LEMMA NetTypes ==
  ASSUME TypeOK, NEW a \in Attempts
  PROVE  /\ NetOf(order[a]["buy"]) \in Nat
         /\ NetOf(order[a]["buy"]) <= order[a]["buy"].filled
         /\ order[a]["buy"].filled <= NetOf(order[a]["buy"]) + order[a]["buy"].fee
BY CallTypes DEF NetOf, Max2, Legs

\* An end keeps the position, if no order of the call is open and what it
\* reports as neutralized is.
LEMMA EndHolds ==
  ASSUME TypeOK, NEW a \in Attempts, DropLocals(a),
         pc' = [pc EXCEPT ![a] = "ended"], UNCHANGED <<req, order>>,
         \A l \in Legs : order[a][l].st # "sent",
         outcome'[a] = "BUY_ONLY_NEUTRALIZED" =>
           /\ order[a]["sell"].filled = 0
           /\ NetOf(order[a]["buy"])
                < order[a]["neu"].filled + 2 * Step[BuyEx(a)] + UnlistedBuy(a)
  PROVE  PositionIsHeld(a)'
<1>1. pc'[a] = "ended" /\ order'[a] = order[a] /\ BuyEx(a)' = BuyEx(a)
  BY DEF TypeOK, BuyEx
<1>2. UnlistedBuy(a)' = UnlistedBuy(a)
  BY DEF DropLocals, TypeOK, Locals, UnlistedBuy
<1>. QED
  BY <1>1, <1>2 DEF PositionIsHeld, Running, Suspended, Bought

\* A step that keeps the buy leg and what it confirmed keeps what was not listed.
LEMMA UnlistedStays ==
  ASSUME NEW a \in Attempts,
         loc'[a].bought = loc[a].bought, order'[a]["buy"] = order[a]["buy"]
  PROVE  UnlistedBuy(a)' = UnlistedBuy(a)
BY DEF UnlistedBuy

LEMMA OwnStepHolds ==
  ASSUME TypeOK, OrdersInv, ResultOnlyAtEnd, NEW a \in Attempts,
         RaisedSellsAreLate(a), PositionIsHeld(a),
         ~LeftTheMarketUnknown(a), ~LeftTheMarketUnknown(a)',
         Refuse(a) \/ Begin(a) \/ Advance(a)
  PROVE  PositionIsHeld(a)'
<1>. DEFINE buy  == order[a]["buy"]
            sell == order[a]["sell"]
            neu  == order[a]["neu"]
            lot  == Step[BuyEx(a)]
            bought == NetOf(buy)
<1>1. /\ OrdersFollowLegs(a)
      /\ ~loc[a].ambiguousSell /\ ~loc'[a].ambiguousSell
      /\ pc'[a] # "raised" /\ outcome'[a] \notin CriticalOutcomes
      /\ ~(outcome'[a] = "BOTH_FILLED" /\ order'[a]["neu"].st # "none")
  BY DEF OrdersInv, LeftTheMarketUnknown
<1>2. /\ bought \in Nat /\ bought <= buy.filled /\ lot \in Nat \ {0}
      /\ loc[a].qty \in Nat /\ loc[a].net \in Nat
      /\ UnlistedBuy(a) \in Nat
      /\ Available(a, BuyEx(a)) \in Nat /\ Available(a, SellEx(a)) \in Nat
      /\ \A l \in Legs : /\ order[a][l].qty \in Nat /\ order[a][l].filled \in Nat
                         /\ order[a][l].st \in {"none", "sent", "done"}
  <2>1. UnlistedBuy(a) \in Nat
    BY <1>1, CallTypes DEF OrdersFollowLegs, UnlistedBuy, Legs
  <2>. QED
    BY <2>1, NetTypes, CallTypes, RequestTypes
<1>3. pc[a] # "ended" => outcome[a] = "none"
  BY DEF ResultOnlyAtEnd
<1>4. CASE Refuse(a) \/ QuoteRejected(a) \/ SizeRejected(a)
  <2>1. \A l \in Legs : order[a][l].st # "sent"
    BY <1>1, <1>4 DEF Refuse, QuoteRejected, SizeRejected, OrdersFollowLegs, BeforeBuy,
       BeforeSell, BeforeNeu, Legs
  <2>2. CASE Refuse(a)
    <3>1. pc'[a] = "ended" /\ outcome'[a] = "NO_TRADE_REFUSED" /\ order'[a] = order[a]
      BY <2>2 DEF Refuse, exchangeVars, TypeOK
    <3>. QED
      BY <3>1, <2>1 DEF PositionIsHeld, Running, Suspended, Bought
  <2>3. CASE QuoteRejected(a) \/ SizeRejected(a)
    BY <2>1, <2>3, EndHolds DEF QuoteRejected, SizeRejected, ReturnClean, Return,
       exchangeVars, TypeOK
  <2>. QED
    BY <1>4, <2>2, <2>3
<1>5. CASE Begin(a) \/ QuoteAccepted(a)
  <2>1. pc'[a] \in {"quote", "size"} /\ order'[a] = order[a] /\ outcome'[a] = "none"
    BY <1>3, <1>5 DEF Begin, QuoteAccepted, Goto, exchangeVars, TypeOK
  <2>2. buy.st = "none"
    BY <1>1, <1>5 DEF Begin, QuoteAccepted, OrdersFollowLegs, BeforeBuy
  <2>. QED
    BY <2>1, <2>2 DEF PositionIsHeld, Bought
<1>6. CASE SubmitBuy(a)
  <2>1. pc'[a] = "buy" /\ outcome'[a] = "none"
    BY <1>3, <1>6 DEF SubmitBuy, Goto, TypeOK
  <2>2. order'[a]["buy"].st = "sent"
    BY <1>6 DEF SubmitBuy, Submit, Sent, TypeOK, Legs
  <2>. QED
    BY <2>1, <2>2 DEF PositionIsHeld, Bought
<1>7. CASE BuyZeroFill(a) \/ ResidualIsDust(a)
  <2>1. \A l \in Legs : order[a][l].st # "sent"
    BY <1>1, <1>7 DEF BuyZeroFill, ResidualIsDust, OrdersFollowLegs, BeforeBuy,
       BeforeSell, BeforeNeu, Legs
  <2>. QED
    BY <2>1, <1>7, EndHolds DEF BuyZeroFill, ResidualIsDust, ReturnClean, Return,
       exchangeVars, TypeOK
<1>8. CASE BuyFilled(a)
  <2>1. /\ pc[a] = "buy" /\ pc'[a] = "sellBalance" /\ outcome'[a] = "none"
        /\ order' = order /\ balance' = balance /\ req' = req /\ buy.st = "done"
    BY <1>3, <1>8 DEF BuyFilled, Goto, exchangeVars, TypeOK
  <2>2. bought <= loc'[a].net + UnlistedBuy(a)'
    <3>1. PICK c \in Confirmed(a, "buy") :
            loc' = [loc EXCEPT ![a].bought = c.filled, ![a].net = NetOf(c)]
      BY <1>8 DEF BuyFilled
    <3>2. loc'[a].bought = c.filled /\ loc'[a].net = NetOf(c)
      BY <3>1 DEF TypeOK, Locals
    <3>3. c.filled > 0 /\ c.filled \in Nat
      BY <1>2, <1>8, ConfirmedTypes DEF BuyFilled, Legs
    <3>4. UnlistedBuy(a)' = buy.filled - c.filled
      BY <2>1, <3>2, <3>3 DEF UnlistedBuy
    <3>. QED
      BY <3>2, <3>4, ConfirmedNet DEF Legs
  <2>3. neu.st = "none"
    BY <1>1, <2>1 DEF OrdersFollowLegs, BeforeNeu, BeforeSell
  <2>4. bought <= Available(a, BuyEx(a)) /\ Available(a, BuyEx(a))' = Available(a, BuyEx(a))
    BY <2>1, <2>3 DEF PositionIsHeld, Running, Suspended, Available, BuyEx
  <2>. QED
    BY <1>2, <2>1, <2>2, <2>4 DEF PositionIsHeld, Bought, BuyEx
<1>9. CASE ReadSellBalance(a) \/ SubmitSell(a)
  <2>1. /\ pc[a] \in {"sellBalance", "sellLeg"} /\ pc'[a] \in {"sellLeg", "sell"}
        /\ outcome'[a] = "none" /\ balance' = balance /\ req' = req
        /\ loc'[a].net = loc[a].net /\ loc'[a].bought = loc[a].bought
    BY <1>3, <1>9 DEF ReadSellBalance, SubmitSell, Submit, SetQty, Goto, exchangeVars, TypeOK,
       Locals
  <2>2. order'[a]["buy"] = buy /\ order'[a]["neu"] = neu
    BY <1>9 DEF ReadSellBalance, SubmitSell, Submit, exchangeVars, TypeOK, Legs
  <2>3. Available(a, BuyEx(a))' = Available(a, BuyEx(a))
    BY <2>1 DEF Available, BuyEx
  <2>4. UnlistedBuy(a)' = UnlistedBuy(a)
    BY <2>1, <2>2, UnlistedStays
  <2>. QED
    BY <2>1, <2>2, <2>3, <2>4 DEF PositionIsHeld, Bought, BuyEx, Running, Suspended
<1>10. CASE SellNotViable(a) \/ SellZeroFill(a)
  <2>1. /\ pc[a] \in {"sellLeg", "sell"} /\ pc'[a] = "neuBalance" /\ outcome'[a] = "none"
        /\ order' = order /\ balance' = balance /\ req' = req
        /\ loc'[a].qty = loc[a].net /\ loc'[a].bought = loc[a].bought
    <3>1. NeutralizePosition(a, FALSE)
      BY <1>10 DEF SellNotViable, SellZeroFill
    <3>. QED
      BY <1>3, <1>10, <3>1, NeutralizePositionLocals
         DEF SellNotViable, SellZeroFill, NeutralizePosition, Goto, exchangeVars, TypeOK
  <2>2. sell.filled = 0
    BY <1>1, <1>10 DEF SellNotViable, SellZeroFill, OrdersFollowLegs, BeforeSell, Legs
  <2>3. bought <= loc[a].net + UnlistedBuy(a)
    BY <2>1 DEF PositionIsHeld, Bought
  <2>4. Available(a, BuyEx(a))' = Available(a, BuyEx(a))
    BY <2>1 DEF Available, BuyEx
  <2>5. UnlistedBuy(a)' = UnlistedBuy(a)
    BY <2>1, UnlistedStays
  <2>. QED
    BY <2>1, <2>2, <2>3, <2>4, <2>5 DEF PositionIsHeld, Bought, BuyEx, Running, Suspended
<1>11. CASE ReadRaises(a) \/ BuyUnknown(a) \/ SellUnknown(a) \/ SellSubmissionRaises(a)
  <2>1. ~ReadRaises(a)
    BY <1>1 DEF ReadRaises, TypeOK
  <2>2. ~BuyUnknown(a) /\ ~SellUnknown(a)
    BY <1>1 DEF BuyUnknown, SellUnknown, ReturnCritical, Return, CriticalOutcomes, TypeOK
  <2>3. ~SellSubmissionRaises(a)
    BY <1>1, NeutralizePositionLocals DEF SellSubmissionRaises
  <2>. QED
    BY <1>11, <2>1, <2>2, <2>3
<1>12. CASE SellFilled(a)
  <2>1. /\ pc[a] = "sell" /\ sell.st = "done" /\ UNCHANGED <<req, order, balance>>
        /\ buy.st = "done" /\ neu.st = "none"
    BY <1>1, <1>12 DEF SellFilled, exchangeVars, OrdersFollowLegs, BeforeNeu, BeforeSell, BeforeBuy
  <2>2. PICK c \in Confirmed(a, "sell") :
          \/ Goto(a, "residual") /\ loc' = [loc EXCEPT ![a].sold = c.filled]
          \/ ReturnClean(a, "BOTH_FILLED")
    BY <1>12 DEF SellFilled
  <2>3. CASE Goto(a, "residual") /\ loc' = [loc EXCEPT ![a].sold = c.filled]
    <3>1. /\ pc'[a] = "residual" /\ outcome'[a] = "none"
          /\ loc'[a].net = loc[a].net /\ loc'[a].bought = loc[a].bought
      BY <1>3, <2>1, <2>3 DEF Goto, TypeOK, Locals
    <3>2. Available(a, BuyEx(a))' = Available(a, BuyEx(a))
      BY <2>1 DEF Available, BuyEx
    <3>3. UnlistedBuy(a)' = UnlistedBuy(a)
      BY <2>1, <3>1, UnlistedStays
    <3>. QED
      BY <2>1, <3>1, <3>2, <3>3 DEF PositionIsHeld, Bought, BuyEx, Running, Suspended
  <2>4. CASE ReturnClean(a, "BOTH_FILLED")
    <3>1. \A l \in Legs : order[a][l].st # "sent"
      BY <2>1 DEF Legs
    <3>. QED
      BY <2>1, <2>4, <3>1, EndHolds DEF ReturnClean, Return, TypeOK
  <2>. QED
    BY <2>2, <2>3, <2>4
<1>13. CASE NeutralizeResidual(a)
  <2>1. /\ pc[a] = "residual" /\ pc'[a] = "neuBalance" /\ outcome'[a] = "none"
        /\ order' = order /\ balance' = balance /\ req' = req
        /\ loc'[a].neuFor = "residual"
    BY <1>3, <1>13 DEF NeutralizeResidual, Goto, exchangeVars, TypeOK
  <2>2. Available(a, BuyEx(a))' = Available(a, BuyEx(a))
    BY <2>1 DEF Available, BuyEx
  <2>. QED
    BY <2>1, <2>2 DEF PositionIsHeld, Bought, BuyEx, Running, Suspended
<1>14. CASE NeuReadBalance(a)
  <2>1. /\ pc[a] = "neuBalance" /\ pc'[a] = "neuSize" /\ outcome'[a] = "none"
        /\ order' = order /\ balance' = balance /\ req' = req
        /\ loc'[a].neuFor = loc[a].neuFor /\ loc'[a].bought = loc[a].bought
        /\ loc'[a].qty = Min2(loc[a].qty, Available(a, BuyEx(a)))
    BY <1>3, <1>14 DEF NeuReadBalance, SetQty, Goto, exchangeVars, TypeOK, Locals
  <2>2. buy.st = "done" /\ neu.st = "none"
    BY <1>1, <2>1 DEF OrdersFollowLegs, BeforeNeu, BeforeSell, BeforeBuy
  <2>3. bought <= Available(a, BuyEx(a))
    BY <2>1, <2>2 DEF PositionIsHeld, Running, Suspended
  <2>4. loc[a].neuFor = "position" =>
          sell.filled = 0 /\ bought <= loc'[a].qty + UnlistedBuy(a)
    BY <1>2, <2>1, <2>3 DEF PositionIsHeld, Min2
  <2>5. Available(a, BuyEx(a))' = Available(a, BuyEx(a))
    BY <2>1 DEF Available, BuyEx
  <2>6. UnlistedBuy(a)' = UnlistedBuy(a)
    BY <2>1, UnlistedStays
  <2>. QED
    BY <2>1, <2>3, <2>4, <2>5, <2>6 DEF PositionIsHeld, Bought, BuyEx
<1>15. CASE NeuSkipped(a)
  <2>1. pc[a] = "neuSize" /\ UNCHANGED <<req, order, balance>>
    BY <1>15 DEF NeuSkipped, exchangeVars
  <2>2. ReturnClean(a, "BOTH_FILLED")
    BY <1>1, <1>15 DEF NeuSkipped, NeutralizeReturns, ReturnCritical, Return,
       CriticalOutcomes, TypeOK
  <2>3. \A l \in Legs : order[a][l].st # "sent"
    BY <1>1, <2>1 DEF OrdersFollowLegs, BeforeNeu, BeforeSell, BeforeBuy, Legs
  <2>. QED
    BY <2>1, <2>2, <2>3, EndHolds DEF ReturnClean, Return, TypeOK
<1>16. CASE SubmitNeutralization(a)
  <2>1. /\ pc[a] = "neuSize" /\ pc'[a] = "neu" /\ outcome'[a] = "none"
        /\ req' = req /\ loc' = loc
    BY <1>3, <1>16 DEF SubmitNeutralization, Goto, TypeOK
  <2>2. PICK step \in LotSteps(a) : Submit(a, "neu", SafeQty(loc[a].qty, step))
    BY <1>16 DEF SubmitNeutralization
  <2>3. /\ order'[a]["neu"].st = "sent"
        /\ order'[a]["neu"].qty = SafeQty(loc[a].qty, step)
        /\ order'[a]["buy"] = buy /\ order'[a]["sell"] = sell
    BY <2>2 DEF Submit, Sent, TypeOK, Legs
  <2>4. SafeQty(loc[a].qty, step) \in Nat
    BY <1>2, SafeQtyBounds DEF LotSteps
  <2>5. loc[a].qty < SafeQty(loc[a].qty, step) + 2 * lot
    BY <1>2, SafeQtyLosesLittle DEF LotSteps
  <2>6. loc[a].neuFor = "position" =>
          /\ sell.filled = 0
          /\ bought < order'[a]["neu"].qty + 2 * lot + UnlistedBuy(a)
    BY <1>2, <2>1, <2>3, <2>4, <2>5 DEF PositionIsHeld
  <2>7. UnlistedBuy(a)' = UnlistedBuy(a)
    BY <2>1, <2>3, UnlistedStays
  <2>. QED
    BY <2>1, <2>3, <2>6, <2>7 DEF PositionIsHeld, Bought, BuyEx
<1>17. CASE NeuFilled(a) \/ NeuUnconfirmed(a)
  <2>1. pc[a] = "neu" /\ UNCHANGED <<req, order, balance>> /\ neu.st # "none"
    BY <1>17 DEF NeuFilled, NeuUnconfirmed, exchangeVars, RaisedSellsAreLate
  <2>2. loc[a].neuFor = "position"
    <3>1. CASE loc[a].neuFor = "residual"
      <4>1. outcome'[a] = "BOTH_FILLED"
        BY <1>17, <3>1 DEF NeuFilled, NeuUnconfirmed, NeutralizeReturns, ReturnClean, Return,
           TypeOK
      <4>. QED
        BY <1>1, <2>1, <4>1
    <3>. QED
      BY <3>1 DEF TypeOK, Locals
  <2>3. NeuFilled(a)
    BY <1>1, <1>17, <2>2 DEF NeuUnconfirmed, NeutralizeReturns, ReturnCritical,
       Return, CriticalOutcomes, TypeOK
  <2>4. ReturnClean(a, "BUY_ONLY_NEUTRALIZED")
    BY <2>2, <2>3 DEF NeuFilled, NeutralizeReturns
  <2>5. /\ neu.st = "done" /\ neu.filled = neu.qty /\ sell.filled = 0
        /\ bought < neu.filled + 2 * lot + UnlistedBuy(a)
    BY <2>1, <2>2, <2>3 DEF NeuFilled, PositionIsHeld
  <2>6. \A l \in Legs : order[a][l].st # "sent"
    BY <1>1, <2>5 DEF OrdersFollowLegs, Legs
  <2>. QED
    BY <2>1, <2>4, <2>5, <2>6, EndHolds DEF ReturnClean, Return, TypeOK
<1>. QED
  BY <1>4, <1>5, <1>6, <1>7, <1>8, <1>9, <1>10, <1>11, <1>12, <1>13, <1>14, <1>15, <1>16, <1>17
     DEF Advance

\* While one call runs, no other call holds an order that could still fill.
LEMMA OnlyTheRunningCallTrades ==
  ASSUME TypeOK, OrdersInv, MarketKnown, NEW a \in Attempts, PositionIsHeld(a),
         NEW l \in Legs, order[a][l].st = "sent"
  PROVE  Running(a)
<1>1. pc[a] # "raised"
  BY DEF MarketKnown, LeftTheMarketUnknown
<1>2. pc[a] # "ended"
  BY DEF PositionIsHeld
<1>3. pc[a] # "idle"
  BY DEF OrdersInv, OrdersFollowLegs, BeforeBuy, BeforeSell, BeforeNeu, Legs
<1>. QED
  BY <1>1, <1>2, <1>3 DEF TypeOK, PCs, Running

\* A fill leaves the positions where they are: it is the running call's own, its
\* sell leg fills on the other exchange, and its neutralization is sent after
\* the balance was read.
LEMMA MatchHolds ==
  ASSUME TypeOK, TypeOK', OrdersInv, ResultOnlyAtEnd, AnyRaisedSellIsLate, OneRuns, MarketKnown, NEW b \in Attempts, PositionIsHeld(b),
         NEW a \in Attempts, PositionIsHeld(a), NEW l \in Legs, Match(a, l)
  PROVE  PositionIsHeld(b)'
<1>1. order[a][l].st = "sent"
  BY DEF Match
<1>2. Running(a)
  BY <1>1, OnlyTheRunningCallTrades
<1>3. pc' = pc /\ loc' = loc /\ outcome' = outcome /\ req' = req
  BY DEF Match
<1>4. PICK filled \in 0..order[a][l].qty, fee \in IF l = "buy" THEN Fees ELSE {0} :
         LET done == [order[a][l] EXCEPT !.st = "done", !.filled = filled, !.fee = fee] IN
         /\ order' = [order EXCEPT ![a][l] = done]
         /\ balance' = [balance EXCEPT ![req[a].symbol][Where(a, l)] =
                          IF l = "buy" THEN @ + NetOf(done) ELSE @ - filled]
  BY DEF Match
<1>5. /\ order'[a][l].st = "done" /\ order'[a][l].filled = filled
      /\ \A m \in Legs \ {l} : order'[a][m] = order[a][m]
  BY <1>4 DEF TypeOK, Order
<1>6. CASE b # a
  <2>1. order'[b] = order[b]
    BY <1>4, <1>6 DEF TypeOK
  <2>2. ~Running(b)
    BY <1>2, <1>6 DEF OneRuns
  <2>. QED
    BY <1>3, <2>1, <2>2 DEF PositionIsHeld, Running, Suspended, Bought, BuyEx, UnlistedBuy
<1>7. CASE b = a
  <2>1. ~loc[a].ambiguousSell /\ OrdersFollowLegs(a)
    BY DEF MarketKnown, LeftTheMarketUnknown, OrdersInv
  <2>2. outcome[a] = "none"
    BY <1>2 DEF ResultOnlyAtEnd, Running, Suspended
  <2>3. pc[a] = "neu" => order[a]["neu"].st # "none"
    BY DEF AnyRaisedSellIsLate, RaisedSellsAreLate
  <2>4. req[a].symbol \in Symbols /\ BuyEx(a) \in Exchanges /\ SellEx(a) \in Exchanges
        /\ BuyEx(a) # SellEx(a) /\ Available(a, BuyEx(a)) \in Nat
    BY RequestTypes
  <2>5. BuyEx(a)' = BuyEx(a)
    BY <1>3 DEF BuyEx
  <2>6. CASE l = "buy"
    <3>1. pc[a] = "buy"
      BY <1>1, <1>2, <2>1, <2>3, <2>6 DEF OrdersFollowLegs, BeforeNeu, BeforeSell,
         BeforeBuy, Running, Suspended
    <3>2. NetOf(order'[a]["buy"]) \in Nat
      BY DEF TypeOK, Order, NetOf, Max2, Legs
    <3>3. balance' = [balance EXCEPT ![req[a].symbol][BuyEx(a)] =
                        @ + NetOf([order[a]["buy"] EXCEPT !.st = "done", !.filled = filled,
                                                          !.fee = fee])]
      BY <1>4, <2>6 DEF Where
    <3>4. order'[a]["buy"] = [order[a]["buy"] EXCEPT !.st = "done", !.filled = filled,
                                                     !.fee = fee]
      BY <1>4, <2>6 DEF TypeOK
    <3>5. Available(a, BuyEx(a))' = Available(a, BuyEx(a)) + NetOf(order'[a]["buy"])
      BY <1>3, <2>4, <2>5, <3>3, <3>4 DEF Available, TypeOK
    <3>6. NetOf(order'[a]["buy"]) <= Available(a, BuyEx(a))'
      BY <2>4, <3>2, <3>5
    <3>7. NetOf(order[a]["buy"])' = NetOf(order'[a]["buy"])
      BY DEF NetOf
    <3>. QED
      BY <1>3, <1>7, <2>2, <3>1, <3>6, <3>7 DEF PositionIsHeld, Bought
  <2>7. CASE l = "sell"
    <3>1. pc[a] = "sell"
      BY <1>1, <1>2, <2>1, <2>3, <2>7 DEF OrdersFollowLegs, BeforeNeu, BeforeSell,
         BeforeBuy, Running, Suspended
    <3>2. order'[a]["buy"] = order[a]["buy"] /\ order'[a]["neu"] = order[a]["neu"]
      BY <1>5, <2>7 DEF Legs
    <3>3. Available(a, BuyEx(a))' = Available(a, BuyEx(a))
      <4>1. balance' = [balance EXCEPT ![req[a].symbol][SellEx(a)] = @ - filled]
        BY <1>4, <2>7 DEF Where
      <4>2. balance \in [Symbols -> [Exchanges -> Nat]]
        BY DEF TypeOK
      <4>3. balance'[req[a].symbol][BuyEx(a)] = balance[req[a].symbol][BuyEx(a)]
        BY <2>4, <4>1, <4>2
      <4>. QED
        BY <1>3, <2>5, <4>3 DEF Available
    <3>4. UnlistedBuy(a)' = UnlistedBuy(a)
      BY <1>3, <3>2, UnlistedStays
    <3>. QED
      BY <1>2, <1>3, <1>7, <2>2, <2>5, <3>1, <3>2, <3>3, <3>4 DEF PositionIsHeld, Bought
  <2>8. CASE l = "neu"
    <3>1. pc[a] = "neu"
      BY <1>1, <1>2, <2>1, <2>8 DEF OrdersFollowLegs, BeforeNeu, BeforeSell,
         BeforeBuy, Running, Suspended
    <3>2. /\ order'[a]["buy"] = order[a]["buy"] /\ order'[a]["sell"] = order[a]["sell"]
          /\ order'[a]["neu"].qty = order[a]["neu"].qty /\ order'[a]["neu"].st = "done"
      BY <1>4, <1>5, <2>8 DEF Legs, TypeOK, Order
    <3>3. UnlistedBuy(a)' = UnlistedBuy(a)
      BY <1>3, <3>2, UnlistedStays
    <3>. QED
      BY <1>3, <1>7, <2>2, <2>5, <3>1, <3>2, <3>3 DEF PositionIsHeld, Bought
  <2>. QED
    BY <2>6, <2>7, <2>8 DEF Legs
<1>. QED
  BY <1>6, <1>7

LEMMA PositionsStep ==
  TypeOK /\ TypeOK' /\ OrdersInv /\ ResultOnlyAtEnd /\ OneRuns /\ PositionsInv /\ [Next]_vars
    => PositionsInv'
<1> SUFFICES ASSUME TypeOK, TypeOK', OrdersInv, ResultOnlyAtEnd, OneRuns, PositionsInv,
                    [Next]_vars
             PROVE  PositionsInv'
  OBVIOUS
<1>1. AnyRaisedSellIsLate
  BY DEF PositionsInv, AnyRaisedSellIsLate
<1>2. AnyRaisedSellIsLate'
  BY <1>1, RaisedSellStep DEF AnyRaisedSellIsLate
<1>3. ASSUME MarketKnown', NEW b \in Attempts PROVE PositionIsHeld(b)'
  <2>1. MarketKnown
    BY <1>1, <1>3, MarketWasKnown
  <2>2. \A a \in Attempts : PositionIsHeld(a) /\ ~LeftTheMarketUnknown(a)
    BY <2>1 DEF PositionsInv, MarketKnown
  <2>3. ~LeftTheMarketUnknown(b)'
    BY <1>3 DEF MarketKnown
  <2>4. CASE OperatorEngages \/ OperatorDisengages \/ UNCHANGED vars
    BY <2>2, <2>4 DEF OperatorEngages, OperatorDisengages, exchangeVars, vars, PositionIsHeld,
       Running, Available, BuyEx, UnlistedBuy
  <2>5. ASSUME NEW a \in Attempts, NEW l \in Legs, Match(a, l) PROVE PositionIsHeld(b)'
    BY <1>1, <2>1, <2>2, <2>5, MatchHolds
  <2>6. ASSUME NEW a \in Attempts, Refuse(a) \/ Begin(a) \/ Advance(a) PROVE PositionIsHeld(b)'
    <3>1. CASE a = b
      <4>1. RaisedSellsAreLate(b)
        BY <1>1 DEF AnyRaisedSellIsLate
      <4>. QED
        BY <2>2, <2>3, <2>6, <3>1, <4>1, OwnStepHolds
    <3>2. CASE a # b
      <4>1. /\ pc'[b] = pc[b] /\ outcome'[b] = outcome[b]
            /\ loc'[b] = loc[b] /\ order'[b] = order[b]
        BY <2>6, <3>2, OtherCallsStay
      <4>2. balance' = balance /\ req' = req
        BY <2>6 DEF Refuse, Begin, Advance, Submit, ReadRaises, QuoteRejected, QuoteAccepted,
           SizeRejected, SubmitBuy, BuyUnknown, BuyZeroFill, BuyFilled, ReadSellBalance,
           SellNotViable, SubmitSell, SellSubmissionRaises, SellUnknown, SellZeroFill,
           SellFilled, ResidualIsDust, NeutralizeResidual, NeutralizePosition, NeuReadBalance,
           NeuSkipped, SubmitNeutralization, NeuFilled, NeuUnconfirmed, exchangeVars
      <4>. QED
        BY <2>2, <4>1, <4>2 DEF PositionIsHeld, Running, Available, BuyEx, UnlistedBuy
    <3>. QED
      BY <3>1, <3>2
  <2>. QED
    BY <2>4, <2>5, <2>6 DEF Next
<1>. QED
  BY <1>2, <1>3 DEF PositionsInv, AnyRaisedSellIsLate

(* With one slot, and as long as every answer of the exchanges is known, a  *)
(* position reported as neutralized is flat, to two lot steps, the fee and  *)
(* the purchases its exchange had not listed when it confirmed the leg, for *)
(* any number of calls, lots, fees and balances: no order of an earlier     *)
(* call can take from the balance the neutralization sells, and the missing *)
(* trades of the buy are the only part of it that is left behind.           *)
THEOREM NeutralizedPositionsAreFlat ==
  ASSUME MaxConcurrent = 1
  PROVE  Spec => []NeutralizedIsFlat
<1>1. Init => PositionsInv
  <2> SUFFICES ASSUME Init PROVE PositionsInv
    OBVIOUS
  <2>1. \A a \in Attempts : /\ pc[a] = "idle" /\ loc[a] = NoLocals /\ outcome[a] = "none"
                            /\ \A l \in Legs : order[a][l] = NoOrder
    BY DEF Init
  <2>. QED
    BY <2>1 DEF PositionsInv, PositionIsHeld, RaisedSellsAreLate, NoLocals, NoOrder, Legs,
       Running, Suspended, Bought
<1>2. TypeOK /\ OrdersInv /\ PositionsInv => NeutralizedIsFlat
  <2> SUFFICES ASSUME TypeOK, OrdersInv, PositionsInv, MarketKnown, NEW a \in Attempts,
                      outcome[a] = "BUY_ONLY_NEUTRALIZED"
               PROVE  /\ Exposure(a) < 2 * Step[BuyEx(a)] + UnlistedBuy(a)
                      /\ Exposure(a) >= -order[a]["buy"].fee
    BY DEF NeutralizedIsFlat, MarketKnown
  <2>1. /\ order[a]["sell"].filled = 0
        /\ NetOf(order[a]["buy"])
             < order[a]["neu"].filled + 2 * Step[BuyEx(a)] + UnlistedBuy(a)
    BY DEF PositionsInv, PositionIsHeld
  <2>2. order[a]["neu"].filled <= order[a]["buy"].filled
    <3>1. OrdersFollowLegs(a) /\ ~loc[a].ambiguousSell
      BY DEF OrdersInv, MarketKnown, LeftTheMarketUnknown
    <3>2. UnlistedSell(a) = 0
      BY <2>1, <3>1, CallTypes DEF OrdersFollowLegs, UnlistedSell, Legs
    <3>. QED
      BY <2>1, <3>1, <3>2, CallTypes DEF OrdersFollowLegs, Legs
  <2>3. Step[BuyEx(a)] \in Nat /\ UnlistedBuy(a) \in Nat
    <3>1. OrdersFollowLegs(a)
      BY DEF OrdersInv
    <3>. QED
      BY <3>1, CallTypes, RequestTypes DEF OrdersFollowLegs, UnlistedBuy, Legs
  <2>. QED
    BY <2>1, <2>2, <2>3, NetTypes, CallTypes DEF Exposure, Legs
<1>. QED
  BY <1>1, <1>2, TypeCorrect, OrdersInvariant, ResultInvariant, CallsDoNotOverlap, PositionsStep, PTL
     DEF Spec

-----------------------------------------------------------------------------
(* No retry                                                                 *)

(* No order leaves twice: whatever times out or raises, an order that was  *)
(* sent keeps the quantity it was sent with, and one that the exchange has *)
(* finished never changes again, so a fill that arrives late is the fill   *)
(* of an order the call still knows.                                       *)
EachOrderIsSentOnce ==
  [][\A a \in Attempts, l \in Legs :
       order[a][l].st # "none" =>
         /\ order'[a][l].st # "none" /\ order'[a][l].qty = order[a][l].qty
         /\ order[a][l].st = "done" => order'[a][l] = order[a][l]]_vars

LEMMA SubmitIsFirst ==
  ASSUME TypeOK, NEW a \in Attempts, NEW l \in Legs, NEW q \in Nat,
         Submit(a, l, q), order[a][l].st = "none",
         NEW b \in Attempts, NEW k \in Legs, order[b][k].st # "none"
  PROVE  order'[b][k] = order[b][k]
BY DEF Submit, TypeOK

LEMMA SentOnceStep ==
  ASSUME TypeOK, OrdersInv, [Next]_vars, NEW b \in Attempts, NEW k \in Legs,
         order[b][k].st # "none"
  PROVE  /\ order'[b][k].st # "none" /\ order'[b][k].qty = order[b][k].qty
         /\ order[b][k].st = "done" => order'[b][k] = order[b][k]
<1>1. CASE order' = order
  BY <1>1
<1>2. ASSUME NEW a \in Attempts, SubmitBuy(a) PROVE order'[b][k] = order[b][k]
  <2>1. CommonQty(a) \in Nat
    BY CommonQtyTypes
  <2>2. PICK q \in 1..CommonQty(a) : Submit(a, "buy", SizedQty(a, q))
    BY <1>2 DEF SubmitBuy
  <2>3. SizedQty(a, q) \in Nat
    BY <2>1, SizedQtyTypes
  <2>4. order[a]["buy"].st = "none"
    BY <1>2 DEF SubmitBuy, OrdersInv, OrdersFollowLegs, BeforeBuy
  <2>. QED
    BY <2>2, <2>3, <2>4, SubmitIsFirst DEF Legs
<1>3. ASSUME NEW a \in Attempts, SubmitSell(a) PROVE order'[b][k] = order[b][k]
  <2>1. SellQty(a) \in Nat
    BY RoundDownBounds, RequestTypes DEF SellQty, TypeOK, Locals
  <2>2. order[a]["sell"].st = "none"
    BY <1>3 DEF SubmitSell, OrdersInv, OrdersFollowLegs, BeforeSell
  <2>. QED
    BY <1>3, <2>1, <2>2, SubmitIsFirst DEF SubmitSell, Legs
<1>4. ASSUME NEW a \in Attempts, SubmitNeutralization(a) PROVE order'[b][k] = order[b][k]
  <2>1. PICK step \in LotSteps(a) : Submit(a, "neu", SafeQty(loc[a].qty, step))
    BY <1>4 DEF SubmitNeutralization
  <2>2. SafeQty(loc[a].qty, step) \in Nat
    BY SafeQtyBounds, RequestTypes DEF LotSteps, TypeOK, Locals
  <2>3. order[a]["neu"].st = "none"
    BY <1>4 DEF SubmitNeutralization, OrdersInv, OrdersFollowLegs, BeforeNeu
  <2>. QED
    BY <2>1, <2>2, <2>3, SubmitIsFirst DEF Legs
<1>5. ASSUME NEW a \in Attempts, NEW l \in Legs, Match(a, l)
      PROVE  /\ order'[b][k].st # "none" /\ order'[b][k].qty = order[b][k].qty
             /\ order[b][k].st = "done" => order'[b][k] = order[b][k]
  <2>1. PICK filled \in 0..order[a][l].qty, fee \in IF l = "buy" THEN Fees ELSE {0} :
          order' = [order EXCEPT ![a][l] = [order[a][l] EXCEPT !.st = "done", !.filled = filled,
                                                             !.fee = fee]]
    BY <1>5 DEF Match
  <2>2. order[a][l].st = "sent"
    BY <1>5 DEF Match
  <2>3. CASE a = b /\ l = k
    <3>1. order'[b][k] = [order[b][k] EXCEPT !.st = "done", !.filled = filled, !.fee = fee]
      BY <2>1, <2>3 DEF TypeOK
    <3>2. order[b][k] \in Order
      BY DEF TypeOK
    <3>. QED
      BY <2>2, <2>3, <3>1, <3>2 DEF Order
  <2>4. CASE ~(a = b /\ l = k)
    <3>1. order'[b][k] = order[b][k]
      BY <2>1, <2>4 DEF TypeOK
    <3>. QED
      BY <3>1
  <2>. QED
    BY <2>3, <2>4
<1>6. ASSUME NEW a \in Attempts,
             Refuse(a) \/ Begin(a) \/ ReadRaises(a) \/ QuoteRejected(a) \/ QuoteAccepted(a)
             \/ SizeRejected(a) \/ BuyUnknown(a) \/ BuyZeroFill(a) \/ BuyFilled(a)
             \/ ReadSellBalance(a) \/ SellNotViable(a) \/ SellSubmissionRaises(a)
             \/ SellUnknown(a) \/ SellZeroFill(a) \/ SellFilled(a) \/ ResidualIsDust(a)
             \/ NeutralizeResidual(a) \/ NeuReadBalance(a) \/ NeuSkipped(a) \/ NeuFilled(a)
             \/ NeuUnconfirmed(a)
      PROVE  order' = order
  BY <1>6 DEF Refuse, Begin, ReadRaises, QuoteRejected, QuoteAccepted, SizeRejected, BuyUnknown,
     BuyZeroFill, BuyFilled, ReadSellBalance, SellNotViable, SellSubmissionRaises, SellUnknown,
     SellZeroFill, SellFilled, ResidualIsDust, NeutralizeResidual, NeuReadBalance, NeuSkipped,
     NeuFilled, NeuUnconfirmed, NeutralizePosition, exchangeVars
<1>7. CASE OperatorEngages \/ OperatorDisengages \/ UNCHANGED vars
  BY <1>1, <1>7 DEF OperatorEngages, OperatorDisengages, exchangeVars, vars
<1>. QED
  BY <1>1, <1>2, <1>3, <1>4, <1>5, <1>6, <1>7 DEF Next, Advance

(* No order leaves twice: nothing that times out or raises is retried, and  *)
(* what the exchange has finished never changes again.                      *)
THEOREM OrdersAreSentOnce == Spec => EachOrderIsSentOnce
<1>1. TypeOK /\ OrdersInv /\ [Next]_vars =>
        [\A a \in Attempts, l \in Legs :
           order[a][l].st # "none" =>
             /\ order'[a][l].st # "none" /\ order'[a][l].qty = order[a][l].qty
             /\ order[a][l].st = "done" => order'[a][l] = order[a][l]]_vars
  BY SentOnceStep
<1>. QED
  BY <1>1, TypeCorrect, OrdersInvariant, PTL DEF Spec, EachOrderIsSentOnce

\* how many steps of its own a call has left at most, by where it is suspended
StepsLeft(p) ==
  CASE p = "idle" -> 11      [] p = "quote" -> 10     [] p = "size" -> 9
    [] p = "buy" -> 8        [] p = "sellBalance" -> 7 [] p = "sellLeg" -> 6
    [] p = "sell" -> 5       [] p = "residual" -> 4    [] p = "neuBalance" -> 3
    [] p = "neuSize" -> 2    [] p = "neu" -> 1         [] OTHER -> 0

\* Every step of a call takes it forward, on every path.
LEMMA AdvanceIsProgress ==
  ASSUME TypeOK, NEW a \in Attempts, Advance(a)
  PROVE  StepsLeft(pc'[a]) < StepsLeft(pc[a])
<1>1. ASSUME ReadRaises(a) PROVE StepsLeft(pc'[a]) < StepsLeft(pc[a])
  BY <1>1 DEF ReadRaises, Unprotected, TypeOK, StepsLeft
<1>2. ASSUME QuoteRejected(a) \/ SizeRejected(a) \/ BuyUnknown(a) \/ BuyZeroFill(a)
             \/ SellUnknown(a) \/ ResidualIsDust(a)
      PROVE  StepsLeft(pc'[a]) < StepsLeft(pc[a])
  BY <1>2 DEF QuoteRejected, SizeRejected, BuyUnknown, BuyZeroFill, SellUnknown,
     ResidualIsDust, ReturnClean, ReturnCritical, Return, TypeOK, StepsLeft
<1>3. ASSUME NeuSkipped(a) \/ NeuFilled(a) \/ NeuUnconfirmed(a)
      PROVE  StepsLeft(pc'[a]) < StepsLeft(pc[a])
  BY <1>3 DEF NeuSkipped, NeuFilled, NeuUnconfirmed, NeutralizeReturns, ReturnClean,
     ReturnCritical, Return, TypeOK, StepsLeft
<1>4. ASSUME QuoteAccepted(a) \/ SubmitBuy(a) \/ BuyFilled(a) \/ ReadSellBalance(a)
             \/ SubmitSell(a) \/ NeuReadBalance(a) \/ SubmitNeutralization(a)
      PROVE  StepsLeft(pc'[a]) < StepsLeft(pc[a])
  BY <1>4 DEF QuoteAccepted, SubmitBuy, BuyFilled, ReadSellBalance, SubmitSell,
     NeuReadBalance, SubmitNeutralization, Goto, TypeOK, StepsLeft
<1>5. ASSUME SellNotViable(a) \/ SellSubmissionRaises(a) \/ SellZeroFill(a) \/ NeutralizeResidual(a)
      PROVE  StepsLeft(pc'[a]) < StepsLeft(pc[a])
  BY <1>5 DEF SellNotViable, SellSubmissionRaises, SellZeroFill, NeutralizeResidual,
     NeutralizePosition, Goto, TypeOK, StepsLeft
<1>6. ASSUME SellFilled(a) PROVE StepsLeft(pc'[a]) < StepsLeft(pc[a])
  BY <1>6 DEF SellFilled, Goto, ReturnClean, Return, TypeOK, StepsLeft
<1>. QED
  BY <1>1, <1>2, <1>3, <1>4, <1>5, <1>6 DEF Advance

(* A call only moves forward: nothing it, another call, an operator or an   *)
(* exchange does takes it back to an earlier stage, so that it has at most  *)
(* eleven steps of its own to take.                                         *)
THEOREM CallsOnlyMoveForward ==
  Spec => [][\A a \in Attempts : pc'[a] # pc[a] => StepsLeft(pc'[a]) < StepsLeft(pc[a])]_vars
<1>1. ASSUME TypeOK, [Next]_vars, NEW a \in Attempts, pc'[a] # pc[a]
      PROVE  StepsLeft(pc'[a]) < StepsLeft(pc[a])
  <2>1. CASE \E b \in Attempts : b # a /\ (Refuse(b) \/ Begin(b) \/ Advance(b))
    BY <1>1, <2>1, OtherCallsStay
  <2>2. CASE Advance(a)
    BY <1>1, <2>2, AdvanceIsProgress
  <2>3. CASE Refuse(a) \/ Begin(a)
    BY <1>1, <2>3 DEF Refuse, Begin, TypeOK, StepsLeft
  <2>4. CASE OperatorEngages \/ OperatorDisengages \/ UNCHANGED vars
             \/ \E b \in Attempts, l \in Legs : Match(b, l)
    BY <1>1, <2>4 DEF OperatorEngages, OperatorDisengages, Match, vars
  <2>. QED
    BY <1>1, <2>1, <2>2, <2>3, <2>4 DEF Next
<1>2. TypeOK /\ [Next]_vars =>
        [\A a \in Attempts : pc'[a] # pc[a] => StepsLeft(pc'[a]) < StepsLeft(pc[a])]_vars
  BY <1>1
<1>. QED
  BY <1>2, TypeCorrect, PTL DEF Spec
=============================================================================
