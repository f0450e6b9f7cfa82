--------------------------- MODULE ExposureProofs ----------------------------
(***************************************************************************)
(* Purchases of inventory under their guard: what each call reports and    *)
(* what its exchange did agree, and the guard is the one GuardedAttempts   *)
(* describes.  Then the two paper loops under MASTER: the allocator's      *)
(* books add up, cover the executor's and stay solvent.                    *)
(***************************************************************************)
EXTENDS MasterAuthority, InventoryConstitution, Sums

-----------------------------------------------------------------------------
(* Quantities                                                              *)

LEMMA QuotientType ==
  ASSUME NEW n \in Nat, NEW d \in Nat \ {0}
  PROVE  n \div d \in Nat
OBVIOUS

LEMMA RoundDownType ==
  ASSUME NEW q \in Nat, NEW step \in Nat \ {0}
  PROVE  RoundDown(q, step) \in Nat /\ RoundDown(q, step) <= q
<1>1. q % step \in 0..(step - 1)
  OBVIOUS
<1>2. q % step <= q
  <2>1. q = step * (q \div step) + (q % step) /\ q \div step \in Nat
    OBVIOUS
  <2>2. step * (q \div step) \in Nat
    BY <2>1
  <2> HIDE DEF RoundDown
  <2> QED  BY <1>1, <2>1, <2>2
<1> QED  BY <1>1, <1>2 DEF RoundDown

LEMMA ProductGrows ==
  ASSUME NEW x \in Nat, NEW y \in Nat, NEW p \in Nat, x <= y
  PROVE  x * p \in Nat /\ x * p <= y * p
<1>1. PICK d \in Nat : y = x + d
  <2>1. y - x \in Nat /\ y = x + (y - x)
    OBVIOUS
  <2> QED  BY <2>1
<1>2. y * p = x * p + d * p /\ d * p \in Nat /\ x * p \in Nat
  BY <1>1
<1> QED  BY <1>2

-----------------------------------------------------------------------------
(* The calls of constitute_inventory                                       *)

Ends == {"NO_TRADE_REFUSED", "NO_TRADE_EDGE_INSUFFICIENT", "NO_FILL", "UNKNOWN", "FILLED"}

FeeAssets == {"none", "base", "quote"}

ResultType == [outcome : Ends \cup {"none"}, netFilled : Nat, feeAsset : FeeAssets,
               maxSafe : Nat, price : Nat, ready : BOOLEAN]
OrderType  == [st : {"none", "sent", "done"}, filled : Nat, fee : Nat,
               kind : {"base", "quote", "several"}]

ConstitutionTypeOK ==
  /\ killSwitch \in BOOLEAN
  /\ inFlight \in Nat
  /\ req \in [Attempts -> [market : Markets, notional : Int]]
  /\ pc \in [Attempts -> {"idle", "ended", "raised"} \cup Suspended]
  /\ result \in [Attempts -> ResultType]
  /\ order \in [Attempts -> OrderType]
  /\ reviewed \subseteq Attempts

\* Where a call is, what its order did and what it reports fit together.
CallOK(a) ==
  /\ order[a].st # "done" => order[a].filled = 0
  /\ order[a].fee <= order[a].filled
  /\ order[a].kind = "quote" => order[a].fee = 0
  /\ pc[a] \in {"idle", "quote"} => order[a].st = "none"
  /\ pc[a] \in Suspended => Notional(a) > 0
  /\ pc[a] = "postQuote" =>
       /\ order[a].st = "done" /\ result[a].outcome = "FILLED"
       /\ result[a].netFilled <= order[a].filled
       /\ result[a].feeAsset # "none" => result[a].netFilled <= Held(a)
  /\ pc[a] \in {"idle", "quote", "confirm", "raised"} => result[a].outcome = "none"
  /\ pc[a] = "ended" => result[a].outcome \in Ends
  /\ result[a].outcome \in {"NO_TRADE_REFUSED", "NO_TRADE_EDGE_INSUFFICIENT"}
       => order[a].st = "none" /\ pc[a] = "ended"
  /\ result[a].outcome = "NO_FILL" => order[a].st = "done" /\ order[a].filled = 0
  /\ result[a].outcome = "UNKNOWN" => killSwitch \/ a \in reviewed
  /\ result[a].ready =>
       /\ pc[a] = "ended" /\ order[a].st = "done"
       /\ result[a].maxSafe <= Notional(a)
       /\ result[a].maxSafe <= order[a].filled * result[a].price
       /\ result[a].feeAsset # "none" => result[a].maxSafe <= Held(a) * result[a].price

CallsOK == \A a \in Attempts : CallOK(a)

LEMMA RequestType ==
  ASSUME ConstitutionTypeOK, NEW a \in Attempts
  PROVE  Market(a) \in Markets /\ Notional(a) \in Int /\ Step[Market(a)] \in Nat \ {0}
BY InventoryAssumption DEF ConstitutionTypeOK, Market, Notional

LEMMA HeldType ==
  ASSUME ConstitutionTypeOK, NEW a \in Attempts
  PROVE  Held(a) \in Nat
<1>1. order[a].filled \in Nat /\ order[a].fee \in Nat
  BY DEF ConstitutionTypeOK, OrderType
<1> QED  BY <1>1 DEF Held, Greater

\* What compute_max_safe_notional returns is capped, and worth no more than any
\* quantity that covers the net quantity it was given.
LEMMA SafeNotionalCovered ==
  ASSUME ConstitutionTypeOK, NEW a \in Attempts, NEW p \in Prices, Notional(a) > 0,
         MinNotional[Market(a)] # Unpublished
  PROVE  /\ SafeNotional(a, p) \in Nat
         /\ SafeNotional(a, p) <= Notional(a)
         /\ \A x \in Nat : result[a].netFilled <= x => SafeNotional(a, p) <= x * p
<1> DEFINE net == result[a].netFilled
           lots == RoundDown(net, Step[Market(a)])
<1>1. p \in Nat /\ net \in Nat /\ Notional(a) \in Nat /\ Step[Market(a)] \in Nat \ {0}
      /\ MinNotional[Market(a)] \in Nat
  BY RequestType, InventoryAssumption DEF ConstitutionTypeOK, ResultType
<1>2. lots \in Nat /\ lots <= net
  BY <1>1, RoundDownType
<1>3. SafeNotional(a, p) \in {0, lots * p, Notional(a)}
      /\ SafeNotional(a, p) <= lots * p /\ SafeNotional(a, p) <= Notional(a)
  <2>1. lots * p \in Nat
    BY <1>1, <1>2
  <2> HIDE DEF lots
  <2> QED  BY <1>1, <2>1 DEF SafeNotional, Lesser, lots
<1> HIDE DEF lots
<1>4. lots * p \in Nat
  BY <1>1, <1>2
<1>5. ASSUME NEW x \in Nat, net <= x PROVE lots * p <= x * p /\ x * p \in Nat
  <2>1. lots <= x
    BY <1>1, <1>2, <1>5
  <2> QED  BY <1>1, <1>2, <2>1, ProductGrows
<1> QED  BY <1>1, <1>3, <1>4, <1>5

\* However many trades are listed, the reported net quantity was bought, and when
\* the report names the fee's asset, it is still held.
LEMMA NetFilledCovered ==
  ASSUME ConstitutionTypeOK, NEW a \in Attempts, CallOK(a), NEW c \in Reports(a)
  PROVE  /\ c.asset \in FeeAssets
         /\ NetFilled(c) \in Nat
         /\ NetFilled(c) <= order[a].filled
         /\ c.asset # "none" => NetFilled(c) <= Held(a)
<1> DEFINE bought == order[a].filled
           fee == order[a].fee
<1>1. /\ bought \in Nat /\ fee \in Nat /\ order[a].kind \in {"base", "quote", "several"}
      /\ fee <= bought
      /\ order[a].kind = "quote" => fee = 0
  BY DEF ConstitutionTypeOK, OrderType, CallOK
<1>2. Held(a) = Greater(0, bought - fee)
  BY DEF Held
<1>3. CASE c = Whole(order[a])
  <2>1. /\ c.filled = bought /\ c.asset \in FeeAssets
        /\ c.asset = "base" => c.fee = fee
        /\ c.asset = "quote" => fee = 0
    BY <1>1, <1>3 DEF Whole, FeeAssets
  <2> HIDE DEF bought, fee
  <2>2. CASE c.asset = "base"
    BY <1>1, <1>2, <2>1, <2>2 DEF NetFilled, Greater, bought
  <2>3. CASE c.asset # "base"
    BY <1>1, <1>2, <2>1, <2>3 DEF NetFilled, Greater, FeeAssets, bought
  <2> QED  BY <2>2, <2>3
<1>4. CASE c \in Listed(order[a])
  <2>1. /\ c.filled \in 1 .. bought - 1 /\ c.fee \in 0 .. fee /\ c.asset \in FeeAssets
        /\ c.fee > 0 <=> c.asset = "base"
        /\ c.asset # "none" => fee - c.fee <= bought - c.filled
    BY <1>4 DEF Listed, FeeAssets
  <2> HIDE DEF bought, fee
  <2>2. /\ c.filled \in Nat /\ c.fee \in Nat /\ c.filled <= bought
        /\ c.asset # "none" => c.filled - c.fee <= bought - fee
        /\ c.asset # "base" => c.fee = 0
    BY <1>1, <2>1
  <2>3. CASE c.asset = "base"
    BY <1>1, <1>2, <2>1, <2>2, <2>3 DEF NetFilled, Greater, bought
  <2>4. CASE c.asset # "base"
    BY <1>1, <1>2, <2>1, <2>2, <2>4 DEF NetFilled, Greater, bought
  <2> QED  BY <2>3, <2>4
<1>5. CASE c = [filled |-> bought, fee |-> 0, asset |-> "none"]
  BY <1>1, <1>5 DEF NetFilled, FeeAssets
<1> QED  BY <1>3, <1>4, <1>5 DEF Reports

\* What a call returns replaces its result; a slot is given back.
LEMMA ReturnTypes ==
  ASSUME ConstitutionTypeOK, NEW a \in Attempts, NEW r \in ResultType, Return(a, r),
         killSwitch' \in BOOLEAN, UNCHANGED <<req, order, reviewed>>
  PROVE  ConstitutionTypeOK'
<1>1. inFlight' \in Nat
  BY DEF Return, RegisterEnd, Greater, ConstitutionTypeOK
<1> QED  BY <1>1 DEF Return, ConstitutionTypeOK

LEMMA ConstitutionTypesKept ==
  ASSUME ConstitutionTypeOK, CallsOK, [ConstitutionNext]_constitutionVars
  PROVE  ConstitutionTypeOK'
<1>1. CASE EngageKillSwitch \/ DisengageKillSwitch \/ UNCHANGED constitutionVars
  BY <1>1 DEF EngageKillSwitch, DisengageKillSwitch, constitutionVars, ConstitutionTypeOK
<1>2. ASSUME NEW a \in Attempts, Refuse(a) PROVE ConstitutionTypeOK'
  <2>1. [result[a] EXCEPT !.outcome = "NO_TRADE_REFUSED"] \in ResultType
    BY DEF ConstitutionTypeOK, ResultType, Ends
  <2> QED  BY <1>2, <2>1 DEF Refuse, guardVars, ConstitutionTypeOK
<1>3. ASSUME NEW a \in Attempts, Begin(a) PROVE ConstitutionTypeOK'
  BY <1>3 DEF Begin, Suspended, ConstitutionTypeOK
<1>4. ASSUME NEW a \in Attempts, EdgeInsufficient(a) PROVE ConstitutionTypeOK'
  <2>1. [result[a] EXCEPT !.outcome = "NO_TRADE_EDGE_INSUFFICIENT"] \in ResultType
    BY DEF ConstitutionTypeOK, ResultType, Ends
  <2> QED  BY <1>4, <2>1, ReturnTypes DEF EdgeInsufficient, ConstitutionTypeOK
<1>5. ASSUME NEW a \in Attempts, SubmitBuy(a) PROVE ConstitutionTypeOK'
  <2>1. order' \in [Attempts -> OrderType]
    BY <1>5 DEF SubmitBuy, ConstitutionTypeOK, OrderType
  <2> QED  BY <1>5, <2>1 DEF SubmitBuy, guardVars, Suspended, ConstitutionTypeOK
<1>6. ASSUME NEW a \in Attempts, BuyUnknown(a) PROVE ConstitutionTypeOK'
  <2>1. [result[a] EXCEPT !.outcome = "UNKNOWN"] \in ResultType
    BY DEF ConstitutionTypeOK, ResultType, Ends
  <2> QED  BY <1>6, <2>1, ReturnTypes DEF BuyUnknown
<1>7. ASSUME NEW a \in Attempts, BuyZeroFill(a) PROVE ConstitutionTypeOK'
  <2>1. [result[a] EXCEPT !.outcome = "NO_FILL"] \in ResultType
    BY DEF ConstitutionTypeOK, ResultType, Ends
  <2> QED  BY <1>7, <2>1, ReturnTypes DEF BuyZeroFill, ConstitutionTypeOK
<1>8. ASSUME NEW a \in Attempts, BuyFilled(a) PROVE ConstitutionTypeOK'
  <2>1. PICK c \in Reports(a) :
          result' = [result EXCEPT ![a].outcome = "FILLED", ![a].feeAsset = c.asset,
                                   ![a].netFilled = NetFilled(c)]
    BY <1>8 DEF BuyFilled
  <2>2. NetFilled(c) \in Nat /\ c.asset \in FeeAssets
    BY NetFilledCovered DEF CallsOK
  <2> DEFINE after == [result[a] EXCEPT !.outcome = "FILLED", !.feeAsset = c.asset,
                                        !.netFilled = NetFilled(c)]
  <2>4. after \in ResultType
    BY <2>2 DEF ConstitutionTypeOK, ResultType, Ends
  <2>5. result' = [result EXCEPT ![a] = after]
    BY <2>1 DEF ConstitutionTypeOK, ResultType
  <2> HIDE DEF after
  <2>3. result' \in [Attempts -> ResultType]
    BY <2>4, <2>5 DEF ConstitutionTypeOK
  <2> QED  BY <1>8, <2>3 DEF BuyFilled, guardVars, Suspended, ConstitutionTypeOK
<1>9. ASSUME NEW a \in Attempts, PostFillQuoted(a) PROVE ConstitutionTypeOK'
  <2> DEFINE safe(p) == IF ComparesMinNotional(a) THEN SafeNotional(a, p) ELSE 0
             after(p, valid) == [result[a] EXCEPT !.maxSafe = safe(p), !.price = p,
                                                  !.ready = valid /\ safe(p) > 0]
  <2>1. PICK p \in Prices, valid \in BOOLEAN : Return(a, after(p, valid))
    BY <1>9 DEF PostFillQuoted
  <2>2. Notional(a) > 0
    BY <1>9 DEF PostFillQuoted, CallsOK, CallOK, Suspended
  <2>3. safe(p) \in Nat /\ p \in Nat
    BY <1>9, <2>2, SafeNotionalCovered, InventoryAssumption DEF PostFillQuoted
  <2> HIDE DEF safe
  <2>4. after(p, valid) \in ResultType
    BY <2>3 DEF ConstitutionTypeOK, ResultType
  <2> HIDE DEF after
  <2> QED  BY <1>9, <2>1, <2>4, ReturnTypes DEF PostFillQuoted, ConstitutionTypeOK
<1>10. ASSUME NEW a \in Attempts, PostFillRaises(a) PROVE ConstitutionTypeOK'
  <2>1. NoResult \in ResultType
    BY DEF NoResult, ResultType, FeeAssets
  <2>2. inFlight' \in Nat
    BY <1>10 DEF PostFillRaises, RegisterEnd, Greater, ConstitutionTypeOK
  <2> QED  BY <1>10, <2>1, <2>2 DEF PostFillRaises, ConstitutionTypeOK
<1>11. ASSUME NEW a \in Attempts, PostFillUnquoted(a) PROVE ConstitutionTypeOK'
  <2>1. result[a] \in ResultType
    BY DEF ConstitutionTypeOK
  <2> QED  BY <1>11, <2>1, ReturnTypes DEF PostFillUnquoted, ConstitutionTypeOK
<1>12. ASSUME NEW a \in Attempts, Match(a) PROVE ConstitutionTypeOK'
  <2>0. PICK p \in Prices, kind \in FeeKinds, fee \in Fees : \E q \in 0..(Notional(a) \div p) :
          order' = [order EXCEPT ![a] =
                     [st |-> "done", filled |-> q, kind |-> kind,
                      fee |-> IF kind = "quote" THEN 0 ELSE Lesser(fee, q)]]
    BY <1>12 DEF Match
  <2>1. PICK q \in 0..(Notional(a) \div p) :
          order' = [order EXCEPT ![a] =
                     [st |-> "done", filled |-> q, kind |-> kind,
                      fee |-> IF kind = "quote" THEN 0 ELSE Lesser(fee, q)]]
    BY <2>0
  <2>2. q \in Nat /\ fee \in Nat /\ kind \in {"base", "quote", "several"}
    BY InventoryAssumption
  <2>3. order' \in [Attempts -> OrderType]
    BY <2>1, <2>2 DEF ConstitutionTypeOK, OrderType, Lesser
  <2> QED  BY <1>12, <2>3 DEF Match, guardVars, ConstitutionTypeOK
<1> QED
  BY <1>1, <1>2, <1>3, <1>4, <1>5, <1>6, <1>7, <1>8, <1>9, <1>10, <1>11, <1>12
     DEF ConstitutionNext, Advance

-----------------------------------------------------------------------------
\* A step of call a, or of its exchange, is nothing to the other calls.
LEMMA OthersKept ==
  ASSUME ConstitutionTypeOK, CallsOK, NEW a \in Attempts, CallOK(a)',
         \E x : pc' = [pc EXCEPT ![a] = x], \E x : result' = [result EXCEPT ![a] = x],
         \E x : order' = [order EXCEPT ![a] = x],
         killSwitch => killSwitch', UNCHANGED <<req, reviewed>>
  PROVE  CallsOK'
<1>1. ASSUME NEW b \in Attempts, b # a PROVE CallOK(b)'
  <2>1. pc'[b] = pc[b] /\ result'[b] = result[b] /\ order'[b] = order[b]
    BY <1>1 DEF ConstitutionTypeOK
  <2>2. CallOK(b)
    BY DEF CallsOK
  <2> QED  BY <2>1, <2>2 DEF CallOK, Held, Notional
<1> QED  BY <1>1 DEF CallsOK

LEMMA CallsKept ==
  ASSUME ConstitutionTypeOK, CallsOK, [ConstitutionNext]_constitutionVars
  PROVE  CallsOK'
<1>0. \A a \in Attempts : CallOK(a)
  BY DEF CallsOK
<1>1. CASE UNCHANGED constitutionVars
  BY <1>1 DEF constitutionVars, CallsOK, CallOK, Held, Notional
<1>2. CASE EngageKillSwitch
  BY <1>2 DEF EngageKillSwitch, CallsOK, CallOK, Held, Notional
<1>3. CASE DisengageKillSwitch
  BY <1>3 DEF DisengageKillSwitch, CallsOK, CallOK, Held, Notional
<1>4. ASSUME NEW a \in Attempts, Refuse(a) PROVE CallsOK'
  <2>1. /\ pc'[a] = "ended" /\ order'[a] = order[a] /\ req' = req
        /\ result'[a] = [result[a] EXCEPT !.outcome = "NO_TRADE_REFUSED"]
    BY <1>4 DEF Refuse, ConstitutionTypeOK
  <2>2. result'[a].outcome = "NO_TRADE_REFUSED" /\ result'[a].ready = result[a].ready
    BY <2>1 DEF ConstitutionTypeOK, ResultType
  <2>3. CallOK(a)'
    BY <1>0, <1>4, <2>1, <2>2 DEF Refuse, CallOK, Ends, Suspended, Held, Notional
  <2> QED  BY <1>4, <2>3, OthersKept DEF Refuse, guardVars, ConstitutionTypeOK
<1>5. ASSUME NEW a \in Attempts, Begin(a) PROVE CallsOK'
  <2>1. pc'[a] = "quote" /\ order'[a] = order[a] /\ req' = req /\ result'[a] = result[a]
    BY <1>5 DEF Begin, ConstitutionTypeOK
  <2>2. Notional(a) > 0
    BY <1>5 DEF Begin, Allowed, Notional
  <2>3. CallOK(a)'
    BY <1>0, <1>5, <2>1, <2>2 DEF Begin, CallOK, Ends, Suspended, Held, Notional
  <2> QED  BY <1>5, <2>3, OthersKept DEF Begin, ConstitutionTypeOK
<1>6. ASSUME NEW a \in Attempts, EdgeInsufficient(a) PROVE CallsOK'
  <2>1. /\ pc'[a] = "ended" /\ order'[a] = order[a] /\ req' = req
        /\ result'[a] = [result[a] EXCEPT !.outcome = "NO_TRADE_EDGE_INSUFFICIENT"]
    BY <1>6 DEF EdgeInsufficient, Return, ConstitutionTypeOK
  <2>2. result'[a].outcome = "NO_TRADE_EDGE_INSUFFICIENT" /\ result'[a].ready = result[a].ready
    BY <2>1 DEF ConstitutionTypeOK, ResultType
  <2>3. CallOK(a)'
    BY <1>0, <1>6, <2>1, <2>2 DEF EdgeInsufficient, CallOK, Ends, Suspended, Held, Notional
  <2> QED  BY <1>6, <2>3, OthersKept DEF EdgeInsufficient, Return, ConstitutionTypeOK
<1>7. ASSUME NEW a \in Attempts, SubmitBuy(a) PROVE CallsOK'
  <2>1. /\ pc'[a] = "confirm" /\ order'[a] = [order[a] EXCEPT !.st = "sent"] /\ req' = req
        /\ result'[a] = result[a]
    BY <1>7 DEF SubmitBuy, ConstitutionTypeOK
  <2>2. /\ order'[a].st = "sent" /\ order'[a].filled = order[a].filled
        /\ order'[a].fee = order[a].fee /\ order'[a].kind = order[a].kind
    BY <2>1 DEF ConstitutionTypeOK, OrderType
  <2>3. CallOK(a)'
    BY <1>0, <1>7, <2>1, <2>2 DEF SubmitBuy, CallOK, Ends, Suspended, Held, Notional
  <2>4. \E x : result' = [result EXCEPT ![a] = x]
    BY <1>7 DEF SubmitBuy, ConstitutionTypeOK
  <2> QED  BY <1>7, <2>3, <2>4, OthersKept DEF SubmitBuy, guardVars, ConstitutionTypeOK
<1>8. ASSUME NEW a \in Attempts, BuyUnknown(a) PROVE CallsOK'
  <2>1. /\ pc'[a] = "ended" /\ order'[a] = order[a] /\ req' = req /\ killSwitch'
        /\ result'[a] = [result[a] EXCEPT !.outcome = "UNKNOWN"]
    BY <1>8 DEF BuyUnknown, Return, ConstitutionTypeOK
  <2>2. result'[a].outcome = "UNKNOWN" /\ result'[a].ready = result[a].ready
    BY <2>1 DEF ConstitutionTypeOK, ResultType
  <2>3. CallOK(a)'
    BY <1>0, <1>8, <2>1, <2>2 DEF BuyUnknown, CallOK, Ends, Suspended, Held, Notional
  <2> QED  BY <1>8, <2>1, <2>3, OthersKept DEF BuyUnknown, Return, ConstitutionTypeOK
<1>9. ASSUME NEW a \in Attempts, BuyZeroFill(a) PROVE CallsOK'
  <2>1. /\ pc'[a] = "ended" /\ order'[a] = order[a] /\ req' = req
        /\ result'[a] = [result[a] EXCEPT !.outcome = "NO_FILL"]
    BY <1>9 DEF BuyZeroFill, Return, ConstitutionTypeOK
  <2>2. result'[a].outcome = "NO_FILL" /\ result'[a].ready = result[a].ready
    BY <2>1 DEF ConstitutionTypeOK, ResultType
  <2>3. CallOK(a)'
    BY <1>0, <1>9, <2>1, <2>2 DEF BuyZeroFill, CallOK, Ends, Suspended, Held, Notional
  <2> QED  BY <1>9, <2>3, OthersKept DEF BuyZeroFill, Return, ConstitutionTypeOK
<1>10. ASSUME NEW a \in Attempts, BuyFilled(a) PROVE CallsOK'
  <2>1. PICK c \in Reports(a) :
          result' = [result EXCEPT ![a].outcome = "FILLED", ![a].feeAsset = c.asset,
                                   ![a].netFilled = NetFilled(c)]
    BY <1>10 DEF BuyFilled
  <2>2. /\ pc'[a] = "postQuote" /\ order'[a] = order[a] /\ req' = req
        /\ result'[a].outcome = "FILLED" /\ result'[a].ready = result[a].ready
        /\ result'[a].netFilled = NetFilled(c) /\ result'[a].feeAsset = c.asset
    BY <1>10, <2>1 DEF BuyFilled, ConstitutionTypeOK, ResultType
  <2>0. Held(a)' = Held(a)
    BY <2>2 DEF Held
  <2>3. CallOK(a)'
    BY <1>0, <1>10, <2>0, <2>2, NetFilledCovered DEF BuyFilled, CallOK, Ends, Suspended, Notional
  <2>4. \E x : result' = [result EXCEPT ![a] = x]
    BY <2>1
  <2>5. pc' = [pc EXCEPT ![a] = "postQuote"] /\ UNCHANGED <<killSwitch, req, order, reviewed>>
    BY <1>10 DEF BuyFilled, guardVars
  <2>6. order' = [order EXCEPT ![a] = order[a]]
    BY <2>5 DEF ConstitutionTypeOK
  <2> QED  BY <2>3, <2>4, <2>5, <2>6, OthersKept
<1>11. ASSUME NEW a \in Attempts, PostFillQuoted(a) PROVE CallsOK'
  <2> DEFINE safe(p) == IF ComparesMinNotional(a) THEN SafeNotional(a, p) ELSE 0
  <2>1. PICK p \in Prices, valid \in BOOLEAN :
          Return(a, [result[a] EXCEPT !.maxSafe = safe(p), !.price = p,
                                      !.ready = valid /\ safe(p) > 0])
    BY <1>11 DEF PostFillQuoted
  <2>2. /\ pc[a] = "postQuote" /\ pc'[a] = "ended" /\ order'[a] = order[a] /\ req' = req
        /\ result'[a].outcome = result[a].outcome /\ result'[a].feeAsset = result[a].feeAsset
        /\ result'[a].maxSafe = safe(p) /\ result'[a].price = p
        /\ result'[a].ready => safe(p) > 0
    <3> HIDE DEF safe
    <3>1. result[a] \in ResultType /\ pc[a] = "postQuote" /\ UNCHANGED <<killSwitch, req, order, reviewed>>
      BY <1>11 DEF PostFillQuoted, ConstitutionTypeOK
    <3>2. pc'[a] = "ended" /\ result'[a] = [result[a] EXCEPT !.maxSafe = safe(p), !.price = p,
                                                            !.ready = valid /\ safe(p) > 0]
      BY <2>1 DEF Return, ConstitutionTypeOK
    <3> QED  BY <3>1, <3>2 DEF ResultType
  <2>3. Notional(a) > 0
    BY <1>0, <2>2 DEF CallOK, Suspended
  <2>4. ASSUME safe(p) > 0
        PROVE  /\ safe(p) <= Notional(a)
               /\ safe(p) <= order[a].filled * p
               /\ result[a].feeAsset # "none" => safe(p) <= Held(a) * p
    <3>1. ComparesMinNotional(a) /\ safe(p) = SafeNotional(a, p)
      BY <2>4
    <3>2. MinNotional[Market(a)] # Unpublished
      BY <1>11, <3>1 DEF PostFillQuoted
    <3>3. /\ order[a].filled \in Nat /\ Held(a) \in Nat
          /\ result[a].netFilled <= order[a].filled
          /\ result[a].feeAsset # "none" => result[a].netFilled <= Held(a)
      BY <1>0, <2>2, HeldType DEF CallOK, ConstitutionTypeOK, OrderType
    <3> QED  BY <2>3, <3>1, <3>2, <3>3, SafeNotionalCovered
  <2> HIDE DEF safe
  <2>5. CallOK(a)'
    BY <1>0, <2>2, <2>3, <2>4, <1>11 DEF PostFillQuoted, CallOK, Ends, Suspended, Held, Notional
  <2>6. /\ \E x : pc' = [pc EXCEPT ![a] = x] /\ \E y : result' = [result EXCEPT ![a] = y]
    BY <2>1 DEF Return
  <2>7. /\ \E x : order' = [order EXCEPT ![a] = x]
        /\ killSwitch' = killSwitch /\ UNCHANGED <<req, reviewed>>
    BY <1>11 DEF PostFillQuoted, ConstitutionTypeOK
  <2> QED  BY <2>5, <2>6, <2>7, OthersKept
<1>12. ASSUME NEW a \in Attempts, PostFillRaises(a) PROVE CallsOK'
  <2>1. pc'[a] = "raised" /\ order'[a] = order[a] /\ req' = req /\ result'[a] = NoResult
    BY <1>12 DEF PostFillRaises, ConstitutionTypeOK
  <2>2. CallOK(a)'
    BY <1>0, <1>12, <2>1
       DEF PostFillRaises, CallOK, Ends, Suspended, Held, Notional, NoResult
  <2> QED  BY <1>12, <2>2, OthersKept DEF PostFillRaises, ConstitutionTypeOK
<1>13. ASSUME NEW a \in Attempts, PostFillUnquoted(a) PROVE CallsOK'
  <2>1. pc'[a] = "ended" /\ order'[a] = order[a] /\ req' = req /\ result'[a] = result[a]
    BY <1>13 DEF PostFillUnquoted, Return, ConstitutionTypeOK
  <2>2. CallOK(a)'
    BY <1>0, <1>13, <2>1 DEF PostFillUnquoted, CallOK, Ends, Suspended, Held, Notional
  <2> QED  BY <1>13, <2>2, OthersKept DEF PostFillUnquoted, Return, ConstitutionTypeOK
<1>14. ASSUME NEW a \in Attempts, Match(a) PROVE CallsOK'
  <2> DEFINE o(kind, fee, q) == [st |-> "done", filled |-> q, kind |-> kind,
                                 fee |-> IF kind = "quote" THEN 0 ELSE Lesser(fee, q)]
  <2>0. PICK p \in Prices, kind \in FeeKinds, fee \in Fees : \E q \in 0..(Notional(a) \div p) :
          order' = [order EXCEPT ![a] = o(kind, fee, q)]
    BY <1>14 DEF Match
  <2>1. PICK q \in 0..(Notional(a) \div p) : order' = [order EXCEPT ![a] = o(kind, fee, q)]
    BY <2>0
  <2>2. /\ pc' = pc /\ req' = req /\ result' = result
        /\ order'[a].st = "done" /\ order'[a].fee <= order'[a].filled
        /\ order'[a].kind = "quote" => order'[a].fee = 0
    <3>1. q \in Nat /\ fee \in Nat
      BY InventoryAssumption
    <3>2. order'[a] = o(kind, fee, q)
      BY <2>1 DEF ConstitutionTypeOK
    <3>3. 0 <= q /\ Lesser(fee, q) <= q
      BY <3>1 DEF Lesser
    <3> QED  BY <1>14, <3>2, <3>3 DEF Match
  <2>3. CallOK(a)'
    BY <1>0, <1>14, <2>2 DEF Match, CallOK, Ends, Suspended, guardVars, Notional
  <2>4. \E x : pc' = [pc EXCEPT ![a] = x]
    BY <2>2 DEF ConstitutionTypeOK
  <2>5. \E x : result' = [result EXCEPT ![a] = x]
    BY <2>2 DEF ConstitutionTypeOK
  <2> QED  BY <1>14, <2>1, <2>3, <2>4, <2>5, OthersKept DEF Match, guardVars
<1> QED
  BY <1>1, <1>2, <1>3, <1>4, <1>5, <1>6, <1>7, <1>8, <1>9, <1>10, <1>11, <1>12, <1>13, <1>14
     DEF ConstitutionNext, Advance

LEMMA ConstitutionInvariant == ConstitutionSpec => [](ConstitutionTypeOK /\ CallsOK)
<1>1. ConstitutionInit => ConstitutionTypeOK /\ CallsOK
  <2> SUFFICES ASSUME ConstitutionInit PROVE ConstitutionTypeOK /\ CallsOK
    OBVIOUS
  <2>1. NoResult \in ResultType /\ NoOrder \in OrderType
    BY DEF NoResult, ResultType, FeeAssets, NoOrder, OrderType
  <2>2. ConstitutionTypeOK
    BY <2>1, InventoryAssumption DEF ConstitutionInit, ConstitutionTypeOK
  <2>3. CallsOK
    BY DEF ConstitutionInit, CallsOK, CallOK, NoResult, NoOrder, Suspended
  <2> QED  BY <2>2, <2>3
<1>2. ConstitutionTypeOK /\ CallsOK /\ [ConstitutionNext]_constitutionVars
        => (ConstitutionTypeOK /\ CallsOK)'
  BY ConstitutionTypesKept, CallsKept
<1> QED  BY <1>1, <1>2, PTL DEF ConstitutionSpec

(* Whatever the exchange does and however late: what a call that returned   *)
(* bought is in a FILLED result, or an UNKNOWN one holds the kill switch    *)
(* until an operator has reviewed it.                                       *)
THEOREM PurchasesReported == ConstitutionSpec => []EveryPurchaseIsReported
<1>1. ConstitutionTypeOK /\ CallsOK => EveryPurchaseIsReported
  BY DEF EveryPurchaseIsReported, CallsOK, CallOK, Ends, ConstitutionTypeOK, OrderType
<1> QED  BY <1>1, ConstitutionInvariant, PTL

(* A purchase reported ready advertises no more than was requested, no more *)
(* than was bought is worth, and when its fee's asset is reported, no more  *)
(* than the fee left: whichever of its trades were listed by then.          *)
THEOREM ReadyCovered == ConstitutionSpec => []ReadyIsCovered
<1>1. CallsOK => ReadyIsCovered
  BY DEF ReadyIsCovered, CallsOK, CallOK
<1> QED  BY <1>1, ConstitutionInvariant, PTL

-----------------------------------------------------------------------------
(* The guard of the purchases                                              *)

RunningCalls == {a \in Attempts : Running(a)}
SlotsCount   == inFlight = Cardinality(RunningCalls)

LEMMA RunningIsFinite ==
  IsFiniteSet(RunningCalls) /\ Cardinality(RunningCalls) \in Nat
BY InventoryAssumption, FS_Subset, FS_CardinalityType DEF RunningCalls

\* What a step of an admitted call does to where it is suspended, to the guard and
\* to its outcome: it goes on, or it gives its slot back.
Continues(a) == /\ Running(a) /\ Running(a)'
                /\ \E x : pc' = [pc EXCEPT ![a] = x]
                /\ UNCHANGED guardVars
Leaves(a)    == /\ Running(a) /\ ~Running(a)'
                /\ \E x : pc' = [pc EXCEPT ![a] = x]
                /\ RegisterEnd
                /\ \/ Phase(a)' \in {"clean", "raised"} /\ killSwitch' = killSwitch
                   \/ Phase(a)' = "critical" /\ killSwitch'

LEMMA AdvanceKinds ==
  ASSUME ConstitutionTypeOK, CallsOK, NEW a \in Attempts, Advance(a)
  PROVE  /\ Continues(a) \/ Leaves(a)
         /\ reviewed' = reviewed
         /\ \E x : result' = [result EXCEPT ![a] = x]
<1>0. CallOK(a) /\ a \in DOMAIN pc /\ a \in DOMAIN result /\ result[a] \in ResultType
  BY DEF CallsOK, ConstitutionTypeOK
<1>1. ASSUME EdgeInsufficient(a) PROVE Leaves(a)
  <2>1. pc'[a] = "ended" /\ result'[a].outcome = "NO_TRADE_EDGE_INSUFFICIENT"
    BY <1>0, <1>1 DEF EdgeInsufficient, Return, ResultType
  <2> QED  BY <1>1, <2>1 DEF EdgeInsufficient, Return, Leaves, Phase, Running, Suspended
<1>2. ASSUME SubmitBuy(a) PROVE Continues(a)
  BY <1>0, <1>2 DEF SubmitBuy, Continues, Running, Suspended
<1>3. ASSUME BuyUnknown(a) PROVE Leaves(a)
  <2>1. pc'[a] = "ended" /\ result'[a].outcome = "UNKNOWN"
    BY <1>0, <1>3 DEF BuyUnknown, Return, ResultType
  <2> QED  BY <1>3, <2>1 DEF BuyUnknown, Return, Leaves, Phase, Running, Suspended
<1>4. ASSUME BuyZeroFill(a) PROVE Leaves(a)
  <2>1. pc'[a] = "ended" /\ result'[a].outcome = "NO_FILL"
    BY <1>0, <1>4 DEF BuyZeroFill, Return, ResultType
  <2> QED  BY <1>4, <2>1 DEF BuyZeroFill, Return, Leaves, Phase, Running, Suspended
<1>5. ASSUME BuyFilled(a) PROVE Continues(a)
  BY <1>0, <1>5 DEF BuyFilled, Continues, Running, Suspended
<1>6. ASSUME PostFillQuoted(a) PROVE Leaves(a)
  <2>1. PICK r : Return(a, r) /\ r.outcome = result[a].outcome
    <3> DEFINE R(s, p, v) == [result[a] EXCEPT !.maxSafe = s, !.price = p, !.ready = v]
    <3>1. PICK s, p, v : Return(a, R(s, p, v))
      BY <1>6 DEF PostFillQuoted
    <3>2. R(s, p, v).outcome = result[a].outcome
      BY <1>0 DEF ResultType
    <3> QED  BY <3>1, <3>2
  <2>2. pc'[a] = "ended" /\ result'[a].outcome = "FILLED"
    BY <1>0, <1>6, <2>1 DEF PostFillQuoted, Return, CallOK
  <2> QED  BY <1>6, <2>1, <2>2 DEF PostFillQuoted, Return, Leaves, Phase, Running, Suspended
<1>7. ASSUME PostFillRaises(a) PROVE Leaves(a)
  <2>1. pc'[a] = "raised"
    BY <1>0, <1>7 DEF PostFillRaises
  <2> QED  BY <1>7, <2>1 DEF PostFillRaises, Leaves, Phase, Running, Suspended
<1>8. ASSUME PostFillUnquoted(a) PROVE Leaves(a)
  <2>1. pc'[a] = "ended" /\ result'[a].outcome = "FILLED"
    BY <1>0, <1>8 DEF PostFillUnquoted, Return, CallOK
  <2> QED  BY <1>8, <2>1 DEF PostFillUnquoted, Return, Leaves, Phase, Running, Suspended
<1>9. reviewed' = reviewed
  BY DEF Advance, EdgeInsufficient, SubmitBuy, BuyUnknown, BuyZeroFill, BuyFilled,
         PostFillQuoted, PostFillRaises, PostFillUnquoted
<1>10. \E x : result' = [result EXCEPT ![a] = x]
  <2>1. CASE SubmitBuy(a)
    <3>1. result' = [result EXCEPT ![a] = result[a]]
      BY <2>1 DEF SubmitBuy, ConstitutionTypeOK
    <3> QED  BY <3>1
  <2>2. CASE ~SubmitBuy(a)
    BY <2>2 DEF Advance, EdgeInsufficient, BuyUnknown, BuyZeroFill, BuyFilled,
                PostFillQuoted, PostFillRaises, PostFillUnquoted, Return
  <2> QED  BY <2>1, <2>2
<1> QED
  BY <1>1, <1>2, <1>3, <1>4, <1>5, <1>6, <1>7, <1>8, <1>9, <1>10 DEF Advance

LEMMA SlotsKept ==
  ASSUME ConstitutionTypeOK, CallsOK, SlotsCount, [ConstitutionNext]_constitutionVars
  PROVE  SlotsCount'
<1>1. ASSUME RunningCalls' = RunningCalls, inFlight' = inFlight PROVE SlotsCount'
  BY <1>1 DEF SlotsCount
<1>2. ASSUME pc' = pc PROVE RunningCalls' = RunningCalls
  BY <1>2 DEF RunningCalls, Running
<1>3. CASE EngageKillSwitch \/ DisengageKillSwitch \/ UNCHANGED constitutionVars
  BY <1>1, <1>2, <1>3 DEF EngageKillSwitch, DisengageKillSwitch, constitutionVars
<1>4. ASSUME NEW a \in Attempts, Match(a) PROVE SlotsCount'
  BY <1>1, <1>2, <1>4 DEF Match, guardVars
<1>5. ASSUME NEW a \in Attempts, Refuse(a) PROVE SlotsCount'
  <2>1. RunningCalls' = RunningCalls
    BY <1>5 DEF Refuse, RunningCalls, Running, Suspended, ConstitutionTypeOK
  <2> QED  BY <1>1, <1>5, <2>1 DEF Refuse, guardVars
<1>6. ASSUME NEW a \in Attempts, Begin(a) PROVE SlotsCount'
  <2>1. RunningCalls' = RunningCalls \cup {a} /\ a \notin RunningCalls
    BY <1>6 DEF Begin, RunningCalls, Running, Suspended, ConstitutionTypeOK
  <2>2. Cardinality(RunningCalls') = Cardinality(RunningCalls) + 1
    BY <2>1, RunningIsFinite, FS_AddElement
  <2> QED  BY <1>6, <2>2 DEF Begin, SlotsCount
<1>7. ASSUME NEW a \in Attempts, Continues(a) PROVE SlotsCount'
  <2>1. RunningCalls' = RunningCalls
    <3>1. ASSUME NEW b \in Attempts, b # a PROVE Running(b)' <=> Running(b)
      BY <1>7, <3>1 DEF Continues, Running, ConstitutionTypeOK
    <3> QED  BY <1>7, <3>1 DEF Continues, RunningCalls
  <2> QED  BY <1>1, <1>7, <2>1 DEF Continues, guardVars
<1>8. ASSUME NEW a \in Attempts, Leaves(a) PROVE SlotsCount'
  <2>1. RunningCalls' = RunningCalls \ {a} /\ a \in RunningCalls
    <3>1. ASSUME NEW b \in Attempts, b # a PROVE Running(b)' <=> Running(b)
      BY <1>8, <3>1 DEF Leaves, Running, ConstitutionTypeOK
    <3> QED  BY <1>8, <3>1 DEF Leaves, RunningCalls
  <2>2. Cardinality(RunningCalls') = Cardinality(RunningCalls) - 1
    BY <2>1, RunningIsFinite, FS_RemoveElement
  <2>3. Cardinality(RunningCalls') \in Nat
    BY <2>1, RunningIsFinite, FS_RemoveElement, FS_CardinalityType
  <2> QED
    BY <1>8, <2>2, <2>3, RunningIsFinite DEF Leaves, RegisterEnd, Greater, SlotsCount
<1> QED
  BY <1>3, <1>4, <1>5, <1>6, <1>7, <1>8, AdvanceKinds DEF ConstitutionNext

(* The slots in use are the calls that were admitted and have not ended,    *)
(* also those that ended by raising.                                        *)
THEOREM PurchaseSlotsCounted == ConstitutionSpec => []SlotsCount
<1>1. ConstitutionInit => SlotsCount
  <2> SUFFICES ASSUME ConstitutionInit PROVE SlotsCount
    OBVIOUS
  <2>1. RunningCalls = {}
    BY DEF ConstitutionInit, RunningCalls, Running, Suspended
  <2> QED  BY <2>1, FS_EmptySet DEF ConstitutionInit, SlotsCount
<1>2. ConstitutionTypeOK /\ CallsOK /\ SlotsCount /\ [ConstitutionNext]_constitutionVars
        => SlotsCount'
  BY SlotsKept
<1> QED  BY <1>1, <1>2, ConstitutionInvariant, PTL DEF ConstitutionSpec

PhaseOf == [a \in Attempts |-> Phase(a)]

\* A step that changes one call changes the phase of that call only.
LEMMA PhaseMoves ==
  ASSUME ConstitutionTypeOK, NEW a \in Attempts,
         \E x : pc' = [pc EXCEPT ![a] = x], \E x : result' = [result EXCEPT ![a] = x]
  PROVE  PhaseOf' = [PhaseOf EXCEPT ![a] = Phase(a)']
<1>1. ASSUME NEW b \in Attempts, b # a PROVE Phase(b)' = Phase(b)
  <2>1. pc'[b] = pc[b] /\ result'[b] = result[b]
    BY <1>1 DEF ConstitutionTypeOK
  <2> QED  BY <2>1 DEF Phase, Running
<1> QED  BY <1>1 DEF PhaseOf

LEMMA PhaseStays ==
  ASSUME pc' = pc, result' = result
  PROVE  PhaseOf' = PhaseOf
BY DEF PhaseOf, Phase, Running

LEMMA PhaseKinds ==
  ASSUME ConstitutionTypeOK, CallsOK
  PROVE  /\ RunningCalls = Guarded!Running
         /\ {a \in Attempts : result[a].outcome = "UNKNOWN"} = Guarded!Critical
<1>1. ASSUME NEW a \in Attempts
      PROVE  /\ Running(a) <=> Phase(a) = "running"
             /\ result[a].outcome = "UNKNOWN" <=> Phase(a) = "critical"
  <2>1. CallOK(a) /\ pc[a] \in {"idle", "ended", "raised"} \cup Suspended
    BY DEF CallsOK, ConstitutionTypeOK
  <2> QED  BY <2>1 DEF CallOK, Phase, Running, Suspended
<1> QED  BY <1>1 DEF RunningCalls, Guarded!Running, Guarded!Critical

LEMMA GuardStep ==
  ASSUME ConstitutionTypeOK, CallsOK, SlotsCount, [ConstitutionNext]_constitutionVars
  PROVE  [Guarded!Next]_(Guarded!gvars)
<1> USE DEF PhaseOf
<1>1. ASSUME NEW a \in Attempts, Refuse(a) PROVE Guarded!Refuse(a)
  <2>1. Phase(a) = "idle"
    BY <1>1 DEF Refuse, Phase, Running, Suspended
  <2>2. pc'[a] = "ended" /\ result'[a].outcome = "NO_TRADE_REFUSED"
    BY <1>1 DEF Refuse, ConstitutionTypeOK, ResultType
  <2>3. Phase(a)' = "refused"
    BY <2>2 DEF Phase, Running, Suspended
  <2>4. \E x : result' = [result EXCEPT ![a] = x]
    BY <1>1 DEF Refuse
  <2>5. PhaseOf' = [PhaseOf EXCEPT ![a] = "refused"]
    BY <1>1, <2>3, <2>4, PhaseMoves DEF Refuse
  <2> QED  BY <1>1, <2>1, <2>5 DEF Refuse, guardVars, Guarded!Refuse
<1>2. ASSUME NEW a \in Attempts, Begin(a) PROVE Guarded!Begin(a)
  <2>1. Phase(a) = "idle"
    BY <1>2 DEF Begin, Phase, Running, Suspended
  <2>2. Phase(a)' = "running"
    BY <1>2 DEF Begin, Phase, Running, Suspended, ConstitutionTypeOK
  <2>3. \E x : result' = [result EXCEPT ![a] = x]
    BY <1>2 DEF Begin, ConstitutionTypeOK
  <2>4. PhaseOf' = [PhaseOf EXCEPT ![a] = "running"]
    BY <1>2, <2>2, <2>3, PhaseMoves DEF Begin
  <2>5. Cardinality(Guarded!Running) < MaxConcurrent
    BY <1>2, PhaseKinds DEF Begin, Allowed, SlotsCount
  <2> QED
    BY <1>2, <2>1, <2>4, <2>5
       DEF Begin, Allowed, Guarded!Begin, Guarded!Cardinality, Cardinality
<1>3. ASSUME NEW a \in Attempts, Advance(a) PROVE Guarded!Next \/ UNCHANGED Guarded!gvars
  <2>1. Phase(a) = "running"
    BY <1>3, AdvanceKinds DEF Continues, Leaves, Phase, Running, Suspended
  <2>2. PhaseOf' = [PhaseOf EXCEPT ![a] = Phase(a)'] /\ reviewed' = reviewed
    BY <1>3, AdvanceKinds, PhaseMoves DEF Continues, Leaves
  <2>3. CASE Continues(a)
    <3>1. Phase(a)' = "running"
      BY <2>3 DEF Continues, Phase, Running, Suspended
    <3>2. PhaseOf' = PhaseOf
      BY <2>1, <2>2, <3>1
    <3> QED  BY <2>2, <2>3, <3>2 DEF Continues, guardVars, Guarded!gvars
  <2>4. CASE Leaves(a)
    <3>1. Guarded!End(a) \/ Guarded!EndCritical(a)
      BY <2>1, <2>2, <2>4, Zenon DEF Leaves, Guarded!End, Guarded!EndCritical
    <3> QED  BY <3>1 DEF Guarded!Next
  <2> QED  BY <1>3, <2>3, <2>4, AdvanceKinds
<1>4. ASSUME EngageKillSwitch PROVE Guarded!Engage
  BY <1>4, PhaseStays DEF EngageKillSwitch, Guarded!Engage
<1>5. ASSUME DisengageKillSwitch PROVE Guarded!Disengage
  BY <1>5, PhaseKinds, PhaseStays DEF DisengageKillSwitch, Guarded!Disengage
<1>6. ASSUME NEW a \in Attempts, Match(a) PROVE UNCHANGED Guarded!gvars
  BY <1>6, PhaseStays DEF Match, guardVars, Guarded!gvars
<1>7. ASSUME UNCHANGED constitutionVars PROVE UNCHANGED Guarded!gvars
  BY <1>7, PhaseStays DEF constitutionVars, Guarded!gvars
<1> QED
  BY <1>1, <1>2, <1>3, <1>4, <1>5, <1>6, <1>7 DEF ConstitutionNext, Guarded!Next

(* The purchases keep what the guard promises: each step of a call, of its  *)
(* exchange or of an operator is a step of GuardedAttempts or leaves its    *)
(* state alone.                                                             *)
THEOREM PurchasesImplementGuard == ConstitutionSpec => RefinesGuardedAttempts
<1>1. ConstitutionInit => Guarded!Init
  BY DEF ConstitutionInit, Guarded!Init, Phase, Running, Suspended
<1>2. ConstitutionTypeOK /\ CallsOK /\ SlotsCount /\ [ConstitutionNext]_constitutionVars
        => [UNCHANGED constitutionVars \/ [Guarded!Next]_(Guarded!gvars)]_constitutionVars
  BY GuardStep
<1> QED
  BY <1>1, <1>2, ConstitutionInvariant, PurchaseSlotsCounted, PTL
     DEF ConstitutionSpec, RefinesGuardedAttempts

-----------------------------------------------------------------------------
(* What is reserved, and for how long                                      *)

Reservation == [amount : Nat, release : Nat]
Lock        == [amount : Int, release : Nat, capital : Nat, governed : BOOLEAN]

LEMMA PrunedReservations ==
  ASSUME NEW S, NEW res \in [S -> Reservation], NEW t \in Int
  PROVE  /\ Pruned(res, t) \in [S -> Reservation]
         /\ \A i \in S : IF res[i].release <= t
                         THEN Pruned(res, t)[i] = NoReservation
                         ELSE Pruned(res, t)[i] = res[i]
<1>1. DOMAIN res = S /\ \A i \in S : res[i] \in Reservation
  OBVIOUS
<1>2. ASSUME NEW i \in S
      PROVE  [res[i] EXCEPT !.amount = 0, !.release = 0] = NoReservation
  <2>1. \A q \in Reservation : q.amount = 0 /\ q.release = 0 => q = NoReservation
    BY DEF Reservation, NoReservation
  <2>2. \A q \in Reservation : /\ [q EXCEPT !.amount = 0, !.release = 0] \in Reservation
                               /\ [q EXCEPT !.amount = 0, !.release = 0].amount = 0
                               /\ [q EXCEPT !.amount = 0, !.release = 0].release = 0
    BY DEF Reservation
  <2> QED  BY <1>1, <2>1, <2>2
<1>3. NoReservation \in Reservation
  BY DEF Reservation, NoReservation
<1>4. Pruned(res, t) = [i \in S |-> IF res[i].release <= t THEN NoReservation ELSE res[i]]
  BY <1>1, <1>2, Zenon DEF Pruned
<1> HIDE DEF Reservation, NoReservation
<1> QED  BY <1>1, <1>3, <1>4

LEMMA PrunedLocks ==
  ASSUME NEW S, NEW res \in [S -> Lock], NEW t \in Int
  PROVE  /\ Pruned(res, t) \in [S -> Lock]
         /\ \A i \in S : \/ Pruned(res, t)[i] = res[i]
                         \/ Pruned(res, t)[i].amount = 0 /\ Pruned(res, t)[i].release = 0
<1>1. DOMAIN res = S /\ \A i \in S : res[i] \in Lock
  OBVIOUS
<1> DEFINE cleared(i) == [res[i] EXCEPT !.amount = 0, !.release = 0]
<1>2. ASSUME NEW i \in S PROVE cleared(i) \in Lock /\ cleared(i).amount = 0 /\ cleared(i).release = 0
  <2>1. res[i] \in Lock
    BY <1>1
  <2>2. \A q \in Lock : [q EXCEPT !.amount = 0] \in Lock /\ [q EXCEPT !.release = 0] \in Lock
    BY DEF Lock
  <2>3. cleared(i) = [[res[i] EXCEPT !.amount = 0] EXCEPT !.release = 0]
    OBVIOUS
  <2>4. cleared(i) \in Lock
    BY <2>1, <2>2, <2>3
  <2> QED  BY <2>1, <2>4 DEF Lock
<1>3. Pruned(res, t) = [i \in S |-> IF res[i].release <= t THEN cleared(i) ELSE res[i]]
  BY <1>1 DEF Pruned
<1> HIDE DEF cleared, Lock
<1> QED  BY <1>1, <1>2, <1>3

LEMMA LockedIsSum ==
  ASSUME NEW S, NEW res, DOMAIN res = S, NEW t
  PROVE  Locked(res, t) = SumFunctionOnSet([i \in S |-> Pruned(res, t)[i].amount], S)
BY DEF Locked, SumFunction

LEMMA LocksType ==
  ASSUME NEW S, IsFiniteSet(S), NEW res \in [S -> Lock], NEW t \in Int
  PROVE  Locked(res, t) \in Int
<1> DEFINE f == [i \in S |-> Pruned(res, t)[i].amount]
<1>1. \A i \in S : f[i] \in Int
  BY PrunedLocks DEF Lock
<1>2. Locked(res, t) = SumFunctionOnSet(f, S)
  BY LockedIsSum
<1> HIDE DEF f
<1> QED  BY <1>1, <1>2, SumInt

LEMMA LockedType ==
  ASSUME NEW S, IsFiniteSet(S), NEW res \in [S -> Reservation], NEW t \in Int
  PROVE  Locked(res, t) \in Nat
<1> DEFINE f == [i \in S |-> Pruned(res, t)[i].amount]
<1>1. \A i \in S : f[i] \in Nat
  BY PrunedReservations DEF Reservation
<1>2. Locked(res, t) = SumFunctionOnSet(f, S)
  BY LockedIsSum
<1> HIDE DEF f
<1> QED  BY <1>1, <1>2, SumNat

\* Less is locked by reservations that are no larger and expire no later, and less is
\* locked later.
LEMMA LockedAtMost ==
  ASSUME NEW S, IsFiniteSet(S), NEW res \in [S -> Reservation], NEW small \in [S -> Reservation],
         NEW t \in Int, NEW u \in Int, t <= u,
         \A i \in S : small[i].amount = 0
                      \/ (small[i].amount <= res[i].amount /\ small[i].release <= res[i].release)
  PROVE  Locked(small, u) <= Locked(res, t)
<1> DEFINE f == [i \in S |-> Pruned(small, u)[i].amount]
           g == [i \in S |-> Pruned(res, t)[i].amount]
<1>1. ASSUME NEW i \in S PROVE f[i] \in Int /\ g[i] \in Int /\ f[i] <= g[i]
  <2>1. /\ res[i].amount \in Nat /\ res[i].release \in Nat
        /\ small[i].amount \in Nat /\ small[i].release \in Nat
    BY DEF Reservation
  <2>2. g[i] = IF res[i].release <= t THEN 0 ELSE res[i].amount
    BY PrunedReservations DEF NoReservation
  <2>3. f[i] = IF small[i].release <= u THEN 0 ELSE small[i].amount
    BY PrunedReservations DEF NoReservation
  <2> HIDE DEF f, g
  <2> QED  BY <2>1, <2>2, <2>3
<1>2. Locked(small, u) = SumFunctionOnSet(f, S) /\ Locked(res, t) = SumFunctionOnSet(g, S)
  BY LockedIsSum
<1> HIDE DEF f, g
<1> QED  BY <1>1, <1>2, SumAtMost

\* One reservation more locks no more than its amount.
LEMMA LockedWithOneMore ==
  ASSUME NEW S, IsFiniteSet(S), NEW res \in [S -> Reservation], NEW t \in Int,
         NEW i \in S, NEW r \in Reservation
  PROVE  Locked([Pruned(res, t) EXCEPT ![i] = r], t) <= Locked(res, t) + r.amount
<1> DEFINE more == [Pruned(res, t) EXCEPT ![i] = r]
           f == [j \in S |-> Pruned(more, t)[j].amount]
           g == [j \in S |-> Pruned(res, t)[j].amount]
<1>1. more \in [S -> Reservation] /\ more[i] = r
      /\ \A j \in S : j # i => more[j] = Pruned(res, t)[j]
  BY PrunedReservations
<1> HIDE DEF more
<1>0. Pruned(more, t) \in [S -> Reservation] /\ Pruned(res, t) \in [S -> Reservation]
  BY <1>1, PrunedReservations
<1>2. ASSUME NEW j \in S PROVE f[j] \in Nat /\ g[j] \in Nat
  BY <1>0 DEF Reservation
<1>3. ASSUME NEW j \in S, j # i PROVE f[j] = g[j]
  <2>1. Pruned(more, t)[j] = IF more[j].release <= t THEN NoReservation ELSE more[j]
    BY <1>1, PrunedReservations
  <2>2. more[j] = IF res[j].release <= t THEN NoReservation ELSE res[j]
    BY <1>1, <1>3, PrunedReservations
  <2>3. Pruned(more, t)[j] = more[j]
    BY <2>1, <2>2
  <2> QED  BY <1>1, <1>3, <2>3
<1>4. f[i] <= r.amount
  <2>1. Pruned(more, t)[i] = IF r.release <= t THEN NoReservation ELSE r
    BY <1>1, PrunedReservations
  <2>2. r.amount \in Nat
    BY DEF Reservation
  <2> QED  BY <2>1, <2>2 DEF NoReservation
<1>5. Locked(more, t) = SumFunctionOnSet(f, S) /\ Locked(res, t) = SumFunctionOnSet(g, S)
  BY <1>1, LockedIsSum
<1> HIDE DEF f, g
<1>6. \A j \in S : f[j] \in Int /\ g[j] \in Int
  BY <1>2
<1>7. SumFunctionOnSet(f, S) = SumFunctionOnSet(g, S) - g[i] + f[i]
  BY <1>3, <1>6, SumChange
<1>8. SumFunctionOnSet(g, S) \in Int /\ g[i] \in Nat /\ f[i] \in Nat
  BY <1>2, <1>6, SumInt
<1>9. r.amount \in Nat
  BY DEF Reservation
<1>10. Locked(more, t) <= Locked(res, t) + r.amount
  BY <1>4, <1>5, <1>7, <1>8, <1>9
<1> QED  BY <1>10 DEF more

-----------------------------------------------------------------------------
(* The types of MASTER's state                                             *)

Steps == {"sleeping", "scanning", "observing", "saving"}
LoopType(I) == [pc : Steps, scan : Nat, id : I, grant : Nat, used : Nat, profit : Int,
                held : BOOLEAN]
CexLoop == LoopType(CexIds \cup {CHOOSE i \in CexIds : TRUE})
DexLoop == LoopType(DexIds \cup {CHOOSE i \in DexIds : TRUE})

AllocType == [pnl : Int, res : [Ids -> Reservation]]

MasterTypeOK ==
  /\ now \in Nat
  /\ enabled \in BOOLEAN /\ kill \in BOOLEAN
  /\ alloc \in AllocType
  /\ pool \in [pnl : Int, res : [DexIds -> Reservation]]
  /\ portfolio \in [balance : Int, res : [CexIds -> Lock]]
  /\ tracker \in [CexIds -> Nat]
  /\ seen \subseteq DexIds
  /\ cex \in CexLoop /\ dex \in DexLoop
  /\ ghost \in [governed : Int, lateCex : Nat, excused : BOOLEAN]

\* A loop's time is not ahead of the clock, and it works on an opportunity of its own.
LoopsOK ==
  /\ cex.scan <= now /\ dex.scan <= now
  /\ cex.pc \in {"observing", "saving"} => cex.id \in CexIds
  /\ dex.pc = "saving" => dex.id \in DexIds

LEMMA IdsFinite == IsFiniteSet(Ids) /\ IsFiniteSet(CexIds) /\ IsFiniteSet(DexIds)
<1>1. CexIds \subseteq Ids /\ DexIds \subseteq Ids
  BY DEF Ids
<1> QED  BY <1>1, MasterAssumption, FS_Subset

LEMMA AsleepTypes == CexAsleep \in CexLoop /\ DexAsleep \in DexLoop
BY DEF CexAsleep, DexAsleep, Asleep, CexLoop, DexLoop, LoopType, Steps

LEMMA BetweenTypes ==
  ASSUME MasterTypeOK
  PROVE  Between(cex, CexAsleep) \in CexLoop /\ Between(dex, DexAsleep) \in DexLoop
<1>1. /\ cex.scan \in Nat /\ cex.held \in BOOLEAN /\ dex.scan \in Nat /\ dex.held \in BOOLEAN
  BY DEF MasterTypeOK, CexLoop, DexLoop, LoopType
<1>2. /\ [CexAsleep EXCEPT !.pc = "scanning", !.scan = cex.scan, !.held = cex.held] \in CexLoop
  BY <1>1, AsleepTypes DEF CexLoop, LoopType, Steps
<1>3. /\ [DexAsleep EXCEPT !.pc = "scanning", !.scan = dex.scan, !.held = dex.held] \in DexLoop
  BY <1>1, AsleepTypes DEF DexLoop, LoopType, Steps
<1> QED  BY <1>2, <1>3 DEF Between

LEMMA AllocFields ==
  ASSUME MasterTypeOK
  PROVE  /\ alloc.pnl \in Int /\ alloc.res \in [Ids -> Reservation]
         /\ alloc = [pnl |-> alloc.pnl, res |-> alloc.res]
         /\ Total \in Nat
BY MasterAssumption DEF MasterTypeOK, AllocType, Total

LEMMA AvailableTypes ==
  ASSUME MasterTypeOK, NEW t \in Nat
  PROVE  AllocAvailable(t) \in Int /\ PoolAvailable(t) \in Int /\ PortfolioAvailable(t) \in Int
<1>1. Locked(alloc.res, t) \in Nat /\ alloc.pnl \in Int /\ Total \in Nat
  BY AllocFields, IdsFinite, LockedType
<1>2. Locked(pool.res, t) \in Nat /\ pool.pnl \in Int /\ DexTotal \in Nat
  BY IdsFinite, LockedType, MasterAssumption DEF MasterTypeOK
<1>3. Locked(portfolio.res, t) \in Int /\ portfolio.balance \in Int
  BY IdsFinite, LocksType DEF MasterTypeOK
<1> QED  BY <1>1, <1>2, <1>3 DEF AllocAvailable, PoolAvailable, PortfolioAvailable, Max2

LEMMA GrantableBounds ==
  ASSUME MasterTypeOK, NEW id \in Ids, NEW t \in Nat
  PROVE  /\ Grantable(id, t) \in Int /\ Capital[id] \in Nat \ {0}
         /\ Grantable(id, t) <= Capital[id] /\ Grantable(id, t) <= AllocAvailable(t)
BY AvailableTypes, MasterAssumption DEF Grantable, Min2

LEMMA ReserveTypes ==
  ASSUME MasterTypeOK, NEW id \in Ids, NEW t \in Nat, NEW holding \in Nat,
         Grantable(id, t) > 0, Reserve(id, t, holding)
  PROVE  /\ alloc' \in AllocType
         /\ alloc'.pnl = alloc.pnl
         /\ alloc'.res = [Pruned(alloc.res, t) EXCEPT
                            ![id] = [amount |-> Grantable(id, t), release |-> t + holding]]
<1> DEFINE r == [amount |-> Grantable(id, t), release |-> t + holding]
<1>1. r \in Reservation
  BY GrantableBounds DEF Reservation
<1>2. [Pruned(alloc.res, t) EXCEPT ![id] = r] \in [Ids -> Reservation]
  BY <1>1, AllocFields, PrunedReservations
<1> HIDE DEF r
<1>3. alloc' = [alloc EXCEPT !.res = [Pruned(alloc.res, t) EXCEPT ![id] = r]]
  BY DEF Reserve, r
<1>4. alloc \in [pnl : Int, res : [Ids -> Reservation]]
  BY DEF MasterTypeOK, AllocType
<1>5. alloc'.pnl = alloc.pnl /\ alloc'.res = [Pruned(alloc.res, t) EXCEPT ![id] = r]
      /\ alloc' \in AllocType
  BY <1>2, <1>3, <1>4 DEF AllocType
<1> QED  BY <1>5 DEF r

LEMMA PrunedAllocTypes ==
  ASSUME MasterTypeOK, NEW t \in Nat, alloc' = [alloc EXCEPT !.res = Pruned(alloc.res, t)]
  PROVE  alloc' \in AllocType /\ alloc'.pnl = alloc.pnl /\ alloc'.res = Pruned(alloc.res, t)
<1>1. Pruned(alloc.res, t) \in [Ids -> Reservation]
  BY AllocFields, PrunedReservations
<1>2. alloc \in [pnl : Int, res : [Ids -> Reservation]]
  BY DEF MasterTypeOK, AllocType
<1> QED  BY <1>1, <1>2 DEF AllocType

LEMMA ShrunkReservations ==
  ASSUME NEW S, NEW res \in [S -> Reservation], NEW id \in S, NEW used \in Nat
  PROVE  /\ Shrunk(res, id, used) \in [S -> Reservation]
         /\ \A i \in S : i # id => Shrunk(res, id, used)[i] = res[i]
         /\ \A i \in S : Shrunk(res, id, used)[i].release = res[i].release
         /\ \A amount \in Nat : res[id].amount >= amount /\ used >= amount
                                  => Shrunk(res, id, used)[id].amount >= amount
<1>1. res[id] \in Reservation /\ res[id].amount \in Nat
  BY DEF Reservation
<1>2. Max2(used, 0) = used
  BY DEF Max2
<1>3. /\ [res[id] EXCEPT !.amount = used] \in Reservation
      /\ [res[id] EXCEPT !.amount = used].amount = used
      /\ [res[id] EXCEPT !.amount = used].release = res[id].release
  BY <1>1 DEF Reservation
<1>4. Shrunk(res, id, used) = IF used < res[id].amount
                              THEN [res EXCEPT ![id] = [res[id] EXCEPT !.amount = used]]
                              ELSE res
  BY <1>2 DEF Shrunk
<1> HIDE DEF Reservation
<1>5. CASE used < res[id].amount
  BY <1>3, <1>4, <1>5
<1>6. CASE ~(used < res[id].amount)
  BY <1>4, <1>6
<1> QED  BY <1>5, <1>6

LEMMA SettleTypes ==
  ASSUME MasterTypeOK, NEW l, l.id \in Ids, l.used \in Nat, l.scan \in Nat, l.profit \in Int,
         Settle(l)
  PROVE  /\ alloc' \in AllocType /\ enabled' \in BOOLEAN
         /\ alloc'.pnl = alloc.pnl + l.profit
         /\ alloc'.res \in {Shrunk(alloc.res, l.id, l.used),
                            Pruned(Shrunk(alloc.res, l.id, l.used), l.scan)}
<1> DEFINE shrunk == Shrunk(alloc.res, l.id, l.used)
           res == IF enabled THEN Pruned(shrunk, l.scan) ELSE shrunk
<1>1. shrunk \in [Ids -> Reservation]
  BY AllocFields, ShrunkReservations
<1>2. res \in [Ids -> Reservation]
  BY <1>1, PrunedReservations
<1>3. alloc' = [pnl |-> alloc.pnl + l.profit, res |-> res] /\ enabled' \in BOOLEAN
  BY DEF Settle, MasterTypeOK
<1>4. res \in {shrunk, Pruned(shrunk, l.scan)}
  OBVIOUS
<1> HIDE DEF res, shrunk
<1>5. alloc.pnl + l.profit \in Int
  BY AllocFields
<1>6. alloc' \in AllocType /\ alloc'.pnl = alloc.pnl + l.profit /\ alloc'.res = res
  BY <1>2, <1>3, <1>5 DEF AllocType
<1> QED  BY <1>3, <1>4, <1>6 DEF shrunk

-----------------------------------------------------------------------------
(* What a step of each loop writes                                         *)

LEMMA CexFields ==
  ASSUME MasterTypeOK
  PROVE  /\ cex.pc \in Steps /\ cex.scan \in Nat /\ cex.grant \in Nat /\ cex.used \in Nat
         /\ cex.profit \in Int
         /\ dex.pc \in Steps /\ dex.scan \in Nat /\ dex.grant \in Nat /\ dex.used \in Nat
         /\ dex.profit \in Int
         /\ ghost.governed \in Int /\ ghost.lateCex \in Nat
         /\ now \in Nat /\ portfolio.balance \in Int /\ portfolio.res \in [CexIds -> Lock]
         /\ pool.pnl \in Int /\ pool.res \in [DexIds -> Reservation]
         /\ tracker \in [CexIds -> Nat]
BY DEF MasterTypeOK, CexLoop, DexLoop, LoopType

LEMMA IdsInclude == \A id \in CexIds \cup DexIds : id \in Ids
BY DEF Ids

LEMMA CexSimulateWrites ==
  ASSUME MasterTypeOK, LoopsOK, NEW used \in Nat, NEW profit \in Int, CexSimulate(used, profit)
  PROVE  /\ cex.pc = "observing" /\ cex.id \in CexIds
         /\ alloc' \in AllocType /\ alloc'.pnl = alloc.pnl
         /\ cex' \in CexLoop /\ cex'.pc = "saving" /\ cex'.scan = cex.scan /\ cex'.id = cex.id
         /\ cex'.used = used /\ cex'.profit = profit
         /\ cex'.grant = IF CexGated THEN Grantable(cex.id, cex.scan) ELSE 0
         /\ CexGated => Grantable(cex.id, cex.scan) > 0 /\ Reserve(cex.id, cex.scan, CexHolding)
         /\ ~CexGated => alloc' = alloc
         /\ ghost' \in [governed : Int, lateCex : Nat, excused : BOOLEAN]
         /\ ghost'.governed = ghost.governed + (IF CexGated THEN profit ELSE 0)
         /\ ghost'.lateCex = ghost.lateCex + (IF kill THEN 1 ELSE 0)
         /\ ghost'.excused = ghost.excused
         /\ UNCHANGED <<now, enabled, kill, pool, tracker, seen, dex>>
<1> DEFINE g == IF CexGated THEN Grantable(cex.id, cex.scan) ELSE 0
           gain == IF CexGated THEN profit ELSE 0
           late == IF kill THEN 1 ELSE 0
<1>1. cex.pc = "observing" /\ cex.id \in CexIds /\ cex.id \in Ids /\ cex.scan \in Nat
  BY CexFields, IdsInclude DEF CexSimulate, LoopsOK
<1>2. CexGated => Grantable(cex.id, cex.scan) > 0
  BY DEF CexSimulate
<1>3. g \in Nat /\ gain \in Int /\ late \in Nat
  BY <1>1, <1>2, GrantableBounds
<1>4. /\ CexGated => Reserve(cex.id, cex.scan, CexHolding)
      /\ ~CexGated => alloc' = alloc
  BY DEF CexSimulate
<1>5. CexHolding \in Nat
  BY MasterAssumption
<1>6. alloc' \in AllocType /\ alloc'.pnl = alloc.pnl
  BY <1>1, <1>2, <1>4, <1>5, ReserveTypes DEF MasterTypeOK
<1>7. cex' = [cex EXCEPT !.pc = "saving", !.used = used, !.profit = profit, !.grant = g]
  BY DEF CexSimulate
<1>8. ghost' = [ghost EXCEPT !.governed = @ + gain, !.lateCex = @ + late]
  BY DEF CexSimulate
<1> HIDE DEF g, gain, late
<1>9. cex \in CexLoop
  BY DEF MasterTypeOK
<1>10. /\ cex' \in CexLoop /\ cex'.pc = "saving" /\ cex'.scan = cex.scan /\ cex'.id = cex.id
       /\ cex'.used = used /\ cex'.profit = profit /\ cex'.grant = g
  BY <1>3, <1>7, <1>9 DEF CexLoop, LoopType, Steps
<1>11. ghost \in [governed : Int, lateCex : Nat, excused : BOOLEAN]
  BY DEF MasterTypeOK
<1>12. /\ ghost' \in [governed : Int, lateCex : Nat, excused : BOOLEAN]
       /\ ghost'.governed = ghost.governed + gain /\ ghost'.lateCex = ghost.lateCex + late
       /\ ghost'.excused = ghost.excused
  <2> DEFINE after(x, y) == [[ghost EXCEPT !.governed = x] EXCEPT !.lateCex = y]
  <2>1. ASSUME NEW x \in Int, NEW y \in Nat
        PROVE  /\ after(x, y) \in [governed : Int, lateCex : Nat, excused : BOOLEAN]
               /\ after(x, y).governed = x /\ after(x, y).lateCex = y
               /\ after(x, y).excused = ghost.excused
    BY <1>11
  <2>2. ghost.governed + gain \in Int /\ ghost.lateCex + late \in Nat
    BY <1>3, CexFields
  <2>3. ghost' = after(ghost.governed + gain, ghost.lateCex + late)
    BY <1>8, <1>11
  <2> HIDE DEF after
  <2> QED  BY <2>1, <2>2, <2>3
<1>13. UNCHANGED <<now, enabled, kill, pool, tracker, seen, dex>>
  BY DEF CexSimulate
<1> QED
  BY <1>1, <1>2, <1>4, <1>6, <1>10, <1>12, <1>13 DEF g, gain, late

LEMMA CexCapitalBounds ==
  ASSUME MasterTypeOK, LoopsOK, cex.pc = "observing"
  PROVE  /\ CexCapital \in Int
         /\ CexGated => CexCapital <= Grantable(cex.id, cex.scan)
<1>1. cex.id \in Ids /\ cex.scan \in Nat /\ PerTradeCap \in Nat
  BY CexFields, IdsInclude, MasterAssumption DEF LoopsOK
<1>2. Grantable(cex.id, cex.scan) \in Int /\ Capital[cex.id] \in Nat
  BY <1>1, GrantableBounds
<1>3. PortfolioAvailable(cex.scan) \in Int
  BY <1>1, AvailableTypes
<1> QED  BY <1>1, <1>2, <1>3 DEF CexCapital, CexAsked, Min2

LEMMA CexTradeWrites ==
  ASSUME MasterTypeOK, LoopsOK, NEW profit \in CexResults, CexTrades(profit)
  PROVE  /\ CexSimulate(CexCapital, profit) /\ CexCapital \in Nat /\ profit \in Int
         /\ portfolio' \in [balance : Int, res : [CexIds -> Lock]]
         /\ portfolio'.res[cex.id] = [amount |-> CexCapital + profit,
                                      release |-> cex.scan + CexHolding,
                                      capital |-> CexCapital, governed |-> CexGated]
         /\ \A id \in CexIds : id # cex.id =>
              portfolio'.res[id] = Pruned(portfolio.res, cex.scan)[id]
<1> DEFINE lock == [amount |-> CexCapital + profit, release |-> cex.scan + CexHolding,
                    capital |-> CexCapital, governed |-> CexGated]
           res == [Pruned(portfolio.res, cex.scan) EXCEPT ![cex.id] = lock]
<1>1. CexSimulate(CexCapital, profit) /\ CexCapital > 0
  BY DEF CexTrades
<1>2. cex.pc = "observing" /\ cex.id \in CexIds /\ profit \in Int
  BY <1>1, MasterAssumption DEF CexSimulate, LoopsOK
<1>3. CexCapital \in Nat
  BY <1>1, <1>2, CexCapitalBounds
<1>4. CexGated \in BOOLEAN
  BY DEF CexGated, Gated, MasterTypeOK
<1>5. cex.scan + CexHolding \in Nat /\ CexCapital + profit \in Int
  BY <1>2, <1>3, CexFields, MasterAssumption
<1>6. lock \in Lock
  <2>1. \A x \in Int, t \in Nat, c \in Nat, b \in BOOLEAN :
          [amount |-> x, release |-> t, capital |-> c, governed |-> b] \in Lock
    BY DEF Lock
  <2> DEFINE gated == CexGated
             lockOf(b) == [amount |-> CexCapital + profit, release |-> cex.scan + CexHolding,
                           capital |-> CexCapital, governed |-> b]
  <2>2. \A b \in BOOLEAN : lockOf(b) \in Lock
    BY <1>3, <1>5, <2>1
  <2>3. gated \in BOOLEAN /\ lock = lockOf(gated)
    BY <1>4
  <2> HIDE DEF gated, lockOf, lock
  <2> QED  BY <2>2, <2>3
<1>7. Pruned(portfolio.res, cex.scan) \in [CexIds -> Lock]
  <2>1. portfolio.res \in [CexIds -> Lock] /\ cex.scan \in Int
    BY CexFields
  <2> QED  BY <2>1, PrunedLocks
<1> HIDE DEF lock
<1>8. /\ res \in [CexIds -> Lock] /\ res[cex.id] = lock
      /\ \A id \in CexIds : id # cex.id => res[id] = Pruned(portfolio.res, cex.scan)[id]
  BY <1>2, <1>6, <1>7
<1>9. portfolio' = [balance |-> portfolio.balance + profit, res |-> res]
  BY DEF CexTrades, lock
<1>10. portfolio.balance + profit \in Int
  BY <1>2, CexFields
<1> HIDE DEF res
<1>11. portfolio'.res = res /\ portfolio' \in [balance : Int, res : [CexIds -> Lock]]
  BY <1>8, <1>9, <1>10
<1> QED  BY <1>1, <1>2, <1>3, <1>8, <1>11 DEF lock

LEMMA DexAttemptWrites ==
  ASSUME MasterTypeOK, LoopsOK, NEW id \in DexIds, NEW used \in Nat, NEW profit \in Int,
         DexAttempted(id, used, profit)
  PROVE  /\ dex.pc = "scanning"
         /\ alloc' \in AllocType /\ alloc'.pnl = alloc.pnl
         /\ dex' \in DexLoop /\ dex'.pc = "saving" /\ dex'.scan = dex.scan /\ dex'.id = id
         /\ dex'.used = used /\ dex'.profit = profit
         /\ dex'.grant = IF Gated THEN Grantable(id, dex.scan) ELSE 0
         /\ Gated => Grantable(id, dex.scan) > 0 /\ Reserve(id, dex.scan, DexHolding)
         /\ ~Gated => alloc' = alloc
         /\ ghost' \in [governed : Int, lateCex : Nat, excused : BOOLEAN]
         /\ ghost'.governed = ghost.governed + (IF Gated THEN profit ELSE 0)
         /\ ghost'.lateCex = ghost.lateCex /\ ghost'.excused = ghost.excused
         /\ seen' \subseteq DexIds
         /\ UNCHANGED <<now, enabled, kill, portfolio, tracker, cex>>
<1> DEFINE g == IF Gated THEN Grantable(id, dex.scan) ELSE 0
           gain == IF Gated THEN profit ELSE 0
<1>1. dex.pc = "scanning" /\ id \in Ids /\ dex.scan \in Nat
  BY CexFields, IdsInclude DEF DexAttempted, DexNew
<1>2. Gated => Grantable(id, dex.scan) > 0
  BY DEF DexAttempted
<1>3. g \in Nat /\ gain \in Int
  BY <1>1, <1>2, GrantableBounds
<1>4. /\ Gated => Reserve(id, dex.scan, DexHolding)
      /\ ~Gated => alloc' = alloc
  BY DEF DexAttempted
<1>5. DexHolding \in Nat
  BY MasterAssumption
<1>6. alloc' \in AllocType /\ alloc'.pnl = alloc.pnl
  BY <1>1, <1>2, <1>4, <1>5, ReserveTypes DEF MasterTypeOK
<1>7. dex' = [dex EXCEPT !.pc = "saving", !.id = id, !.used = used, !.profit = profit,
                         !.grant = g]
  BY DEF DexAttempted
<1>8. ghost' = [ghost EXCEPT !.governed = @ + gain]
  BY DEF DexAttempted
<1> HIDE DEF g, gain
<1>9. dex \in DexLoop /\ ghost \in [governed : Int, lateCex : Nat, excused : BOOLEAN]
  BY DEF MasterTypeOK
<1>10. /\ dex' \in DexLoop /\ dex'.pc = "saving" /\ dex'.scan = dex.scan /\ dex'.id = id
       /\ dex'.used = used /\ dex'.profit = profit /\ dex'.grant = g
  BY <1>3, <1>7, <1>9 DEF DexLoop, LoopType, Steps
<1>11. /\ ghost' \in [governed : Int, lateCex : Nat, excused : BOOLEAN]
       /\ ghost'.governed = ghost.governed + gain
       /\ ghost'.lateCex = ghost.lateCex /\ ghost'.excused = ghost.excused
  BY <1>3, <1>8, <1>9
<1>12. seen' \subseteq DexIds /\ UNCHANGED <<now, enabled, kill, portfolio, tracker, cex>>
  BY DEF DexAttempted, DexNew, MasterTypeOK
<1> QED  BY <1>1, <1>2, <1>4, <1>6, <1>10, <1>11, <1>12 DEF g, gain

LEMMA DexExecuteWrites ==
  ASSUME MasterTypeOK, LoopsOK, NEW id \in DexIds,
         NEW used \in Int, NEW profit \in Int, DexExecutes(id, used, profit)
  PROVE  /\ DexAttempted(id, used, profit) /\ used \in Nat
         /\ pool' \in [pnl : Int, res : [DexIds -> Reservation]]
<1>1. used \in Nat /\ DexAttempted(id, used, profit)
  BY DEF DexExecutes
<1>2. PICK detected \in dex.scan..now, inclusion \in Inclusions :
        pool' = [pnl |-> pool.pnl + profit,
                 res |-> [Pruned(pool.res, dex.scan) EXCEPT
                            ![id] = [amount |-> used, release |-> detected + inclusion]]]
  BY DEF DexExecutes
<1>3. detected \in Nat /\ inclusion \in Nat
  BY CexFields, MasterAssumption
<1> DEFINE r == [amount |-> used, release |-> detected + inclusion]
<1>4. r \in Reservation
  BY <1>1, <1>3 DEF Reservation
<1>5. Pruned(pool.res, dex.scan) \in [DexIds -> Reservation]
  <2>1. pool.res \in [DexIds -> Reservation] /\ dex.scan \in Int
    BY CexFields
  <2> QED  BY <2>1, PrunedReservations
<1> HIDE DEF r
<1>6. [Pruned(pool.res, dex.scan) EXCEPT ![id] = r] \in [DexIds -> Reservation]
  BY <1>4, <1>5
<1>7. pool.pnl + profit \in Int
  BY CexFields
<1>8. pool' = [pnl |-> pool.pnl + profit, res |-> [Pruned(pool.res, dex.scan) EXCEPT ![id] = r]]
  BY <1>2 DEF r
<1> QED  BY <1>1, <1>6, <1>7, <1>8

\* A purchase of the DEX loop: what it uses and what it earns are amounts.
LEMMA DexFills ==
  ASSUME MasterTypeOK, LoopsOK, NEW id \in DexIds, DexFilled(id) \/ DexFailed(id)
  PROVE  \E used \in Nat, profit \in Int : DexExecutes(id, used, profit)
<1>1. DexAsked(id) \in Int
  <2>1. Capital[id] \in Int /\ Grantable(id, dex.scan) \in Int
    BY CexFields, IdsInclude, GrantableBounds
  <2> QED  BY <2>1 DEF DexAsked
<1>2. PoolAvailable(dex.scan) \in Int
  BY CexFields, AvailableTypes
<1>3. \A used \in DexCapitals(id) : used \in Int
  BY <1>1, <1>2 DEF DexCapitals, Min2
<1>4. -Gas \in Int /\ DexProfits \subseteq Int
  BY MasterAssumption
<1>5. PICK used \in DexCapitals(id) : \E profit \in Int : DexExecutes(id, used, profit)
  BY <1>4 DEF DexFilled, DexFailed
<1>6. used \in Nat
  BY <1>3, <1>5 DEF DexExecutes
<1> QED  BY <1>5, <1>6

LEMMA CexSavedWrites ==
  ASSUME MasterTypeOK, LoopsOK, CexSaved
  PROVE  /\ cex.pc = "saving" /\ cex.id \in CexIds
         /\ IF cex.grant > 0 THEN Settle(cex) ELSE alloc' = alloc /\ enabled' = enabled
         /\ alloc' \in AllocType /\ enabled' \in BOOLEAN
         /\ alloc'.pnl = alloc.pnl + (IF cex.grant > 0 THEN cex.profit ELSE 0)
         /\ cex' \in CexLoop /\ cex'.pc = "scanning" /\ cex'.scan = cex.scan
         /\ UNCHANGED <<now, kill, pool, portfolio, tracker, seen, dex, ghost>>
<1>1. /\ cex.pc = "saving" /\ cex' = Between(cex, CexAsleep)
      /\ IF cex.grant > 0 THEN Settle(cex) ELSE alloc' = alloc /\ enabled' = enabled
      /\ UNCHANGED <<now, kill, pool, portfolio, tracker, seen, dex, ghost>>
  BY DEF CexSaved
<1>2. cex.id \in CexIds /\ cex.id \in Ids /\ cex.used \in Nat /\ cex.scan \in Nat
      /\ cex.profit \in Int
  BY <1>1, CexFields, IdsInclude DEF LoopsOK
<1>3. /\ alloc' \in AllocType /\ enabled' \in BOOLEAN
      /\ alloc'.pnl = alloc.pnl + (IF cex.grant > 0 THEN cex.profit ELSE 0)
  <2>1. CASE cex.grant > 0
    <3>1. Settle(cex)
      BY <1>1, <2>1
    <3> QED  BY <1>2, <2>1, <3>1, SettleTypes
  <2>2. CASE ~(cex.grant > 0)
    BY <1>1, <2>2, AllocFields DEF MasterTypeOK
  <2> QED  BY <2>1, <2>2
<1>4. cex'.pc = "scanning" /\ cex'.scan = cex.scan
  <2>1. CexAsleep \in CexLoop
    BY AsleepTypes
  <2> QED  BY <1>1, <2>1 DEF Between, CexLoop, LoopType
<1> QED  BY <1>1, <1>2, <1>3, <1>4, BetweenTypes

LEMMA DexSavedWrites ==
  ASSUME MasterTypeOK, LoopsOK, DexSaved
  PROVE  /\ dex.pc = "saving" /\ dex.id \in DexIds
         /\ IF dex.grant > 0 THEN Settle(dex) ELSE alloc' = alloc /\ enabled' = enabled
         /\ alloc' \in AllocType /\ enabled' \in BOOLEAN
         /\ alloc'.pnl = alloc.pnl + (IF dex.grant > 0 THEN dex.profit ELSE 0)
         /\ dex' \in DexLoop /\ dex'.pc = "scanning" /\ dex'.scan = dex.scan
         /\ UNCHANGED <<now, kill, pool, portfolio, tracker, seen, cex, ghost>>
<1>1. /\ dex.pc = "saving" /\ dex' = Between(dex, DexAsleep)
      /\ IF dex.grant > 0 THEN Settle(dex) ELSE alloc' = alloc /\ enabled' = enabled
      /\ UNCHANGED <<now, kill, pool, portfolio, tracker, seen, cex, ghost>>
  BY DEF DexSaved
<1>2. dex.id \in DexIds /\ dex.id \in Ids /\ dex.used \in Nat /\ dex.scan \in Nat
      /\ dex.profit \in Int
  BY <1>1, CexFields, IdsInclude DEF LoopsOK
<1>3. /\ alloc' \in AllocType /\ enabled' \in BOOLEAN
      /\ alloc'.pnl = alloc.pnl + (IF dex.grant > 0 THEN dex.profit ELSE 0)
  <2>1. CASE dex.grant > 0
    <3>1. Settle(dex)
      BY <1>1, <2>1
    <3> QED  BY <1>2, <2>1, <3>1, SettleTypes
  <2>2. CASE ~(dex.grant > 0)
    BY <1>1, <2>2, AllocFields DEF MasterTypeOK
  <2> QED  BY <2>1, <2>2
<1>4. dex'.pc = "scanning" /\ dex'.scan = dex.scan
  <2>1. DexAsleep \in DexLoop
    BY AsleepTypes
  <2> QED  BY <1>1, <2>1 DEF Between, DexLoop, LoopType
<1> QED  BY <1>1, <1>2, <1>3, <1>4, BetweenTypes

\* A cycle ends, or is aborted: the loop sleeps; an unsettled result is given up.
LEMMA LoopsFallAsleep ==
  ASSUME MasterTypeOK
  PROVE  /\ CexAborts \/ CexScanEnds =>
              /\ cex' = CexAsleep /\ cex'.pc = "sleeping" /\ cex'.scan = 0
              /\ ghost'.governed = ghost.governed - (IF CexAborts THEN Pending(cex) ELSE 0)
              /\ UNCHANGED <<now, enabled, kill, alloc, pool, portfolio, tracker, seen, dex>>
         /\ DexAborts \/ DexCycleEnds =>
              /\ dex' = DexAsleep /\ dex'.pc = "sleeping" /\ dex'.scan = 0
              /\ ghost'.governed = ghost.governed - (IF DexAborts THEN Pending(dex) ELSE 0)
              /\ UNCHANGED <<now, enabled, kill, alloc, pool, portfolio, tracker, seen, cex>>
         /\ CexAborts \/ CexScanEnds \/ DexAborts \/ DexCycleEnds =>
              /\ ghost' \in [governed : Int, lateCex : Nat, excused : BOOLEAN]
              /\ ghost'.lateCex = ghost.lateCex /\ ghost'.excused = ghost.excused
<1>1. Pending(cex) \in Int /\ Pending(dex) \in Int
  BY CexFields DEF Pending
<1>2. ghost \in [governed : Int, lateCex : Nat, excused : BOOLEAN]
  BY DEF MasterTypeOK
<1>3. ASSUME NEW x \in Int
      PROVE  /\ [ghost EXCEPT !.governed = @ - x] \in [governed : Int, lateCex : Nat, excused : BOOLEAN]
             /\ [ghost EXCEPT !.governed = @ - x].governed = ghost.governed - x
             /\ [ghost EXCEPT !.governed = @ - x].lateCex = ghost.lateCex
             /\ [ghost EXCEPT !.governed = @ - x].excused = ghost.excused
  BY <1>2
<1>4. /\ CexAsleep.pc = "sleeping" /\ CexAsleep.scan = 0
      /\ DexAsleep.pc = "sleeping" /\ DexAsleep.scan = 0
  BY DEF CexAsleep, DexAsleep, Asleep
<1>5. CexAborts => /\ cex.pc \in {"scanning", "observing", "saving"} /\ cex' = CexAsleep
                   /\ ghost' = [ghost EXCEPT !.governed = @ - Pending(cex)]
                   /\ UNCHANGED <<now, enabled, kill, alloc, pool, portfolio, tracker, seen, dex>>
  BY DEF CexAborts
<1>6. DexAborts => /\ dex.pc \in {"scanning", "saving"} /\ dex' = DexAsleep
                   /\ ghost' = [ghost EXCEPT !.governed = @ - Pending(dex)]
                   /\ UNCHANGED <<now, enabled, kill, alloc, pool, portfolio, tracker, seen, cex>>
  BY DEF DexAborts
<1>7. CexScanEnds => /\ cex' = CexAsleep /\ ghost' = ghost
                     /\ UNCHANGED <<now, enabled, kill, alloc, pool, portfolio, tracker, seen, dex>>
  BY DEF CexScanEnds
<1>8. DexCycleEnds => /\ dex' = DexAsleep /\ ghost' = ghost
                      /\ UNCHANGED <<now, enabled, kill, alloc, pool, portfolio, tracker, seen, cex>>
  BY DEF DexCycleEnds
<1>9. ghost.governed \in Int
  BY <1>2
<1> HIDE DEF Pending, CexAborts, DexAborts, CexScanEnds, DexCycleEnds
<1> QED  BY <1>1, <1>2, <1>3, <1>4, <1>5, <1>6, <1>7, <1>8, <1>9

LEMMA MasterTypesKept ==
  ASSUME MasterTypeOK, LoopsOK, [Next]_vars
  PROVE  MasterTypeOK' /\ LoopsOK'
<1> USE DEF MasterTypeOK, LoopsOK
<1>1. CASE UNCHANGED vars
  BY <1>1 DEF vars
<1>2. CASE CexScan
  <2>1. cex \in CexLoop /\ cex' = [cex EXCEPT !.pc = "scanning", !.scan = now] /\ now \in Nat
    BY <1>2 DEF CexScan
  <2>2. cex' \in CexLoop /\ cex'.pc = "scanning" /\ cex'.scan = now
    BY <2>1 DEF CexLoop, LoopType, Steps
  <2>3. UNCHANGED <<now, enabled, kill, alloc, pool, portfolio, tracker, seen, dex, ghost>>
    BY <1>2 DEF CexScan
  <2> QED  BY <2>2, <2>3
<1>3. CASE DexCycle
  <2>1. dex \in DexLoop /\ now \in Nat /\ kill \in BOOLEAN
        /\ dex' = [dex EXCEPT !.pc = "scanning", !.scan = now, !.held = kill]
    BY <1>3 DEF DexCycle
  <2>2. dex' \in DexLoop /\ dex'.pc = "scanning" /\ dex'.scan = now
    BY <2>1 DEF DexLoop, LoopType, Steps
  <2>3. UNCHANGED <<now, enabled, kill, alloc, pool, portfolio, tracker, seen, cex, ghost>>
    BY <1>3 DEF DexCycle
  <2> QED  BY <2>2, <2>3
<1>4. CASE CexScanEnds \/ CexAborts
  BY <1>4, LoopsFallAsleep, AsleepTypes
<1>5. CASE DexCycleEnds \/ DexAborts
  BY <1>5, LoopsFallAsleep, AsleepTypes
<1>6. ASSUME NEW id \in CexIds, CexApprove(id) PROVE MasterTypeOK' /\ LoopsOK'
  <2>1. cex \in CexLoop /\ cex' = [cex EXCEPT !.pc = "observing", !.id = id]
    BY <1>6 DEF CexApprove
  <2>2. cex' \in CexLoop /\ cex'.pc = "observing" /\ cex'.id = id /\ cex'.scan = cex.scan
    BY <2>1 DEF CexLoop, LoopType, Steps
  <2>3. cex.scan + CexHolding + ReentryDelay \in Nat
    BY CexFields, MasterAssumption
  <2>4. tracker' \in [CexIds -> Nat]
    BY <1>6, <2>3 DEF CexApprove
  <2>5. UNCHANGED <<now, enabled, kill, alloc, pool, portfolio, seen, dex, ghost>>
    BY <1>6 DEF CexApprove
  <2> QED  BY <2>2, <2>4, <2>5
<1>7. CASE CexRejected
  <2>1. alloc' = [alloc EXCEPT !.res = Pruned(alloc.res, cex.scan)] /\ cex' = Between(cex, CexAsleep)
        /\ UNCHANGED <<now, enabled, kill, pool, portfolio, tracker, seen, dex, ghost>>
    BY <1>7 DEF CexRejected
  <2>2. alloc' \in AllocType
    BY <2>1, CexFields, PrunedAllocTypes
  <2>3. cex'.pc = "scanning" /\ cex'.scan = cex.scan
    BY <2>1, AsleepTypes DEF Between, CexLoop, LoopType
  <2> QED  BY <2>1, <2>2, <2>3, BetweenTypes
<1>8. CASE CexNotTraded
  <2>1. CexSimulate(0, 0) /\ UNCHANGED portfolio
    BY <1>8 DEF CexNotTraded
  <2> QED  BY <2>1, CexSimulateWrites
<1>9. ASSUME NEW p \in CexResults, CexTrades(p) PROVE MasterTypeOK' /\ LoopsOK'
  BY <1>9, CexTradeWrites, CexSimulateWrites
<1>10. CASE CexSaved
  BY <1>10, CexSavedWrites
<1>11. CASE DexSaved
  BY <1>11, DexSavedWrites
<1>12. ASSUME NEW id \in DexIds, DexRejected(id) PROVE MasterTypeOK' /\ LoopsOK'
  <2>1. /\ alloc' = [alloc EXCEPT !.res = Pruned(alloc.res, dex.scan)]
        /\ seen' = seen \cup {id}
        /\ UNCHANGED <<now, enabled, kill, pool, portfolio, tracker, cex, dex, ghost>>
    BY <1>12 DEF DexRejected, DexNew
  <2>2. alloc' \in AllocType
    BY <2>1, CexFields, PrunedAllocTypes
  <2> QED  BY <2>1, <2>2
<1>13. ASSUME NEW id \in DexIds, DexNotAttempted(id) PROVE MasterTypeOK' /\ LoopsOK'
  <2>1. DexAttempted(id, 0, 0) /\ pool' = pool
    BY <1>13 DEF DexNotAttempted
  <2> QED  BY <2>1, DexAttemptWrites
<1>14. ASSUME NEW id \in DexIds, DexFilled(id) \/ DexFailed(id) PROVE MasterTypeOK' /\ LoopsOK'
  <2>1. PICK used \in Nat, profit \in Int : DexExecutes(id, used, profit)
    BY <1>14, DexFills
  <2>2. DexAttempted(id, used, profit) /\ pool' \in [pnl : Int, res : [DexIds -> Reservation]]
    BY <2>1, DexExecuteWrites
  <2> QED  BY <2>2, DexAttemptWrites
<1>15. CASE OperatorEngages
  BY <1>15 DEF OperatorEngages, Unmoved
<1>16. CASE OperatorDisengages
  <2>1. dex' \in DexLoop /\ dex'.pc = dex.pc /\ dex'.scan = dex.scan /\ dex'.id = dex.id
    BY <1>16 DEF OperatorDisengages, DexLoop, LoopType
  <2>2. ghost' \in [governed : Int, lateCex : Nat, excused : BOOLEAN]
    BY <1>16 DEF OperatorDisengages
  <2> QED  BY <1>16, <2>1, <2>2 DEF OperatorDisengages, Unmoved
<1>17. CASE OperatorRollsBack
  BY <1>17 DEF OperatorRollsBack, Unmoved
<1>18. CASE OperatorEnables
  <2> DEFINE b == AllocAvailable(now) < 0
  <2>1. ghost' = [ghost EXCEPT !.excused = b] /\ b \in BOOLEAN
    BY <1>18 DEF OperatorEnables
  <2> HIDE DEF b
  <2>2. ghost' \in [governed : Int, lateCex : Nat, excused : BOOLEAN]
    BY <2>1
  <2> QED  BY <1>18, <2>2 DEF OperatorEnables, Unmoved
<1>19. CASE StatusRead
  <2>1. alloc' = [alloc EXCEPT !.res = Pruned(alloc.res, now)]
        /\ UNCHANGED <<now, pool, portfolio, tracker, seen, enabled, kill, cex, dex, ghost>>
    BY <1>19 DEF StatusRead, Unmoved
  <2>2. alloc' \in AllocType
    BY <2>1, PrunedAllocTypes
  <2> QED  BY <2>1, <2>2
<1>20. CASE Tick
  <2>1. now' = now + 1 /\ UNCHANGED <<enabled, kill, alloc, pool, portfolio, tracker, seen, cex, dex, ghost>>
    BY <1>20 DEF Tick
  <2>2. now' \in Nat /\ cex.scan \in Nat /\ dex.scan \in Nat
    BY <2>1, CexFields
  <2> QED  BY <2>1, <2>2
<1> QED
  BY <1>1, <1>2, <1>3, <1>4, <1>5, <1>6, <1>7, <1>8, <1>9, <1>10, <1>11, <1>12, <1>13, <1>14,
     <1>15, <1>16, <1>17, <1>18, <1>19, <1>20
     DEF Next, CexNext, DexNext, OperatorNext

LEMMA MasterTypes == Spec => [](MasterTypeOK /\ LoopsOK)
<1>1. Init => MasterTypeOK /\ LoopsOK
  <2> SUFFICES ASSUME Init PROVE MasterTypeOK /\ LoopsOK
    OBVIOUS
  <2>1. NoReservation \in Reservation /\ NoLock \in Lock /\ PortfolioTotal \in Int
    BY MasterAssumption DEF NoReservation, Reservation, NoLock, Lock
  <2>2. /\ cex.scan = 0 /\ cex.pc = "sleeping" /\ dex.scan = 0 /\ dex.pc = "sleeping"
    BY DEF Init, CexAsleep, DexAsleep, Asleep
  <2>3. alloc \in AllocType /\ pool \in [pnl : Int, res : [DexIds -> Reservation]]
        /\ portfolio \in [balance : Int, res : [CexIds -> Lock]]
    BY <2>1 DEF Init, AllocType
  <2>4. ghost \in [governed : Int, lateCex : Nat, excused : BOOLEAN]
    BY DEF Init
  <2>5. /\ now = 0 /\ enabled \in BOOLEAN /\ kill \in BOOLEAN /\ seen \subseteq DexIds
        /\ tracker \in [CexIds -> Nat]
        /\ cex = CexAsleep /\ dex = DexAsleep
    BY DEF Init
  <2>6. MasterTypeOK
    BY <2>3, <2>4, <2>5, AsleepTypes DEF MasterTypeOK
  <2>7. LoopsOK
    BY <2>2, <2>5 DEF LoopsOK
  <2> QED  BY <2>6, <2>7
<1>2. MasterTypeOK /\ LoopsOK /\ [Next]_vars => (MasterTypeOK /\ LoopsOK)'
  BY MasterTypesKept
<1> QED  BY <1>1, <1>2, PTL DEF Spec

-----------------------------------------------------------------------------
(* MASTER's realized result                                                *)

\* Where no result waits to be settled, before and after, the books move together.
LEMMA PnlKept ==
  ASSUME MasterTypeOK, LoopsOK, PnlReconciles, [Next]_vars
  PROVE  PnlReconciles'
<1>0. /\ Pending(cex) \in Int /\ Pending(dex) \in Int /\ ghost.governed \in Int
      /\ alloc.pnl \in Int
      /\ alloc.pnl + Pending(cex) + Pending(dex) = ghost.governed
  BY CexFields, AllocFields DEF Pending, PnlReconciles
<1>a. \A id \in CexIds \cup DexIds : id \in Ids
  BY IdsInclude
<1>b. cex.pc # "saving" => Pending(cex) = 0
  BY DEF Pending
<1>c. dex.pc # "saving" => Pending(dex) = 0
  BY DEF Pending
<1>d. cex'.pc # "saving" => Pending(cex)' = 0
  BY DEF Pending
<1>e. dex'.pc # "saving" => Pending(dex)' = 0
  BY DEF Pending
<1>f. ASSUME alloc'.pnl = alloc.pnl, ghost'.governed = ghost.governed,
             Pending(cex)' = Pending(cex), Pending(dex)' = Pending(dex)
      PROVE  PnlReconciles'
  BY <1>0, <1>f DEF PnlReconciles
<1>g. cex' = cex => Pending(cex)' = Pending(cex)
  BY DEF Pending
<1>h. dex' = dex => Pending(dex)' = Pending(dex)
  BY DEF Pending
<1>1. CASE UNCHANGED vars
  BY <1>1, <1>f, <1>g, <1>h DEF vars
<1>2. CASE CexScan \/ (\E id \in CexIds : CexApprove(id))
  <2>1. cex.pc # "saving" /\ cex'.pc # "saving" /\ UNCHANGED <<alloc, dex, ghost>>
    BY <1>2 DEF CexScan, CexApprove, MasterTypeOK, CexLoop, LoopType
  <2> QED  BY <2>1, <1>b, <1>d, <1>f, <1>h
<1>3. CASE DexCycle
  <2>1. dex.pc # "saving" /\ dex'.pc # "saving" /\ UNCHANGED <<alloc, cex, ghost>>
    BY <1>3 DEF DexCycle, MasterTypeOK, DexLoop, LoopType
  <2> QED  BY <2>1, <1>c, <1>e, <1>f, <1>g
<1>4. CASE CexAborts \/ CexScanEnds
  <2>1. /\ cex'.pc # "saving" /\ UNCHANGED <<alloc, dex>>
        /\ ghost'.governed = ghost.governed - (IF CexAborts THEN Pending(cex) ELSE 0)
    BY <1>4, LoopsFallAsleep
  <2>2. ~CexAborts => Pending(cex) = 0
    BY <1>4, <1>b DEF CexScanEnds
  <2> QED  BY <2>1, <2>2, <1>0, <1>d, <1>h DEF PnlReconciles
<1>5. CASE DexAborts \/ DexCycleEnds
  <2>1. /\ dex'.pc # "saving" /\ UNCHANGED <<alloc, cex>>
        /\ ghost'.governed = ghost.governed - (IF DexAborts THEN Pending(dex) ELSE 0)
    BY <1>5, LoopsFallAsleep
  <2>2. ~DexAborts => Pending(dex) = 0
    BY <1>5, <1>c DEF DexCycleEnds
  <2> QED  BY <2>1, <2>2, <1>0, <1>e, <1>g DEF PnlReconciles
<1>6. CASE CexRejected
  <2>1. /\ cex.pc # "saving" /\ UNCHANGED <<dex, ghost>> /\ cex' = Between(cex, CexAsleep)
        /\ alloc' = [alloc EXCEPT !.res = Pruned(alloc.res, cex.scan)]
    BY <1>6 DEF CexRejected
  <2>2. alloc'.pnl = alloc.pnl
    BY <2>1, CexFields, PrunedAllocTypes
  <2>3. cex'.pc # "saving"
    BY <2>1, AsleepTypes DEF Between, CexLoop, LoopType
  <2> QED  BY <2>1, <2>2, <2>3, <1>b, <1>d, <1>f, <1>h
<1>7. ASSUME NEW used \in Nat, NEW profit \in Int, CexSimulate(used, profit)
      PROVE  PnlReconciles'
  <2> DEFINE gain == IF CexGated THEN profit ELSE 0
  <2>1. /\ cex.pc = "observing" /\ alloc'.pnl = alloc.pnl /\ dex' = dex
        /\ ghost'.governed = ghost.governed + gain
    BY <1>7, CexSimulateWrites
  <2>2. /\ cex'.pc = "saving" /\ cex'.profit = profit
        /\ IF CexGated THEN cex'.grant > 0 ELSE cex'.grant = 0
    BY <1>7, CexSimulateWrites
  <2>3. Pending(cex)' = gain
    BY <2>2 DEF Pending
  <2>4. gain \in Int
    OBVIOUS
  <2> HIDE DEF gain
  <2> QED  BY <2>1, <2>3, <2>4, <1>0, <1>b, <1>h DEF PnlReconciles
<1>8. CASE CexNotTraded
  BY <1>8, <1>7 DEF CexNotTraded
<1>9. ASSUME NEW p \in CexResults, CexTrades(p) PROVE PnlReconciles'
  BY <1>9, <1>7, CexTradeWrites
<1>10. CASE CexSaved
  <2>1. /\ alloc'.pnl = alloc.pnl + (IF cex.grant > 0 THEN cex.profit ELSE 0)
        /\ cex.pc = "saving" /\ cex'.pc # "saving" /\ UNCHANGED <<dex, ghost>>
    BY <1>10, CexSavedWrites
  <2>2. Pending(cex) = IF cex.grant > 0 THEN cex.profit ELSE 0
    BY <2>1 DEF Pending
  <2> QED  BY <2>1, <2>2, <1>0, <1>d, <1>h DEF PnlReconciles
<1>11. CASE DexSaved
  <2>1. /\ alloc'.pnl = alloc.pnl + (IF dex.grant > 0 THEN dex.profit ELSE 0)
        /\ dex.pc = "saving" /\ dex'.pc # "saving" /\ UNCHANGED <<cex, ghost>>
    BY <1>11, DexSavedWrites
  <2>2. Pending(dex) = IF dex.grant > 0 THEN dex.profit ELSE 0
    BY <2>1 DEF Pending
  <2> QED  BY <2>1, <2>2, <1>0, <1>e, <1>g DEF PnlReconciles
<1>12. ASSUME NEW id \in DexIds, DexRejected(id) PROVE PnlReconciles'
  <2>1. /\ UNCHANGED <<cex, dex, ghost>>
        /\ alloc' = [alloc EXCEPT !.res = Pruned(alloc.res, dex.scan)]
    BY <1>12 DEF DexRejected
  <2>2. alloc'.pnl = alloc.pnl
    BY <2>1, CexFields, PrunedAllocTypes
  <2> QED  BY <2>1, <2>2, <1>f, <1>g, <1>h
<1>13. ASSUME NEW id \in DexIds, NEW used \in Nat, NEW profit \in Int,
              DexAttempted(id, used, profit)
       PROVE  PnlReconciles'
  <2> DEFINE gain == IF Gated THEN profit ELSE 0
  <2>1. /\ dex.pc = "scanning" /\ alloc'.pnl = alloc.pnl /\ cex' = cex
        /\ ghost'.governed = ghost.governed + gain
    BY <1>13, DexAttemptWrites
  <2>2. /\ dex'.pc = "saving" /\ dex'.profit = profit
        /\ IF Gated THEN dex'.grant > 0 ELSE dex'.grant = 0
    BY <1>13, DexAttemptWrites
  <2>3. Pending(dex)' = gain
    BY <2>2 DEF Pending
  <2>4. gain \in Int
    OBVIOUS
  <2> HIDE DEF gain
  <2> QED  BY <2>1, <2>3, <2>4, <1>0, <1>c, <1>g DEF PnlReconciles
<1>14. ASSUME NEW id \in DexIds, DexNotAttempted(id) \/ DexFilled(id) \/ DexFailed(id)
       PROVE  PnlReconciles'
  BY <1>13, <1>14, DexFills DEF DexNotAttempted, DexExecutes
<1>15. CASE OperatorEngages \/ OperatorRollsBack \/ OperatorEnables
  <2>1. UNCHANGED <<alloc, cex, dex>>
    BY <1>15 DEF OperatorEngages, OperatorRollsBack, OperatorEnables
  <2>2. ghost'.governed = ghost.governed
    BY <1>15 DEF OperatorEngages, OperatorRollsBack, OperatorEnables, MasterTypeOK
  <2> QED  BY <2>1, <2>2, <1>f, <1>g, <1>h
<1>16. CASE OperatorDisengages
  <2>1. UNCHANGED <<alloc, cex>> /\ dex' = [dex EXCEPT !.held = FALSE] /\ dex \in DexLoop
    BY <1>16 DEF OperatorDisengages, MasterTypeOK
  <2>2. dex'.pc = dex.pc /\ dex'.grant = dex.grant /\ dex'.profit = dex.profit
    BY <2>1 DEF DexLoop, LoopType
  <2>3. ghost'.governed = ghost.governed
    BY <1>16 DEF OperatorDisengages, MasterTypeOK
  <2>4. Pending(dex)' = Pending(dex)
    BY <2>2 DEF Pending
  <2> QED  BY <2>1, <2>3, <2>4, <1>f, <1>g
<1>17. CASE StatusRead
  <2>1. /\ UNCHANGED <<cex, dex, ghost>>
        /\ alloc' = [alloc EXCEPT !.res = Pruned(alloc.res, now)]
    BY <1>17 DEF StatusRead
  <2>2. alloc'.pnl = alloc.pnl
    BY <2>1, CexFields, PrunedAllocTypes
  <2> QED  BY <2>1, <2>2, <1>f, <1>g, <1>h
<1>18. CASE Tick
  BY <1>18, <1>f, <1>g, <1>h DEF Tick
<1> QED
  BY <1>1, <1>2, <1>3, <1>4, <1>5, <1>6, <1>8, <1>9, <1>10, <1>11, <1>12, <1>14,
     <1>15, <1>16, <1>17, <1>18
     DEF Next, CexNext, DexNext, OperatorNext

(* Whatever the two loops, the operators and the clock do, and in whatever  *)
(* order results are settled or given up, MASTER's realized P&L is that of  *)
(* the executions it granted, less those still being saved.                 *)
THEOREM PnlIsReconciled == Spec => []PnlReconciles
<1>1. Init => PnlReconciles
  <2>1. CexAsleep.pc = "sleeping" /\ DexAsleep.pc = "sleeping"
    BY DEF CexAsleep, DexAsleep, Asleep
  <2> QED  BY <2>1 DEF Init, PnlReconciles, Pending
<1>2. MasterTypeOK /\ LoopsOK /\ PnlReconciles /\ [Next]_vars => PnlReconciles'
  BY PnlKept
<1> QED  BY <1>1, <1>2, MasterTypes, PTL DEF Spec

-----------------------------------------------------------------------------
(* The kill switch and the CEX loop                                        *)

\* Once an approved opportunity was executed after the switch, none is waiting.
NoneAwaits ==
  /\ ghost.lateCex <= 1
  /\ ghost.lateCex = 1 => kill /\ cex.pc # "observing"

LEMMA NoneAwaitsKept ==
  ASSUME MasterTypeOK, LoopsOK, NoneAwaits, [Next]_vars
  PROVE  NoneAwaits'
<1> USE DEF NoneAwaits
<1>0. ghost.lateCex \in Nat
  BY CexFields
<1>1. ASSUME ghost'.lateCex = ghost.lateCex, kill' = kill,
             cex'.pc # "observing" \/ cex'.pc = cex.pc
      PROVE  NoneAwaits'
  BY <1>1
<1>2. CASE UNCHANGED vars \/ Tick \/ DexCycle \/ (\E id \in DexIds : DexRejected(id))
  BY <1>2, <1>1 DEF vars, Tick, DexCycle, DexRejected
<1>3. CASE CexScan
  <2>1. cex'.pc = "scanning"
    BY <1>3 DEF CexScan, MasterTypeOK, CexLoop, LoopType
  <2> QED  BY <2>1, <1>1, <1>3 DEF CexScan
<1>4. CASE CexScanEnds \/ CexAborts
  <2>1. cex'.pc # "observing" /\ ghost'.lateCex = ghost.lateCex /\ kill' = kill
    BY <1>4, LoopsFallAsleep
  <2> QED  BY <2>1, <1>1
<1>5. CASE DexCycleEnds \/ DexAborts
  <2>1. cex' = cex /\ ghost'.lateCex = ghost.lateCex /\ kill' = kill
    BY <1>5, LoopsFallAsleep
  <2> QED  BY <2>1, <1>1
<1>6. ASSUME NEW id \in CexIds, CexApprove(id) PROVE NoneAwaits'
  BY <1>0, <1>6 DEF CexApprove
<1>7. CASE CexRejected
  <2>1. cex' = Between(cex, CexAsleep) /\ UNCHANGED <<kill, ghost>>
    BY <1>7 DEF CexRejected
  <2>2. cex'.pc = "scanning"
    BY <2>1, AsleepTypes DEF Between, CexLoop, LoopType
  <2> QED  BY <2>1, <2>2, <1>1
<1>8. ASSUME NEW used \in Nat, NEW profit \in Int, CexSimulate(used, profit)
      PROVE  NoneAwaits'
  <2>1. /\ cex.pc = "observing" /\ cex'.pc = "saving" /\ kill' = kill
        /\ ghost'.lateCex = ghost.lateCex + (IF kill THEN 1 ELSE 0)
    BY <1>8, CexSimulateWrites
  <2>2. ghost.lateCex = 0
    BY <2>1, <1>0
  <2> QED  BY <2>1, <2>2
<1>9. CASE CexNotTraded
  BY <1>8, <1>9 DEF CexNotTraded
<1>10. ASSUME NEW p \in CexResults, CexTrades(p) PROVE NoneAwaits'
  BY <1>8, <1>10, CexTradeWrites
<1>11. CASE CexSaved
  <2>1. cex'.pc = "scanning" /\ UNCHANGED <<kill, ghost>>
    BY <1>11, CexSavedWrites
  <2> QED  BY <2>1, <1>1
<1>12. CASE DexSaved
  <2>1. UNCHANGED <<kill, cex, ghost>>
    BY <1>12, DexSavedWrites
  <2> QED  BY <2>1, <1>1
<1>13. ASSUME NEW id \in DexIds, DexNotAttempted(id) \/ DexFilled(id) \/ DexFailed(id)
       PROVE  NoneAwaits'
  <2>1. PICK used \in Nat, profit \in Int : DexAttempted(id, used, profit)
    BY <1>13, DexFills DEF DexNotAttempted, DexExecutes
  <2>2. ghost'.lateCex = ghost.lateCex /\ kill' = kill /\ cex' = cex
    BY <2>1, DexAttemptWrites
  <2> QED  BY <2>2, <1>1
<1>14. CASE OperatorEngages \/ OperatorDisengages
  <2>1. ghost' = [ghost EXCEPT !.lateCex = 0]
    BY <1>14 DEF OperatorEngages, OperatorDisengages
  <2>2. ghost'.lateCex = 0
    BY <2>1 DEF MasterTypeOK
  <2> QED  BY <2>2
<1>15. CASE OperatorRollsBack \/ StatusRead
  BY <1>15, <1>1 DEF OperatorRollsBack, StatusRead
<1>16. CASE OperatorEnables
  <2>1. ghost'.lateCex = ghost.lateCex /\ UNCHANGED <<kill, cex>>
    BY <1>16 DEF OperatorEnables, MasterTypeOK
  <2> QED  BY <2>1, <1>1
<1> QED
  BY <1>2, <1>3, <1>4, <1>5, <1>6, <1>7, <1>9, <1>10, <1>11, <1>12, <1>13, <1>14, <1>15, <1>16
     DEF Next, CexNext, DexNext, OperatorNext

(* Engaging the kill switch leaves at most the one opportunity of the CEX   *)
(* loop that was approved and awaiting the observers.                       *)
THEOREM KillLeavesOne == Spec => []KillStopsCex
<1>1. Init => NoneAwaits
  BY DEF Init, NoneAwaits
<1>2. MasterTypeOK /\ LoopsOK /\ NoneAwaits /\ [Next]_vars => NoneAwaits'
  BY NoneAwaitsKept
<1>3. NoneAwaits => KillStopsCex
  BY DEF NoneAwaits, KillStopsCex
<1> QED  BY <1>1, <1>2, <1>3, MasterTypes, PTL DEF Spec

-----------------------------------------------------------------------------
(* What MASTER reserves for the open positions of the "5K" portfolio       *)

Lock5K(id) == portfolio.res[id]

\* The tracker blocks a key at least as long as the portfolio locks its capital, so
\* that what the CEX loop is opening, or has just opened, is the only lock of its key.
KeyIsFree ==
  /\ \A id \in CexIds : Lock5K(id).release <= tracker[id]
  /\ cex.pc = "observing" =>
       /\ Lock5K(cex.id).release <= cex.scan
       /\ tracker[cex.id] = cex.scan + CexHolding + ReentryDelay
  /\ cex.pc = "saving" =>
       Lock5K(cex.id).release <= cex.scan \/ Lock5K(cex.id).capital <= cex.used

LEMMA LockFields ==
  ASSUME MasterTypeOK, NEW id \in CexIds
  PROVE  /\ Lock5K(id) \in Lock
         /\ Lock5K(id).amount \in Int /\ Lock5K(id).release \in Nat
         /\ Lock5K(id).capital \in Nat /\ tracker[id] \in Nat
<1>1. Lock5K(id) \in Lock
  BY DEF MasterTypeOK, Lock5K
<1> QED  BY <1>1, CexFields DEF Lock

\* A trade locks what it used under its key; the other locks stay or expire.
LEMMA TradeLocks ==
  ASSUME MasterTypeOK, LoopsOK, NEW p \in CexResults, CexTrades(p)
  PROVE  /\ portfolio'.res[cex.id].release = cex.scan + CexHolding
         /\ portfolio'.res[cex.id].capital = CexCapital
         /\ portfolio'.res[cex.id].governed = CexGated
         /\ \A id \in CexIds : id # cex.id =>
              \/ Lock5K(id)' = Lock5K(id)
              \/ Lock5K(id)'.amount = 0 /\ Lock5K(id)'.release = 0
<1>1. cex.scan \in Int
  BY CexFields
<1>2. portfolio'.res[cex.id] = [amount |-> CexCapital + p, release |-> cex.scan + CexHolding,
                                capital |-> CexCapital, governed |-> CexGated]
      /\ \A id \in CexIds : id # cex.id =>
           portfolio'.res[id] = Pruned(portfolio.res, cex.scan)[id]
  BY CexTradeWrites
<1> DEFINE gated == CexGated
           lock(b) == [amount |-> CexCapital + p, release |-> cex.scan + CexHolding,
                       capital |-> CexCapital, governed |-> b]
<1>3. \A b : /\ lock(b).release = cex.scan + CexHolding
             /\ lock(b).capital = CexCapital /\ lock(b).governed = b
  OBVIOUS
<1>4. portfolio'.res[cex.id] = lock(gated)
  BY <1>2
<1>5. portfolio.res \in [CexIds -> Lock]
  BY CexFields
<1>6. \A id \in CexIds : \/ Pruned(portfolio.res, cex.scan)[id] = portfolio.res[id]
                         \/ /\ Pruned(portfolio.res, cex.scan)[id].amount = 0
                            /\ Pruned(portfolio.res, cex.scan)[id].release = 0
  BY <1>1, <1>5, PrunedLocks
<1>7. \A id \in CexIds : id # cex.id =>
              \/ portfolio'.res[id] = portfolio.res[id]
              \/ portfolio'.res[id].amount = 0 /\ portfolio'.res[id].release = 0
  BY <1>2, <1>6
<1> HIDE DEF lock
<1>8. /\ portfolio'.res[cex.id].release = cex.scan + CexHolding
      /\ portfolio'.res[cex.id].capital = CexCapital
      /\ portfolio'.res[cex.id].governed = gated
  BY <1>3, <1>4
<1> QED  BY <1>1, <1>7, <1>8 DEF Lock5K

LEMMA KeyIsFreeKept ==
  ASSUME MasterTypeOK, LoopsOK, KeyIsFree, [Next]_vars
  PROVE  KeyIsFree'
<1>0. \A id \in CexIds : /\ Lock5K(id).release \in Nat /\ Lock5K(id).capital \in Nat
                         /\ tracker[id] \in Nat
  BY LockFields
<1>1. ASSUME UNCHANGED <<portfolio, tracker, cex>> PROVE KeyIsFree'
  BY <1>1 DEF KeyIsFree, Lock5K
<1>2. ASSUME UNCHANGED <<portfolio, tracker>>, cex'.pc \notin {"observing", "saving"}
      PROVE  KeyIsFree'
  BY <1>2 DEF KeyIsFree, Lock5K
<1>3. CASE UNCHANGED vars \/ Tick \/ DexCycle \/ (\E id \in DexIds : DexRejected(id))
           \/ OperatorEngages \/ OperatorDisengages \/ OperatorRollsBack \/ OperatorEnables
           \/ StatusRead
  BY <1>1, <1>3 DEF vars, Tick, DexCycle, DexRejected, OperatorEngages, OperatorDisengages,
                    OperatorRollsBack, OperatorEnables, StatusRead, Unmoved
<1>4. CASE CexScan
  <2>1. cex'.pc = "scanning"
    BY <1>4 DEF CexScan, MasterTypeOK, CexLoop, LoopType
  <2> QED  BY <1>2, <1>4, <2>1 DEF CexScan
<1>5. CASE CexScanEnds \/ CexAborts
  <2>1. cex'.pc = "sleeping" /\ UNCHANGED <<portfolio, tracker>>
    BY <1>5, LoopsFallAsleep
  <2> QED  BY <1>2, <2>1
<1>6. CASE DexCycleEnds \/ DexAborts
  <2>1. UNCHANGED <<portfolio, tracker, cex>>
    BY <1>6, LoopsFallAsleep
  <2> QED  BY <1>1, <2>1
<1>7. ASSUME NEW id \in CexIds, CexApprove(id) PROVE KeyIsFree'
  <2> DEFINE until == cex.scan + CexHolding + ReentryDelay
  <2>1. /\ tracker[id] <= cex.scan /\ tracker' = [tracker EXCEPT ![id] = until]
        /\ cex' = [cex EXCEPT !.pc = "observing", !.id = id] /\ portfolio' = portfolio
    BY <1>7 DEF CexApprove
  <2>2. cex'.pc = "observing" /\ cex'.id = id /\ cex'.scan = cex.scan
    BY <2>1 DEF MasterTypeOK, CexLoop, LoopType
  <2>3. CexHolding \in Nat /\ ReentryDelay \in Nat /\ cex.scan \in Nat
    BY CexFields, MasterAssumption
  <2>4. until \in Nat /\ cex.scan <= until
    BY <2>3
  <2>5. tracker'[id] = until /\ \A j \in CexIds : j # id => tracker'[j] = tracker[j]
    BY <2>1, CexFields
  <2>6. Lock5K(id).release <= cex.scan /\ Lock5K(id).release <= until
    BY <1>0, <2>1, <2>3, <2>4 DEF KeyIsFree
  <2> HIDE DEF until
  <2>7. \A j \in CexIds : Lock5K(j).release <= tracker'[j]
    BY <2>5, <2>6 DEF KeyIsFree
  <2>8. \A j : Lock5K(j)' = Lock5K(j)
    BY <2>1 DEF Lock5K
  <2> QED  BY <2>2, <2>5, <2>6, <2>7, <2>8 DEF KeyIsFree, until
<1>8. CASE CexRejected
  <2>1. cex' = Between(cex, CexAsleep) /\ UNCHANGED <<portfolio, tracker>>
    BY <1>8 DEF CexRejected
  <2>2. cex'.pc = "scanning"
    BY <2>1, AsleepTypes DEF Between, CexLoop, LoopType
  <2> QED  BY <1>2, <2>1, <2>2
<1>9. CASE CexNotTraded
  <2>1. CexSimulate(0, 0) /\ portfolio' = portfolio
    BY <1>9 DEF CexNotTraded
  <2>2. /\ cex.pc = "observing" /\ cex.id \in CexIds /\ tracker' = tracker
        /\ cex'.pc = "saving" /\ cex'.id = cex.id /\ cex'.scan = cex.scan
    BY <2>1, CexSimulateWrites
  <2> QED  BY <2>1, <2>2 DEF KeyIsFree, Lock5K
<1>10. ASSUME NEW p \in CexResults, CexTrades(p) PROVE KeyIsFree'
  <2>1. CexSimulate(CexCapital, p) /\ CexCapital \in Nat /\ p \in Int
    BY <1>10, CexTradeWrites
  <2>2. /\ cex.pc = "observing" /\ cex.id \in CexIds /\ tracker' = tracker
        /\ cex'.pc = "saving" /\ cex'.id = cex.id /\ cex'.used = CexCapital
    BY <2>1, CexSimulateWrites
  <2>3. tracker[cex.id] = cex.scan + CexHolding + ReentryDelay
    BY <2>2 DEF KeyIsFree
  <2>4. CexHolding \in Nat /\ ReentryDelay \in Nat /\ cex.scan \in Nat
    BY CexFields, MasterAssumption
  <2>5. /\ portfolio'.res[cex.id].release <= tracker[cex.id]
        /\ portfolio'.res[cex.id].capital = CexCapital
    BY <1>10, <2>3, <2>4, TradeLocks
  <2>6. ASSUME NEW j \in CexIds, j # cex.id PROVE Lock5K(j)'.release <= tracker[j]
    <3>1. \/ Lock5K(j)' = Lock5K(j)
          \/ Lock5K(j)'.amount = 0 /\ Lock5K(j)'.release = 0
      BY <1>10, <2>6, TradeLocks
    <3> QED  BY <1>0, <3>1 DEF KeyIsFree
  <2>7. portfolio'.res[cex'.id].capital = CexCapital /\ CexCapital <= CexCapital
    BY <2>1, <2>2, <2>5 DEF Lock5K
  <2>8. \A j \in CexIds : Lock5K(j)'.release <= tracker'[j]
    BY <2>2, <2>5, <2>6 DEF Lock5K
  <2>9. portfolio'.res[cex'.id].capital <= cex'.used
    BY <2>2, <2>7
  <2> QED  BY <2>2, <2>8, <2>9 DEF KeyIsFree, Lock5K
<1>11. CASE CexSaved
  <2>1. cex'.pc = "scanning" /\ UNCHANGED <<portfolio, tracker>>
    BY <1>11, CexSavedWrites
  <2> QED  BY <1>2, <2>1
<1>12. CASE DexSaved
  <2>1. UNCHANGED <<portfolio, tracker, cex>>
    BY <1>12, DexSavedWrites
  <2> QED  BY <1>1, <2>1
<1>13. ASSUME NEW id \in DexIds, DexNotAttempted(id) \/ DexFilled(id) \/ DexFailed(id)
       PROVE  KeyIsFree'
  <2>1. PICK used \in Nat, profit \in Int : DexAttempted(id, used, profit)
    BY <1>13, DexFills DEF DexNotAttempted, DexExecutes
  <2>2. UNCHANGED <<portfolio, tracker, cex>>
    BY <2>1, DexAttemptWrites
  <2> QED  BY <1>1, <2>2
<1> QED
  BY <1>3, <1>4, <1>5, <1>6, <1>7, <1>8, <1>9, <1>10, <1>11, <1>12, <1>13
     DEF Next, CexNext, DexNext, OperatorNext

\* A reservation that has not expired survives a pruning, now or with an older time.
LEMMA PruningSpares ==
  ASSUME NEW res \in [Ids -> Reservation], NEW t \in Nat, NEW until \in Nat, t <= until
  PROVE  \A i \in Ids : \/ Pruned(res, t)[i] = res[i]
                        \/ res[i].release <= until
<1>1. \A i \in Ids : res[i].release \in Nat
  BY DEF Reservation
<1>2. \A i \in Ids : IF res[i].release <= t THEN Pruned(res, t)[i] = NoReservation
                                            ELSE Pruned(res, t)[i] = res[i]
  BY PrunedReservations
<1> QED  BY <1>1, <1>2

\* What a grant leaves of the other reservations.
LEMMA ReserveSpares ==
  ASSUME MasterTypeOK, NEW id \in Ids, NEW t \in Nat, NEW holding \in Nat, t <= now,
         Grantable(id, t) > 0, Reserve(id, t, holding)
  PROVE  /\ alloc'.res[id].amount = Grantable(id, t)
         /\ alloc'.res[id].release = t + holding
         /\ \A i \in Ids : i # id => \/ alloc'.res[i] = alloc.res[i]
                                     \/ alloc.res[i].release <= now
<1> DEFINE r == [amount |-> Grantable(id, t), release |-> t + holding]
<1>1. alloc'.res = [Pruned(alloc.res, t) EXCEPT ![id] = r]
  BY ReserveTypes
<1>2. r.amount = Grantable(id, t) /\ r.release = t + holding
  OBVIOUS
<1>3. alloc.res \in [Ids -> Reservation] /\ now \in Nat
  BY AllocFields, CexFields
<1> HIDE DEF r
<1>4. Pruned(alloc.res, t) \in [Ids -> Reservation]
  BY <1>3, PrunedReservations
<1>5. alloc'.res[id] = r /\ \A i \in Ids : i # id => alloc'.res[i] = Pruned(alloc.res, t)[i]
  BY <1>1, <1>4
<1>6. \A i \in Ids : Pruned(alloc.res, t)[i] = alloc.res[i] \/ alloc.res[i].release <= now
  BY <1>3, PruningSpares
<1> QED  BY <1>2, <1>5, <1>6

\* What a settlement leaves of the reservations.
LEMMA SettleSpares ==
  ASSUME MasterTypeOK, NEW l, l.id \in Ids, l.used \in Nat, l.scan \in Nat, l.profit \in Int,
         l.scan <= now, Settle(l)
  PROVE  \A i \in Ids :
           \/ alloc.res[i].release <= now
           \/ /\ alloc'.res[i].release = alloc.res[i].release
              /\ i # l.id => alloc'.res[i].amount = alloc.res[i].amount
              /\ \A x \in Nat : alloc.res[i].amount >= x /\ l.used >= x
                                  => alloc'.res[i].amount >= x
<1> DEFINE shrunk == Shrunk(alloc.res, l.id, l.used)
<1>0. alloc.res \in [Ids -> Reservation] /\ now \in Nat
  BY AllocFields, CexFields
<1>1. /\ shrunk \in [Ids -> Reservation]
      /\ \A i \in Ids : i # l.id => shrunk[i] = alloc.res[i]
      /\ \A i \in Ids : shrunk[i].release = alloc.res[i].release
      /\ \A x \in Nat : alloc.res[l.id].amount >= x /\ l.used >= x => shrunk[l.id].amount >= x
  BY <1>0, ShrunkReservations
<1>2. alloc'.res = shrunk \/ alloc'.res = Pruned(shrunk, l.scan)
  BY SettleTypes
<1> HIDE DEF shrunk
<1>3. \A i \in Ids : Pruned(shrunk, l.scan)[i] = shrunk[i] \/ shrunk[i].release <= now
  BY <1>0, <1>1, PruningSpares
<1>4. \A i \in Ids : alloc'.res[i] = shrunk[i] \/ alloc.res[i].release <= now
  BY <1>1, <1>2, <1>3
<1>5. \A i \in Ids : \A x \in Nat : alloc.res[i].amount >= x /\ l.used >= x
                                      => shrunk[i].amount >= x
  BY <1>1
<1> QED  BY <1>1, <1>4, <1>5

LEMMA CoverKept ==
  ASSUME MasterTypeOK, LoopsOK, KeyIsFree, MasterCoversPortfolio, [Next]_vars
  PROVE  MasterCoversPortfolio'
<1> DEFINE Covered(id) ==
      Lock5K(id).governed /\ Lock5K(id).amount > 0 /\ Lock5K(id).release > now =>
        /\ alloc.res[id].amount >= Lock5K(id).capital
        /\ alloc.res[id].release >= Lock5K(id).release
<1>0. \A id \in CexIds : Covered(id)
  BY DEF MasterCoversPortfolio, Lock5K
<1>a. SUFFICES ASSUME NEW id \in CexIds PROVE Covered(id)'
  BY DEF MasterCoversPortfolio, Lock5K
<1>b. /\ Lock5K(id).amount \in Int /\ Lock5K(id).release \in Nat /\ Lock5K(id).capital \in Nat
      /\ now \in Nat /\ id \in Ids /\ id \notin DexIds
      /\ alloc.res[id].amount \in Nat /\ alloc.res[id].release \in Nat
  <2>1. id \in Ids /\ id \notin DexIds
    BY IdsInclude, MasterAssumption
  <2>2. alloc.res[id] \in Reservation
    BY <2>1, AllocFields
  <2> QED  BY <2>1, <2>2, LockFields, CexFields DEF Reservation
<1>c. Covered(id)
  BY <1>0
<1>d. ASSUME Lock5K(id)' = Lock5K(id), now' = now,
             alloc'.res[id] = alloc.res[id] \/ alloc.res[id].release <= now
      PROVE  Covered(id)'
  <2>1. CASE alloc'.res[id] = alloc.res[id]
    BY <1>c, <1>d, <2>1
  <2>2. CASE alloc.res[id].release <= now
    BY <1>b, <1>c, <1>d, <2>2
  <2> QED  BY <1>d, <2>1, <2>2
<1>e. ASSUME portfolio' = portfolio PROVE Lock5K(id)' = Lock5K(id)
  BY <1>e DEF Lock5K
<1>1. CASE UNCHANGED vars \/ CexScan \/ DexCycle \/ (\E i \in CexIds : CexApprove(i))
           \/ OperatorEngages \/ OperatorDisengages \/ OperatorRollsBack \/ OperatorEnables
  <2>1. UNCHANGED <<now, alloc, portfolio>>
    BY <1>1 DEF vars, CexScan, DexCycle, CexApprove, OperatorEngages, OperatorDisengages,
                OperatorRollsBack, OperatorEnables, Unmoved
  <2> QED  BY <1>d, <1>e, <2>1
<1>2. CASE CexScanEnds \/ CexAborts \/ DexCycleEnds \/ DexAborts
  <2>1. UNCHANGED <<now, alloc, portfolio>>
    BY <1>2, LoopsFallAsleep
  <2> QED  BY <1>d, <1>e, <2>1
<1>3. CASE Tick
  <2>1. now' = now + 1 /\ UNCHANGED <<alloc, portfolio>>
    BY <1>3 DEF Tick
  <2>2. Lock5K(id)' = Lock5K(id)
    BY <1>e, <2>1
  <2> QED  BY <1>b, <1>c, <2>1, <2>2
<1>4. ASSUME NEW t \in Nat, t <= now, alloc' = [alloc EXCEPT !.res = Pruned(alloc.res, t)],
             UNCHANGED <<now, portfolio>>
      PROVE  Covered(id)'
  <2>1. alloc'.res = Pruned(alloc.res, t)
    BY <1>4, PrunedAllocTypes
  <2>2. alloc'.res[id] = alloc.res[id] \/ alloc.res[id].release <= now
    BY <1>4, <1>b, <2>1, AllocFields, PruningSpares
  <2> QED  BY <1>4, <1>d, <1>e, <2>2
<1>5. CASE CexRejected
  BY <1>4, <1>5, CexFields DEF CexRejected, LoopsOK
<1>6. CASE StatusRead
  BY <1>4, <1>6, CexFields DEF StatusRead, Unmoved
<1>7. ASSUME NEW i \in DexIds, DexRejected(i) PROVE Covered(id)'
  BY <1>4, <1>7, CexFields DEF DexRejected, LoopsOK
<1>8. ASSUME NEW i \in DexIds, DexNotAttempted(i) \/ DexFilled(i) \/ DexFailed(i)
      PROVE  Covered(id)'
  <2>1. PICK used \in Nat, profit \in Int : DexAttempted(i, used, profit)
    BY <1>8, DexFills DEF DexNotAttempted, DexExecutes
  <2>2. /\ UNCHANGED <<now, portfolio>>
        /\ ~Gated => alloc' = alloc
        /\ Gated => Grantable(i, dex.scan) > 0 /\ Reserve(i, dex.scan, DexHolding)
    BY <2>1, DexAttemptWrites
  <2>3. DexHolding \in Nat /\ dex.scan \in Nat /\ dex.scan <= now
    BY CexFields, MasterAssumption DEF LoopsOK
  <2>5. i \in Ids /\ i # id
    BY <1>b, IdsInclude
  <2>4. alloc'.res[id] = alloc.res[id] \/ alloc.res[id].release <= now
    BY <1>b, <2>2, <2>3, <2>5, ReserveSpares
  <2> QED  BY <1>d, <1>e, <2>2, <2>4
<1>9. CASE DexSaved
  <2>1. /\ dex.id \in Ids /\ dex.id # id /\ UNCHANGED <<now, portfolio>>
        /\ IF dex.grant > 0 THEN Settle(dex) ELSE alloc' = alloc
    BY <1>9, <1>b, DexSavedWrites, IdsInclude
  <2>2. Lock5K(id)' = Lock5K(id)
    BY <1>e, <2>1
  <2>3. CASE dex.grant > 0
    <3>1. Settle(dex)
      BY <2>1, <2>3
    <3>2. \/ alloc.res[id].release <= now
          \/ /\ alloc'.res[id].release = alloc.res[id].release
             /\ alloc'.res[id].amount = alloc.res[id].amount
      BY <1>b, <2>1, <3>1, CexFields, SettleSpares DEF LoopsOK
    <3> QED  BY <1>b, <1>c, <2>1, <2>2, <3>2
  <2>4. CASE ~(dex.grant > 0)
    BY <1>d, <2>1, <2>2, <2>4
  <2> QED  BY <2>3, <2>4
<1>10. CASE CexSaved
  <2>1. /\ cex.pc = "saving" /\ cex.id \in Ids /\ UNCHANGED <<now, portfolio>>
        /\ IF cex.grant > 0 THEN Settle(cex) ELSE alloc' = alloc
    BY <1>10, CexSavedWrites, IdsInclude
  <2>2. Lock5K(id)' = Lock5K(id)
    BY <1>e, <2>1
  <2>3. CASE cex.grant > 0
    <3>1. Settle(cex)
      BY <2>1, <2>3
    <3>2. \/ alloc.res[id].release <= now
          \/ /\ alloc'.res[id].release = alloc.res[id].release
             /\ id # cex.id => alloc'.res[id].amount = alloc.res[id].amount
             /\ \A x \in Nat : alloc.res[id].amount >= x /\ cex.used >= x
                                 => alloc'.res[id].amount >= x
      BY <1>b, <2>1, <3>1, CexFields, SettleSpares DEF LoopsOK
    <3>3. id = cex.id => Lock5K(id).release <= now \/ Lock5K(id).capital <= cex.used
      BY <1>b, <2>1, CexFields DEF KeyIsFree, LoopsOK
    <3>4. cex.used \in Nat
      BY CexFields
    <3>5. CASE id = cex.id
      BY <1>b, <1>c, <2>1, <2>2, <3>2, <3>3, <3>4, <3>5
    <3>6. CASE id # cex.id
      BY <1>b, <1>c, <2>1, <2>2, <3>2, <3>6
    <3> QED  BY <3>5, <3>6
  <2>4. CASE ~(cex.grant > 0)
    BY <1>d, <2>1, <2>2, <2>4
  <2> QED  BY <2>3, <2>4
<1>11. ASSUME NEW used \in Nat, NEW profit \in Int, CexSimulate(used, profit)
       PROVE  /\ cex.pc = "observing" /\ cex.id \in CexIds /\ now' = now
              /\ id # cex.id => alloc'.res[id] = alloc.res[id] \/ alloc.res[id].release <= now
              /\ CexGated => /\ alloc'.res[cex.id].amount = Grantable(cex.id, cex.scan)
                             /\ alloc'.res[cex.id].release = cex.scan + CexHolding
  <2>1. /\ cex.pc = "observing" /\ cex.id \in CexIds /\ now' = now
        /\ ~CexGated => alloc' = alloc
        /\ CexGated => Grantable(cex.id, cex.scan) > 0 /\ Reserve(cex.id, cex.scan, CexHolding)
    BY <1>11, CexSimulateWrites
  <2>2. CexHolding \in Nat /\ cex.scan \in Nat /\ cex.scan <= now
    BY CexFields, MasterAssumption DEF LoopsOK
  <2>4. cex.id \in Ids
    BY <2>1, IdsInclude
  <2>3. CexGated => /\ alloc'.res[cex.id].amount = Grantable(cex.id, cex.scan)
                    /\ alloc'.res[cex.id].release = cex.scan + CexHolding
                    /\ \A i \in Ids : i # cex.id => \/ alloc'.res[i] = alloc.res[i]
                                                    \/ alloc.res[i].release <= now
    BY <2>1, <2>2, <2>4, ReserveSpares
  <2> QED  BY <1>b, <2>1, <2>3
<1>12. CASE CexNotTraded
  <2>1. CexSimulate(0, 0) /\ portfolio' = portfolio
    BY <1>12 DEF CexNotTraded
  <2>2. Lock5K(id)' = Lock5K(id)
    BY <1>e, <2>1
  <2>3. CASE id = cex.id
    <3>1. Lock5K(id).release <= cex.scan /\ cex.scan <= now /\ now' = now /\ cex.scan \in Nat
      BY <1>11, <2>1, <2>3, CexFields DEF KeyIsFree, LoopsOK
    <3> QED  BY <1>b, <2>2, <3>1
  <2>4. CASE id # cex.id
    BY <1>11, <1>d, <2>1, <2>2, <2>4
  <2> QED  BY <2>3, <2>4
<1>13. ASSUME NEW p \in CexResults, CexTrades(p) PROVE Covered(id)'
  <2>1. CexSimulate(CexCapital, p) /\ CexCapital \in Nat /\ p \in Int
    BY <1>13, CexTradeWrites
  <2>2. CASE id = cex.id
    <3>0. /\ portfolio'.res[cex.id].release = cex.scan + CexHolding
          /\ portfolio'.res[cex.id].capital = CexCapital /\ portfolio'.res[cex.id].governed = CexGated
      BY <1>13, TradeLocks
    <3>1. /\ Lock5K(id)'.release = cex.scan + CexHolding /\ Lock5K(id)'.capital = CexCapital
          /\ Lock5K(id)'.governed = CexGated
      BY <2>2, <3>0 DEF Lock5K
    <3>2. CexGated => CexCapital <= Grantable(cex.id, cex.scan)
                      /\ Grantable(cex.id, cex.scan) \in Int
      BY <1>11, <2>1, CexCapitalBounds, GrantableBounds, CexFields, IdsInclude
    <3>3. cex.scan + CexHolding \in Nat
      BY CexFields, MasterAssumption
    <3> QED  BY <1>11, <2>1, <2>2, <3>1, <3>2, <3>3
  <2>3. CASE id # cex.id
    <3>1. \/ Lock5K(id)' = Lock5K(id)
          \/ Lock5K(id)'.amount = 0 /\ Lock5K(id)'.release = 0
      BY <1>13, <2>3, TradeLocks
    <3>2. now' = now /\ (alloc'.res[id] = alloc.res[id] \/ alloc.res[id].release <= now)
      BY <1>11, <2>1, <2>3
    <3> QED  BY <1>d, <3>1, <3>2
  <2> QED  BY <2>2, <2>3
<1> QED
  BY <1>1, <1>2, <1>3, <1>5, <1>6, <1>7, <1>8, <1>9, <1>10, <1>12, <1>13
     DEF Next, CexNext, DexNext, OperatorNext

(* An open position of the portfolio stays covered by MASTER's reservation, *)
(* whatever expires, is adjusted, granted to the other loop or given up     *)
(* meanwhile, and however old the time a suspended loop prunes with.        *)
THEOREM PositionsAreCovered == Spec => []MasterCoversPortfolio
<1>1. Init => KeyIsFree /\ MasterCoversPortfolio
  <2> SUFFICES ASSUME Init PROVE KeyIsFree /\ MasterCoversPortfolio
    OBVIOUS
  <2>1. /\ cex = CexAsleep /\ tracker = [i \in CexIds |-> 0]
        /\ portfolio = [balance |-> PortfolioTotal, res |-> [i \in CexIds |-> NoLock]]
    BY DEF Init
  <2>2. cex.pc = "sleeping"
    BY <2>1 DEF CexAsleep, Asleep
  <2>3. \A id \in CexIds : Lock5K(id) = NoLock /\ tracker[id] = 0
    BY <2>1 DEF Lock5K
  <2>4. NoLock.release = 0 /\ NoLock.governed = FALSE
    BY DEF NoLock
  <2>5. KeyIsFree
    BY <2>2, <2>3, <2>4 DEF KeyIsFree
  <2>6. MasterCoversPortfolio
    BY <2>3, <2>4 DEF MasterCoversPortfolio, Lock5K
  <2> QED  BY <2>5, <2>6
<1>2. MasterTypeOK /\ LoopsOK /\ KeyIsFree /\ MasterCoversPortfolio /\ [Next]_vars
        => KeyIsFree' /\ MasterCoversPortfolio'
  BY KeyIsFreeKept, CoverKept
<1> QED  BY <1>1, <1>2, MasterTypes, PTL DEF Spec

-----------------------------------------------------------------------------
(* What is left of the capital MASTER may grant                            *)

\* The clock only frees capital, and so does a pruning.
LEMMA LockedLater ==
  ASSUME NEW res \in [Ids -> Reservation], NEW t \in Int, NEW u \in Int, t <= u
  PROVE  Locked(res, u) <= Locked(res, t)
<1>1. \A i \in Ids : res[i].amount \in Nat /\ res[i].release \in Nat
  BY DEF Reservation
<1>2. \A i \in Ids : \/ res[i].amount = 0
                     \/ res[i].amount <= res[i].amount /\ res[i].release <= res[i].release
  BY <1>1
<1> QED  BY <1>2, IdsFinite, LockedAtMost

LEMMA LockedAfterPruning ==
  ASSUME NEW res \in [Ids -> Reservation], NEW t \in Int, NEW u \in Int
  PROVE  Locked(Pruned(res, t), u) <= Locked(res, u)
<1>1. \A i \in Ids : res[i].amount \in Nat /\ res[i].release \in Nat
  BY DEF Reservation
<1>2. Pruned(res, t) \in [Ids -> Reservation]
      /\ \A i \in Ids : \/ Pruned(res, t)[i] = NoReservation
                        \/ Pruned(res, t)[i] = res[i]
  BY PrunedReservations
<1>3. NoReservation.amount = 0
  BY DEF NoReservation
<1>4. \A i \in Ids : \/ Pruned(res, t)[i].amount = 0
                     \/ /\ Pruned(res, t)[i].amount <= res[i].amount
                        /\ Pruned(res, t)[i].release <= res[i].release
  BY <1>1, <1>2, <1>3
<1>5. u <= u
  OBVIOUS
<1> QED  BY <1>2, <1>4, <1>5, IdsFinite, LockedAtMost

\* A grant is sized down to what is left at the loop's time, and more is left now.
LEMMA ReserveSolvent ==
  ASSUME MasterTypeOK, NEW id \in Ids, NEW t \in Nat, NEW holding \in Nat, t <= now,
         Grantable(id, t) > 0, Reserve(id, t, holding)
  PROVE  Total + alloc'.pnl - Locked(alloc'.res, now) >= 0
<1> DEFINE r == [amount |-> Grantable(id, t), release |-> t + holding]
           res == [Pruned(alloc.res, t) EXCEPT ![id] = r]
<1>1. alloc'.pnl = alloc.pnl /\ alloc'.res = res /\ alloc' \in AllocType
  BY ReserveTypes
<1>2. r \in Reservation /\ r.amount = Grantable(id, t)
  BY GrantableBounds DEF Reservation
<1>3. alloc.res \in [Ids -> Reservation] /\ now \in Nat /\ Total \in Nat /\ alloc.pnl \in Int
  BY AllocFields, CexFields
<1>4. Locked(res, t) <= Locked(alloc.res, t) + Grantable(id, t)
  <2> HIDE DEF r
  <2>0. t \in Int /\ IsFiniteSet(Ids) /\ r \in Reservation
    BY <1>2, IdsFinite
  <2>1. Locked(res, t) <= Locked(alloc.res, t) + r.amount
    BY <1>3, <2>0, LockedWithOneMore
  <2> QED  BY <1>2, <2>1
<1> HIDE DEF r, res
<1>5. res \in [Ids -> Reservation]
  BY <1>1 DEF AllocType
<1>6. Locked(res, now) <= Locked(res, t)
  BY <1>3, <1>5, LockedLater
<1>7. Grantable(id, t) <= Total + alloc.pnl - Locked(alloc.res, t)
      /\ Grantable(id, t) \in Int
  BY GrantableBounds DEF AllocAvailable
<1>8. Locked(res, t) \in Nat /\ Locked(res, now) \in Nat /\ Locked(alloc.res, t) \in Nat
  BY <1>3, <1>5, IdsFinite, LockedType
<1> QED  BY <1>1, <1>3, <1>4, <1>6, <1>7, <1>8

\* A settlement that leaves MASTER enabled has checked what is left.
LEMMA SettleSolvent ==
  ASSUME MasterTypeOK, NEW l, l.id \in Ids, l.used \in Nat, l.scan \in Nat, l.profit \in Int,
         l.scan <= now, Settle(l), enabled'
  PROVE  Total + alloc'.pnl - Locked(alloc'.res, now) >= 0
<1> DEFINE shrunk == Shrunk(alloc.res, l.id, l.used)
           res == IF enabled THEN Pruned(shrunk, l.scan) ELSE shrunk
<1>1. alloc' = [pnl |-> alloc.pnl + l.profit, res |-> res]
      /\ Total + (alloc.pnl + l.profit) - Locked(res, l.scan) >= 0
  BY DEF Settle
<1>2. alloc'.pnl = alloc.pnl + l.profit /\ alloc'.res = res
  BY <1>1
<1> HIDE DEF res
<1>3. alloc' \in AllocType
  BY SettleTypes
<1>4. res \in [Ids -> Reservation] /\ now \in Nat /\ Total \in Nat /\ alloc.pnl \in Int
  BY <1>2, <1>3, AllocFields, CexFields DEF AllocType
<1>5. Locked(res, now) <= Locked(res, l.scan)
  BY <1>4, LockedLater
<1>6. Locked(res, now) \in Nat /\ Locked(res, l.scan) \in Nat
  BY <1>4, IdsFinite, LockedType
<1> QED  BY <1>1, <1>2, <1>4, <1>5, <1>6

LEMMA SolventKept ==
  ASSUME MasterTypeOK, LoopsOK, AuthorityIsSolvent, [Next]_vars
  PROVE  AuthorityIsSolvent'
<1>0. /\ now \in Nat /\ alloc.pnl \in Int /\ Total \in Nat /\ alloc.res \in [Ids -> Reservation]
      /\ Locked(alloc.res, now) \in Nat
  BY CexFields, AllocFields, IdsFinite, LockedType
<1>a. AuthorityIsSolvent' <=>
        (enabled' => Total + alloc'.pnl - Locked(alloc'.res, now') >= 0 \/ ghost'.excused)
  BY DEF AuthorityIsSolvent, AllocAvailable, Locked, Pruned
<1>b. enabled => Total + alloc.pnl - Locked(alloc.res, now) >= 0 \/ ghost.excused
  BY DEF AuthorityIsSolvent, AllocAvailable
<1>1. ASSUME enabled' => enabled, alloc' = alloc, now' = now, ghost'.excused = ghost.excused
      PROVE  AuthorityIsSolvent'
  BY <1>1, <1>a, <1>b
<1>2. CASE \/ UNCHANGED vars \/ CexScan \/ DexCycle \/ (\E id \in CexIds : CexApprove(id))
           \/ OperatorRollsBack
  <2>1. UNCHANGED <<alloc, now, ghost>> /\ (enabled' = enabled \/ enabled' = FALSE)
    BY <1>2 DEF vars, CexScan, DexCycle, CexApprove, OperatorRollsBack, Unmoved
  <2> QED  BY <1>1, <2>1
<1>3. CASE CexScanEnds \/ CexAborts \/ DexCycleEnds \/ DexAborts
  <2>1. UNCHANGED <<enabled, alloc, now>> /\ ghost'.excused = ghost.excused
    BY <1>3, LoopsFallAsleep
  <2> QED  BY <1>1, <2>1
<1>4. CASE OperatorEngages \/ OperatorDisengages
  <2>1. UNCHANGED <<enabled, alloc, now>> /\ ghost' = [ghost EXCEPT !.lateCex = 0]
    BY <1>4 DEF OperatorEngages, OperatorDisengages, Unmoved
  <2>2. ghost'.excused = ghost.excused
    BY <2>1 DEF MasterTypeOK
  <2> QED  BY <1>1, <2>1, <2>2
<1>5. CASE OperatorEnables
  <2>1. /\ UNCHANGED <<alloc, now>>
        /\ ghost' = [ghost EXCEPT !.excused = AllocAvailable(now) < 0]
    BY <1>5 DEF OperatorEnables, Unmoved
  <2> DEFINE overdrawn == AllocAvailable(now) < 0
  <2>2. overdrawn \in BOOLEAN /\ ghost' = [ghost EXCEPT !.excused = overdrawn]
    BY <2>1
  <2>3. overdrawn \/ Total + alloc.pnl - Locked(alloc.res, now) >= 0
    BY <1>0 DEF AllocAvailable
  <2> HIDE DEF overdrawn
  <2>4. ghost'.excused = overdrawn
    BY <2>2 DEF MasterTypeOK
  <2> QED  BY <1>a, <2>1, <2>3, <2>4
<1>6. CASE Tick
  <2>1. now' = now + 1 /\ UNCHANGED <<enabled, alloc, ghost>>
    BY <1>6 DEF Tick
  <2>2. now + 1 \in Nat /\ now <= now + 1
    BY <1>0
  <2>3. Locked(alloc.res, now + 1) <= Locked(alloc.res, now)
    BY <1>0, <2>2, LockedLater
  <2>4. Locked(alloc.res, now + 1) \in Nat
    BY <1>0, <2>2, IdsFinite, LockedType
  <2> QED  BY <1>0, <1>a, <1>b, <2>1, <2>3, <2>4
<1>7. ASSUME NEW t \in Nat, alloc' = [alloc EXCEPT !.res = Pruned(alloc.res, t)],
             UNCHANGED <<now, enabled, ghost>>
      PROVE  AuthorityIsSolvent'
  <2>1. alloc'.res = Pruned(alloc.res, t) /\ alloc'.pnl = alloc.pnl
    BY <1>7, PrunedAllocTypes
  <2>2. Locked(Pruned(alloc.res, t), now) <= Locked(alloc.res, now)
    BY <1>0, LockedAfterPruning
  <2>3. Pruned(alloc.res, t) \in [Ids -> Reservation]
    BY <1>0, PrunedReservations
  <2>4. Locked(Pruned(alloc.res, t), now) \in Nat
    BY <1>0, <2>3, IdsFinite, LockedType
  <2> QED  BY <1>0, <1>7, <1>a, <1>b, <2>1, <2>2, <2>4
<1>8. CASE CexRejected
  BY <1>7, <1>8, CexFields DEF CexRejected
<1>9. CASE StatusRead
  BY <1>7, <1>9, CexFields DEF StatusRead, Unmoved
<1>10. ASSUME NEW i \in DexIds, DexRejected(i) PROVE AuthorityIsSolvent'
  BY <1>7, <1>10, CexFields DEF DexRejected
<1>11. ASSUME NEW used \in Nat, NEW profit \in Int, CexSimulate(used, profit)
       PROVE  AuthorityIsSolvent'
  <2>1. /\ cex.id \in CexIds /\ UNCHANGED <<now, enabled>> /\ ghost'.excused = ghost.excused
        /\ CexGated => Grantable(cex.id, cex.scan) > 0 /\ Reserve(cex.id, cex.scan, CexHolding)
        /\ ~CexGated => alloc' = alloc
    BY <1>11, CexSimulateWrites
  <2>2. /\ cex.id \in Ids
        /\ CexHolding \in Nat /\ cex.scan \in Nat /\ cex.scan <= now
    BY <2>1, CexFields, IdsInclude, MasterAssumption DEF LoopsOK
  <2>3. CASE CexGated
    BY <1>a, <2>1, <2>2, <2>3, ReserveSolvent
  <2>4. CASE ~CexGated
    BY <1>1, <2>1, <2>4
  <2> QED  BY <2>3, <2>4
<1>12. CASE CexNotTraded
  BY <1>11, <1>12 DEF CexNotTraded
<1>13. ASSUME NEW p \in CexResults, CexTrades(p) PROVE AuthorityIsSolvent'
  BY <1>11, <1>13, CexTradeWrites
<1>14. ASSUME NEW i \in DexIds, DexNotAttempted(i) \/ DexFilled(i) \/ DexFailed(i)
       PROVE  AuthorityIsSolvent'
  <2>1. PICK used \in Nat, profit \in Int : DexAttempted(i, used, profit)
    BY <1>14, DexFills DEF DexNotAttempted, DexExecutes
  <2>2. /\ UNCHANGED <<now, enabled>> /\ ghost'.excused = ghost.excused
        /\ Gated => Grantable(i, dex.scan) > 0 /\ Reserve(i, dex.scan, DexHolding)
        /\ ~Gated => alloc' = alloc
    BY <2>1, DexAttemptWrites
  <2>3. /\ i \in Ids
        /\ DexHolding \in Nat /\ dex.scan \in Nat /\ dex.scan <= now
    BY CexFields, IdsInclude, MasterAssumption DEF LoopsOK
  <2>4. CASE Gated
    BY <1>a, <2>2, <2>3, <2>4, ReserveSolvent
  <2>5. CASE ~Gated
    BY <1>1, <2>2, <2>5
  <2> QED  BY <2>4, <2>5
<1>15. CASE CexSaved
  <2>1. /\ cex.id \in CexIds /\ UNCHANGED <<now, ghost>>
        /\ IF cex.grant > 0 THEN Settle(cex) ELSE alloc' = alloc /\ enabled' = enabled
    BY <1>15, CexSavedWrites
  <2>2. cex.id \in Ids
    BY <2>1, IdsInclude
  <2>3. cex.used \in Nat /\ cex.scan \in Nat /\ cex.scan <= now /\ cex.profit \in Int
    BY CexFields DEF LoopsOK
  <2>4. CASE cex.grant > 0
    <3>1. enabled' => Total + alloc'.pnl - Locked(alloc'.res, now) >= 0
      BY <2>1, <2>2, <2>3, <2>4, SettleSolvent
    <3> QED  BY <1>a, <2>1, <3>1
  <2>5. CASE ~(cex.grant > 0)
    BY <1>1, <2>1, <2>5
  <2> QED  BY <2>4, <2>5
<1>16. CASE DexSaved
  <2>1. /\ dex.id \in DexIds /\ UNCHANGED <<now, ghost>>
        /\ IF dex.grant > 0 THEN Settle(dex) ELSE alloc' = alloc /\ enabled' = enabled
    BY <1>16, DexSavedWrites
  <2>2. dex.id \in Ids
    BY <2>1, IdsInclude
  <2>3. dex.used \in Nat /\ dex.scan \in Nat /\ dex.scan <= now /\ dex.profit \in Int
    BY CexFields DEF LoopsOK
  <2>4. CASE dex.grant > 0
    <3>1. enabled' => Total + alloc'.pnl - Locked(alloc'.res, now) >= 0
      BY <2>1, <2>2, <2>3, <2>4, SettleSolvent
    <3> QED  BY <1>a, <2>1, <3>1
  <2>5. CASE ~(dex.grant > 0)
    BY <1>1, <2>1, <2>5
  <2> QED  BY <2>4, <2>5
<1> QED
  BY <1>2, <1>3, <1>4, <1>5, <1>6, <1>8, <1>9, <1>10, <1>12, <1>13, <1>14, <1>15, <1>16
     DEF Next, CexNext, DexNext, OperatorNext

(* However the two loops' grants, settlements and old times interleave, a   *)
(* MASTER that is enabled has not granted more than the capital and its     *)
(* results leave, seen with the clock, unless an operator enabled it        *)
(* overdrawn.                                                               *)
THEOREM MasterIsSolvent == Spec => []AuthorityIsSolvent
<1>1. Init => AuthorityIsSolvent
  <2> SUFFICES ASSUME Init PROVE AllocAvailable(now) >= 0
    BY DEF AuthorityIsSolvent
  <2> DEFINE f == [i \in Ids |-> Pruned(alloc.res, now)[i].amount]
  <2>1. alloc.pnl = 0 /\ alloc.res = [i \in Ids |-> NoReservation] /\ now \in Nat
    BY DEF Init
  <2>2. alloc.res \in [Ids -> Reservation] /\ NoReservation.amount = 0
    BY <2>1 DEF NoReservation, Reservation
  <2>3. \A i \in Ids : f[i] = 0
    BY <2>1, <2>2, PrunedReservations
  <2>4. Locked(alloc.res, now) = SumFunctionOnSet(f, Ids)
    BY <2>2, LockedIsSum
  <2> HIDE DEF f
  <2>5. Locked(alloc.res, now) = 0
    BY <2>3, <2>4, IdsFinite, SumOfZeros
  <2>6. Total \in Nat
    BY MasterAssumption DEF Total
  <2> QED  BY <2>1, <2>5, <2>6 DEF AllocAvailable
<1>2. MasterTypeOK /\ LoopsOK /\ AuthorityIsSolvent /\ [Next]_vars => AuthorityIsSolvent'
  BY SolventKept
<1> QED  BY <1>1, <1>2, MasterTypes, PTL DEF Spec
=============================================================================
