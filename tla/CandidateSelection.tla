-------------------------- MODULE CandidateSelection --------------------------
(***************************************************************************)
(* Choosing which arbitrage to attempt, and not asking twice what has just *)
(* been refused (app/execution/candidate_selection.py).                    *)
(*                                                                         *)
(* A candidate is a direction of one symbol: an exchange to buy on and one *)
(* to sell on. The session scans candidates as prices and balances move;   *)
(* what it does between two calls of the module is not in the repository   *)
(* and follows the module's comments.                                      *)
(***************************************************************************)
EXTENDS MarketQuotes, FiniteSets

CONSTANTS
  Sites,        \* the exchanges
  Tops,         \* what an exchange may show: records with ask and bid
  Stocks,       \* the units of the coin an exchange may hold
  Wallets,      \* the dollars an exchange may hold
  Request,      \* the reference size
  SafetyMargin,
  LeastNotional,
  Ttl, MaxClock \* the age a rejection is trusted to, and the bound of the clock

ASSUME SelectionAssumption ==
  /\ Tops \subseteq [ask : Nat \ {0}, bid : Nat \ {0}]
  /\ Stocks \subseteq Nat /\ Wallets \subseteq Nat
  /\ Request \in Nat /\ SafetyMargin \in Nat /\ LeastNotional \in Nat
  /\ Ttl \in Nat /\ MaxClock \in Nat

\* no entry under a key
CONSTANT NoEntry

VARIABLES
  top,     \* the best prices of every exchange
  held,    \* the units it holds
  dollars, \* its available dollars
  clock,
  entries  \* the cache: direction, reason -> when it was refused, and on what inputs

selectionVars == <<top, held, dollars, clock, entries>>

Directions == {d \in Sites \X Sites : d[1] # d[2]}
Selectable == {"EXECUTABLE_NOW", "INVENTORY_MISSING"}
Reasons == {"INSUFFICIENT_DEPTH", "EDGE_TOO_LOW", "OTHER", "BELOW_MIN_NOTIONAL",
            "INSUFFICIENT_BALANCE"}
Deep == 1000

LegAt(price) ==
  [price |-> price, step |-> 1, levels |-> <<[price |-> price, qty |-> Deep]>>,
   minQty |-> 1, minNotional |-> LeastNotional, tradable |-> TRUE]

QuoteOf(d) == DualLegQuote(LegAt(top[d[1]].ask), LegAt(top[d[2]].bid), Request, Request)

\* classify_candidate
ClassifyCandidate(quote, stock, wallet) ==
  LET q == CommonQty(quote.qty, stock, 1, 1)
  IN IF ~quote.executable THEN "INSUFFICIENT_DEPTH"
     ELSE IF quote.net <= SafetyMargin THEN "EDGE_TOO_LOW"
     ELSE IF stock <= 0 THEN "INVENTORY_MISSING"
     ELSE IF quote.qty <= 0 THEN "OTHER"
     ELSE IF q <= 0 THEN "INVENTORY_MISSING"
     ELSE IF q * quote.buyPrice < LeastNotional \/ q * quote.sellPrice < LeastNotional
          THEN "BELOW_MIN_NOTIONAL"
     ELSE IF wallet < q * quote.buyPrice THEN "INSUFFICIENT_BALANCE"
     ELSE "EXECUTABLE_NOW"

Classify(d) == ClassifyCandidate(QuoteOf(d), held[d[2]], dollars[d[1]])

\* compute_inventory_topup_plan: the dollars to buy for, 0 where no top-up helps
TopupPlan(status, stock, price, minNotional, most) ==
  LET short == (3 * minNotional) \div 2 - stock * price
  IN IF status = "BELOW_MIN_NOTIONAL" /\ price > 0 /\ minNotional > 0 /\ 0 < short /\ short <= most
     THEN short ELSE 0

\* select_best_candidate: the first of a ranking that may be acted on, 0 if none may
SelectBest(ranked) ==
  SelectInSeq(ranked, LAMBDA d : Classify(d) \in Selectable)

\* what the session gives as the inputs of a verdict
Signature(d) == [buy |-> top[d[1]].ask, sell |-> top[d[2]].bid,
                 stock |-> held[d[2]], wallet |-> dollars[d[1]]]

\* mutant: a refusal is trusted until it is too old, whatever has changed
StillValidByAge(d, reason, signature) ==
  entries[<<d, reason>>] # NoEntry /\ clock - entries[<<d, reason>>].at <= Ttl

\* is_still_valid_rejection
StillValid(d, reason, signature) ==
  LET entry == entries[<<d, reason>>]
  IN IF entry = NoEntry THEN FALSE
     ELSE clock - entry.at <= Ttl /\ entry.signature = signature

Suppressed(d) == \E reason \in Reasons : StillValid(d, reason, Signature(d))

SelectionInit ==
  /\ top \in [Sites -> Tops]
  /\ held \in [Sites -> Stocks]
  /\ dollars \in [Sites -> Wallets]
  /\ clock = 0
  /\ entries = [k \in Directions \X Reasons |-> NoEntry]

PricesMove(x) ==
  /\ \E t \in Tops \ {top[x]} : top' = [top EXCEPT ![x] = t]
  /\ UNCHANGED <<held, dollars, clock, entries>>

Tick ==
  /\ clock < MaxClock /\ clock' = clock + 1
  /\ UNCHANGED <<top, held, dollars, entries>>

\* a candidate that is not suppressed is classified again; record_rejection
Refuse(d) ==
  /\ ~Suppressed(d) /\ Classify(d) \notin Selectable
  /\ entries' = [entries EXCEPT ![<<d, Classify(d)>>] = [at |-> clock, signature |-> Signature(d)]]
  /\ UNCHANGED <<top, held, dollars, clock>>

\* the candidate is acted on: its balances change, and clear forgets its refusals
ActOn(d) ==
  /\ SelectBest(<<d>>) = 1 /\ ~Suppressed(d)
  /\ \E stock \in Stocks, wallet \in Wallets :
       /\ held' = [held EXCEPT ![d[2]] = stock]
       /\ dollars' = [dollars EXCEPT ![d[1]] = wallet]
  /\ entries' = [k \in DOMAIN entries |-> IF k[1] = d THEN NoEntry ELSE entries[k]]
  /\ UNCHANGED <<top, clock>>

\* dust is topped up before it is refused
TopUp(d) ==
  /\ ~Suppressed(d)
  /\ TopupPlan(Classify(d), held[d[2]], top[d[2]].bid, LeastNotional, Request) > 0
  /\ \E stock \in Stocks : stock > held[d[2]] /\ held' = [held EXCEPT ![d[2]] = stock]
  /\ entries' = [k \in DOMAIN entries |-> IF k[1] = d THEN NoEntry ELSE entries[k]]
  /\ UNCHANGED <<top, dollars, clock>>

SelectionNext ==
  \/ \E x \in Sites : PricesMove(x)
  \/ Tick
  \/ \E d \in Directions : Refuse(d) \/ ActOn(d) \/ TopUp(d)

SelectionSpec == SelectionInit /\ [][SelectionNext]_selectionVars

-----------------------------------------------------------------------------

(* The cache suppresses only what would be refused again now, for the same *)
(* reason: a candidate that prices, a fill elsewhere or a top-up have made *)
(* executable is never passed over because of an older refusal, of its own *)
(* or of the opposite direction (CandidateRejectionCache).                 *)
SuppressedIsStillRefused ==
  \A d \in Directions, reason \in Reasons :
    StillValid(d, reason, Signature(d)) => Classify(d) = reason

=============================================================================
