----------------------------- MODULE MCOperations ------------------------------
(***************************************************************************)
(* Six machines that share no state, checked in one run: the lives of the  *)
(* guarded attempts, an order at an exchange and the client that asks for  *)
(* it, the universe of symbols, the readings of the observers, the report  *)
(* that precedes live trading, and the scanner with the inventory advice.  *)
(* The initial state says which of them runs.                              *)
(***************************************************************************)
EXTENDS SafeResume, OrderClients, LiveUniverse, VenueReads, LiveReadiness, InventoryAdvice, TLC

CONSTANTS x1, x2, y1, RVN, ZIL, Binance, Global

VARIABLE machine

operationsVars ==
  <<machine, rvars, orderVars, universeVars, readsVars, readinessVars, adviceVars>>

\* Two attempts on one symbol and one on another, on one exchange.
MCIncidentTypes ==
  {{}, {"KILL SWITCH ENGAGED", "UNKNOWN ORDER STATE"}, {"UNKNOWN ORDER STATE"},
   {"SELL REJECTED AFTER BUY"}, {"REPEATED EXECUTION ERROR"}}
MCSymbolKey   == [a \in Attempts |-> IF a = y1 THEN ZIL ELSE RVN]
MCExchangeKey == [a \in Attempts |-> Binance]

\* Bybit's instruments come in two pages.
MCBybitPages == <<{"a"}, {"b"}>>

\* Instruments with every filter and with few; a book with depth on one side.
MCInstruments ==
  {Nothing, [minQty |-> 2, maxQty |-> 6, step |-> 2, minNotional |-> 12, trading |-> TRUE],
   [minQty |-> Nothing, maxQty |-> Nothing, step |-> 3, minNotional |-> Nothing, trading |-> TRUE]}
MCReadings ==
  {[bid |-> 3, ask |-> 4, asks |-> <<[price |-> 4, qty |-> 2], [price |-> 5, qty |-> 1]>>, bids |-> <<>>],
   [bid |-> 3, ask |-> 3, asks |-> <<[price |-> 3, qty |-> 9]>>, bids |-> <<[price |-> 3, qty |-> 9]>>]}

\* A quote that can be executed beside one that earns more and cannot.
MCListing == <<"a", "b">>
MCRankedQuotes ==
  {<<[buy |-> "binance", sell |-> "bybit", qty |-> 2, price |-> 3, net |-> 1, latency |-> 0, executable |-> TRUE],
     [buy |-> "okx", sell |-> "binance", qty |-> 4, price |-> 3, net |-> 2, latency |-> 5, executable |-> FALSE]>>,
   <<[buy |-> "okx", sell |-> "binance", qty |-> 4, price |-> 3, net |-> 2, latency |-> 5, executable |-> TRUE]>>}
MCBinanceKeys == {[trade |-> TRUE, withdraw |-> w] : w \in BOOLEAN}
MCBybitKeys ==
  {[readOnly |-> FALSE, spot |-> TRUE, withdraw |-> w] : w \in BOOLEAN}
    \cup {[readOnly |-> TRUE, spot |-> TRUE, withdraw |-> FALSE]}
MCBinanceLots == {[step |-> 1, minQty |-> 1, minNotional |-> 5]}
MCBybitLots == {[step |-> 2, minQty |-> 1, minNotional |-> 3]}

\* Two symbols; in one reading both have a spread, in the other one does.
MCUniverse == <<"a", "b">>
There == <<"binance", "bybit">>
Back == <<"bybit", "binance">>
MCTicker(a1, a2, b1, b2, m) ==
  [spread |-> (<<"a", There>> :> a1) @@ (<<"a", Back>> :> a2) @@ (<<"b", There>> :> b1) @@ (<<"b", Back>> :> b2),
   momentum |-> ("a" :> m) @@ ("b" :> 3 - m)]
MCTickers == {MCTicker(2, -2, 1, -1, 2), MCTicker(-1, 0, 2, -3, 1)}

\* What stage B finds: an edge one way, or no edge but one towards OKX.
MCQuote(n, r, f, s) == [net |-> n, reason |-> r, filled |-> f, slow |-> s]
MCOutcomes ==
  {(There :> MCQuote(3, "none", TRUE, FALSE)) @@ (Back :> MCQuote(1, "none", FALSE, TRUE)),
   [l \in Legs |-> CASE l = There -> MCQuote(-1, "net", TRUE, FALSE)
                     [] l = Back -> MCQuote(-2, "minimum", TRUE, FALSE)
                     [] l = <<"okx", "binance">> -> MCQuote(2, "none", TRUE, TRUE)
                     [] OTHER -> MCQuote(0, "tradable", TRUE, FALSE)]}

\* Reports with money everywhere, with holdings, and with a sale on OKX.
MCSituation(x, y, a, b, blocked) ==
  [usdt |-> ("binance" :> x) @@ ("bybit" :> y) @@ ("okx" :> 0),
   value |-> ("a" :> a) @@ ("b" :> b), blocked |-> blocked]
MCSituations ==
  {MCSituation(9, 6, 0, 0, ("a" :> "bybit") @@ ("b" :> "bybit")),
   MCSituation(9, 9, 6, 3, ("a" :> "bybit") @@ ("b" :> "binance")),
   MCSituation(2, 9, 7, 0, ("a" :> "okx"))}

\* After an order was submitted no exception is retried, whatever is known of
\* it; before, only the transient ones are.
ASSUME SubmittedIsNeverRetried ==
  \A name \in TransientExceptions \cup {"ValueError"}, known \in BOOLEAN :
    LET plan(submitted) == DecideRecoveryPlan(ClassifyScriptException(name, submitted), known)
    IN /\ Stops(plan(TRUE))
       /\ ~Stops(plan(FALSE)) <=> name \in TransientExceptions

\* The steps above are as "satisfy both step sizes simultaneously" expects them to be.
ASSUME StepsOfTheVenuesNest == StepsNest

\* An unknown error calls for a fix once: after the fix is recorded, it stops.
ASSUME KnownErrorsStop ==
  LET kb == LoadKnowledge({})
      plan(k, s) == DecideRecoveryPlan(Unknown, LookupKnown(k, s))
  IN /\ plan(kb, "NEW").action = "CODE_FIX_REQUIRED"
     /\ plan(AddResolvedIncident(kb, "NEW"), "NEW").action = "GLOBAL_SAFE_STOP"
     /\ \A s \in SeedSignatures :
          /\ LoadKnowledge({RecordOccurrence(kb, s)})[s] = kb[s] + 1
          /\ plan(RecordOccurrence(kb, s), s) = plan(kb, s)

-----------------------------------------------------------------------------
OperationsInit ==
  /\ machine \in {"resume", "order", "universe", "reads", "readiness", "scan"}
  /\ ResumeInit /\ AdviceInit
  /\ OrderInit /\ (machine # "order" => site = "binance")
  /\ UniverseInit /\ (machine # "universe" => listed = [x \in Markets |-> Coins])
  /\ ReadsInit /\ (machine # "reads" => /\ watcher = CHOOSE w \in Observers : TRUE
                                        /\ funds = 0 /\ ~keyed
                                        /\ published = [x \in ReadSites |-> [instrument |-> CHOOSE i \in Instruments : i # Nothing,
                                                                             fee |-> Nothing]])
  /\ ReadinessInit /\ (machine # "readiness" =>
                         /\ purse = [x \in LiveExchanges |-> 0] /\ hoard = purse
                         /\ scopes = [binance |-> CHOOSE k \in BinanceKeys : TRUE, bybit |-> CHOOSE k \in BybitKeys : TRUE]
                         /\ lots = [binance |-> CHOOSE f \in BinanceLots : TRUE, bybit |-> CHOOSE f \in BybitLots : TRUE])

OperationsNext ==
  /\ UNCHANGED machine
  /\ \/ /\ machine = "resume" /\ ResumeNext
        /\ UNCHANGED <<orderVars, universeVars, readsVars, readinessVars, adviceVars>>
     \/ /\ machine = "order" /\ OrderNext
        /\ UNCHANGED <<rvars, universeVars, readsVars, readinessVars, adviceVars>>
     \/ /\ machine = "universe" /\ UniverseNext
        /\ UNCHANGED <<rvars, orderVars, readsVars, readinessVars, adviceVars>>
     \/ /\ machine = "reads" /\ ReadsNext
        /\ UNCHANGED <<rvars, orderVars, universeVars, readinessVars, adviceVars>>
     \/ /\ machine = "readiness" /\ ReadinessNext
        /\ UNCHANGED <<rvars, orderVars, universeVars, readsVars, adviceVars>>
     \/ /\ machine = "scan" /\ AdviceNext
        /\ UNCHANGED <<rvars, orderVars, universeVars, readsVars, readinessVars>>
     \* only the lives of the attempts never come to an end
     \/ machine # "resume" /\ UNCHANGED operationsVars

OperationsSpec == OperationsInit /\ [][OperationsNext]_operationsVars
=============================================================================
