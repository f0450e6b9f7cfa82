------------------------------ MODULE Detection ------------------------------
(***************************************************************************)
(* The shared store of market data, its update event, and the detection    *)
(* loop of main.py, which waits for the event, scans the store and writes  *)
(* what it found (app/market_data/store.py,                                *)
(* app/opportunity/false_opportunity_filter.py, app/engines/_shared.py,    *)
(* app/opportunity/detector.py, main.py).                                  *)
(*                                                                         *)
(* The loop runs the stablecoin, cross-exchange and triangular engines:    *)
(* main.py leaves the basis and funding engines out. Modelled is the       *)
(* scanner the first two share, for one symbol; not the cycles of the      *)
(* triangular engines, which read the same quotes.                         *)
(*                                                                         *)
(* Everything runs on one event loop: an update and a scan are atomic, and *)
(* updates fall between any two of the loop's awaits. An entry of the      *)
(* store carries its age in whole seconds, which stops counting once every *)
(* check calls it too old. Bid and ask of a quote are one price.           *)
(***************************************************************************)
EXTENDS Integers

CONSTANTS
  Venues,          \* exchanges with a spot quote of the symbol
  DepthVenues,     \* those whose order book is collected
  SpotPrices,
  MaxQuoteAge,     \* MAX_QUOTE_AGE_SECONDS
  MaxSkew,         \* MAX_INTER_LEG_AGE_SKEW_SECONDS
  MaxBookAge,      \* MAX_ORDER_BOOK_AGE_SECONDS
  MaxScanWait,     \* MAX_SCAN_WAIT_SECONDS
  Nothing          \* no entry

ASSUME DetectionAssumption ==
  /\ DepthVenues \subseteq Venues /\ SpotPrices \subseteq Nat \ {0}
  /\ {MaxQuoteAge, MaxSkew, MaxBookAge, MaxScanWait} \subseteq Nat

VARIABLES
  quotes,   \* of every venue: price and age, or Nothing
  depth,    \* of every depth venue: best price of its book and age, or Nothing
  event,    \* the update event
  loop,     \* "scan", "store", "wait" or "pause"
  waited,   \* seconds spent in wait_for_update
  scanned,  \* the last scan: the spreads it found, the venues it priced by their book
  unseen    \* observer: parts of the store updated since the last scan

storeVars     == <<quotes, depth>>
detectionVars == <<quotes, depth, event, loop, waited, scanned, unseen>>

Entry(price) == [price |-> price, age |-> 0]
Older(age, cap) == IF age = cap THEN cap ELSE age + 1
Aged(entry, cap) == IF entry = Nothing THEN Nothing ELSE [entry EXCEPT !.age = Older(@, cap)]

DetectionInit ==
  /\ quotes = [x \in Venues |-> Nothing] /\ depth = [x \in DepthVenues |-> Nothing]
  /\ event = FALSE /\ loop = "scan" /\ waited = 0 /\ unseen = {}
  /\ scanned = [spreads |-> {}, books |-> {}]

UpdateQuote(x, price) ==
  /\ quotes' = [quotes EXCEPT ![x] = Entry(price)]
  /\ event' = TRUE /\ unseen' = unseen \cup {"quotes"}
  /\ UNCHANGED <<depth, loop, waited, scanned>>

\* mutant: the event is not set
UpdateOrderBookSilently(x, price) ==
  /\ depth' = [depth EXCEPT ![x] = Entry(price)]
  /\ unseen' = unseen \cup {"depth"}
  /\ UNCHANGED <<quotes, event, loop, waited, scanned>>

UpdateOrderBook(x, price) ==
  /\ depth' = [depth EXCEPT ![x] = Entry(price)]
  /\ event' = TRUE /\ unseen' = unseen \cup {"depth"}
  /\ UNCHANGED <<quotes, loop, waited, scanned>>

\* check_quote_freshness against the clock
Fresh(x) == quotes[x] # Nothing /\ quotes[x].age <= MaxQuoteAge

\* check_leg_pair_sync
Synced(x, y) ==
  /\ Fresh(x) /\ Fresh(y)
  /\ quotes[x].age - quotes[y].age \in -MaxSkew .. MaxSkew

\* _resolve_ask_levels, _resolve_bid_levels: the book while it is recent, else the quote
RecentBooks == {x \in DepthVenues : depth[x] # Nothing /\ depth[x].age <= MaxBookAge}
Resolved(x) == IF x \in RecentBooks THEN depth[x] ELSE quotes[x]

\* QuoteSpreadScanner.scan and _price: where to buy and where to sell
CrossExchange ==
  {p \in Venues \X Venues :
     /\ p[1] # p[2] /\ Synced(p[1], p[2])
     /\ quotes[p[2]].price > quotes[p[1]].price
     /\ Resolved(p[2]).price > Resolved(p[1]).price}

\* scan_once: no await that lets another task run
ScanOnce ==
  /\ loop = "scan" /\ loop' = "store"
  /\ scanned' = [spreads |-> CrossExchange, books |-> RecentBooks]
  /\ unseen' = {}
  /\ UNCHANGED <<storeVars, event, waited>>

\* mutant: the wait starts by clearing the event
ClearBeforeWait ==
  /\ loop = "store" /\ loop' = "wait" /\ waited' = 0 /\ event' = FALSE
  /\ UNCHANGED <<storeVars, scanned, unseen>>

\* mutant: an iteration that raises ends the loop
RaisingEndsLoop ==
  /\ loop = "store" /\ loop' \in {"wait", "stopped"} /\ waited' = 0
  /\ UNCHANGED <<storeVars, event, scanned, unseen>>

\* the rest of the iteration, committed or raised: then wait_for_update starts
IterationEnds ==
  /\ loop = "store" /\ loop' = "wait" /\ waited' = 0
  /\ UNCHANGED <<storeVars, event, scanned, unseen>>

\* wait_for_update returns: an update woke it, or the time is over; both clear the event
WaitForUpdate ==
  /\ loop = "wait" /\ (event \/ waited = MaxScanWait)
  /\ loop' = "pause" /\ event' = FALSE
  /\ UNCHANGED <<storeVars, waited, scanned, unseen>>

\* MIN_SCAN_INTERVAL_SECONDS after the wait
PauseEnds ==
  /\ loop = "pause" /\ loop' = "scan"
  /\ UNCHANGED <<storeVars, event, waited, scanned, unseen>>

\* a second passes; a waiting loop is woken before that
Tick ==
  /\ loop = "wait" => ~event /\ waited < MaxScanWait
  /\ waited' = IF loop = "wait" THEN waited + 1 ELSE waited
  /\ quotes' = [x \in Venues |-> Aged(quotes[x], MaxQuoteAge + 1)]
  /\ depth' = [x \in DepthVenues |-> Aged(depth[x], MaxBookAge + 1)]
  /\ UNCHANGED <<event, loop, scanned, unseen>>

DetectionNext ==
  \/ ScanOnce \/ IterationEnds \/ WaitForUpdate \/ PauseEnds \/ Tick
  \/ \E price \in SpotPrices :
       \/ \E x \in Venues : UpdateQuote(x, price)
       \/ \E x \in DepthVenues : UpdateOrderBook(x, price)

DetectionSpec == DetectionInit /\ [][DetectionNext]_detectionVars

(***************************************************************************)
(* No lost wake-up: while the loop sleeps in wait_for_update, an update of *)
(* a quote or a book that no scan has read has left the event set, so the  *)
(* loop is about to wake. wait_for_update clears the event on its way out, *)
(* whatever woke it, while collectors go on writing.                       *)
(***************************************************************************)
NoLostWakeup == loop = "wait" /\ unseen # {} => event

(***************************************************************************)
(* Time alone brings no spread: while the loop sleeps and nothing is about *)
(* to wake it, a scan would find no spread that the last one did not find, *)
(* unless a book the last one priced by has become too old since, and the  *)
(* quote behind it is priced instead.                                      *)
(***************************************************************************)
NothingSleptThrough ==
  loop = "wait" /\ ~event =>
    \A p \in CrossExchange \ scanned.spreads :
      \E x \in {p[1], p[2]} : x \in scanned.books \ RecentBooks

(***************************************************************************)
(* Every update is read by a scan, whatever an iteration comes to, provided*)
(* that no iteration's awaits last for ever: database and HTTP calls of    *)
(* the iteration are not the loop's to end.                                *)
(***************************************************************************)
EveryUpdateIsScanned ==
  []<>(loop # "store") =>
    \A part \in {"quotes", "depth"} : part \in unseen ~> part \notin unseen
=============================================================================
