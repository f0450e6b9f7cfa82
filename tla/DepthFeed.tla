------------------------------ MODULE DepthFeed ------------------------------
(***************************************************************************)
(* One depth collector and the book it keeps in the store, for one symbol. *)
(*                                                                         *)
(* app/collectors/base.py (reconnection and backoff), the depth collectors *)
(* of Binance, OKX and Bybit, and the helpers of                           *)
(* app/market_data/normalizer.py. Binance and OKX push their whole book in *)
(* every message; Bybit pushes it once per connection and then only the    *)
(* levels that changed, which the collector merges into a local copy.      *)
(*                                                                         *)
(* A book is a function from a side to the levels of that side: a partial  *)
(* function from prices to quantities. The venue moves whether or not the  *)
(* collector listens. A message carries, beside what the venue sends, the  *)
(* venue's book when it was sent: only the properties read that.           *)
(***************************************************************************)
EXTENDS Integers, Sequences, FiniteSets, FiniteSetsExt, Functions

Sides == {"bids", "asks"}
NoLevels == [p \in {} |-> 0]
EmptyBook == [s \in Sides |-> NoLevels]

CONSTANTS
  VenueBooks,          \* the books the venue may have
  PublishedLevels,     \* PUBLISHED_DEPTH_LEVELS
  MaxBackoff,          \* the longest sleep between two connections, seconds
  MaxInFlight,         \* bound: messages sent and not yet processed
  MaxMoves,            \* bound: changes of the venue's book
  NoBook               \* a side is empty, or nothing was published

\* levels are a function from prices to quantities above zero
IsBook(b) ==
  /\ b = [s \in Sides |-> [p \in DOMAIN b[s] |-> b[s][p]]]
  /\ \A s \in Sides : DOMAIN b[s] \subseteq Nat /\ \A p \in DOMAIN b[s] : b[s][p] \in Nat \ {0}

ASSUME DepthFeedAssumption ==
  /\ \A b \in VenueBooks : IsBook(b)
  /\ NoBook \notin VenueBooks \cup {EmptyBook}
  /\ PublishedLevels \in Nat \ {0} /\ MaxBackoff \in Nat \ {0}
  /\ MaxInFlight \in Nat \ {0} /\ MaxMoves \in Nat

VARIABLES
  protocol,   \* "full" (Binance, OKX) or "delta" (Bybit)
  venue,      \* the venue's own book
  link,       \* "down", "up" or "asleep"
  channel,    \* messages on the connection, in order
  local,      \* `books` of this connection
  published,  \* the book in the store
  heard,      \* observer: the venue's book in the last message of this connection
  backoff,    \* seconds the next failure will sleep
  feedMoves

feedVars == <<protocol, venue, link, channel, local, published, heard, backoff, feedMoves>>

\* what turns `old` into `new`: the levels of a side that changed, 0 for a removed one
Changes(old, new) ==
  [p \in {x \in DOMAIN old \cup DOMAIN new :
            ~(x \in DOMAIN old /\ x \in DOMAIN new /\ old[x] = new[x])} |->
     IF p \in DOMAIN new THEN new[p] ELSE 0]

\* apply_bybit_depth_delta
KeepZeroLevels(levels, updates) ==
  [p \in DOMAIN levels \cup DOMAIN updates |-> IF p \in DOMAIN updates THEN updates[p] ELSE levels[p]]
ApplyDelta(levels, updates) ==
  [p \in {x \in DOMAIN levels \cup DOMAIN updates : x \in DOMAIN updates => updates[x] # 0} |->
     IF p \in DOMAIN updates THEN updates[p] ELSE levels[p]]

\* the n best prices of a side
Best(side, levels) ==
  {p \in DOMAIN levels :
     Cardinality({q \in DOMAIN levels : IF side = "bids" THEN q > p ELSE q < p}) < PublishedLevels}

\* build_order_book_from_levels
BuildOrderBook(book) ==
  IF \E s \in Sides : book[s] = NoLevels THEN NoBook
  ELSE [s \in Sides |-> Restrict(book[s], Best(s, book[s]))]

FeedInit ==
  /\ protocol \in {"full", "delta"}
  /\ venue = EmptyBook /\ link = "down" /\ channel = <<>>
  /\ local = EmptyBook /\ published = NoBook /\ heard = NoBook
  /\ backoff = 1 /\ feedMoves = 0

Snapshot(book) == [type |-> "snapshot", levels |-> book, sent |-> book]
Delta(old, new) == [type |-> "delta", levels |-> [s \in Sides |-> Changes(old[s], new[s])], sent |-> new]

\* _run_once opens a connection: the local books are new
Connect ==
  /\ link = "down"
  /\ link' = "up" /\ local' = EmptyBook /\ heard' = NoBook
  /\ channel' = <<Snapshot(venue)>>
  /\ UNCHANGED <<protocol, venue, published, backoff, feedMoves>>

\* the venue's book changes; a listening collector is sent the change
VenueMoves(book) ==
  /\ feedMoves < MaxMoves /\ book # venue
  /\ link = "up" => Len(channel) < MaxInFlight
  /\ venue' = book /\ feedMoves' = feedMoves + 1
  /\ channel' = IF link # "up" THEN channel
                ELSE Append(channel, IF protocol = "full" THEN Snapshot(book) ELSE Delta(venue, book))
  /\ UNCHANGED <<protocol, link, local, published, heard, backoff>>

\* Bybit sends a new snapshot of its own accord
VenueResends ==
  /\ link = "up" /\ protocol = "delta" /\ Len(channel) < MaxInFlight
  /\ channel' = Append(channel, Snapshot(venue))
  /\ UNCHANGED <<protocol, venue, link, local, published, heard, backoff, feedMoves>>

\* the book a message makes of the local one: a full book replaces it
Merged(message) ==
  IF message.type = "snapshot" THEN message.levels
  ELSE [s \in Sides |-> ApplyDelta(local[s], message.levels[s])]

\* one turn of `async for raw in ws`
OnMessage ==
  /\ link = "up" /\ channel # <<>>
  /\ LET message == Head(channel)
         book    == BuildOrderBook(Merged(message)) IN
       /\ local' = Merged(message)
       /\ published' = IF book = NoBook THEN published ELSE book
       /\ heard' = message.sent
  /\ channel' = Tail(channel)
  /\ UNCHANGED <<protocol, venue, link, backoff, feedMoves>>

\* the connection is closed normally: _run_once returns, run calls it again at once
CloseNormally ==
  /\ link = "up"
  /\ link' = "down" /\ channel' = <<>> /\ backoff' = 1
  /\ UNCHANGED <<protocol, venue, local, published, heard, feedMoves>>

\* connecting, reading or handling a message raises: run sleeps `backoff`, then doubles it
Doubled(b) == IF 2 * b > MaxBackoff THEN MaxBackoff ELSE 2 * b
Fail ==
  /\ link \in {"up", "down"}
  /\ link' = "asleep" /\ channel' = <<>>
  /\ backoff' = Doubled(backoff)
  /\ UNCHANGED <<protocol, venue, local, published, heard, feedMoves>>

Wake ==
  /\ link = "asleep" /\ link' = "down"
  /\ UNCHANGED <<protocol, venue, channel, local, published, heard, backoff, feedMoves>>

FeedNext ==
  \/ Connect \/ VenueResends \/ OnMessage \/ CloseNormally \/ Fail \/ Wake
  \/ \E book \in VenueBooks : VenueMoves(book)

FeedSpec == FeedInit /\ [][FeedNext]_feedVars

(***************************************************************************)
(* Once a connection has been heard from, the book in the store is the top *)
(* of the book the venue had when it sent the last processed message,      *)
(* through every merge, resent snapshot and reconnection, unless a side of *)
(* that book is empty: then the store keeps an older one                   *)
(* (bybit/depth_collector.py:16-18, "republishes it to the shared store on *)
(* every update").                                                         *)
(***************************************************************************)
PublishedMirrorsVenue ==
  heard # NoBook /\ BuildOrderBook(heard) # NoBook => published = BuildOrderBook(heard)
=============================================================================
