------------------------------ MODULE FeedProofs ------------------------------
(***************************************************************************)
(* Proofs about DepthFeed, that the published book is the venue's, about   *)
(* Detection, that no wake-up is lost and no spread slept through, and     *)
(* about DexDetection and OnchainArbitrage, that a gap that persists is    *)
(* attempted once and never as a bundle, that the search for loops finds   *)
(* all of them, and where the largest size thought profitable lies.        *)
(***************************************************************************)
EXTENDS DepthFeed, Detection, DexDetection, Sums

-----------------------------------------------------------------------------
\* What a delta does to the book it was made from

LEMMA DeltaOfASide ==
  ASSUME NEW old, NEW new,
         old = [p \in DOMAIN old |-> old[p]],
         new = [p \in DOMAIN new |-> new[p]],
         \A p \in DOMAIN new : new[p] \in Nat \ {0}
  PROVE  ApplyDelta(old, Changes(old, new)) = new
<1> DEFINE changed == {x \in DOMAIN old \cup DOMAIN new :
                         ~(x \in DOMAIN old /\ x \in DOMAIN new /\ old[x] = new[x])}
           C == Changes(old, new)
           kept == {x \in DOMAIN old \cup DOMAIN C : x \in DOMAIN C => C[x] # 0}
<1>1. /\ DOMAIN C = changed
      /\ \A p \in changed : C[p] = IF p \in DOMAIN new THEN new[p] ELSE 0
  BY DEF Changes
<1>2. kept = DOMAIN new
  BY <1>1
<1>3. \A p \in DOMAIN new : (IF p \in DOMAIN C THEN C[p] ELSE old[p]) = new[p]
  BY <1>1
<1>4. ApplyDelta(old, C) = [p \in kept |-> IF p \in DOMAIN C THEN C[p] ELSE old[p]]
  BY DEF ApplyDelta
<1> HIDE DEF C, kept
<1>5. ApplyDelta(old, C) = [p \in DOMAIN new |-> new[p]]
  BY <1>2, <1>3, <1>4
<1>. QED  BY <1>5 DEF C

LEMMA DeltaLeadsToTheNewBook ==
  ASSUME NEW old, NEW new, IsBook(old), IsBook(new)
  PROVE  [s \in Sides |-> ApplyDelta(old[s], Changes(old[s], new[s]))] = new
<1>1. ASSUME NEW s \in Sides PROVE ApplyDelta(old[s], Changes(old[s], new[s])) = new[s]
  <2>1. old[s] = [p \in DOMAIN old[s] |-> old[s][p]]
    BY Zenon DEF IsBook
  <2>2. new[s] = [p \in DOMAIN new[s] |-> new[s][p]]
    BY Zenon DEF IsBook
  <2>3. \A p \in DOMAIN new[s] : new[s][p] \in Nat \ {0}
    BY Zenon DEF IsBook
  <2>. QED  BY <2>1, <2>2, <2>3, DeltaOfASide
<1>2. new = [s \in Sides |-> new[s]]
  BY DEF IsBook
<1>. QED  BY <1>1, <1>2

-----------------------------------------------------------------------------
\* The messages on the way, each made from the one before

AllBooks == VenueBooks \cup {EmptyBook}

LEMMA BooksAreBooks == \A b \in AllBooks : IsBook(b) /\ b # NoBook
<1>1. IsBook(EmptyBook)
  BY DEF IsBook, EmptyBook, NoLevels
<1>. QED  BY <1>1, DepthFeedAssumption DEF AllBooks

Messages == {Snapshot(b) : b \in AllBooks} \cup {Delta(o, n) : o, n \in AllBooks}

LEMMA SentBook == \A m \in Messages : m.sent \in AllBooks
BY DEF Messages, Snapshot, Delta

\* a message is a whole book, or a change of the book that was sent before
Follows(m, before) ==
  m = Snapshot(m.sent) \/ (before \in AllBooks /\ m = Delta(before, m.sent))

LEMMA SnapshotFields ==
  ASSUME NEW b
  PROVE  Snapshot(b).type = "snapshot" /\ Snapshot(b).levels = b /\ Snapshot(b).sent = b
BY DEF Snapshot

LEMMA DeltaFields ==
  ASSUME NEW o, NEW n
  PROVE  /\ Delta(o, n).type = "delta" /\ Delta(o, n).sent = n
         /\ Delta(o, n).levels = [s \in Sides |-> Changes(o[s], n[s])]
BY DEF Delta

LEMMA MergedIsSent ==
  ASSUME NEW m \in Messages, Follows(m, heard), heard \in AllBooks => local = heard
  PROVE  Merged(m) = m.sent
<1>1. CASE m = Snapshot(m.sent)
  <2>1. m.type = "snapshot" /\ m.levels = m.sent
    BY <1>1, SnapshotFields, Zenon
  <2>. QED  BY <2>1 DEF Merged
<1>2. CASE heard \in AllBooks /\ m = Delta(heard, m.sent)
  <2>0. PICK n : n = m.sent /\ m = Delta(heard, n)
    BY <1>2
  <2>1. m.type = "delta" /\ m.levels = [s \in Sides |-> Changes(heard[s], n[s])]
    <3>1. /\ Delta(heard, n).type = "delta"
          /\ Delta(heard, n).levels = [s \in Sides |-> Changes(heard[s], n[s])]
      BY DeltaFields
    <3>. QED  BY <2>0, <3>1, Zenon
  <2>2. Merged(m) = [s \in Sides |-> ApplyDelta(heard[s], m.levels[s])]
    BY <1>2, <2>1 DEF Merged
  <2>3. \A s \in Sides : m.levels[s] = Changes(heard[s], m.sent[s])
    BY <2>0, <2>1, Zenon
  <2>4. IsBook(heard) /\ IsBook(m.sent)
    BY <1>2, BooksAreBooks, SentBook
  <2>5. [s \in Sides |-> ApplyDelta(heard[s], Changes(heard[s], m.sent[s]))] = m.sent
    BY <2>4, DeltaLeadsToTheNewBook, Zenon
  <2>. QED  BY <2>2, <2>3, <2>5
<1>. QED  BY <1>1, <1>2 DEF Follows

Before(i) == IF i = 1 THEN heard ELSE channel[i - 1].sent
LastSent  == IF channel = <<>> THEN heard ELSE channel[Len(channel)].sent

FeedInv ==
  /\ venue \in AllBooks /\ heard \in AllBooks \cup {NoBook} /\ channel \in Seq(Messages)
  /\ link # "up" => channel = <<>>
  /\ \A i \in 1..Len(channel) : Follows(channel[i], Before(i))
  /\ link = "up" => LastSent = venue
  /\ heard \in AllBooks => local = heard
  /\ PublishedMirrorsVenue

LEMMA AppendKeepsChain ==
  ASSUME FeedInv, link = "up", NEW m \in Messages, Follows(m, LastSent),
         channel' = Append(channel, m), heard' = heard
  PROVE  /\ channel' \in Seq(Messages)
         /\ \A i \in 1..Len(channel') : Follows(channel'[i], Before(i)')
         /\ LastSent' = m.sent
<1>1. /\ channel \in Seq(Messages) /\ Len(channel) \in Nat
      /\ Len(channel') = Len(channel) + 1
      /\ channel' \in Seq(Messages) /\ channel' # <<>>
      /\ \A i \in 1..Len(channel) : channel'[i] = channel[i]
      /\ channel'[Len(channel')] = m
  BY DEF FeedInv
<1>2. LastSent' = m.sent
  BY <1>1 DEF LastSent
<1>3. ASSUME NEW i \in 1..Len(channel) PROVE Follows(channel'[i], Before(i)')
  <2>1. Before(i)' = Before(i)
    BY <1>1 DEF Before
  <2>. QED  BY <1>1, <2>1 DEF FeedInv
<1>4. ASSUME NEW i \in 1..Len(channel'), i = Len(channel) + 1
      PROVE  Follows(channel'[i], Before(i)')
  <2>1. CASE channel = <<>>
    BY <1>1, <1>4, <2>1 DEF Before, LastSent
  <2>2. CASE channel # <<>>
    <3>1. i # 1 /\ i - 1 \in 1..Len(channel) /\ i - 1 = Len(channel)
      BY <1>1, <1>4, <2>2
    <3>2. Before(i)' = LastSent
      BY <1>1, <2>2, <3>1 DEF Before, LastSent
    <3>. QED  BY <1>1, <1>4, <3>2
  <2>. QED  BY <2>1, <2>2
<1>5. \A i \in 1..Len(channel') : i \in 1..Len(channel) \/ i = Len(channel) + 1
  BY <1>1
<1>. QED  BY <1>1, <1>2, <1>3, <1>4, <1>5

LEMMA TailKeepsChain ==
  ASSUME FeedInv, channel # <<>>, channel' = Tail(channel), heard' = Head(channel).sent
  PROVE  /\ channel' \in Seq(Messages)
         /\ \A i \in 1..Len(channel') : Follows(channel'[i], Before(i)')
         /\ LastSent' = LastSent
<1>1. /\ Len(channel) \in Nat /\ Len(channel') = Len(channel) - 1
      /\ channel' \in Seq(Messages) /\ channel[1] = Head(channel)
      /\ \A i \in 1..Len(channel') : channel'[i] = channel[i + 1]
  BY DEF FeedInv
<1>2. ASSUME NEW i \in 1..Len(channel') PROVE Follows(channel'[i], Before(i)')
  <2>1. Before(i)' = Before(i + 1)
    BY <1>1 DEF Before
  <2>2. i + 1 \in 1..Len(channel)
    BY <1>1
  <2>. QED  BY <1>1, <2>1, <2>2 DEF FeedInv
<1>3. LastSent' = LastSent
  <2>1. CASE Len(channel) = 1
    <3>1. channel' = <<>>
      BY <1>1, <2>1
    <3>. QED  BY <1>1, <2>1, <3>1 DEF LastSent
  <2>2. CASE Len(channel) > 1
    <3>1. channel' # <<>> /\ Len(channel') \in 1..Len(channel')
      BY <1>1, <2>2
    <3>2. channel'[Len(channel')] = channel[Len(channel)]
      BY <1>1, <2>2, <3>1
    <3>. QED  BY <3>1, <3>2 DEF LastSent
  <2>. QED  BY <1>1, <2>1, <2>2
<1>. QED  BY <1>1, <1>2, <1>3

(* Through every merge, resent snapshot, failure and reconnection the book  *)
(* in the store is the top of the book the venue last told of.              *)
THEOREM FeedPublishedMirrorsVenue == FeedSpec => []PublishedMirrorsVenue
<1>1. FeedInit => FeedInv
  BY BooksAreBooks, DepthFeedAssumption
     DEF FeedInit, FeedInv, AllBooks, LastSent, PublishedMirrorsVenue
<1>2. FeedInv /\ [FeedNext]_feedVars => FeedInv'
  <2> SUFFICES ASSUME FeedInv, [FeedNext]_feedVars PROVE FeedInv'
    OBVIOUS
  <2>1. CASE Connect
    <3>1. Snapshot(venue) \in Messages /\ Snapshot(venue).sent = venue
      BY DEF FeedInv, Messages, Snapshot
    <3>2. channel' \in Seq(Messages) /\ Len(channel') = 1 /\ channel'[1] = Snapshot(venue)
      BY <2>1, <3>1 DEF Connect
    <3>3. \A i \in 1..Len(channel') : Follows(channel'[i], Before(i)')
      BY <3>1, <3>2 DEF Follows
    <3>4. LastSent' = venue
      BY <3>1, <3>2 DEF LastSent
    <3>. QED
      BY <2>1, <3>2, <3>3, <3>4, BooksAreBooks DEF Connect, FeedInv, PublishedMirrorsVenue
  <2>2. ASSUME NEW book \in VenueBooks, VenueMoves(book) PROVE FeedInv'
    <3>1. CASE link # "up"
      BY <2>2, <3>1 DEF VenueMoves, FeedInv, AllBooks, LastSent, PublishedMirrorsVenue, Before
    <3>2. CASE link = "up"
      <4> DEFINE m == IF protocol = "full" THEN Snapshot(book) ELSE Delta(venue, book)
      <4>1. venue \in AllBooks /\ book \in AllBooks /\ LastSent = venue
        BY <3>2 DEF FeedInv, AllBooks
      <4>2. m \in Messages /\ m.sent = book
        <5>1. CASE protocol = "full"
          BY <4>1, <5>1, SnapshotFields DEF Messages
        <5>2. CASE protocol # "full"
          <6>1. m = Delta(venue, book)
            BY <5>2
          <6>2. Delta(venue, book) \in Messages
            BY <4>1 DEF Messages
          <6>3. Delta(venue, book).sent = book
            BY DeltaFields, Zenon
          <6>. QED  BY <6>1, <6>2, <6>3, Zenon
        <5>. QED  BY <5>1, <5>2
      <4>3. Follows(m, LastSent)
        BY <4>1, <4>2 DEF Follows
      <4>4. channel' = Append(channel, m) /\ heard' = heard
        BY <2>2, <3>2 DEF VenueMoves
      <4> HIDE DEF m
      <4>5. /\ channel' \in Seq(Messages)
            /\ \A i \in 1..Len(channel') : Follows(channel'[i], Before(i)')
            /\ LastSent' = book
        BY <3>2, <4>2, <4>3, <4>4, AppendKeepsChain
      <4>. QED
        BY <2>2, <3>2, <4>1, <4>5 DEF VenueMoves, FeedInv, PublishedMirrorsVenue
    <3>. QED  BY <3>1, <3>2
  <2>3. CASE VenueResends
    <3>1. venue \in AllBooks /\ LastSent = venue /\ link = "up"
      BY <2>3 DEF VenueResends, FeedInv
    <3>2. Snapshot(venue) \in Messages /\ Snapshot(venue).sent = venue
      BY <3>1 DEF Messages, Snapshot
    <3>3. Follows(Snapshot(venue), LastSent)
      BY <3>2 DEF Follows
    <3>4. /\ channel' \in Seq(Messages)
          /\ \A i \in 1..Len(channel') : Follows(channel'[i], Before(i)')
          /\ LastSent' = venue
      BY <2>3, <3>1, <3>2, <3>3, AppendKeepsChain DEF VenueResends
    <3>. QED
      BY <2>3, <3>1, <3>4 DEF VenueResends, FeedInv, PublishedMirrorsVenue
  <2>4. CASE OnMessage
    <3> DEFINE m == Head(channel)
    <3>1. m \in Messages /\ m = channel[1] /\ 1 \in 1..Len(channel) /\ Before(1) = heard
      BY <2>4 DEF OnMessage, FeedInv, Before
    <3>2. Follows(m, heard)
      BY <3>1 DEF FeedInv
    <3>3. Merged(m) = m.sent /\ m.sent \in AllBooks
      BY <3>1, <3>2, MergedIsSent, SentBook DEF FeedInv
    <3>4. /\ local' = m.sent /\ heard' = m.sent /\ UNCHANGED <<venue, link>>
          /\ published' = IF BuildOrderBook(m.sent) = NoBook THEN published
                          ELSE BuildOrderBook(m.sent)
          /\ channel # <<>> /\ channel' = Tail(channel) /\ link = "up"
      BY <2>4, <3>3 DEF OnMessage
    <3> HIDE DEF m
    <3>5. /\ channel' \in Seq(Messages)
          /\ \A i \in 1..Len(channel') : Follows(channel'[i], Before(i)')
          /\ LastSent' = LastSent
      BY <3>4, TailKeepsChain DEF m
    <3>6. PublishedMirrorsVenue'
      BY <3>4 DEF PublishedMirrorsVenue
    <3>. QED  BY <3>3, <3>4, <3>5, <3>6 DEF FeedInv
  <2>5. CASE CloseNormally \/ Fail \/ Wake
    <3>1. /\ channel' = <<>> /\ link' # "up"
          /\ UNCHANGED <<venue, heard, local, published>>
      BY <2>5 DEF CloseNormally, Fail, Wake, FeedInv
    <3>2. channel' \in Seq(Messages) /\ 1..Len(channel') = {}
      BY <3>1
    <3>. QED  BY <3>1, <3>2 DEF FeedInv, PublishedMirrorsVenue
  <2>6. CASE UNCHANGED feedVars
    BY <2>6 DEF feedVars, FeedInv, PublishedMirrorsVenue, LastSent, Before
  <2>. QED
    BY <2>1, <2>2, <2>3, <2>4, <2>5, <2>6 DEF FeedNext
<1>3. FeedInv => PublishedMirrorsVenue
  BY DEF FeedInv
<1>. QED  BY <1>1, <1>2, <1>3, PTL DEF FeedSpec

-----------------------------------------------------------------------------
\* The detection loop

\* The loop has not cleared the event since the last scan, unless it is pausing.
EventKept ==
  loop \in {"store", "wait"} /\ unseen # {} => event

(* The loop never sleeps through an update, wherever it falls.              *)
THEOREM DetectionNoLostWakeup == DetectionSpec => []NoLostWakeup
<1>1. DetectionInit => EventKept
  BY DEF DetectionInit, EventKept
<1>2. EventKept /\ [DetectionNext]_detectionVars => EventKept'
  BY DEF EventKept, DetectionNext, ScanOnce, IterationEnds, WaitForUpdate,
         PauseEnds, Tick, UpdateQuote, UpdateOrderBook, detectionVars
<1>3. EventKept => NoLostWakeup
  BY DEF EventKept, NoLostWakeup
<1>. QED  BY <1>1, <1>2, <1>3, PTL DEF DetectionSpec

Entries(cap) == {Nothing} \cup [price : Nat, age : 0 .. cap]

EntriesOK ==
  /\ quotes \in [Venues -> Entries(MaxQuoteAge + 1)]
  /\ depth \in [DepthVenues -> Entries(MaxBookAge + 1)]

\* What a scan would find now and the last one did not comes from a book that
\* was recent then.
NothingNew ==
  /\ RecentBooks \subseteq scanned.books
  /\ \A p \in CrossExchange \ scanned.spreads :
       \E x \in {p[1], p[2]} : x \in scanned.books \ RecentBooks

SleepInv ==
  /\ EntriesOK
  /\ loop \in {"store", "wait"} /\ ~event => NothingNew

\* A second takes an entry's age forward by one, until it is too old to matter.
LEMMA AgedEntry ==
  ASSUME NEW cap \in Nat, NEW entry \in Entries(cap + 1)
  PROVE  /\ Aged(entry, cap + 1) \in Entries(cap + 1)
         /\ Aged(entry, cap + 1) # Nothing /\ Aged(entry, cap + 1).age <= cap =>
              /\ entry # Nothing /\ entry.age <= cap
              /\ Aged(entry, cap + 1).age = entry.age + 1
         /\ entry # Nothing => Aged(entry, cap + 1).price = entry.price
<1>1. CASE entry = Nothing
  BY <1>1 DEF Aged, Entries
<1>2. CASE entry # Nothing
  <2>1. entry \in [price : Nat, age : 0 .. cap + 1]
    BY <1>2 DEF Entries
  <2>2. Aged(entry, cap + 1) = [entry EXCEPT !.age = Older(entry.age, cap + 1)]
    BY <1>2 DEF Aged
  <2>3. /\ Older(entry.age, cap + 1) \in 0 .. cap + 1
        /\ Older(entry.age, cap + 1) <= cap => Older(entry.age, cap + 1) = entry.age + 1
    BY <2>1 DEF Older
  <2>4. /\ Aged(entry, cap + 1).age = Older(entry.age, cap + 1)
        /\ Aged(entry, cap + 1).price = entry.price
        /\ Aged(entry, cap + 1) \in [price : Nat, age : 0 .. cap + 1]
    BY <2>1, <2>2, <2>3
  <2>. QED  BY <1>2, <2>1, <2>3, <2>4 DEF Entries
<1>. QED  BY <1>1, <1>2

\* As a second passes, venues in step were in step before, with the prices they
\* have, and books that are recent were recent.
LEMMA TickKeepsPrices ==
  ASSUME EntriesOK, Tick
  PROVE  /\ EntriesOK'
         /\ RecentBooks' \subseteq RecentBooks
         /\ \A x \in RecentBooks' : depth'[x].price = depth[x].price
         /\ \A x, y \in Venues : Synced(x, y)' =>
              /\ Synced(x, y)
              /\ quotes'[x].price = quotes[x].price /\ quotes'[y].price = quotes[y].price
<1>1. MaxQuoteAge \in Nat /\ MaxBookAge \in Nat /\ MaxSkew \in Nat
  BY DetectionAssumption
<1>2. /\ \A x \in Venues : /\ quotes[x] \in Entries(MaxQuoteAge + 1)
                             /\ quotes'[x] = Aged(quotes[x], MaxQuoteAge + 1)
      /\ \A x \in DepthVenues : /\ depth[x] \in Entries(MaxBookAge + 1)
                                  /\ depth'[x] = Aged(depth[x], MaxBookAge + 1)
  BY DEF EntriesOK, Tick
<1>3. EntriesOK'
  <2>1. /\ quotes' = [x \in Venues |-> Aged(quotes[x], MaxQuoteAge + 1)]
        /\ depth' = [x \in DepthVenues |-> Aged(depth[x], MaxBookAge + 1)]
    BY DEF Tick
  <2>. QED  BY <1>1, <1>2, <2>1, AgedEntry DEF EntriesOK
<1>4. ASSUME NEW x \in RecentBooks'
      PROVE  x \in RecentBooks /\ depth'[x].price = depth[x].price
  <2>1. x \in DepthVenues /\ depth'[x] # Nothing /\ depth'[x].age <= MaxBookAge
    BY DEF RecentBooks
  <2>2. /\ depth[x] # Nothing /\ depth[x].age <= MaxBookAge
        /\ depth'[x].price = depth[x].price
    BY <1>1, <1>2, <2>1, AgedEntry
  <2>. QED  BY <2>1, <2>2 DEF RecentBooks
<1>5. ASSUME NEW x \in Venues, Fresh(x)'
      PROVE  /\ Fresh(x) /\ quotes'[x].price = quotes[x].price
             /\ quotes'[x].age = quotes[x].age + 1 /\ quotes[x].age \in Nat
  <2>1. quotes'[x] # Nothing /\ quotes'[x].age <= MaxQuoteAge
    BY <1>5 DEF Fresh
  <2>2. /\ quotes[x] # Nothing /\ quotes[x].age <= MaxQuoteAge
        /\ quotes'[x].age = quotes[x].age + 1 /\ quotes'[x].price = quotes[x].price
    BY <1>1, <1>2, <2>1, AgedEntry
  <2>. QED  BY <1>2, <2>2 DEF Fresh, Entries
<1>6. ASSUME NEW x \in Venues, NEW y \in Venues, Synced(x, y)'
      PROVE  /\ Synced(x, y)
             /\ quotes'[x].price = quotes[x].price /\ quotes'[y].price = quotes[y].price
  <2>1. Fresh(x)' /\ Fresh(y)' /\ quotes'[x].age - quotes'[y].age \in -MaxSkew .. MaxSkew
    BY <1>6 DEF Synced
  <2>2. quotes'[x].age - quotes'[y].age = quotes[x].age - quotes[y].age
    BY <1>5, <2>1
  <2>. QED  BY <1>5, <2>1, <2>2 DEF Synced
<1>. QED  BY <1>3, <1>4, <1>6

(* Time alone brings no spread to a sleeping loop: what a scan would find   *)
(* when nothing has woken it, the last scan found, unless a book it priced  *)
(* by has become too old.                                                   *)
THEOREM DetectionNothingSleptThrough == DetectionSpec => []NothingSleptThrough
<1>1. DetectionInit => SleepInv
  BY DEF DetectionInit, SleepInv, EntriesOK, Entries
<1>2. SleepInv /\ [DetectionNext]_detectionVars => SleepInv'
  <2> SUFFICES ASSUME SleepInv, [DetectionNext]_detectionVars PROVE SleepInv'
    OBVIOUS
  <2>. USE DEF SleepInv
  <2>1. CASE UNCHANGED detectionVars
    BY <2>1 DEF detectionVars, EntriesOK, NothingNew, RecentBooks, CrossExchange, Synced, Fresh,
           Resolved
  <2>2. CASE ScanOnce
    <3>1. EntriesOK'
      BY <2>2 DEF ScanOnce, storeVars, EntriesOK
    <3>2. /\ CrossExchange' = CrossExchange /\ RecentBooks' = RecentBooks
          /\ scanned'.spreads = CrossExchange /\ scanned'.books = RecentBooks
      BY <2>2 DEF ScanOnce, storeVars, RecentBooks, CrossExchange, Synced, Fresh, Resolved
    <3>. QED  BY <3>1, <3>2 DEF NothingNew
  <2>3. CASE IterationEnds
    <3>1. EntriesOK' /\ loop = "store" /\ event' = event
      BY <2>3 DEF IterationEnds, storeVars, EntriesOK
    <3>2. CrossExchange' = CrossExchange /\ RecentBooks' = RecentBooks /\ scanned' = scanned
      BY <2>3 DEF IterationEnds, storeVars, RecentBooks, CrossExchange, Synced, Fresh, Resolved
    <3>. QED  BY <3>1, <3>2 DEF NothingNew
  <2>4. CASE WaitForUpdate \/ PauseEnds
    BY <2>4 DEF WaitForUpdate, PauseEnds, storeVars, EntriesOK
  <2>5. CASE Tick
    <3>1. EntriesOK' /\ UNCHANGED <<event, loop, scanned>>
      BY <2>5, TickKeepsPrices DEF Tick
    <3>2. ASSUME NothingNew PROVE NothingNew'
      <4>1. RecentBooks' \subseteq RecentBooks
        BY <2>5, TickKeepsPrices
      <4>2. ASSUME NEW p \in CrossExchange' \ scanned.spreads
            PROVE  \E x \in {p[1], p[2]} : x \in scanned.books \ RecentBooks'
        <5>1. /\ p \in Venues \X Venues /\ p[1] # p[2] /\ Synced(p[1], p[2])'
              /\ quotes'[p[2]].price > quotes'[p[1]].price
              /\ Resolved(p[2])'.price > Resolved(p[1])'.price
          BY <4>2 DEF CrossExchange
        <5>2. /\ p[1] \in Venues /\ p[2] \in Venues /\ Synced(p[1], p[2])
              /\ \A x \in {p[1], p[2]} : quotes'[x].price = quotes[x].price
          BY <2>5, <5>1, TickKeepsPrices
        <5>3. CASE \E x \in {p[1], p[2]} : x \in RecentBooks /\ x \notin RecentBooks'
          BY <3>2, <5>3 DEF NothingNew
        <5>4. CASE \A x \in {p[1], p[2]} : x \in RecentBooks <=> x \in RecentBooks'
          <6>1. \A x \in {p[1], p[2]} : Resolved(x)'.price = Resolved(x).price
            <7> SUFFICES ASSUME NEW x \in {p[1], p[2]}
                         PROVE  Resolved(x)'.price = Resolved(x).price
              OBVIOUS
            <7>1. CASE x \in RecentBooks
              BY <2>5, <5>4, <7>1, TickKeepsPrices DEF Resolved
            <7>2. CASE x \notin RecentBooks
              BY <5>2, <5>4, <7>2 DEF Resolved
            <7>. QED  BY <7>1, <7>2
          <6>2. p \in CrossExchange
            BY <5>1, <5>2, <6>1 DEF CrossExchange
          <6>. QED  BY <3>2, <4>1, <4>2, <6>2 DEF NothingNew
        <5>. QED  BY <4>1, <5>3, <5>4
      <4>. QED  BY <3>1, <3>2, <4>1, <4>2 DEF NothingNew
    <3>. QED  BY <3>1, <3>2
  <2>6. ASSUME NEW price \in SpotPrices, NEW x \in Venues, UpdateQuote(x, price)
        PROVE  SleepInv'
    <3>1. Entry(price) \in Entries(MaxQuoteAge + 1)
      BY DetectionAssumption DEF Entry, Entries
    <3>. QED  BY <2>6, <3>1 DEF UpdateQuote, EntriesOK
  <2>7. ASSUME NEW price \in SpotPrices, NEW x \in DepthVenues, UpdateOrderBook(x, price)
        PROVE  SleepInv'
    <3>1. Entry(price) \in Entries(MaxBookAge + 1)
      BY DetectionAssumption DEF Entry, Entries
    <3>. QED  BY <2>7, <3>1 DEF UpdateOrderBook, EntriesOK
  <2>. QED  BY <2>1, <2>2, <2>3, <2>4, <2>5, <2>6, <2>7 DEF DetectionNext
<1>3. SleepInv => NothingSleptThrough
  BY DEF SleepInv, NothingNew, NothingSleptThrough
<1>. QED  BY <1>1, <1>2, <1>3, PTL DEF DetectionSpec

-----------------------------------------------------------------------------
\* The cycles of the DEX loop

SeenNow(x) == x[2] \in DOMAIN lastSeen /\ lastSeen[x[2]] = scanTime

\* What was sighted in a cycle was last seen when that cycle was priced, as long as the
\* next one is not; and it is still watched while the next one is.
WatchInv ==
  /\ dexPc \in {"asleep", "fetching", "pricing"} /\ cycle \in Int /\ scanTime \in Int
  /\ \A x \in sightings : x[1] \in Int /\ x[1] <= cycle
  /\ \A x \in sightings : dexPc = "fetching" => x[1] < cycle
  /\ \A x \in sightings : x[1] = cycle => SeenNow(x)
  /\ \A x \in sightings :
       x[1] = cycle - 1 => \/ dexPc = "asleep"
                           \/ dexPc = "fetching" /\ SeenNow(x)
                           \/ dexPc = "pricing" /\ StillWatched(x[2])
  /\ \A a \in attempts : a.cycle \in Int /\ a.cycle <= cycle
  /\ PersistentGapAttemptedOnce

LEMMA WatchPreserved ==
  ASSUME \A d \in Durations : d <= 2, WatchInv, [DexNext]_dexVars
  PROVE  WatchInv'
<1>1. CASE BeginCycle
  BY <1>1 DEF BeginCycle, WatchInv, SeenNow, StillWatched, PersistentGapAttemptedOnce, DexKey
<1>2. CASE FetchVenue \/ SkipChain \/ UNCHANGED dexVars
  <2>1. UNCHANGED <<dexPc, cycle, scanTime, lastSeen, attempts, sightings>>
    BY <1>2 DEF FetchVenue, SkipChain, dexVars
  <2> QED  BY <2>1 DEF WatchInv, SeenNow, StillWatched, PersistentGapAttemptedOnce, DexKey
<1>3. CASE AllFetched
  <2>1. PICK d \in Durations : scanTime' = scanTime + 2 + d
    BY <1>3 DEF AllFetched
  <2>2. d \in Nat /\ d <= 2 /\ scanTime \in Int
    BY DexAssumption DEF DexAssumption, WatchInv
  <2>3. /\ dexPc = "fetching" /\ dexPc' = "pricing"
        /\ UNCHANGED <<cycle, lastSeen, attempts, sightings>>
    BY <1>3 DEF AllFetched
  <2>4. \A x \in sightings : x[1] = cycle - 1 => StillWatched(x[2])'
    BY <2>1, <2>2, <2>3 DEF WatchInv, SeenNow, StillWatched
  <2> QED  BY <2>1, <2>2, <2>3, <2>4 DEF WatchInv, SeenNow, PersistentGapAttemptedOnce, DexKey
<1>4. CASE PriceChain
  <2>1. PICK keys, findings, twins :
          /\ attempts' = attempts \cup {[cycle |-> cycle, opp |-> o] : o \in Attempted(findings, twins)}
          /\ sightings' = sightings \cup {<<cycle, k>> : k \in keys}
          /\ lastSeen' = [k \in keys \cup DOMAIN lastSeen |->
                            IF k \in keys THEN scanTime ELSE lastSeen[k]]
    BY <1>4 DEF PriceChain
  <2>2. dexPc = "pricing" /\ UNCHANGED <<dexPc, cycle, scanTime>>
    BY <1>4 DEF PriceChain
  <2>3. \A o \in Attempted(findings, twins) : ~StillWatched(DexKey(o))
    BY DEF Attempted
  <2>4. \A k : SeenNow(<<cycle, k>>) => SeenNow(<<cycle, k>>)'
    BY <2>1, <2>2 DEF SeenNow
  <2>5. \A k \in keys : SeenNow(<<cycle, k>>)'
    BY <2>1, <2>2 DEF SeenNow
  <2>6. \A k : StillWatched(k) => StillWatched(k)'
    <3> SUFFICES ASSUME NEW k, StillWatched(k) PROVE StillWatched(k)'
      OBVIOUS
    <3>1. k \in DOMAIN lastSeen /\ scanTime - lastSeen[k] <= 4
      BY DEF StillWatched
    <3>2. CASE k \in keys
      <4>1. scanTime - scanTime <= 4
        BY DEF WatchInv
      <4> QED  BY <2>1, <2>2, <3>2, <4>1 DEF StillWatched
    <3>3. CASE k \notin keys
      BY <2>1, <2>2, <3>1, <3>3 DEF StillWatched
    <3> QED  BY <3>2, <3>3
  <2>7. ASSUME NEW a \in attempts' PROVE <<a.cycle - 1, DexKey(a.opp)>> \notin sightings'
    <3>1. CASE a \in attempts
      <4>1. a.cycle \in Int /\ a.cycle <= cycle /\ cycle \in Int
        BY <3>1 DEF WatchInv
      <4>2. <<a.cycle - 1, DexKey(a.opp)>> \notin sightings
        BY <3>1 DEF WatchInv, PersistentGapAttemptedOnce
      <4> QED  BY <2>1, <4>1, <4>2
    <3>2. CASE a \notin attempts
      <4>1. PICK o \in Attempted(findings, twins) : a = [cycle |-> cycle, opp |-> o]
        BY <2>1, <3>2
      <4>2. <<cycle - 1, DexKey(o)>> \notin sightings
        <5> SUFFICES ASSUME <<cycle - 1, DexKey(o)>> \in sightings PROVE FALSE
          OBVIOUS
        <5> DEFINE x == <<cycle - 1, DexKey(o)>>
        <5>1. x \in sightings /\ x[1] = cycle - 1 /\ x[2] = DexKey(o)
          OBVIOUS
        <5> HIDE DEF x
        <5> QED  BY <2>2, <2>3, <5>1 DEF WatchInv
      <4>3. cycle - 1 # cycle
        BY DEF WatchInv
      <4> QED  BY <2>1, <4>1, <4>2, <4>3
    <3> QED  BY <3>1, <3>2
  <2>8. /\ \A a \in attempts' : a.cycle \in Int /\ a.cycle <= cycle
        /\ \A x \in sightings' : x[1] \in Int /\ x[1] <= cycle
    BY <2>1 DEF WatchInv
  <2>9. \A x \in sightings' : (x[1] = cycle => SeenNow(x)') /\ (x[1] = cycle - 1 => StillWatched(x[2])')
    <3> SUFFICES ASSUME NEW x \in sightings'
                 PROVE  (x[1] = cycle => SeenNow(x)') /\ (x[1] = cycle - 1 => StillWatched(x[2])')
      OBVIOUS
    <3>1. CASE x \in sightings
      BY <2>1, <2>2, <2>6, <3>1 DEF WatchInv, SeenNow
    <3>2. CASE x \notin sightings
      <4>1. PICK k \in keys : x = <<cycle, k>>
        BY <2>1, <3>2
      <4>2. cycle - 1 # cycle
        BY DEF WatchInv
      <4>3. x[1] = cycle /\ x[2] = k
        BY <4>1
      <4>4. SeenNow(x)'
        BY <2>1, <2>2, <4>1, <4>3 DEF SeenNow
      <4> QED  BY <4>2, <4>3, <4>4
    <3> QED  BY <3>1, <3>2
  <2>10. PersistentGapAttemptedOnce'
    BY <2>7 DEF PersistentGapAttemptedOnce, DexKey
  <2>11. cycle \in Int /\ scanTime \in Int
    BY DEF WatchInv
  <2> QED  BY <2>2, <2>8, <2>9, <2>10, <2>11 DEF WatchInv
<1>5. CASE CycleRaises
  BY <1>5 DEF CycleRaises, WatchInv, SeenNow, PersistentGapAttemptedOnce, DexKey
<1>6. CASE EndCycle
  <2>1. /\ lastSeen' = [k \in {k \in DOMAIN lastSeen : StillWatched(k)} |-> lastSeen[k]]
        /\ dexPc' = "asleep" /\ dexPc = "pricing" /\ UNCHANGED <<cycle, scanTime, attempts, sightings>>
    BY <1>6 DEF EndCycle
  <2>2. scanTime - scanTime <= 4
    BY DEF WatchInv
  <2>3. \A x \in sightings : x[1] = cycle => SeenNow(x)'
    BY <2>1, <2>2 DEF WatchInv, SeenNow, StillWatched
  <2> QED  BY <2>1, <2>3 DEF WatchInv, PersistentGapAttemptedOnce, DexKey
<1> QED  BY <1>1, <1>2, <1>3, <1>4, <1>5, <1>6 DEF DexNext

\* What a cycle sights the next one does not attempt, whatever the pools and detectors show,
\* when a cycle takes no more than one poll interval beyond its pause (DEX_POLL_INTERVAL).
THEOREM GapsAreAttemptedOnce ==
  ASSUME \A d \in Durations : d <= 2
  PROVE  DexSpec => []PersistentGapAttemptedOnce
<1>1. DexInit => WatchInv
  BY DEF DexInit, WatchInv, PersistentGapAttemptedOnce
<1>2. WatchInv /\ [DexNext]_dexVars => WatchInv'
  BY WatchPreserved
<1>3. WatchInv => PersistentGapAttemptedOnce
  BY DEF WatchInv
<1> QED  BY <1>1, <1>2, <1>3, PTL DEF DexSpec

-----------------------------------------------------------------------------
\* What the DEX loop finds

\* the figures of an eligible pool
IsPool(p) ==
  /\ p.price.n \in Nat \ {0} /\ p.price.d \in Nat \ {0}
  /\ p.tvl \in Nat /\ p.fee \in Int

ArePools(pools) == IsFiniteSet(pools) /\ \A p \in pools : IsPool(p)

LEMMA FiniteImage ==
  ASSUME NEW S, IsFiniteSet(S), NEW f
  PROVE  IsFiniteSet({f[x] : x \in S})
<1> DEFINE T == {f[x] : x \in S}
           g == [x \in S |-> f[x]]
<1>1. g \in Surjection(S, T)
  BY DEF Surjection
<1> HIDE DEF g, T
<1>2. IsFiniteSet(T)
  BY <1>1, FS_Surjection
<1> QED  BY <1>2 DEF T

\* What discovery returns is eligible, whichever pages failed.
LEMMA DiscoveredArePools ==
  ASSUME NEW pages, IsAnswer(pages)
  PROVE  ArePools(DiscoverPools(pages))
<1> DEFINE failed == {i \in DOMAIN pages : pages[i] = NoFigure}
           read == IF failed = {} THEN pages ELSE SubSeq(pages, 1, SmallestOf(failed) - 1)
           of == [i \in DOMAIN read |-> UNION {ParsePool(row) : row \in read[i]}]
<1>1. pages \in Seq({pages[i] : i \in DOMAIN pages}) /\ Len(pages) \in Nat /\ DOMAIN pages = 1..Len(pages)
  BY DEF IsAnswer
<1>2. /\ IsFiniteSet(DOMAIN read)
      /\ \A i \in DOMAIN read : i \in DOMAIN pages /\ read[i] = pages[i] /\ pages[i] # NoFigure
  <2>1. CASE failed = {}
    <3>1. IsFiniteSet(1..Len(pages))
      BY <1>1, FS_Interval
    <3> QED  BY <1>1, <2>1, <3>1
  <2>2. CASE failed # {}
    <3>1. IsFiniteSet(failed) /\ failed \subseteq 1..Len(pages) /\ failed \subseteq Int
      <4>1. failed \subseteq 1..Len(pages) /\ IsFiniteSet(1..Len(pages))
        BY <1>1, FS_Interval
      <4> HIDE DEF failed
      <4>2. IsFiniteSet(failed)
        BY <4>1, FS_Subset
      <4>3. 1..Len(pages) \subseteq Int
        BY <1>1
      <4> QED  BY <4>1, <4>2, <4>3
    <3> DEFINE first == SmallestOf(failed)
    <3>2. first \in failed /\ \A i \in failed : first <= i
      <4> HIDE DEF failed
      <4>1. \E x \in failed : \A y \in failed : x <= y
        BY <2>2, <3>1, LargestOfNumbers
      <4> QED  BY <4>1 DEF SmallestOf
    <3>3. first \in 1..Len(pages)
      BY <3>1, <3>2
    <3> HIDE DEF first
    <3>4. /\ DOMAIN SubSeq(pages, 1, first - 1) = 1..first - 1
          /\ \A i \in 1..first - 1 : SubSeq(pages, 1, first - 1)[i] = pages[i]
      BY <1>1, <3>3
    <3>5. read = SubSeq(pages, 1, first - 1)
      BY <2>2 DEF first
    <3>6. \A i \in 1..first - 1 : i \in DOMAIN pages /\ i \notin failed
      BY <1>1, <3>2, <3>3
    <3>7. IsFiniteSet(1..first - 1)
      BY <3>3, FS_Interval
    <3> HIDE DEF read
    <3> QED  BY <3>4, <3>5, <3>6, <3>7
  <2> QED  BY <2>1, <2>2
<1> HIDE DEF read
<1>3. ASSUME NEW i \in DOMAIN read PROVE IsPage(read[i])
  BY <1>2 DEF IsAnswer
<1>4. ASSUME NEW row PROVE IsFiniteSet(ParsePool(row))
  BY FS_EmptySet, FS_Singleton DEF ParsePool
<1>5. ASSUME NEW i \in DOMAIN read PROVE IsFiniteSet(of[i])
  <2> DEFINE g == [row \in read[i] |-> ParsePool(row)]
             G == {g[row] : row \in read[i]}
  <2>1. IsFiniteSet(read[i])
    BY <1>3 DEF IsPage
  <2>2. IsFiniteSet(G)
    <3> HIDE DEF g
    <3> QED  BY <2>1, FiniteImage
  <2>3. G = {ParsePool(row) : row \in read[i]} /\ \A T \in G : IsFiniteSet(T)
    BY <1>4
  <2>4. IsFiniteSet(UNION G)
    <3> HIDE DEF G
    <3> QED  BY <2>2, <2>3, FS_UNION
  <2> HIDE DEF G
  <2> QED  BY <2>3, <2>4
<1>6. IsFiniteSet(FetchPools(pages))
  <2> DEFINE G == {of[i] : i \in DOMAIN read}
  <2>1. IsFiniteSet(G) /\ \A T \in G : IsFiniteSet(T)
    <3> HIDE DEF of
    <3> QED  BY <1>2, <1>5, FiniteImage
  <2>2. IsFiniteSet(UNION G)
    <3> HIDE DEF G
    <3> QED  BY <2>1, FS_UNION
  <2>3. FetchPools(pages) = UNION {UNION {ParsePool(row) : row \in read[i]} : i \in DOMAIN read}
    BY DEF FetchPools, read
  <2>4. UNION G = FetchPools(pages)
    BY <2>3
  <2> QED  BY <2>2, <2>4
<1>7. ASSUME NEW p \in DiscoverPools(pages) PROVE IsPool(p)
  <2>1. IsEligible(p) /\ p \in FetchPools(pages)
    BY DEF DiscoverPools
  <2>2. PICK i \in DOMAIN read : \E row \in read[i] : p \in ParsePool(row)
    <3>1. FetchPools(pages) = UNION {UNION {ParsePool(row) : row \in read[i]} : i \in DOMAIN read}
      BY DEF FetchPools, read
    <3> QED  BY <2>1, <3>1
  <2>3. PICK row \in read[i] : p \in ParsePool(row)
    BY <2>2
  <2>4. /\ row.price # NoFigure
        /\ p.price = row.price /\ p.tvl = row.tvl /\ p.fee = row.fee
    BY <2>3 DEF ParsePool
  <2>5. row.price.n \in Int /\ row.price.d \in Nat \ {0} /\ row.tvl \in Int /\ row.fee \in Int
    BY <1>3, <2>3, <2>4 DEF IsPage
  <2>6. p.tvl >= MinTvl /\ p.price.n > 0 /\ MinTvl \in Nat
    BY <2>1, OnchainAssumption DEF IsEligible
  <2> QED  BY <2>4, <2>5, <2>6 DEF IsPool
<1>8. IsFiniteSet(DiscoverPools(pages))
  <2>1. DiscoverPools(pages) \in SUBSET FetchPools(pages)
    BY DEF DiscoverPools
  <2> QED  BY <1>6, <2>1, FS_Subset
<1> QED  BY <1>7, <1>8 DEF ArePools

LEMMA PriceIsPositive ==
  ASSUME NEW p, IsPool(p), NEW t
  PROVE  PriceOf(p, t).n \in Nat \ {0} /\ PriceOf(p, t).d \in Nat \ {0}
BY DEF IsPool, PriceOf

LEMMA BpsIsNumber ==
  ASSUME NEW amount \in Int, NEW rate \in Int
  PROVE  Bps(amount, rate) \in Int
BY DEF Bps

LEMMA SwapIsNumber ==
  ASSUME NEW p, IsPool(p), NEW size \in Int
  PROVE  SwapOutput(size, p) \in Int
<1>1. AmmOutput(size, p.tvl) \in Int
  BY DEF IsPool, AmmOutput
<1>2. p.fee \in Int
  BY DEF IsPool
<1>3. Bps(AmmOutput(size, p.tvl), p.fee) \in Int
  BY <1>1, <1>2, BpsIsNumber
<1> QED  BY <1>1, <1>3 DEF SwapOutput

LEMMA BuffersAreNumbers ==
  ASSUME NEW chain, NEW size \in Nat, NEW tvl \in Int
  PROVE  Buffers(chain, size, tvl) \in Int
<1>1. MevRisk(chain, size, tvl) \in Int
  <2>1. MevCompetitiveness(chain) \in Int
    BY DEF MevCompetitiveness
  <2> DEFINE sizeRisk == IF tvl > 0 THEN Least(1000, (20 * 1000 * size) \div tvl) ELSE 1000
  <2>2. sizeRisk \in Int
    BY DEF Least
  <2> HIDE DEF sizeRisk
  <2>3. (6 * sizeRisk + 4 * MevCompetitiveness(chain)) \div 10 \in Int
    BY <2>1, <2>2
  <2>4. Least(1000, (6 * sizeRisk + 4 * MevCompetitiveness(chain)) \div 10) \in Int
    BY <2>3 DEF Least
  <2> QED  BY <2>4 DEF MevRisk, sizeRisk
<1>2. SlippageBps \in Int /\ MevBps \in Int
  BY OnchainAssumption
<1>3. (MevBps * (1000 + 2 * MevRisk(chain, size, tvl))) \div 1000 \in Int
  BY <1>1, <1>2
<1>4. Bps(size, SlippageBps) \in Int
  BY <1>2, BpsIsNumber
<1>5. Bps(size, (MevBps * (1000 + 2 * MevRisk(chain, size, tvl))) \div 1000) \in Int
  BY <1>3, BpsIsNumber
<1> QED  BY <1>4, <1>5 DEF Buffers

\* What a purchase on one exchange and a sale on the other return is a number.
LEMMA CrossNetIsNumber ==
  ASSUME NEW buy, IsPool(buy), NEW sell, IsPool(sell), NEW size \in Nat, NEW gas \in Int
  PROVE  CrossNet(buy, sell, size, gas) \in Int
<1> DEFINE bought == SwapOutput(size, buy)
           worth == (bought * PairPrice(sell).n * PairPrice(buy).d)
                      \div (PairPrice(sell).d * PairPrice(buy).n)
<1>1. bought \in Int
  BY SwapIsNumber
<1>2. /\ PairPrice(buy).n \in Nat \ {0} /\ PairPrice(buy).d \in Nat \ {0}
      /\ PairPrice(sell).n \in Nat \ {0} /\ PairPrice(sell).d \in Nat \ {0}
  BY PriceIsPositive DEF PairPrice
<1> HIDE DEF bought
<1>3. worth \in Int
  <2>1. PairPrice(sell).d * PairPrice(buy).n \in Nat \ {0}
    BY <1>2
  <2>2. bought * PairPrice(sell).n * PairPrice(buy).d \in Int
    BY <1>1, <1>2
  <2> QED  BY <2>1, <2>2
<1> HIDE DEF worth
<1>4. SwapOutput(worth, sell) \in Int
  BY <1>3, SwapIsNumber
<1>5. Least(buy.tvl, sell.tvl) \in Int
  BY DEF Least, IsPool
<1>6. Buffers(buy.chain, size, Least(buy.tvl, sell.tvl)) \in Int
  BY <1>5, BuffersAreNumbers
<1>7. CrossNet(buy, sell, size, gas)
        = SwapOutput(worth, sell) - size - gas - Buffers(buy.chain, size, Least(buy.tvl, sell.tvl))
  BY DEF CrossNet, worth, bought
<1> QED  BY <1>4, <1>6, <1>7

-----------------------------------------------------------------------------
\* The size that earns most

\* a ladder of sizes with their profits
IsLadder(net) ==
  /\ IsFiniteSet(DOMAIN net) /\ DOMAIN net \subseteq Nat
  /\ \A s \in DOMAIN net : net[s] \in Int

LEMMA OptimalIsBest ==
  ASSUME NEW net, IsLadder(net), Profitable(net) # {}
  PROVE  /\ OptimalSize(net) \in Profitable(net)
         /\ \A s \in DOMAIN net : net[s] <= net[OptimalSize(net)]
<1> DEFINE P == Profitable(net)
           Richest == {s \in P : \A t \in P : net[t] <= net[s]}
           Wanted(s) == \A t \in P : net[t] < net[s] \/ (net[t] = net[s] /\ s <= t)
<1>1. P \subseteq DOMAIN net /\ P \subseteq Int /\ IsFiniteSet(P) /\ \A s \in P : net[s] \in Int /\ net[s] > 0
  <2>1. P \in SUBSET DOMAIN net /\ \A s \in P : net[s] \in Int /\ net[s] > 0
    BY DEF Profitable, IsLadder
  <2>2. IsFiniteSet(P)
    BY <2>1, FS_Subset DEF IsLadder
  <2> QED  BY <2>1, <2>2 DEF IsLadder
<1>2. P # {}
  OBVIOUS
<1>3. Richest # {}
  <2> HIDE DEF P
  <2>1. \E x \in P : \A y \in P : net[y] <= net[x]
    BY <1>1, <1>2, LargestValue
  <2> QED  BY <2>1
<1>4. IsFiniteSet(Richest) /\ Richest \subseteq Int /\ Richest \subseteq P
  <2>1. Richest \in SUBSET P
    OBVIOUS
  <2> HIDE DEF Richest, P
  <2> QED  BY <1>1, <2>1, FS_Subset
<1>5. PICK s \in Richest : \A t \in Richest : s <= t
  <2> HIDE DEF Richest
  <2> QED  BY <1>3, <1>4, LargestOfNumbers
<1>6. Wanted(s)
  <2> HIDE DEF P
  <2> SUFFICES ASSUME NEW t \in P PROVE net[t] < net[s] \/ (net[t] = net[s] /\ s <= t)
    OBVIOUS
  <2>1. CASE t \in Richest
    BY <1>1, <1>4, <1>5, <2>1
  <2>2. CASE t \notin Richest
    <3>1. PICK u \in P : ~(net[u] <= net[t])
      BY <2>2
    <3>2. net[u] <= net[s]
      BY <1>5
    <3> QED  BY <1>1, <1>4, <3>1, <3>2
  <2> QED  BY <2>1, <2>2
<1>7. OptimalSize(net) = CHOOSE x \in P : Wanted(x)
  BY DEF OptimalSize
<1>8. OptimalSize(net) \in P /\ Wanted(OptimalSize(net))
  <2>1. s \in P
    BY <1>4, <1>5
  <2> HIDE DEF P, Wanted
  <2> QED  BY <1>6, <1>7, <2>1
<1>9. ASSUME NEW t \in DOMAIN net PROVE net[t] <= net[OptimalSize(net)]
  <2>1. net[t] \in Int /\ net[OptimalSize(net)] \in Int /\ net[OptimalSize(net)] > 0
    BY <1>1, <1>8 DEF IsLadder
  <2>2. CASE t \in P
    BY <1>8, <2>1, <2>2
  <2>3. CASE t \notin P
    BY <2>1, <2>3 DEF Profitable
  <2> QED  BY <2>2, <2>3
<1> QED  BY <1>8, <1>9

(* The largest size thought profitable is no guess: it is at least the size *)
(* that earns most, and at most any larger size known not to earn, so that  *)
(* the interpolation never leaves the two sizes it is made between.         *)
THEOREM LargestSizeIsBracketed ==
  ASSUME NEW net, IsLadder(net), Profitable(net) # {}
  PROVE  /\ OptimalSize(net) <= MaxProfitableSize(net)
         /\ \A s \in DOMAIN net : s > OptimalSize(net) /\ net[s] <= 0 => MaxProfitableSize(net) <= s
         /\ \E s \in DOMAIN net : MaxProfitableSize(net) <= s
<1> DEFINE best == OptimalSize(net)
           larger == {s \in DOMAIN net : s > best}
           losing == larger \ Profitable(net)
           first == SmallestOf(losing)
<1>1. best \in DOMAIN net /\ best \in Nat /\ net[best] \in Int /\ net[best] > 0
  BY OptimalIsBest DEF Profitable, IsLadder
<1> HIDE DEF best
<1>2. /\ IsFiniteSet(losing) /\ losing \subseteq Int /\ losing \subseteq DOMAIN net
      /\ IsFiniteSet(larger) /\ larger \subseteq Int /\ larger \subseteq DOMAIN net
  <2>1. losing \in SUBSET DOMAIN net /\ larger \in SUBSET DOMAIN net
    OBVIOUS
  <2> HIDE DEF losing, larger
  <2> QED  BY <2>1, FS_Subset DEF IsLadder
<1>3. MaxProfitableSize(net) = IF losing # {} THEN ZeroCrossing(best, net[best], first, net[first])
                               ELSE IF larger # {} THEN LargestOf(larger) ELSE best
  BY DEF MaxProfitableSize, best
<1>4. \A s \in DOMAIN net : s > best /\ net[s] <= 0 => s \in losing
  BY DEF Profitable, IsLadder
<1>5. CASE losing # {}
  <2>1. first \in losing /\ \A s \in losing : first <= s
    <3> HIDE DEF losing
    <3>1. \E x \in losing : \A y \in losing : x <= y
      BY <1>2, <1>5, LargestOfNumbers
    <3> QED  BY <3>1 DEF SmallestOf
  <2>2. first \in DOMAIN net /\ first \in Nat /\ first > best /\ net[first] \in Int /\ net[first] <= 0
    BY <1>2, <2>1 DEF Profitable, IsLadder
  <2> HIDE DEF first, losing
  <2> DEFINE gap == first - best
             swing == net[best] - net[first]
             moved == (net[best] * gap) \div swing
  <2>3. gap \in Nat /\ swing \in Nat \ {0} /\ net[best] \in Nat /\ net[best] <= swing
    BY <1>1, <2>2
  <2>4. net[best] * gap \in Nat
    BY <2>3
  <2>5. moved \in 0..gap
    <3> DEFINE part == net[best]
    <3>1. part \in Nat /\ part <= swing
      BY <2>3
    <3> HIDE DEF part, gap, swing
    <3>2. (part * gap) \div swing \in 0..gap
      BY <2>3, <3>1, ShareOfAmount
    <3> QED  BY <3>2 DEF part
  <2>6. MaxProfitableSize(net) = best + moved
    <3>1. net[first] # net[best]
      BY <1>1, <2>2
    <3> QED  BY <1>3, <1>5, <3>1 DEF ZeroCrossing
  <2> HIDE DEF moved
  <2>7. best <= MaxProfitableSize(net) /\ MaxProfitableSize(net) <= first /\ MaxProfitableSize(net) \in Int
    BY <1>1, <2>2, <2>5, <2>6
  <2>8. ASSUME NEW s \in DOMAIN net, s > best, net[s] <= 0 PROVE MaxProfitableSize(net) <= s
    <3>1. first <= s /\ s \in Int
      BY <1>2, <1>4, <2>1, <2>8
    <3> QED  BY <2>2, <2>7, <3>1
  <2> QED  BY <2>2, <2>7, <2>8 DEF best
<1>6. CASE losing = {}
  <2>1. \A s \in DOMAIN net : ~(s > best /\ net[s] <= 0)
    BY <1>4, <1>6
  <2>2. CASE larger # {}
    <3>1. LargestOf(larger) \in larger
      <4> HIDE DEF larger
      <4>1. \E x \in larger : \A y \in larger : y <= x
        BY <1>2, <2>2, LargestOfNumbers
      <4> QED  BY <4>1 DEF LargestOf
    <3>2. MaxProfitableSize(net) \in DOMAIN net /\ MaxProfitableSize(net) > best
          /\ MaxProfitableSize(net) \in Int
      BY <1>2, <1>3, <1>6, <2>2, <3>1
    <3> QED  BY <1>1, <2>1, <3>2 DEF best
  <2>3. CASE larger = {}
    BY <1>1, <1>3, <1>6, <2>1, <2>3 DEF best
  <2> QED  BY <2>2, <2>3
<1> QED  BY <1>5, <1>6

\* What is found earns at the size it is found for.
LEMMA FoundEarns ==
  ASSUME NEW strategy, NEW chain, NEW route, NEW net, IsLadder(net), Profitable(net) # {}
  PROVE  LET o == Found(strategy, chain, route, net)
         IN /\ {"strategy", "profit"} \subseteq DOMAIN o
            /\ o.strategy = strategy /\ o.chain = chain /\ o.route = route /\ o.profit \in Nat
<1>1. net[OptimalSize(net)] \in Int /\ net[OptimalSize(net)] > 0
  BY OptimalIsBest DEF Profitable, IsLadder
<1> QED  BY <1>1 DEF Found

-----------------------------------------------------------------------------
\* Two exchanges

SequentialStrategies == {"dex_cross", "dex_triangular", "dex_multihop", "flash_loan_research"}

\* an opportunity that is no bundle: its legs, and that it earns
IsSequential(o) ==
  /\ {"strategy", "profit"} \subseteq DOMAIN o
  /\ o.strategy \in SequentialStrategies
  /\ o.profit \in Nat
  /\ Legs(o) \in Nat \ {0}

LEMMA CrossLadder ==
  ASSUME NEW x, NEW p, NEW q, IsPool(p), IsPool(q), x \in OrderPools(p, q), NEW gas \in Int
  PROVE  IsLadder(CrossNets(x[1], x[2], gas)) /\ IsLadder(LoanNets(x[1], x[2], gas))
<1>1. IsPool(x[1]) /\ IsPool(x[2])
  BY DEF OrderPools
<1>2. /\ SizeTiers \subseteq Nat /\ LoanTiers \subseteq Nat
      /\ IsFiniteSet(SizeTiers) /\ IsFiniteSet(LoanTiers) /\ LoanFeeBps \in Int
  BY OnchainAssumption
<1>3. \A size \in Nat : CrossNet(x[1], x[2], size, gas) \in Int
  BY <1>1, CrossNetIsNumber
<1>4. IsLadder(CrossNets(x[1], x[2], gas))
  BY <1>2, <1>3 DEF IsLadder, CrossNets
<1> DEFINE R == {size \in LoanTiers : Repayable(x[1], x[2], size, gas)}
<1>5. IsFiniteSet(R) /\ R \subseteq Nat
  <2>1. R \in SUBSET LoanTiers
    OBVIOUS
  <2> HIDE DEF R
  <2> QED  BY <1>2, <2>1, FS_Subset
<1>6. \A size \in Nat : Bps(size, LoanFeeBps) \in Int
  BY <1>2, BpsIsNumber
<1>7. LoanNets(x[1], x[2], gas)
        = [size \in R |-> CrossNet(x[1], x[2], size, gas) - Bps(size, LoanFeeBps)]
  BY DEF LoanNets
<1>8. \A size \in R : CrossNet(x[1], x[2], size, gas) - Bps(size, LoanFeeBps) \in Int
  BY <1>3, <1>5, <1>6
<1> HIDE DEF R
<1> QED  BY <1>4, <1>5, <1>7, <1>8 DEF IsLadder

LEMMA CrossIsSequential ==
  ASSUME NEW p, NEW q, IsPool(p), IsPool(q), NEW gas \in Int,
         NEW o \in DetectCross(p, q, gas) \cup DetectFlashLoan(p, q, gas)
  PROVE  IsSequential(o)
<1>0. 2 * gas \in Int
  OBVIOUS
<1>1. CASE o \in DetectCross(p, q, gas)
  <2>1. PICK x \in OrderPools(p, q) :
          /\ Profitable(CrossNets(x[1], x[2], 2 * gas)) # {}
          /\ o = Found("dex_cross", x[1].chain, <<x[1].id, x[2].id>>, CrossNets(x[1], x[2], 2 * gas))
    BY <1>1 DEF DetectCross
  <2>2. IsLadder(CrossNets(x[1], x[2], 2 * gas))
    BY <1>0, CrossLadder
  <2>3. {"strategy", "profit"} \subseteq DOMAIN o /\ o.strategy = "dex_cross" /\ o.profit \in Nat
    BY <2>1, <2>2, FoundEarns
  <2> QED  BY <2>3 DEF IsSequential, SequentialStrategies, Legs
<1>2. CASE o \in DetectFlashLoan(p, q, gas)
  <2>1. PICK x \in OrderPools(p, q) :
          /\ Profitable(LoanNets(x[1], x[2], 2 * gas)) # {}
          /\ o = [Found("flash_loan_research", x[1].chain, <<x[1].id, x[2].id>>,
                        LoanNets(x[1], x[2], 2 * gas)) EXCEPT !.most = NoFigure]
    BY <1>2 DEF DetectFlashLoan
  <2> DEFINE f == Found("flash_loan_research", x[1].chain, <<x[1].id, x[2].id>>,
                        LoanNets(x[1], x[2], 2 * gas))
  <2>2. IsLadder(LoanNets(x[1], x[2], 2 * gas))
    BY <1>0, CrossLadder
  <2>3. {"strategy", "profit"} \subseteq DOMAIN f /\ f.strategy = "flash_loan_research" /\ f.profit \in Nat
    BY <2>1, <2>2, FoundEarns
  <2>4. DOMAIN o = DOMAIN f /\ o.strategy = f.strategy /\ o.profit = f.profit
    BY <2>1 DEF Found
  <2> QED  BY <2>3, <2>4 DEF IsSequential, SequentialStrategies, Legs
<1> QED  BY <1>1, <1>2

-----------------------------------------------------------------------------
\* A loop of swaps

LEMMA HopsAreFinite ==
  ASSUME NEW pools, ArePools(pools)
  PROVE  IsFiniteSet(Hops(pools)) /\ \A h \in Hops(pools) : IsPool(h.pool)
<1> DEFINE f == [p \in pools |-> {[pool |-> p, from |-> p.token0], [pool |-> p, from |-> p.token1]}]
           G == {f[p] : p \in pools}
<1>1. IsFiniteSet(G)
  <2> HIDE DEF f
  <2> QED  BY FiniteImage DEF ArePools
<1>2. \A T \in G : IsFiniteSet(T)
  <2> SUFFICES ASSUME NEW p \in pools PROVE IsFiniteSet(f[p])
    OBVIOUS
  <2> DEFINE x == [pool |-> p, from |-> p.token0]
             y == [pool |-> p, from |-> p.token1]
  <2>1. f[p] = {x} \cup {y}
    OBVIOUS
  <2> HIDE DEF x, y, f
  <2>2. IsFiniteSet({x}) /\ IsFiniteSet({y})
    BY FS_Singleton
  <2>3. IsFiniteSet({x} \cup {y})
    BY <2>2, FS_Union
  <2> QED  BY <2>1, <2>3
<1>3. IsFiniteSet(UNION G)
  <2> HIDE DEF G
  <2> QED  BY <1>1, <1>2, FS_UNION
<1>4. UNION G = Hops(pools)
  BY DEF Hops
<1>5. \A h \in Hops(pools) : IsPool(h.pool)
  BY DEF Hops, ArePools
<1> QED  BY <1>3, <1>4, <1>5

\* one hop more on each of the paths that allows it
Longer(pools, base, paths) ==
  {Append(x[1], x[2]) : x \in {x \in paths \X Hops(pools) : MayFollow(x[1], x[2], base)}}

\* The recursion of the search has a solution, and its paths are made of hops.
LEMMA PathsAreLonger ==
  ASSUME NEW pools, NEW base
  PROVE  \E of \in [0..MaxRouteLength -> SUBSET Seq(Hops(pools))] :
           /\ of[0] = {<<>>}
           /\ \A n \in 1..MaxRouteLength : of[n] = Longer(pools, base, of[n - 1])
           /\ Paths(pools, base) = UNION {of[n] : n \in 2..MaxRouteLength}
<1> DEFINE T == SUBSET Seq(Hops(pools))
           F == [paths \in T |-> Longer(pools, base, paths)]
           none == {<<>>}
           Rec(of) == of = [n \in 0..MaxRouteLength |->
                              IF n = 0 THEN {<<>>}
                              ELSE {Append(x[1], x[2]) : x \in {x \in of[n - 1] \X Hops(pools) :
                                                                  MayFollow(x[1], x[2], base)}}]
<1>1. MaxRouteLength \in Nat
  BY OnchainAssumption
<1>2. F \in [T -> T] /\ none \in T
  BY DEF Longer
<1>3. PICK h \in [0..MaxRouteLength -> T] :
        h[0] = none /\ \A n \in 1..MaxRouteLength : h[n] = F[h[n - 1]]
  <2> DEFINE M == MaxRouteLength
  <2>1. M \in Nat /\ F \in [T -> T] /\ none \in T
    BY <1>1, <1>2
  <2> HIDE DEF T, F, none, M
  <2>2. PICK h : Iterates(h, F, none, T, M)
    BY <2>1, IterationExists
  <2> QED  BY <2>2 DEF M, Iterates
<1>4. ASSUME NEW n \in 1..MaxRouteLength PROVE h[n] = Longer(pools, base, h[n - 1])
  <2>1. n - 1 \in 0..MaxRouteLength
    BY <1>1
  <2>2. h[n] = F[h[n - 1]] /\ h[n - 1] \in T
    BY <1>3, <2>1
  <2>3. \A paths \in T : F[paths] = Longer(pools, base, paths)
    OBVIOUS
  <2> HIDE DEF T, F
  <2> QED  BY <2>2, <2>3
<1>5. Rec(h)
  <2>1. \A n \in 0..MaxRouteLength :
          h[n] = IF n = 0 THEN {<<>>} ELSE Longer(pools, base, h[n - 1])
    BY <1>1, <1>3, <1>4
  <2> HIDE DEF T, F
  <2> QED  BY <1>3, <2>1 DEF Longer
<1> DEFINE of == CHOOSE g : Rec(g)
<1>6. Rec(of)
  <2> HIDE DEF Rec
  <2> QED  BY <1>5
<1>7. Paths(pools, base) = UNION {of[n] : n \in 2..MaxRouteLength}
  BY DEF Paths
<1>8. of = [n \in 0..MaxRouteLength |-> IF n = 0 THEN {<<>>} ELSE Longer(pools, base, of[n - 1])]
  <2>1. ASSUME NEW g, Rec(g)
        PROVE  g = [n \in 0..MaxRouteLength |-> IF n = 0 THEN {<<>>} ELSE Longer(pools, base, g[n - 1])]
    BY <2>1 DEF Longer
  <2> HIDE DEF Rec, of
  <2> QED  BY <1>6, <2>1
<1> HIDE DEF of
<1>9. \A n \in 0..MaxRouteLength : of[n] = h[n]
  <2> DEFINE D == {n \in 0..MaxRouteLength : of[n] # h[n]}
  <2> SUFFICES ASSUME D # {} PROVE FALSE
    OBVIOUS
  <2>1. PICK n \in D : \A m \in D : n <= m
    <3>1. D \subseteq 0..MaxRouteLength
      OBVIOUS
    <3> HIDE DEF D
    <3> QED  BY <1>1, <3>1, LeastNumber
  <2>2. n \in 1..MaxRouteLength
    BY <1>1, <1>3, <1>8
  <2>3. n - 1 \in 0..MaxRouteLength /\ n - 1 \notin D
    <3>1. n - 1 \in 0..MaxRouteLength /\ ~(n <= n - 1)
      BY <1>1, <2>2
    <3> HIDE DEF D
    <3> QED  BY <2>1, <3>1
  <2>4. of[n - 1] = h[n - 1]
    BY <2>3
  <2>5. of[n] = Longer(pools, base, of[n - 1])
    <3>1. n \in 0..MaxRouteLength /\ n # 0
      BY <1>1, <2>2
    <3> QED  BY <1>8, <3>1
  <2>6. h[n] = Longer(pools, base, h[n - 1])
    BY <1>4, <2>2
  <2>7. of[n] # h[n]
    BY <2>1
  <2> HIDE DEF D, F, T
  <2> QED  BY <2>4, <2>5, <2>6, <2>7
<1>10. {of[n] : n \in 2..MaxRouteLength} = {h[n] : n \in 2..MaxRouteLength}
  BY <1>1, <1>9
<1> HIDE DEF F
<1> QED  BY <1>3, <1>4, <1>7, <1>10

\* a path of the search: as many hops as it was made longer
IsPath(path, pools) ==
  path \in Seq(Hops(pools)) /\ Len(path) \in 2..MaxRouteLength

LEMMA LongerIsFinite ==
  ASSUME NEW pools, ArePools(pools), NEW base, NEW paths, IsFiniteSet(paths)
  PROVE  IsFiniteSet(Longer(pools, base, paths))
<1> DEFINE X == {x \in paths \X Hops(pools) : MayFollow(x[1], x[2], base)}
           f == [x \in X |-> Append(x[1], x[2])]
<1>1. IsFiniteSet(X)
  <2>1. IsFiniteSet(paths \X Hops(pools))
    BY HopsAreFinite, FS_Product
  <2>2. X \in SUBSET (paths \X Hops(pools))
    OBVIOUS
  <2> HIDE DEF X
  <2> QED  BY <2>1, <2>2, FS_Subset
<1>2. IsFiniteSet({f[x] : x \in X})
  <2> HIDE DEF f, X
  <2> QED  BY <1>1, FiniteImage
<1>3. Longer(pools, base, paths) = {f[x] : x \in X}
  BY DEF Longer
<1> QED  BY <1>2, <1>3

LEMMA PathsAreFinite ==
  ASSUME NEW pools, ArePools(pools), NEW base
  PROVE  /\ IsFiniteSet(Paths(pools, base))
         /\ \A path \in Paths(pools, base) : IsPath(path, pools)
<1>1. PICK of \in [0..MaxRouteLength -> SUBSET Seq(Hops(pools))] :
        /\ of[0] = {<<>>}
        /\ \A n \in 1..MaxRouteLength : of[n] = Longer(pools, base, of[n - 1])
        /\ Paths(pools, base) = UNION {of[n] : n \in 2..MaxRouteLength}
  BY PathsAreLonger
<1>2. MaxRouteLength \in Nat
  BY OnchainAssumption
<1> DEFINE Good(n) == IsFiniteSet(of[n]) /\ \A path \in of[n] : Len(path) = n
           D == {n \in 0..MaxRouteLength : ~Good(n)}
<1>3. ASSUME D # {} PROVE FALSE
  <2>1. PICK n \in D : \A m \in D : n <= m
    <3>1. D \subseteq 0..MaxRouteLength
      OBVIOUS
    <3> HIDE DEF D
    <3> QED  BY <1>2, <1>3, <3>1, LeastNumber
  <2>2. n \in 0..MaxRouteLength /\ ~Good(n)
    BY <2>1
  <2>3. n # 0
    <3>1. IsFiniteSet({<<>>}) /\ Len(<<>>) = 0
      BY FS_Singleton
    <3> QED  BY <1>1, <2>2, <3>1
  <2>4. n - 1 \in 0..MaxRouteLength /\ n \in 1..MaxRouteLength /\ ~(n <= n - 1)
    BY <1>2, <2>2, <2>3
  <2>5. Good(n - 1)
    <3>1. n - 1 \notin D
      <4> HIDE DEF D
      <4> QED  BY <2>1, <2>4
    <3> QED  BY <2>4, <3>1
  <2>6. of[n] = Longer(pools, base, of[n - 1])
    BY <1>1, <2>4
  <2>7. IsFiniteSet(of[n])
    BY <2>5, <2>6, LongerIsFinite
  <2>8. ASSUME NEW path \in of[n] PROVE Len(path) = n
    <3>1. PICK x \in of[n - 1] \X Hops(pools) : path = Append(x[1], x[2])
      BY <2>6 DEF Longer
    <3>2. x[1] \in Seq(Hops(pools)) /\ x[2] \in Hops(pools) /\ Len(x[1]) = n - 1
      BY <1>1, <2>4, <2>5, <3>1
    <3> QED  BY <2>2, <3>1, <3>2
  <2> QED  BY <2>2, <2>7, <2>8
<1>4. ASSUME NEW n \in 2..MaxRouteLength PROVE Good(n) /\ of[n] \subseteq Seq(Hops(pools))
  <2>1. n \in 0..MaxRouteLength /\ n \notin D
    BY <1>2, <1>3
  <2> QED  BY <1>1, <2>1
<1>5. \A path \in Paths(pools, base) : IsPath(path, pools)
  <2> SUFFICES ASSUME NEW path \in Paths(pools, base) PROVE IsPath(path, pools)
    OBVIOUS
  <2>1. PICK n \in 2..MaxRouteLength : path \in of[n]
    BY <1>1
  <2> QED  BY <1>4, <2>1 DEF IsPath
<1> DEFINE G == {of[n] : n \in 2..MaxRouteLength}
<1>6. IsFiniteSet(UNION G)
  <2>1. IsFiniteSet(2..MaxRouteLength)
    BY <1>2, FS_Interval
  <2>2. IsFiniteSet(G) /\ \A T \in G : IsFiniteSet(T)
    <3>1. \A T \in G : IsFiniteSet(T)
      BY <1>4
    <3>2. IsFiniteSet(G)
      <4> DEFINE I == 2..MaxRouteLength
      <4>1. IsFiniteSet(I)
        BY <2>1
      <4>2. G = {of[n] : n \in I}
        OBVIOUS
      <4> HIDE DEF I, G
      <4> QED  BY <4>1, <4>2, FiniteImage
    <3> QED  BY <3>1, <3>2
  <2> HIDE DEF G
  <2> QED  BY <2>2, FS_UNION
<1> QED  BY <1>1, <1>5, <1>6

\* a walk from base that uses no pool twice, and reaches no token twice but base
IsWalk(path, base) ==
  /\ \A i \in 1..Len(path) : path[i].from = IF i = 1 THEN base ELSE ToToken(path[i - 1])
  /\ \A i, j \in 1..Len(path) : i < j =>
       /\ path[i].pool.id # path[j].pool.id
       /\ ToToken(path[i]) = ToToken(path[j]) => ToToken(path[j]) = base

WalksOf(n, pools, base) == {path \in Seq(Hops(pools)) : Len(path) = n /\ IsWalk(path, base)}

LEMMA ReachedIsTheLast ==
  ASSUME NEW H, NEW path \in Seq(H), NEW base
  PROVE  Reached(path, base) = IF Len(path) = 0 THEN base ELSE ToToken(path[Len(path)])
BY DEF Reached, Last

LEMMA LongerWalk ==
  ASSUME NEW H, NEW path \in Seq(H), NEW h \in H, NEW base
  PROVE  IsWalk(Append(path, h), base) <=> IsWalk(path, base) /\ MayFollow(path, h, base)
<1> DEFINE p == Append(path, h)
           n == Len(path)
<1>1. /\ n \in Nat /\ Len(p) = n + 1 /\ p[n + 1] = h
      /\ \A i \in 1..n : p[i] = path[i]
      /\ DOMAIN path = 1..n
  OBVIOUS
<1>2. MayFollow(path, h, base) <=>
        /\ h.from = IF n = 0 THEN base ELSE ToToken(path[n])
        /\ \A i \in 1..n : path[i].pool.id # h.pool.id
        /\ \A i \in 1..n : ToToken(path[i]) = ToToken(h) => ToToken(h) = base
  BY <1>1, ReachedIsTheLast DEF MayFollow
<1> HIDE DEF p, n
<1>3. IsWalk(p, base) <=>
        /\ \A i \in 1..n + 1 : p[i].from = IF i = 1 THEN base ELSE ToToken(p[i - 1])
        /\ \A i, j \in 1..n + 1 : i < j =>
             /\ p[i].pool.id # p[j].pool.id
             /\ ToToken(p[i]) = ToToken(p[j]) => ToToken(p[j]) = base
  BY <1>1 DEF IsWalk
<1>4. IsWalk(path, base) <=>
        /\ \A i \in 1..n : p[i].from = IF i = 1 THEN base ELSE ToToken(p[i - 1])
        /\ \A i, j \in 1..n : i < j =>
             /\ p[i].pool.id # p[j].pool.id
             /\ ToToken(p[i]) = ToToken(p[j]) => ToToken(p[j]) = base
  <2>1. \A i \in 1..n : i # 1 => i - 1 \in 1..n
    BY <1>1
  <2> QED  BY <1>1, <2>1 DEF IsWalk, n
<1>5. \A i \in 1..n + 1 : i \in 1..n \/ i = n + 1
  BY <1>1
<1>6. 1..n \subseteq 1..n + 1 /\ n + 1 \in 1..n + 1 /\ \A i \in 1..n : i < n + 1 /\ ~(n + 1 < i)
  BY <1>1
<1>7. (n + 1 = 1 <=> n = 0) /\ n + 1 - 1 = n /\ (n # 0 => p[n] = path[n])
  BY <1>1
<1>8. IsWalk(p, base) <=>
        /\ IsWalk(path, base)
        /\ p[n + 1].from = IF n = 0 THEN base ELSE ToToken(p[n])
        /\ \A i \in 1..n : /\ p[i].pool.id # p[n + 1].pool.id
                           /\ ToToken(p[i]) = ToToken(p[n + 1]) => ToToken(p[n + 1]) = base
  BY <1>1, <1>3, <1>4, <1>5, <1>6, <1>7
<1>9. IsWalk(p, base) <=> IsWalk(path, base) /\ MayFollow(path, h, base)
  BY <1>1, <1>2, <1>7, <1>8
<1> QED  BY <1>9 DEF p

LEMMA WalkHasAStart ==
  ASSUME NEW H, NEW path \in Seq(H), Len(path) # 0
  PROVE  \E p \in Seq(H), h \in H : path = Append(p, h) /\ Len(p) = Len(path) - 1
<1> DEFINE n == Len(path)
           p == [i \in 1..n - 1 |-> path[i]]
<1>1. n \in Nat \ {0} /\ n - 1 \in Nat /\ path[n] \in H /\ n - 1 + 1 = n
      /\ path = [i \in 1..n |-> path[i]] /\ \A i \in 1..n : path[i] \in H
  OBVIOUS
<1> HIDE DEF n
<1>2. \A i \in 1..n - 1 : i \in 1..n
  BY <1>1
<1>3. p \in [1..n - 1 -> H]
  BY <1>1, <1>2
<1>4. p \in Seq(H) /\ Len(p) = n - 1
  <2>1. \A m \in Nat : \A q \in [1..m -> H] : q \in Seq(H)
    OBVIOUS
  <2>2. p \in Seq(H)
    BY <1>1, <1>3, <2>1
  <2>3. \A k, m \in Nat : 1..k = 1..m => k = m
    <3> SUFFICES ASSUME NEW k \in Nat, NEW m \in Nat, 1..k = 1..m PROVE k = m
      OBVIOUS
    <3>1. (k > 0 => k \in 1..m) /\ (m > 0 => m \in 1..k)
      OBVIOUS
    <3> QED  BY <3>1
  <2>4. DOMAIN p = 1..n - 1
    OBVIOUS
  <2>5. DOMAIN p = 1..Len(p) /\ Len(p) \in Nat
    <3> HIDE DEF p
    <3> QED  BY <2>2
  <2> HIDE DEF p
  <2> QED  BY <1>1, <2>2, <2>3, <2>4, <2>5
<1>5. Append(p, path[n]) = [i \in 1..n - 1 + 1 |-> IF i <= n - 1 THEN p[i] ELSE path[n]]
  <2> HIDE DEF p
  <2> QED  BY <1>1, <1>4
<1>6. Append(p, path[n]) = path
  <2>1. \A i \in 1..n : (IF i <= n - 1 THEN p[i] ELSE path[n]) = path[i]
    BY <1>1
  <2> HIDE DEF p
  <2> QED  BY <1>1, <1>5, <2>1
<1> QED  BY <1>1, <1>4, <1>6 DEF n

(* The search of the DEX loop is exact: the loops it finds among any pools *)
(* are all the cycles through the base asset, within the length, that use  *)
(* no pool twice and meet no other token twice.                            *)
THEOREM LoopsAreTheSimpleCycles ==
  ASSUME NEW pools, NEW base
  PROVE  FindCycles(pools, base) =
           {path \in Seq(Hops(pools)) :
              /\ Len(path) \in 2..MaxRouteLength
              /\ IsWalk(path, base) /\ ToToken(path[Len(path)]) = base}
<1>1. PICK of \in [0..MaxRouteLength -> SUBSET Seq(Hops(pools))] :
        /\ of[0] = {<<>>}
        /\ \A n \in 1..MaxRouteLength : of[n] = Longer(pools, base, of[n - 1])
        /\ Paths(pools, base) = UNION {of[n] : n \in 2..MaxRouteLength}
  BY PathsAreLonger
<1>2. MaxRouteLength \in Nat
  BY OnchainAssumption
<1> DEFINE D == {n \in 0..MaxRouteLength : of[n] # WalksOf(n, pools, base)}
<1>3. WalksOf(0, pools, base) = {<<>>}
  <2>1. <<>> \in WalksOf(0, pools, base)
    BY DEF WalksOf, IsWalk
  <2>2. \A path \in Seq(Hops(pools)) : Len(path) = 0 => path = <<>>
    OBVIOUS
  <2> QED  BY <2>1, <2>2 DEF WalksOf
<1>4. ASSUME NEW n \in 1..MaxRouteLength
      PROVE  Longer(pools, base, WalksOf(n - 1, pools, base)) = WalksOf(n, pools, base)
  <2>1. ASSUME NEW path \in Longer(pools, base, WalksOf(n - 1, pools, base))
        PROVE  path \in WalksOf(n, pools, base)
    <3>1. PICK x \in WalksOf(n - 1, pools, base) \X Hops(pools) :
            MayFollow(x[1], x[2], base) /\ path = Append(x[1], x[2])
      BY DEF Longer
    <3>2. x[1] \in Seq(Hops(pools)) /\ x[2] \in Hops(pools) /\ Len(x[1]) = n - 1 /\ IsWalk(x[1], base)
      BY <3>1 DEF WalksOf
    <3>3. IsWalk(path, base)
      BY <3>1, <3>2, LongerWalk
    <3>4. path \in Seq(Hops(pools)) /\ Len(path) = n
      BY <1>2, <3>1, <3>2
    <3> QED  BY <3>3, <3>4 DEF WalksOf
  <2>2. ASSUME NEW path \in WalksOf(n, pools, base)
        PROVE  path \in Longer(pools, base, WalksOf(n - 1, pools, base))
    <3>1. path \in Seq(Hops(pools)) /\ Len(path) = n /\ IsWalk(path, base)
      BY DEF WalksOf
    <3> n # 0
      BY <1>2
    <3>2. PICK p \in Seq(Hops(pools)), h \in Hops(pools) : path = Append(p, h) /\ Len(p) = n - 1
      BY <1>2, <3>1, WalkHasAStart
    <3>3. IsWalk(p, base) /\ MayFollow(p, h, base)
      BY <3>1, <3>2, LongerWalk
    <3>4. p \in WalksOf(n - 1, pools, base)
      BY <3>2, <3>3 DEF WalksOf
    <3> DEFINE x == <<p, h>>
    <3>5. x \in WalksOf(n - 1, pools, base) \X Hops(pools) /\ MayFollow(x[1], x[2], base)
          /\ path = Append(x[1], x[2])
      BY <3>2, <3>3, <3>4
    <3> QED  BY <3>5 DEF Longer
  <2> QED  BY <2>1, <2>2
<1>5. ASSUME D # {} PROVE FALSE
  <2>1. PICK n \in D : \A m \in D : n <= m
    <3>1. D \subseteq 0..MaxRouteLength
      OBVIOUS
    <3> HIDE DEF D
    <3> QED  BY <1>2, <1>5, <3>1, LeastNumber
  <2>2. n \in 0..MaxRouteLength /\ of[n] # WalksOf(n, pools, base)
    BY <2>1
  <2>3. n # 0
    BY <1>1, <1>3, <2>2
  <2>4. n \in 1..MaxRouteLength /\ n - 1 \in 0..MaxRouteLength /\ ~(n <= n - 1)
    BY <1>2, <2>2, <2>3
  <2>5. n - 1 \notin D
    <3> HIDE DEF D
    <3> QED  BY <2>1, <2>4
  <2>6. of[n - 1] = WalksOf(n - 1, pools, base)
    BY <2>4, <2>5
  <2> QED  BY <1>1, <1>4, <2>2, <2>4, <2>6
<1>6. Paths(pools, base) = {path \in Seq(Hops(pools)) : Len(path) \in 2..MaxRouteLength /\ IsWalk(path, base)}
  <2>1. \A n \in 2..MaxRouteLength : of[n] = WalksOf(n, pools, base)
    <3>1. \A n \in 2..MaxRouteLength : n \in 0..MaxRouteLength /\ n \notin D
      BY <1>2, <1>5
    <3> QED  BY <3>1
  <2>2. Paths(pools, base) = UNION {WalksOf(n, pools, base) : n \in 2..MaxRouteLength}
    BY <1>1, <2>1
  <2> QED  BY <2>2 DEF WalksOf
<1>7. \A path \in Paths(pools, base) : Reached(path, base) = ToToken(path[Len(path)])
  <2> SUFFICES ASSUME NEW path \in Paths(pools, base)
               PROVE  Reached(path, base) = ToToken(path[Len(path)])
    OBVIOUS
  <2>1. path \in Seq(Hops(pools)) /\ Len(path) # 0
    BY <1>2, <1>6
  <2> QED  BY <2>1, ReachedIsTheLast
<1> QED  BY <1>6, <1>7 DEF FindCycles

\* what a walk along a path passes on: a value, and the rates as a fraction
Walked == [value : Int, n : Nat \ {0}, d : Nat \ {0}]

LEMMA WalkIsTyped ==
  ASSUME NEW pools, ArePools(pools), NEW path, IsPath(path, pools), NEW size \in Int
  PROVE  SimulateRoute(path, size) \in Walked
<1> DEFINE S == DOMAIN path
           op(s, h) == LET rate == PriceOf(h.pool, h.from)
                       IN [value |-> SwapOutput(s.value, h.pool), n |-> s.n * rate.n, d |-> s.d * rate.d]
           b == [value |-> size, n |-> 1, d |-> 1]
           c == [T \in SUBSET S |-> Max(T)]
           g == [i \in S |-> [s \in Walked |-> op(s, path[i])]]
           Rec(k) == k = [T \in SUBSET S |-> IF T = {} THEN b
                                             ELSE op(k[T \ {Max(T)}], path[Max(T)])]
<1>1. IsFiniteSet(S) /\ S \subseteq Int /\ \A i \in S : path[i] \in Hops(pools)
  <2>1. S = 1..Len(path) /\ Len(path) \in Nat /\ \A i \in S : path[i] \in Hops(pools)
    BY DEF IsPath
  <2>2. IsFiniteSet(1..Len(path))
    BY <2>1, FS_Interval
  <2> QED  BY <2>1, <2>2
<1>2. ASSUME NEW T \in SUBSET S, T # {} PROVE Max(T) \in T
  <2>1. IsFiniteSet(T) /\ T \subseteq Int
    BY <1>1, FS_Subset
  <2>2. \E x \in T : \A y \in T : y <= x
    BY <1>2, <2>1, LargestOfNumbers
  <2>3. \E x \in T : \A y \in T : x >= y
    BY <2>1, <2>2
  <2> QED  BY <2>3 DEF Max
<1>3. ASSUME NEW s \in Walked, NEW i \in S PROVE op(s, path[i]) \in Walked
  <2>1. IsPool(path[i].pool)
    BY <1>1, HopsAreFinite
  <2>2. SwapOutput(s.value, path[i].pool) \in Int
    BY <2>1, SwapIsNumber DEF Walked
  <2> DEFINE rate == PriceOf(path[i].pool, path[i].from)
  <2>3. rate.n \in Nat \ {0} /\ rate.d \in Nat \ {0}
    BY <2>1, PriceIsPositive
  <2> HIDE DEF rate
  <2>4. s.n * rate.n \in Nat \ {0} /\ s.d * rate.d \in Nat \ {0}
    BY <2>3 DEF Walked
  <2>5. op(s, path[i]) = [value |-> SwapOutput(s.value, path[i].pool), n |-> s.n * rate.n, d |-> s.d * rate.d]
    BY DEF rate
  <2> QED  BY <2>2, <2>4, <2>5 DEF Walked
<1>4. b \in Walked
  BY DEF Walked
<1> HIDE DEF op, b
<1>5. \A i \in S : g[i] \in [Walked -> Walked]
  BY <1>3
<1>6. Chooses(c, S)
  BY <1>2 DEF Chooses
<1>7. PICK k : FoldsOn(g, c, b, S, k)
  <2> HIDE DEF S, c, g
  <2> QED  BY <1>1, <1>6, FoldsOnExists
<1>8. \A T \in SUBSET S : k[T] \in Walked
  <2> HIDE DEF S, c, g
  <2> QED  BY <1>1, <1>4, <1>5, <1>6, <1>7, FoldsOnType
<1>9. Rec(k)
  <2>1. ASSUME NEW T \in SUBSET S, T # {}
        PROVE  g[c[T]][k[T \ {c[T]}]] = op(k[T \ {Max(T)}], path[Max(T)])
    <3>1. Max(T) \in S /\ c[T] = Max(T) /\ T \ {Max(T)} \in SUBSET S
      BY <1>2, <2>1
    <3>2. k[T \ {Max(T)}] \in Walked
      BY <1>8, <3>1
    <3> QED  BY <3>1, <3>2
  <2>2. k = [T \in SUBSET S |-> IF T = {} THEN b ELSE g[c[T]][k[T \ {c[T]}]]]
    BY <1>7 DEF FoldsOn
  <2> HIDE DEF g, c, S
  <2> QED  BY <2>1, <2>2
<1> DEFINE it == CHOOSE f : Rec(f)
<1>10. Rec(it)
  <2> HIDE DEF Rec
  <2> QED  BY <1>9
<1>11. SimulateRoute(path, size) = it[S]
  BY DEF SimulateRoute, FoldLeft, MapThenFoldSet, op, b
<1> HIDE DEF it
<1> DEFINE D == {T \in SUBSET S : it[T] \notin Walked}
<1>12. ASSUME D # {} PROVE FALSE
  <2>1. PICK T \in D : \A U \in D : ~(U \subseteq T /\ U # T)
    <3>1. D \subseteq SUBSET S
      OBVIOUS
    <3>2. D # {} /\ IsFiniteSet(S)
      BY <1>1, <1>12
    <3> HIDE DEF D, S
    <3> QED  BY <3>1, <3>2, LeastSet
  <2>2. T \in SUBSET S /\ it[T] \notin Walked
    BY <2>1
  <2>3. it[T] = IF T = {} THEN b ELSE op(it[T \ {Max(T)}], path[Max(T)])
    BY <1>10, <2>2
  <2>4. T # {}
    BY <1>4, <2>2, <2>3
  <2>5. Max(T) \in T /\ Max(T) \in S
    BY <1>2, <2>2, <2>4
  <2>6. T \ {Max(T)} \in SUBSET S /\ T \ {Max(T)} \notin D
    <3> HIDE DEF D
    <3> QED  BY <2>1, <2>2, <2>5
  <2>7. it[T \ {Max(T)}] \in Walked
    BY <2>6
  <2> QED  BY <1>3, <2>2, <2>3, <2>4, <2>5, <2>7
<1>13. S \in SUBSET S /\ S \notin D
  BY <1>12
<1> QED  BY <1>11, <1>13

LEMMA RouteNetIsNumber ==
  ASSUME NEW pools, ArePools(pools), NEW path, IsPath(path, pools),
         NEW chain, NEW size \in Nat, NEW gas \in Int
  PROVE  RouteNet(path, chain, size, gas) \in Int
<1> DEFINE end == SimulateRoute(path, size)
           tvls == {path[i].pool.tvl : i \in DOMAIN path}
<1>1. end.value \in Int /\ end.n \in Nat \ {0} /\ end.d \in Nat \ {0}
  <2>1. end \in Walked
    BY WalkIsTyped
  <2> HIDE DEF end
  <2> QED  BY <2>1 DEF Walked
<1>2. SmallestOf(tvls) \in Int
  <2>1. /\ DOMAIN path = 1..Len(path) /\ Len(path) \in Nat /\ Len(path) >= 2
        /\ \A i \in DOMAIN path : path[i] \in Hops(pools)
    BY DEF IsPath
  <2>2. \A i \in DOMAIN path : path[i].pool.tvl \in Nat
    BY <2>1, HopsAreFinite DEF IsPool
  <2>3. tvls # {} /\ tvls \subseteq Int
    BY <2>1, <2>2
  <2>4. IsFiniteSet(tvls)
    <3> DEFINE f == [i \in DOMAIN path |-> path[i].pool.tvl]
    <3>1. IsFiniteSet(DOMAIN path)
      BY <2>1, FS_Interval
    <3>2. IsFiniteSet({f[i] : i \in DOMAIN path})
      <4> HIDE DEF f
      <4> QED  BY <3>1, FiniteImage
    <3> QED  BY <3>2
  <2> HIDE DEF tvls
  <2>5. \E x \in tvls : \A y \in tvls : x <= y
    BY <2>3, <2>4, LargestOfNumbers
  <2> QED  BY <2>3, <2>5 DEF SmallestOf
<1>3. Buffers(chain, size, SmallestOf(tvls)) \in Int
  <2> HIDE DEF tvls
  <2> QED  BY <1>2, BuffersAreNumbers
<1>4. Len(path) \in Int
  BY DEF IsPath
<1>5. (end.value * end.n) \div end.d \in Int /\ Len(path) * gas \in Int
  <2> HIDE DEF end
  <2>1. end.value * end.n \in Int
    BY <1>1
  <2> QED  BY <1>1, <1>4, <2>1
<1>6. RouteNet(path, chain, size, gas)
        = (end.value * end.n) \div end.d - size - Len(path) * gas - Buffers(chain, size, SmallestOf(tvls))
  BY DEF RouteNet
<1> HIDE DEF end, tvls
<1> QED  BY <1>3, <1>5, <1>6

\* The loop that is reported exists, and earns.
LEMMA LoopIsSequential ==
  ASSUME NEW pools, ArePools(pools), NEW base, NEW chain, NEW gas \in Int,
         NEW o \in DetectMultihop(pools, base, chain, gas)
  PROVE  IsSequential(o)
<1> DEFINE cycles == FindCycles(pools, base)
           f == [c \in cycles |-> [path |-> c, nets |-> RouteNets(c, chain, gas)]]
           priced == {[path |-> c, nets |-> RouteNets(c, chain, gas)] : c \in cycles}
           earning == {x \in priced : Profitable(x.nets) # {}}
           IsBest(x) == \A y \in earning : BestOf(y.nets) <= BestOf(x.nets)
           best == CHOOSE x \in earning : IsBest(x)
           found == Found(IF Len(best.path) = 3 THEN "dex_triangular" ELSE "dex_multihop", chain,
                     <<base>> \o [i \in DOMAIN best.path |-> best.path[i].pool.id], best.nets)
<1>1. earning # {} /\ o = found
  BY DEF DetectMultihop
<1>2. IsFiniteSet(cycles) /\ \A c \in cycles : IsPath(c, pools)
  <2>1. cycles \in SUBSET Paths(pools, base)
    BY DEF FindCycles
  <2> HIDE DEF cycles
  <2> QED  BY <2>1, PathsAreFinite, FS_Subset
<1>3. IsFiniteSet(earning)
  <2>1. IsFiniteSet({f[c] : c \in cycles})
    <3> HIDE DEF f, cycles
    <3> QED  BY <1>2, FiniteImage
  <2>2. earning \in SUBSET {f[c] : c \in cycles}
    OBVIOUS
  <2> HIDE DEF earning, f
  <2> QED  BY <2>1, <2>2, FS_Subset
<1>4. ASSUME NEW x \in earning PROVE IsPath(x.path, pools) /\ IsLadder(x.nets) /\ Profitable(x.nets) # {}
  <2>1. PICK c \in cycles : x = [path |-> c, nets |-> RouteNets(c, chain, gas)]
    OBVIOUS
  <2>2. \A size \in SizeTiers : RouteNet(c, chain, size, gas) \in Int
    BY <1>2, OnchainAssumption, RouteNetIsNumber
  <2>3. IsLadder(RouteNets(c, chain, gas))
    BY <2>2, OnchainAssumption DEF IsLadder, RouteNets
  <2> QED  BY <1>2, <2>1, <2>3
<1> HIDE DEF earning
<1>5. \E x \in earning : IsBest(x)
  <2> DEFINE v == [x \in earning |-> BestOf(x.nets)]
  <2>1. \A x \in earning : v[x] \in Int
    BY <1>4, OptimalIsBest DEF BestOf, Profitable, IsLadder
  <2>2. \E x \in earning : \A y \in earning : v[y] <= v[x]
    <3> HIDE DEF v
    <3> QED  BY <1>1, <1>3, <2>1, LargestValue
  <2> QED  BY <2>2
<1>6. best \in earning
  <2> HIDE DEF IsBest
  <2> QED  BY <1>5
<1> HIDE DEF best
<1>7. IsPath(best.path, pools) /\ IsLadder(best.nets) /\ Profitable(best.nets) # {}
  BY <1>4, <1>6
<1> DEFINE ids == [i \in DOMAIN best.path |-> best.path[i].pool.id]
           route == <<base>> \o ids
<1>8. Len(route) - 1 \in Nat \ {0}
  <2>1. /\ DOMAIN best.path = 1..Len(best.path)
        /\ Len(best.path) \in Nat /\ Len(best.path) >= 2
    BY <1>7 DEF IsPath
  <2>2. ids \in Seq({ids[i] : i \in DOMAIN ids}) /\ Len(ids) = Len(best.path)
    BY <2>1
  <2> HIDE DEF ids
  <2>3. Len(<<base>> \o ids) = 1 + Len(ids)
    BY <2>2
  <2> QED  BY <2>1, <2>2, <2>3
<1>9. /\ {"strategy", "profit"} \subseteq DOMAIN o
      /\ o.profit \in Nat /\ o.route = route
      /\ o.strategy \in {"dex_triangular", "dex_multihop"}
  <2> HIDE DEF route
  <2>1. o = Found(IF Len(best.path) = 3 THEN "dex_triangular" ELSE "dex_multihop", chain, route, best.nets)
    BY <1>1 DEF route
  <2> QED  BY <1>7, <2>1, FoundEarns
<1> HIDE DEF route
<1> QED  BY <1>8, <1>9 DEF IsSequential, SequentialStrategies, Legs

-----------------------------------------------------------------------------
\* Bundles

LEMMA RevertIsAShare ==
  ASSUME NEW chain, NEW legs \in Nat \ {0}
  PROVE  RevertProbability(chain, legs) \in 0..1000
<1> DEFINE mev == MevCompetitiveness(chain)
           length == Least(1000, (1000 * (legs - 1)) \div 3)
<1>1. mev \in Nat /\ mev <= 900
  BY DEF MevCompetitiveness
<1>2. length \in Nat /\ length <= 1000
  BY DEF Least
<1> HIDE DEF mev, length
<1>3. 20 + (230 * (6 * mev + 4 * length)) \div 10000 \in 0..1000
  BY <1>1, <1>2
<1>4. RevertProbability(chain, legs) = 20 + (230 * (6 * mev + 4 * length)) \div 10000
  BY DEF RevertProbability, mev, length
<1> QED  BY <1>3, <1>4

\* A bundle pays its gas even when it reverts: it is never worth more than its legs.
LEMMA BundleIsWorthLess ==
  ASSUME NEW profit \in Nat, NEW revert \in 0..1000, NEW gas \in Nat
  PROVE  BundleValue(profit, revert, gas) \in Int /\ BundleValue(profit, revert, gas) <= profit
<1> DEFINE x == (1000 - revert) * profit - revert * gas
<1>1. x \in Int /\ x = 1000 * profit - revert * (profit + gas)
  OBVIOUS
<1>2. revert * (profit + gas) \in Nat
  OBVIOUS
<1>3. x <= 1000 * profit
  BY <1>1, <1>2
<1> HIDE DEF x
<1>4. x \div 1000 \in Int /\ x \div 1000 <= profit
  BY <1>1, <1>3
<1> QED  BY <1>4 DEF BundleValue, x

LEMMA TwinLoses ==
  ASSUME NEW o, IsSequential(o), NEW gas \in Nat
  PROVE  Loser(o, AtomicTwin(o, gas)) = AtomicTwin(o, gas)
<1>1. RevertProbability(o.chain, Legs(o)) \in 0..1000
  BY RevertIsAShare DEF IsSequential
<1>2. o.profit \in Nat
  BY DEF IsSequential
<1>3. BundleValue(o.profit, RevertProbability(o.chain, Legs(o)), gas) <= o.profit
  BY <1>1, <1>2, BundleIsWorthLess
<1> QED  BY <1>3 DEF AtomicTwin, Loser

-----------------------------------------------------------------------------
\* The cycle

(* What is read is eligible pools, of one venue after another, all of them *)
(* before the first chain is priced.                                       *)
FetchedArePools ==
  /\ fetched \in Seq({fetched[i] : i \in DOMAIN fetched})
  /\ Len(fetched) <= Len(DexVenues)
  /\ \A i \in DOMAIN fetched : ArePools(fetched[i])
  /\ dexPc = "pricing" => Len(fetched) = Len(DexVenues)

DexInv == FetchedArePools /\ TwinNeverAttempted

LEMMA DexStarts == DexInit => DexInv
BY DexAssumption DEF DexInit, DexInv, FetchedArePools, TwinNeverAttempted

LEMMA PoolsOfAChain ==
  ASSUME FetchedArePools, dexPc = "pricing", NEW chain
  PROVE  ArePools(PoolsOf(chain))
<1> DEFINE V == VenuesOf(chain)
           G == {fetched[i] : i \in V}
<1>1. DOMAIN fetched = 1..Len(DexVenues) /\ Len(DexVenues) \in Nat /\ V \in SUBSET (1..Len(DexVenues))
  BY DexAssumption DEF FetchedArePools, VenuesOf
<1>2. IsFiniteSet(V) /\ \A i \in V : ArePools(fetched[i])
  <2>1. IsFiniteSet(1..Len(DexVenues))
    BY <1>1, FS_Interval
  <2>2. \A i \in V : i \in DOMAIN fetched
    BY <1>1
  <2> HIDE DEF V
  <2> QED  BY <1>1, <2>1, <2>2, FS_Subset DEF FetchedArePools
<1>3. IsFiniteSet(G) /\ \A T \in G : ArePools(T)
  <2> HIDE DEF V
  <2> QED  BY <1>2, FiniteImage
<1>4. IsFiniteSet(UNION G) /\ \A p \in UNION G : IsPool(p)
  <2> HIDE DEF G
  <2> QED  BY <1>3, FS_UNION DEF ArePools
<1> QED  BY <1>4 DEF PoolsOf, ArePools

\* A reading the price of gas does not fail on makes it a whole number.
LEMMA GasIsNumber ==
  ASSUME NEW chain, NEW p, IsPool(p), NEW reading \in GasReadings, ~GasRaises(chain, reading)
  PROVE  GasCost(chain, PriceOf(p, Native[chain]), reading) \in Nat
<1> DEFINE price == PriceOf(p, Native[chain])
           gas == IF chain \in EvmChains THEN reading ELSE 1
<1>1. price.n \in Nat /\ price.d \in Nat \ {0}
  BY PriceIsPositive
<1>2. gas \in Nat
  BY DexAssumption DEF GasRaises
<1>3. GasScale \in Nat \ {0}
  BY OnchainAssumption
<1>4. GasCost(chain, price, reading) = (price.n * gas) \div (price.d * GasScale)
  BY DEF GasCost
<1> HIDE DEF price, gas
<1>5. price.n * gas \in Nat /\ price.d * GasScale \in Nat \ {0}
  BY <1>1, <1>2, <1>3
<1>6. \A a \in Nat, b \in Nat \ {0} : a \div b \in Nat
  OBVIOUS
<1>7. GasCost(chain, price, reading) \in Nat
  BY <1>4, <1>5, <1>6
<1> QED  BY <1>7 DEF price

LEMMA FoundIsSequential ==
  ASSUME FetchedArePools, dexPc = "pricing", NEW chain, NEW gas \in Nat,
         NEW o \in FoundOn(chain, gas)
  PROVE  IsSequential(o)
<1>1. ArePools(PoolsOf(chain))
  BY PoolsOfAChain
<1>2. CASE \E x \in PairsOf(chain) : o \in DetectCross(x[1], x[2], gas) \cup DetectFlashLoan(x[1], x[2], gas)
  <2>1. PICK x \in PairsOf(chain) : o \in DetectCross(x[1], x[2], gas) \cup DetectFlashLoan(x[1], x[2], gas)
    BY <1>2
  <2>2. IsPool(x[1]) /\ IsPool(x[2])
    BY <1>1 DEF PairsOf, ArePools
  <2> QED  BY <2>1, <2>2, CrossIsSequential
<1>3. CASE \E base \in Bases(chain) : o \in DetectMultihop(PoolsOf(chain), base, chain, gas)
  BY <1>1, <1>3, LoopIsSequential
<1> QED  BY <1>2, <1>3 DEF FoundOn

\* Of an opportunity and its bundle the bundle is the duplicate, so none is attempted.
LEMMA AttemptedIsNoBundle ==
  ASSUME NEW found, \A o \in found : IsSequential(o), NEW gas \in Nat,
         NEW o \in Attempted(found, Twins(found, gas))
  PROVE  o.strategy # "atomic"
<1> DEFINE twins == Twins(found, gas)
<1>1. o \notin {Loser(x[1], x[2]) : x \in twins}
  BY DEF Attempted
<1>2. ASSUME NEW x \in twins PROVE Loser(x[1], x[2]) = x[2]
  <2>1. PICK p \in found : x = <<p, AtomicTwin(p, gas)>>
    BY DEF Twins
  <2> QED  BY <2>1, TwinLoses
<1>3. o \notin {x[2] : x \in twins}
  BY <1>1, <1>2
<1>4. o \in found
  BY <1>3 DEF Attempted
<1> QED  BY <1>4 DEF IsSequential, SequentialStrategies

LEMMA DexStep == DexInv /\ [DexNext]_dexVars => DexInv'
<1> SUFFICES ASSUME DexInv, [DexNext]_dexVars PROVE DexInv'
  OBVIOUS
<1> USE DEF DexInv
<1>1. CASE BeginCycle
  BY <1>1, DexAssumption DEF BeginCycle, FetchedArePools, TwinNeverAttempted
<1>2. CASE FetchVenue
  <2>1. PICK pages \in Offers[Len(fetched) + 1] : fetched' = Append(fetched, DiscoverPools(pages))
    BY <1>2 DEF FetchVenue
  <2>2. ArePools(DiscoverPools(pages))
    <3>1. Len(fetched) + 1 \in DOMAIN DexVenues
      BY <1>2, DexAssumption DEF FetchVenue, FetchedArePools
    <3>2. IsAnswer(pages)
      BY <2>1, <3>1, DexAssumption
    <3> QED  BY <3>2, DiscoveredArePools
  <2>3. FetchedArePools'
    <3> DEFINE new == DiscoverPools(pages)
    <3> HIDE DEF new
    <3>1. fetched' = Append(fetched, new) /\ ArePools(new)
      BY <2>1, <2>2 DEF new
    <3>2. Len(fetched) < Len(DexVenues) /\ Len(DexVenues) \in Nat /\ dexPc' = "fetching"
      BY <1>2, DexAssumption DEF FetchVenue
    <3>3. fetched' \in Seq({fetched[i] : i \in DOMAIN fetched} \cup {new})
      BY <3>1 DEF FetchedArePools
    <3>4. Len(fetched') = Len(fetched) + 1 /\ DOMAIN fetched' = 1..Len(fetched) + 1 /\ Len(fetched) \in Nat
      BY <3>1 DEF FetchedArePools
    <3>5. \A i \in DOMAIN fetched' : ArePools(fetched'[i])
      BY <3>1, <3>4 DEF FetchedArePools
    <3>6. fetched' \in Seq({fetched'[i] : i \in DOMAIN fetched'})
      BY <3>3, <3>4
    <3> QED  BY <3>2, <3>4, <3>5, <3>6 DEF FetchedArePools
  <2>4. TwinNeverAttempted'
    BY <1>2 DEF FetchVenue, TwinNeverAttempted
  <2> QED  BY <2>3, <2>4
<1>3. CASE AllFetched
  BY <1>3 DEF AllFetched, FetchedArePools, TwinNeverAttempted
<1>4. CASE SkipChain
  BY <1>4 DEF SkipChain, FetchedArePools, TwinNeverAttempted
<1>5. CASE PriceChain
  <2>1. FetchedArePools'
    BY <1>5 DEF PriceChain, FetchedArePools
  <2>2. TwinNeverAttempted'
    <3> DEFINE chain == Head(left)
    <3>1. PICK reading \in GasReadings, p \in NativePools(PoolsOf(chain), chain) :
            LET gas == GasCost(chain, PriceOf(p, Native[chain]), reading)
                found == FoundOn(chain, gas)
            IN /\ ~GasRaises(chain, reading)
               /\ attempts' = attempts \cup
                    {[cycle |-> cycle, opp |-> o] : o \in Attempted(found, Twins(found, gas))}
      BY <1>5 DEF PriceChain
    <3> DEFINE gas == GasCost(chain, PriceOf(p, Native[chain]), reading)
               found == FoundOn(chain, gas)
    <3>2. dexPc = "pricing"
      BY <1>5 DEF PriceChain
    <3>3. IsPool(p)
      BY <3>2, PoolsOfAChain DEF NativePools, ArePools
    <3>4. gas \in Nat
      BY <3>1, <3>3, GasIsNumber
    <3> HIDE DEF gas
    <3>5. \A o \in found : IsSequential(o)
      BY <3>2, <3>4, FoundIsSequential
    <3>6. attempts' = attempts \cup {[cycle |-> cycle, opp |-> o] : o \in Attempted(found, Twins(found, gas))}
      BY <3>1 DEF gas
    <3> HIDE DEF found
    <3>7. \A o \in Attempted(found, Twins(found, gas)) : o.strategy # "atomic"
      BY <3>4, <3>5, AttemptedIsNoBundle
    <3> QED  BY <3>6, <3>7 DEF TwinNeverAttempted
  <2> QED  BY <2>1, <2>2
<1>6. CASE CycleRaises
  BY <1>6 DEF CycleRaises, FetchedArePools, TwinNeverAttempted
<1>7. CASE EndCycle
  BY <1>7 DEF EndCycle, FetchedArePools, TwinNeverAttempted
<1>8. CASE UNCHANGED dexVars
  BY <1>8 DEF dexVars, FetchedArePools, TwinNeverAttempted
<1> QED  BY <1>1, <1>2, <1>3, <1>4, <1>5, <1>6, <1>7, <1>8 DEF DexNext

(* Bundles are never attempted: whatever the pools show, the gas costs and *)
(* the legs are, a bundle is worth no more than the opportunity it was made*)
(* from, so its row is the duplicate that is dropped.                      *)
THEOREM BundlesAreNeverAttempted == DexSpec => []TwinNeverAttempted
<1>1. DexInit => DexInv
  BY DexStarts
<1>2. DexInv /\ [DexNext]_dexVars => DexInv'
  BY DexStep
<1>3. DexInv => TwinNeverAttempted
  BY DEF DexInv
<1> QED  BY <1>1, <1>2, <1>3, PTL DEF DexSpec
=============================================================================
