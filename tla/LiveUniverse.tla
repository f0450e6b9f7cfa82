----------------------------- MODULE LiveUniverse -----------------------------
(***************************************************************************)
(* app/execution/live_universe.py: the symbols that can be traded on a     *)
(* pair of exchanges, read from one exchange after the other and cached.   *)
(* Any of the readings may fail, Bybit's is paged, and the listings change *)
(* meanwhile.                                                              *)
(***************************************************************************)
EXTENDS Integers, Sequences, FiniteSets

CONSTANTS
  Coins,            \* "BASE/USDT"
  BybitPages,       \* the pages of instruments-info: sets of coins
  RefreshInterval,  \* _refresh_interval_seconds
  MaxTime,          \* bound on the clock
  MaxListings,      \* bound on the changes of the listings
  NoUniverse

ASSUME UniverseAssumption ==
  /\ UNION {BybitPages[i] : i \in DOMAIN BybitPages} = Coins
  /\ RefreshInterval \in Nat /\ MaxTime \in Nat /\ MaxListings \in Nat

Markets == {"binance", "bybit", "okx"}
Pairs == {p \in SUBSET Markets : Cardinality(p) = 2}

VARIABLES
  listed,    \* what each exchange lists for spot trading against USDT
  changes, today,
  cached,    \* _cached, or NoUniverse
  reading    \* the fetch that is under way: its time, what it has, what is next

universeVars == <<listed, changes, today, cached, reading>>

Reading(at, next) == [at |-> at, next |-> next, page |-> 1, got |-> [x \in Markets |-> {}]]
NoFetch == Reading(0, "idle")

\* get_universe: the cache while it is fresh, else a fetch of everything.
GetUniverse ==
  /\ reading.next = "idle"
  /\ ~(cached # NoUniverse /\ today - cached.at < RefreshInterval)
  /\ reading' = Reading(today, "binance")
  /\ UNCHANGED <<listed, changes, today, cached>>

\* _binance_usdt_symbols, get_all_usdt_spot_symbols: one call; a failed one
\* leaves the set empty and the fetch goes on.
ReadBinance ==
  /\ reading.next = "binance"
  /\ \E got \in {{}, listed["binance"]} :
        reading' = [reading EXCEPT !.next = "bybit", !.got["binance"] = got]
  /\ UNCHANGED <<listed, changes, today, cached>>

\* _bybit_all_usdt_instruments: page after page; an exception in any of
\* them loses them all.
ReadBybitPage ==
  /\ reading.next = "bybit"
  /\ LET i == reading.page
     IN  \/ reading' = [reading EXCEPT
              !.next = IF i = Len(BybitPages) THEN "okx" ELSE "bybit", !.page = i + 1,
              !.got["bybit"] = @ \cup (listed["bybit"] \cap BybitPages[i])]
         \/ reading' = [reading EXCEPT !.next = "okx", !.got["bybit"] = {}]
  /\ UNCHANGED <<listed, changes, today, cached>>

ReadOkx ==
  /\ reading.next = "okx"
  /\ \E got \in {{}, listed["okx"]} :
        reading' = [reading EXCEPT !.next = "end", !.got["okx"] = got]
  /\ UNCHANGED <<listed, changes, today, cached>>

\* LiveUniverse: the intersections of what was read.
Intersections(r) ==
  [at |-> r.at,
   pair |-> [p \in Pairs |-> {c \in Coins : \A x \in p : c \in r.got[x]}],
   allThree |-> {c \in Coins : \A x \in Markets : c \in r.got[x]}]

\* A pair that collapses although one of its exchanges answered is taken
\* for a partial failure.
Suspect(r) ==
  cached # NoUniverse /\
  \E p \in Pairs : /\ Intersections(r).pair[p] = {} /\ cached.pair[p] # {}
                   /\ \E x \in p : r.got[x] # {}

\* mutant: what collapsed is kept from the old universe, the rest is new
KeptMixed(r) ==
  [Intersections(r) EXCEPT !.pair = [p \in Pairs |-> IF @[p] = {} THEN cached.pair[p] ELSE @[p]]]

\* A suspect reading leaves the old universe whole, its time included.
Kept(r) == cached

EndFetch ==
  /\ reading.next = "end"
  /\ cached' = IF Suspect(reading) THEN Kept(reading) ELSE Intersections(reading)
  /\ reading' = NoFetch
  /\ UNCHANGED <<listed, changes, today>>

\* an exchange lists or delists a coin
ListingChanges ==
  /\ changes < MaxListings /\ changes' = changes + 1
  /\ \E x \in Markets, c \in Coins :
        listed' = [listed EXCEPT ![x] = IF c \in @ THEN @ \ {c} ELSE @ \cup {c}]
  /\ UNCHANGED <<today, cached, reading>>

TimePasses ==
  /\ today < MaxTime /\ today' = today + 1
  /\ UNCHANGED <<listed, changes, cached, reading>>

UniverseInit ==
  /\ listed \in {[x \in Markets |-> Coins], [x \in Markets |-> IF x = "okx" THEN {} ELSE Coins]}
  /\ changes = 0 /\ today = 0 /\ cached = NoUniverse /\ reading = NoFetch

UniverseNext ==
  \/ GetUniverse \/ ReadBinance \/ ReadBybitPage \/ ReadOkx \/ EndFetch
  \/ ListingChanges \/ TimePasses

UniverseSpec == UniverseInit /\ [][UniverseNext]_universeVars

-----------------------------------------------------------------------------
(* Properties.                                                             *)

\* The lists a caller gets are of one reading, never old ones beside new
\* ones: what is on every pair is what is on all three exchanges.
UniverseIsOneReading ==
  cached # NoUniverse =>
    \A p, q \in Pairs : p # q => cached.allThree = cached.pair[p] \cap cached.pair[q]

=============================================================================
