---------------------------- MODULE DexDetection -----------------------------
(***************************************************************************)
(* dex_detection_loop of main.py: one cycle after another, it reads the    *)
(* pools of each venue, and then prices each chain on its own and attempts *)
(* what is new. What an attempt does to the capital, and MASTER's part in  *)
(* it, is in MasterAuthority.                                              *)
(*                                                                         *)
(* Time is counted in halves of DEX_POLL_INTERVAL_SECONDS. The readings of *)
(* one cycle come one by one, each with what the venue shows at that time. *)
(***************************************************************************)
EXTENDS OnchainArbitrage

CONSTANTS
  DexVenues,     \* DEX_VENUES
  ChainOrder,    \* their chains, sorted
  Offers,        \* the pages a venue may answer with
  GasReadings,   \* what a chain's RPC may answer
  Durations,     \* bound: how long a cycle may take
  MaxCycles      \* bound of the cycles

\* a page that was read: rows whose figures are numbers
IsPage(rows) ==
  /\ IsFiniteSet(rows)
  /\ \A row \in rows : /\ row.price # NoFigure => row.price.n \in Int /\ row.price.d \in Nat \ {0}
                       /\ row.tvl \in Int /\ row.fee \in Int

IsAnswer(pages) ==
  /\ pages \in Seq({pages[i] : i \in DOMAIN pages})
  /\ \A i \in DOMAIN pages : pages[i] = NoFigure \/ IsPage(pages[i])

ASSUME DexAssumption ==
  /\ {ChainOrder[i] : i \in DOMAIN ChainOrder} = {DexVenues[i].chain : i \in DOMAIN DexVenues}
  /\ DexVenues \in Seq([chain : DOMAIN Native, dex : STRING])
  /\ DOMAIN Offers = DOMAIN DexVenues
  /\ \A i \in DOMAIN Offers : \A pages \in Offers[i] : IsAnswer(pages)
  /\ GasReadings \subseteq Nat \cup {NoFigure}
  /\ Durations \subseteq Nat /\ MaxCycles \in Nat

VARIABLES
  dexPc,      \* "asleep", "fetching" or "pricing"
  cycle,      \* the cycles begun
  scanTime,   \* scan_time of this cycle
  fetched,    \* the eligible pools of each venue read so far
  left,       \* the chains not yet priced
  lastSeen,   \* dex_opportunity_tracker: when each key was last observed
  attempts,   \* observer: what was attempted, in which cycle
  sightings   \* observer: which keys were observed, in which cycle

dexVars == <<dexPc, cycle, scanTime, fetched, left, lastSeen, attempts, sightings>>

DexAttemptable == {"dex_cross", "dex_triangular", "dex_multihop", "atomic"}

\* opportunity_key
DexKey(o) == [strategy |-> o.strategy, route |-> o.route]

\* mutant: DEFAULT_LIVENESS_SECONDS, made for a loop that runs every second
StillWatchedBriefly(key) == key \in DOMAIN lastSeen /\ scanTime - lastSeen[key] <= 0

\* twice the poll interval
StillWatched(key) == key \in DOMAIN lastSeen /\ scanTime - lastSeen[key] <= 4

-----------------------------------------------------------------------------

BeginCycle ==
  /\ dexPc = "asleep" /\ cycle < MaxCycles
  /\ dexPc' = "fetching"
  /\ cycle' = cycle + 1
  /\ fetched' = <<>>
  /\ UNCHANGED <<scanTime, left, lastSeen, attempts, sightings>>

FetchVenue ==
  /\ dexPc = "fetching" /\ Len(fetched) < Len(DexVenues)
  /\ \E pages \in Offers[Len(fetched) + 1] : fetched' = Append(fetched, DiscoverPools(pages))
  /\ UNCHANGED <<dexPc, cycle, scanTime, left, lastSeen, attempts, sightings>>

AllFetched ==
  /\ dexPc = "fetching" /\ Len(fetched) = Len(DexVenues)
  /\ dexPc' = "pricing"
  /\ \E d \in Durations : scanTime' = scanTime + 2 + d
  /\ left' = ChainOrder
  /\ UNCHANGED <<cycle, fetched, lastSeen, attempts, sightings>>

-----------------------------------------------------------------------------
\* Pricing one chain

VenuesOf(chain) == {i \in DOMAIN DexVenues : DexVenues[i].chain = chain}
PoolsOf(chain)  == UNION {fetched[i] : i \in VenuesOf(chain)}

\* two exchanges of the chain
PairsOf(chain) ==
  IF Cardinality(VenuesOf(chain)) < 2 THEN {}
  ELSE {x \in PoolsOf(chain) \X PoolsOf(chain) : x[1].dex # x[2].dex}

Bases(chain) == Stablecoins \cap UNION {{p.token0, p.token1} : p \in PoolsOf(chain)}

FoundOn(chain, gas) ==
  (UNION {DetectCross(x[1], x[2], gas) \cup DetectFlashLoan(x[1], x[2], gas) : x \in PairsOf(chain)})
    \cup (UNION {DetectMultihop(PoolsOf(chain), base, chain, gas) : base \in Bases(chain)})

\* the atomic twins worth reporting, each with what it was made from
Twins(found, gas) ==
  {x \in {<<o, AtomicTwin(o, gas)>> : o \in found} : Enough(x[2].profit, x[2].capital)}

\* duplicate_economic_event: of the two, the one worth less
Loser(o, twin) == IF twin.profit <= o.profit THEN twin ELSE o

Attempted(found, twins) ==
  {o \in (found \cup {x[2] : x \in twins}) \ {Loser(x[1], x[2]) : x \in twins} :
     o.strategy \in DexAttemptable /\ ~StillWatched(DexKey(o))}

\* a chain in trouble, without pools, or without a price of its own token
Skipped(chain, health) ==
  \/ ChainHealth(chain, health) \in {"DEGRADED", "UNAVAILABLE"}
  \/ NativePools(PoolsOf(chain), chain) = {}

SkipChain ==
  /\ dexPc = "pricing" /\ left # <<>>
  /\ \E health \in GasReadings : Skipped(Head(left), health)
  /\ left' = Tail(left)
  /\ UNCHANGED <<dexPc, cycle, scanTime, fetched, lastSeen, attempts, sightings>>

\* the gas price is read a second time
PriceChain ==
  /\ dexPc = "pricing" /\ left # <<>>
  /\ LET chain == Head(left)
     IN \E health, reading \in GasReadings, p \in NativePools(PoolsOf(chain), chain) :
          LET gas == GasCost(chain, PriceOf(p, Native[chain]), reading)
          IN /\ ~Skipped(chain, health)
             /\ ~GasRaises(chain, reading)
             /\ \E found \in {FoundOn(chain, gas)} : \E twins \in {Twins(found, gas)} :
                  LET keys == {DexKey(o) : o \in found \cup {x[2] : x \in twins}}
                  IN /\ attempts' = attempts \cup
                          {[cycle |-> cycle, opp |-> o] : o \in Attempted(found, twins)}
                     /\ sightings' = sightings \cup {<<cycle, k>> : k \in keys}
                     /\ lastSeen' = [k \in keys \cup DOMAIN lastSeen |->
                                       IF k \in keys THEN scanTime ELSE lastSeen[k]]
  /\ left' = Tail(left)
  /\ UNCHANGED <<dexPc, cycle, scanTime, fetched>>

\* Without a gas price the cycle ends, for the chains after this one too; so it
\* does when the database fails.
CycleRaises ==
  /\ dexPc = "pricing" /\ left # <<>>
  /\ dexPc' = "asleep"
  /\ UNCHANGED <<cycle, scanTime, fetched, left, lastSeen, attempts, sightings>>

EndCycle ==
  /\ dexPc = "pricing" /\ left = <<>>
  /\ dexPc' = "asleep"
  /\ lastSeen' = [k \in {k \in DOMAIN lastSeen : StillWatched(k)} |-> lastSeen[k]]
  /\ UNCHANGED <<cycle, scanTime, fetched, left, attempts, sightings>>

DexInit ==
  /\ dexPc = "asleep" /\ cycle = 0 /\ scanTime = 0
  /\ fetched = <<>> /\ left = <<>>
  /\ lastSeen = [k \in {} |-> 0]
  /\ attempts = {} /\ sightings = {}

DexNext ==
  \/ BeginCycle \/ FetchVenue \/ AllFetched
  \/ SkipChain \/ PriceChain \/ CycleRaises \/ EndCycle

DexSpec == DexInit /\ [][DexNext]_dexVars

-----------------------------------------------------------------------------

(* A price gap that is there cycle after cycle is attempted once, not once *)
(* a cycle: what was observed in a cycle is not attempted in the next, as  *)
(* long as a cycle takes no more than another poll interval.               *)
PersistentGapAttemptedOnce ==
  \A a \in attempts : <<a.cycle - 1, DexKey(a.opp)>> \notin sightings

(* Only the sequential version of an opportunity is ever attempted: the    *)
(* bundle, which pays gas even when it reverts, is worth less whatever the *)
(* profit, so its row is the duplicate, in this cycle and when it shows up *)
(* in a later one.                                                         *)
TwinNeverAttempted == \A a \in attempts : a.opp.strategy # "atomic"

PoolsUsed(o) == {o.route[i] : i \in DOMAIN o.route} \ Tokens

(* One price gap is attempted once: of the opportunities a cycle finds in  *)
(* the same pools only one is.                                             *)
OneAttemptPerGap ==
  \A a, b \in attempts : a.cycle = b.cycle /\ PoolsUsed(a.opp) = PoolsUsed(b.opp) => a = b
=============================================================================
