-------------------------- MODULE PaperLedgerProofs --------------------------
(***************************************************************************)
(* Theorems about the paper ledger: its rows, its locks and its trackers   *)
(* agree over failed scans, crashes, restarts and forced exits.            *)
(***************************************************************************)
EXTENDS PaperLedger, Sums

-----------------------------------------------------------------------------
(* The net total of a ledger                                               *)

\* and a greatest one
LEMMA GreatestNumber ==
  ASSUME NEW N \in Nat, NEW F, F \subseteq 1..N, F # {}
  PROVE  \E n \in F : \A m \in F : m <= n
<1> DEFINE G == {N - n : n \in F}
<1>1. G \subseteq 0..N /\ G # {}
  <2>1. ASSUME NEW n \in F PROVE N - n \in 0..N
    <3>1. n \in Nat /\ n <= N
      BY <2>1
    <3> QED  BY <3>1
  <2>2. PICK n \in F : TRUE
    OBVIOUS
  <2> QED  BY <2>1, <2>2
<1>2. PICK g \in G : \A h \in G : g <= h
  BY <1>1, LeastNumber
<1>3. PICK n \in F : g = N - n
  BY <1>2
<1>4. ASSUME NEW m \in F PROVE m <= n
  <2>1. g <= N - m
    BY <1>2
  <2> QED  BY <2>1, <1>3
<1> QED  BY <1>4

LEMMA NetOfNone == NetTotal(<<>>) = 0
<1>1. DOMAIN <<>> = {}
  OBVIOUS
<1> DEFINE f == [i \in DOMAIN <<>> |-> <<>>[i].net]
<1>2. NetTotal(<<>>) = SumFunctionOnSet(f, {})
  BY <1>1 DEF NetTotal, SumFunction, SumFunctionOnSet, FoldFunction
<1> HIDE DEF f
<1> QED  BY <1>2, SumOfNone

LEMMA NetIsInt == ASSUME NEW s \in Seq(TradeRow) PROVE NetTotal(s) \in Int
<1> DEFINE f == [i \in DOMAIN s |-> s[i].net]
<1>1. IsFiniteSet(DOMAIN s) /\ \A i \in DOMAIN s : f[i] \in Int
  <2>1. DOMAIN s = 1..Len(s) /\ Len(s) \in Nat
    OBVIOUS
  <2>2. 1 \in Int /\ Len(s) \in Int
    BY <2>1
  <2>3. \A i \in DOMAIN s : s[i] \in TradeRow
    OBVIOUS
  <2> QED  BY <2>1, <2>2, <2>3, FS_Interval DEF TradeRow
<1>2. NetTotal(s) = SumFunctionOnSet(f, DOMAIN s)
  BY DEF NetTotal, SumFunction, SumFunctionOnSet, FoldFunction
<1> HIDE DEF f
<1> QED  BY <1>1, <1>2, SumInt

\* a row appended adds its net
LEMMA NetOfAppend ==
  ASSUME NEW s \in Seq(TradeRow), NEW row \in TradeRow
  PROVE  NetTotal(Append(s, row)) = NetTotal(s) + row.net
<1> DEFINE n == Len(s)
           t == Append(s, row)
           f == [i \in DOMAIN s |-> s[i].net]
           g == [i \in DOMAIN t |-> t[i].net]
<1>1. /\ n \in Nat /\ DOMAIN s = 1..n /\ DOMAIN t = (1..n) \cup {n + 1} /\ n + 1 \notin 1..n
      /\ t[n + 1] = row
      /\ \A i \in 1..n : t[i] = s[i] /\ s[i] \in TradeRow
  OBVIOUS
<1>2. IsFiniteSet(1..n)
  <2>1. 1 \in Int /\ n \in Int
    BY <1>1
  <2> QED  BY <2>1, FS_Interval
<1>3. /\ NetTotal(s) = SumFunctionOnSet(f, 1..n)
      /\ NetTotal(t) = SumFunctionOnSet(g, (1..n) \cup {n + 1})
  BY <1>1 DEF NetTotal, SumFunction, SumFunctionOnSet, FoldFunction
<1>4. /\ \A i \in 1..n : f[i] \in Int /\ g[i] \in Int /\ f[i] = g[i]
      /\ g[n + 1] = row.net /\ row.net \in Int
  BY <1>1 DEF TradeRow
<1> HIDE DEF f, g, n, t
<1>5. NetTotal(t) = g[n + 1] + SumFunctionOnSet(g, 1..n)
  BY <1>1, <1>2, <1>3, <1>4, SumAdd
<1>6. SumFunctionOnSet(f, 1..n) = SumFunctionOnSet(g, 1..n) /\ SumFunctionOnSet(f, 1..n) \in Int
  BY <1>2, <1>4, SumSame, SumInt
<1> QED  BY <1>3, <1>4, <1>5, <1>6 DEF t

\* by the first prefix of the second ledger for which it would fail
LEMMA NetOfBoth ==
  ASSUME NEW s \in Seq(TradeRow), NEW t \in Seq(TradeRow)
  PROVE  NetTotal(s \o t) = NetTotal(s) + NetTotal(t)
<1> DEFINE N == Len(t)
           head(n) == SubSeq(t, 1, n)
           F == {n \in 0..N : NetTotal(s \o head(n)) # NetTotal(s) + NetTotal(head(n))}
<1>1. N \in Nat /\ F \subseteq 0..N
  OBVIOUS
<1>2. \A n \in 0..N : head(n) \in Seq(TradeRow)
  OBVIOUS
<1>3. 0 \notin F
  <2>1. head(0) = <<>>
    OBVIOUS
  <2>2. s \o <<>> = s
    OBVIOUS
  <2>3. NetTotal(s \o head(0)) = NetTotal(s) + NetTotal(head(0))
    <3>1. NetTotal(s) \in Int
      BY NetIsInt
    <3>2. NetTotal(head(0)) = 0 /\ s \o head(0) = s
      BY <2>1, <2>2, NetOfNone
    <3>3. NetTotal(s \o head(0)) = NetTotal(s)
      BY <3>2
    <3>4. NetTotal(s) = NetTotal(s) + 0
      BY <3>1
    <3> HIDE DEF head
    <3> QED  BY <3>2, <3>3, <3>4
  <2> QED  BY <2>3
<1>4. ASSUME NEW n \in F, \A m \in F : n <= m PROVE FALSE
  <2>1. n \in 1..N /\ n - 1 \in 0..N /\ n - 1 \notin F
    BY <1>1, <1>3, <1>4
  <2> DEFINE u == head(n - 1)
  <2>2. u \in Seq(TradeRow) /\ t[n] \in TradeRow /\ s \o u \in Seq(TradeRow)
    BY <1>2, <2>1
  <2>3. head(n) = Append(u, t[n])
    BY <2>1
  <2>4. s \o Append(u, t[n]) = Append(s \o u, t[n])
    BY <2>2
  <2>5. NetTotal(s \o u) = NetTotal(s) + NetTotal(u)
    BY <2>1
  <2> HIDE DEF u
  <2>6. /\ NetTotal(Append(s \o u, t[n])) = NetTotal(s \o u) + t[n].net
        /\ NetTotal(Append(u, t[n])) = NetTotal(u) + t[n].net
    BY <2>2, NetOfAppend
  <2>7. NetTotal(u) \in Int /\ NetTotal(s) \in Int /\ t[n].net \in Int
    BY <2>2, NetIsInt DEF TradeRow
  <2>8. NetTotal(s \o head(n)) # NetTotal(s) + NetTotal(head(n))
    BY <1>4
  <2> HIDE DEF head
  <2> QED  BY <2>3, <2>4, <2>5, <2>6, <2>7, <2>8
<1>5. F = {}
  BY <1>1, <1>4, LeastNumber
<1>6. N \in 0..N /\ head(N) = t
  OBVIOUS
<1> QED  BY <1>5, <1>6

-----------------------------------------------------------------------------
(* The invariant                                                           *)

Ledger == db \o rows
InScan == pc \in {"scanning", "deciding", "trading"}
LockRec == [amount : Nat, expiry : Nat, opened : Nat]
TrackRec == [seen : Nat, row : {"none", "pending", "saved", "lost"}]

PaperTypeOK ==
  /\ now \in Nat /\ Start <= now
  /\ db \in Seq(TradeRow) /\ rows \in Seq(TradeRow)
  /\ pc \in {"down", "sleeping", "scanning", "deciding", "trading", "checking"}
  /\ scan \in Nat /\ scan <= now
  /\ todo \subseteq Opps
  /\ pc \in {"deciding", "trading"} => opp \in Opps
  /\ broken \in BOOLEAN /\ kill \in BOOLEAN /\ lastCheck \in Nat
  /\ balance \in Int /\ drift \in Int
  /\ locks \in [PositionKeys -> LockRec]
  /\ tracker \in [PositionKeys -> Nat]
  /\ tracked \in [Opps -> TrackRec]

\* rows are flushed during a scan only, and a process that is down forgot its drift
AtRest ==
  /\ ~InScan => rows = <<>>
  /\ pc = "down" => drift = 0

\* Only old positions are forced out, and what a position keeps locked is positive.
LedgerOK ==
  \A i \in DOMAIN Ledger :
    /\ Ledger[i].at <= now
    /\ Ledger[i].kind = "exit" => Ledger[i].key \in LegacyKeys
    /\ Ledger[i].kind = "open" => Ledger[i].capital + Ledger[i].net > 0

\* A lock runs for the holding time of its key; that of an old position is of a
\* committed row, and no exit of its key is in the ledger.
LocksOK ==
  \A k \in PositionKeys : locks[k].expiry > 0 =>
    /\ locks[k].expiry = locks[k].opened + Holding[k]
    /\ k \in LegacyKeys =>
         /\ \E i \in DOMAIN db :
              db[i].key = k /\ db[i].kind = "open" /\ locks[k].amount = db[i].capital + db[i].net
         /\ \A i \in DOMAIN Ledger : Ledger[i].key = k => Ledger[i].kind = "open"

\* A lock never outlasts the block of its key, and the key that is traded is free.
TrackerOK ==
  /\ \A k \in PositionKeys : locks[k].expiry <= tracker[k]
  /\ pc = "deciding" => tracker[Position[opp]] <= scan
  /\ pc = "trading" => tracker[Position[opp]] = scan + Holding[Position[opp]] + ReentryDelay

\* A position that is still open blocks its key; none of the key that is traded is.
Horizon == IF InScan THEN scan ELSE now
RowsOK ==
  /\ pc # "down" =>
       \A i \in DOMAIN Ledger : Ledger[i].key \notin LegacyKeys =>
         ClosesAt(Ledger[i]) <= tracker[Ledger[i].key] \/ ClosesAt(Ledger[i]) <= Horizon
  /\ pc \in {"deciding", "trading"} =>
       \A i \in DOMAIN Ledger : Ledger[i].key = Position[opp] => ClosesAt(Ledger[i]) <= scan

-----------------------------------------------------------------------------
(* Locks                                                                   *)

LEMMA PaperConstants ==
  /\ IsFiniteSet(PositionKeys) /\ LegacyKeys \subseteq PositionKeys
  /\ \A o \in Opps : /\ Position[o] \in PositionKeys /\ Position[o] \notin LegacyKeys
                     /\ Capital[o] \in Nat
  /\ \A k \in PositionKeys : Holding[k] \in Nat /\ Holding[k] > 0
  /\ \A k \in PositionKeys : k \notin LegacyKeys => Holding[k] <= HardStop
  /\ Initial \in Nat /\ PerTradeCap \in Nat /\ MaxPositions \in Nat
  /\ UnwindCost \in Nat /\ ReentryDelay \in Nat /\ HardStop \in Nat /\ Start \in Nat
  /\ Liveness \in Nat
  /\ \A net \in Nets : net \in Int
<1>1. \A x \in {Initial, PerTradeCap, MaxPositions, CheckInterval} : x \in Nat
  BY LedgerAssumption DEF LedgerAssumption
<1>2. \A x \in {UnwindCost, ReentryDelay, HardStop, Liveness, Start, MaxTime} : x \in Nat
  BY LedgerAssumption DEF LedgerAssumption
<1>3. \A k \in PositionKeys : Holding[k] \in Nat /\ Holding[k] > 0
  BY LedgerAssumption DEF LedgerAssumption
<1> QED  BY <1>1, <1>2, <1>3, LedgerAssumption DEF LedgerAssumption

LEMMA LockTotals ==
  ASSUME NEW l \in [PositionKeys -> LockRec]
  PROVE  /\ LockedTotal(l) = SumFunctionOnSet([k \in PositionKeys |-> l[k].amount], PositionKeys)
         /\ LockedTotal(l) \in Nat
<1> DEFINE f == [k \in PositionKeys |-> l[k].amount]
<1>1. LockedTotal(l) = SumFunctionOnSet(f, PositionKeys)
  BY DEF LockedTotal, SumFunction, SumFunctionOnSet, FoldFunction
<1>2. \A k \in PositionKeys : f[k] \in Nat
  BY DEF LockRec
<1> HIDE DEF f
<1>3. SumFunctionOnSet(f, PositionKeys) \in Nat
  BY <1>2, SumNat, PaperConstants
<1> QED  BY <1>1, <1>3 DEF f

\* one lock replaced
LEMMA LockReplaced ==
  ASSUME NEW l \in [PositionKeys -> LockRec], NEW key \in PositionKeys, NEW lock \in LockRec
  PROVE  /\ [l EXCEPT ![key] = lock] \in [PositionKeys -> LockRec]
         /\ LockedTotal([l EXCEPT ![key] = lock]) = LockedTotal(l) - l[key].amount + lock.amount
<1> DEFINE m == [l EXCEPT ![key] = lock]
           f == [k \in PositionKeys |-> l[k].amount]
           g == [k \in PositionKeys |-> m[k].amount]
<1>1. /\ m \in [PositionKeys -> LockRec] /\ m[key] = lock
      /\ \A k \in PositionKeys : k # key => m[k] = l[k]
  OBVIOUS
<1>2. LockedTotal(l) = SumFunctionOnSet(f, PositionKeys)
  BY LockTotals
<1>3. LockedTotal(m) = SumFunctionOnSet(g, PositionKeys)
  BY <1>1, LockTotals
<1>4. /\ \A k \in PositionKeys : f[k] \in Int /\ g[k] \in Int
      /\ \A k \in PositionKeys : k # key => g[k] = f[k]
      /\ f[key] = l[key].amount /\ g[key] = lock.amount
  <2> HIDE DEF m
  <2> QED  BY <1>1 DEF LockRec
<1> HIDE DEF f, g
<1>5. SumFunctionOnSet(g, PositionKeys) = SumFunctionOnSet(f, PositionKeys) - f[key] + g[key]
  BY <1>4, SumChange, PaperConstants
<1> QED  BY <1>1, <1>2, <1>3, <1>4, <1>5

LEMMA NoLockIsLock == NoLock \in LockRec /\ NoLock.amount = 0 /\ NoLock.expiry = 0
  BY DEF NoLock, LockRec

\* pruning drops whole locks, and only what has expired
LEMMA Pruning ==
  ASSUME NEW l \in [PositionKeys -> LockRec], NEW t \in Nat
  PROVE  /\ PrunedLocks(l, t) \in [PositionKeys -> LockRec]
         /\ \A k \in PositionKeys :
              \/ PrunedLocks(l, t)[k] = l[k] /\ l[k].expiry > t
              \/ PrunedLocks(l, t)[k] = NoLock
         /\ LockedTotal(PrunedLocks(l, t)) <= LockedTotal(l)
<1> DEFINE m == PrunedLocks(l, t)
           f == [k \in PositionKeys |-> l[k].amount]
           g == [k \in PositionKeys |-> m[k].amount]
<1>1. \A k \in PositionKeys : l[k].amount \in Nat /\ l[k].expiry \in Nat
  BY DEF LockRec
<1>2. /\ m \in [PositionKeys -> LockRec]
      /\ \A k \in PositionKeys : \/ m[k] = l[k] /\ l[k].expiry > t
                                 \/ m[k] = NoLock
  BY <1>1, NoLockIsLock DEF PrunedLocks
<1>3. LockedTotal(l) = SumFunctionOnSet(f, PositionKeys)
  BY LockTotals
<1>4. LockedTotal(m) = SumFunctionOnSet(g, PositionKeys)
  BY <1>2, LockTotals
<1>5. \A k \in PositionKeys : g[k] \in Int /\ f[k] \in Int /\ g[k] <= f[k]
  <2> HIDE DEF m
  <2> QED  BY <1>1, <1>2, NoLockIsLock
<1> HIDE DEF f, g
<1>6. SumFunctionOnSet(g, PositionKeys) <= SumFunctionOnSet(f, PositionKeys)
  BY <1>5, SumAtMost, PaperConstants
<1> QED  BY <1>2, <1>3, <1>4, <1>6

\* without locks nothing is locked
LEMMA NothingLocked ==
  LET none == [k \in PositionKeys |-> NoLock]
  IN  none \in [PositionKeys -> LockRec] /\ LockedTotal(none) = 0
<1> DEFINE none == [k \in PositionKeys |-> NoLock]
           f == [k \in PositionKeys |-> none[k].amount]
<1>1. none \in [PositionKeys -> LockRec]
  BY NoLockIsLock
<1>2. LockedTotal(none) = SumFunctionOnSet(f, PositionKeys)
  BY <1>1, LockTotals
<1>3. \A k \in PositionKeys : f[k] = 0
  BY NoLockIsLock
<1> HIDE DEF f
<1>4. SumFunctionOnSet(f, PositionKeys) = 0
  BY <1>3, SumOfZeros, PaperConstants
<1> QED  BY <1>1, <1>2, <1>4

-----------------------------------------------------------------------------
(* The steps that write rows                                               *)

LEMMA LedgerIs ==
  ASSUME PaperTypeOK
  PROVE  /\ Ledger \in Seq(TradeRow)
         /\ Len(Ledger) \in Nat /\ DOMAIN Ledger = 1..Len(Ledger)
         /\ \A i \in DOMAIN Ledger : Ledger[i] \in TradeRow
         /\ \A i \in DOMAIN db : i \in DOMAIN Ledger /\ Ledger[i] = db[i]
         /\ rows = <<>> => Ledger = db
<1>1. db \in Seq(TradeRow) /\ rows \in Seq(TradeRow)
  BY DEF PaperTypeOK
<1>2. Ledger \in Seq(TradeRow)
  BY <1>1 DEF Ledger
<1>3. Len(Ledger) \in Nat /\ DOMAIN Ledger = 1..Len(Ledger)
  BY <1>2
<1>4. \A i \in DOMAIN Ledger : Ledger[i] \in TradeRow
  BY <1>2
<1>5. \A i \in DOMAIN db : i \in DOMAIN Ledger /\ Ledger[i] = db[i]
  BY <1>1 DEF Ledger
<1>6. rows = <<>> => Ledger = db
  BY <1>1 DEF Ledger
<1> QED  BY <1>2, <1>3, <1>4, <1>5, <1>6

\* what a step that appends a row does to the ledger
Appends(row) ==
  /\ Ledger' = Append(Ledger, row) /\ db' = db
  /\ DOMAIN Ledger' = DOMAIN Ledger \cup {Len(Ledger) + 1}
  /\ Ledger'[Len(Ledger) + 1] = row
  /\ \A i \in DOMAIN Ledger : Ledger'[i] = Ledger[i] /\ i < Len(Ledger) + 1

\* and a step that appends none
Keeps ==
  /\ \A i \in DOMAIN Ledger' : i \in DOMAIN Ledger /\ Ledger'[i] = Ledger[i]
  /\ \A i \in DOMAIN db : i \in DOMAIN db' /\ db'[i] = db[i]

LEMMA RowAppended ==
  ASSUME PaperTypeOK, NEW row \in TradeRow, db' = db, rows' = Append(rows, row)
  PROVE  Appends(row)
<1>1. db \in Seq(TradeRow) /\ rows \in Seq(TradeRow)
  BY DEF PaperTypeOK
<1>2. Ledger' = db \o Append(rows, row)
  BY DEF Ledger
<1>3. db \o Append(rows, row) = Append(db \o rows, row)
  BY <1>1
<1>4. Ledger' = Append(Ledger, row)
  BY <1>2, <1>3 DEF Ledger
<1>5. Ledger \in Seq(TradeRow)
  BY LedgerIs
<1> DEFINE s == Ledger
           t == Append(s, row)
<1>6. s \in Seq(TradeRow)
  BY <1>5
<1> HIDE DEF s
<1>7. /\ DOMAIN t = DOMAIN s \cup {Len(s) + 1} /\ t[Len(s) + 1] = row
      /\ \A i \in DOMAIN s : t[i] = s[i] /\ i < Len(s) + 1
  BY <1>6
<1> QED  BY <1>4, <1>7 DEF s, Appends

LEMMA RowsDropped ==
  ASSUME PaperTypeOK, db' = db, rows' = <<>>
  PROVE  Keeps /\ Ledger' = db
<1>1. db \in Seq(TradeRow)
  BY DEF PaperTypeOK
<1>2. Ledger' = db
  BY <1>1 DEF Ledger
<1> QED  BY <1>2, LedgerIs DEF Keeps

LEMMA RowsCommitted ==
  ASSUME PaperTypeOK, db' = db \o rows, rows' = <<>>
  PROVE  Keeps /\ Ledger' = Ledger
<1>1. db \in Seq(TradeRow) /\ rows \in Seq(TradeRow)
  BY DEF PaperTypeOK
<1>2. Ledger' = Ledger
  BY <1>1 DEF Ledger
<1>3. db' = Ledger
  BY DEF Ledger
<1> QED  BY <1>2, <1>3, LedgerIs DEF Keeps

LEMMA RowsUnchanged ==
  ASSUME db' = db, rows' = rows
  PROVE  Keeps /\ Ledger' = Ledger
<1>1. Ledger' = Ledger
  BY DEF Ledger
<1> QED  BY <1>1 DEF Keeps

\* what a simulated trade credits and locks
TradeLock(net) ==
  [amount |-> TradedCapital + net, expiry |-> scan + Holding[Position[opp]], opened |-> scan]
NewRow(net) ==
  [key |-> Position[opp], capital |-> TradedCapital, net |-> net, at |-> scan, kind |-> "open"]

LEMMA Credited ==
  ASSUME PaperTypeOK, pc = "trading", NEW net \in Nets, Credit(TradedCapital, net)
  PROVE  /\ Position[opp] \in PositionKeys /\ Position[opp] \notin LegacyKeys
         /\ TradedCapital \in Nat /\ TradedCapital + net > 0
         /\ TradedCapital <= balance - LockedTotal(PrunedLocks(locks, scan))
         /\ balance' = balance + net /\ balance' \in Int
         /\ locks' = [PrunedLocks(locks, scan) EXCEPT ![Position[opp]] = TradeLock(net)]
         /\ TradeLock(net) \in LockRec /\ NewRow(net) \in TradeRow
<1> DEFINE free == balance - LockedTotal(PrunedLocks(locks, scan))
<1>1. opp \in Opps /\ scan \in Nat /\ balance \in Int /\ locks \in [PositionKeys -> LockRec]
  BY DEF PaperTypeOK
<1>2. Position[opp] \in PositionKeys /\ Position[opp] \notin LegacyKeys
  BY <1>1, PaperConstants
<1>3. Holding[Position[opp]] \in Nat /\ Capital[opp] \in Nat /\ PerTradeCap \in Nat /\ net \in Int
  BY <1>1, <1>2, PaperConstants
<1>4. free \in Int
  <2>1. LockedTotal(PrunedLocks(locks, scan)) \in Nat
    BY <1>1, Pruning, LockTotals
  <2> QED  BY <1>1, <2>1
<1>5. TradedCapital = Min2(Capital[opp], Min2(Max2(0, free), PerTradeCap))
  BY DEF TradedCapital, FreeCapital
<1> HIDE DEF free
<1>6. TradedCapital \in Nat /\ TradedCapital <= Max2(0, free)
  BY <1>3, <1>4, <1>5 DEF Min2, Max2
<1>7. TradedCapital > 0 /\ TradedCapital + net > 0 /\ balance' = balance + net
  BY DEF Credit
<1>8. TradedCapital <= free
  BY <1>4, <1>6, <1>7 DEF Max2
<1>9. locks' = [PrunedLocks(locks, scan) EXCEPT ![Position[opp]] = TradeLock(net)]
  BY DEF Credit, TradeLock
<1>10. TradeLock(net) \in LockRec
  BY <1>1, <1>3, <1>6, <1>7 DEF TradeLock, LockRec
<1>11. NewRow(net) \in TradeRow
  BY <1>1, <1>2, <1>3, <1>6 DEF NewRow, TradeRow
<1> QED  BY <1>1, <1>2, <1>3, <1>6, <1>7, <1>8, <1>9, <1>10, <1>11 DEF free

\* only old positions are overdue, and each has a row to reverse
LEMMA OverduePositions ==
  ASSUME PaperTypeOK, LocksOK, NEW k \in Overdue
  PROVE  /\ k \in PositionKeys /\ k \in LegacyKeys
         /\ PrunedLocks(locks, scan)[k] = locks[k] /\ locks[k].expiry > 0
         /\ \E i \in DOMAIN Ledger :
              OpeningTrade(k) = Ledger[i] /\ Ledger[i].key = k /\ Ledger[i].kind = "open"
         /\ OpeningTrade(k) \in TradeRow
         /\ OpeningTrades(k) # {}
<1>1. /\ k \in PositionKeys /\ PrunedLocks(locks, scan)[k].expiry > 0
      /\ scan - locks[k].opened > HardStop
  BY DEF Overdue
<1>2. locks \in [PositionKeys -> LockRec] /\ scan \in Nat
  BY DEF PaperTypeOK
<1>3. PrunedLocks(locks, scan)[k] = locks[k] /\ locks[k].expiry > scan
  BY <1>1, <1>2, Pruning, NoLockIsLock
<1>4. locks[k].opened \in Nat /\ locks[k].expiry \in Nat
  BY <1>1, <1>2 DEF LockRec
<1>5. locks[k].expiry > 0 /\ locks[k].expiry = locks[k].opened + Holding[k]
  BY <1>1, <1>2, <1>3, <1>4 DEF LocksOK
<1>6. k \in LegacyKeys
  BY <1>1, <1>2, <1>3, <1>4, <1>5, PaperConstants
<1> DEFINE F == OpeningTrades(k)
<1>0. F = {i \in DOMAIN Ledger : Ledger[i].key = k /\ Ledger[i].kind = "open"}
  BY DEF OpeningTrades, Ledger
<1> HIDE DEF F
<1>7. F # {}
  <2>1. PICK i \in DOMAIN db : db[i].key = k /\ db[i].kind = "open"
    BY <1>1, <1>5, <1>6 DEF LocksOK
  <2>2. i \in F
    BY <1>0, <2>1, LedgerIs
  <2> QED  BY <2>2
<1>8. Len(Ledger) \in Nat /\ F \subseteq 1..Len(Ledger)
  BY <1>0, LedgerIs
<1>9. \E n \in F : \A m \in F : m <= n
  BY <1>7, <1>8, GreatestNumber
<1>10. PICK i \in F : OpeningTrade(k) = Ledger[i]
  BY <1>9 DEF OpeningTrade, Ledger, F
<1> QED  BY <1>0, <1>1, <1>3, <1>5, <1>6, <1>7, <1>10, LedgerIs DEF F

-----------------------------------------------------------------------------
(* Recovery                                                                *)

RowLock(row) ==
  [amount |-> row.capital + row.net, expiry |-> ClosesAt(row), opened |-> row.at]

\* one row of the recovery, and the recovery of the first n
RecoverRow(l, i) ==
  IF Recovered(i) /\ Fits(l, RecoveredBalance, db[i].key, db[i].capital + db[i].net)
  THEN [l EXCEPT ![db[i].key] = RowLock(db[i])]
  ELSE l
Recovers(l, n) ==
  l = [i \in 0..n |-> IF i = 0 THEN [k \in PositionKeys |-> NoLock] ELSE RecoverRow(l[i - 1], i)]

LEMMA RecoveryStep ==
  ASSUME NEW n \in Nat, NEW l, Recovers(l, n)
  PROVE  /\ l[0] = [k \in PositionKeys |-> NoLock]
         /\ \A i \in 1..n : l[i] = RecoverRow(l[i - 1], i)
<1> DEFINE F(i) == IF i = 0 THEN [k \in PositionKeys |-> NoLock] ELSE RecoverRow(l[i - 1], i)
<1>1. l = [i \in 0..n |-> F(i)]
  BY DEF Recovers
<1>2. \A i \in 0..n : l[i] = F(i)
  <2> HIDE DEF F
  <2> QED  BY <1>1
<1>3. 0 \in 0..n /\ \A i \in 1..n : i \in 0..n /\ i # 0
  OBVIOUS
<1> QED  BY <1>2, <1>3

\* by the first number of rows for which there would be no recovery
LEMMA RecoveryExists ==
  ASSUME NEW N \in Nat
  PROVE  \E l : Recovers(l, N)
<1> DEFINE none == [k \in PositionKeys |-> NoLock]
           F == {n \in 0..N : ~ \E l : Recovers(l, n)}
<1>1. F \subseteq 0..N
  OBVIOUS
<1>2. 0 \notin F
  <2> DEFINE l == [i \in 0..0 |-> none]
  <2>1. Recovers(l, 0)
    <3>1. \A i \in 0..0 : i = 0
      OBVIOUS
    <3> DEFINE G(i) == IF i = 0 THEN none ELSE RecoverRow(l[i - 1], i)
    <3>2. \A i \in 0..0 : G(i) = none
      BY <3>1
    <3> HIDE DEF G
    <3>3. l = [i \in 0..0 |-> G(i)]
      BY <3>2
    <3> QED  BY <3>3 DEF G, Recovers
  <2> QED  BY <2>1
<1>3. ASSUME NEW n \in F, \A m \in F : n <= m PROVE FALSE
  <2>1. n \in Nat /\ n > 0 /\ n - 1 \in 0..N /\ n - 1 \notin F
    BY <1>1, <1>2, <1>3
  <2>2. PICK h : Recovers(h, n - 1)
    BY <2>1
  <2>3. n - 1 \in Nat
    BY <2>1
  <2>4. h[0] = none /\ \A i \in 1..(n - 1) : h[i] = RecoverRow(h[i - 1], i)
    BY <2>2, <2>3, RecoveryStep
  <2> DEFINE l == [i \in 0..n |-> IF i = n THEN RecoverRow(h[n - 1], n) ELSE h[i]]
             G(i) == IF i = 0 THEN none ELSE RecoverRow(l[i - 1], i)
  <2>5. ASSUME NEW i \in 0..n PROVE l[i] = G(i)
    <3>1. CASE i = 0
      <4>1. l[0] = h[0]
        BY <2>1, <3>1
      <4> QED  BY <2>4, <3>1, <4>1
    <3>2. CASE i = n
      <4>1. l[n - 1] = h[n - 1] /\ n # 0
        BY <2>1
      <4>2. l[n] = RecoverRow(h[n - 1], n)
        BY <2>1
      <4> HIDE DEF l
      <4> QED  BY <3>2, <4>1, <4>2
    <3>3. CASE i # 0 /\ i # n
      <4>1. i \in 1..(n - 1) /\ i - 1 \in 0..n /\ i - 1 # n
        BY <2>1, <3>3
      <4>2. l[i] = h[i] /\ l[i - 1] = h[i - 1]
        BY <3>3, <4>1
      <4>3. h[i] = RecoverRow(h[i - 1], i)
        BY <2>4, <4>1
      <4> HIDE DEF l
      <4> QED  BY <3>3, <4>2, <4>3
    <3> QED  BY <3>1, <3>2, <3>3
  <2>6. Recovers(l, n)
    <3>1. l = [i \in 0..n |-> G(i)]
      <4> HIDE DEF G
      <4> QED  BY <2>5
    <3> QED  BY <3>1 DEF G, Recovers
  <2>7. \E m : Recovers(m, n)
    BY <2>6
  <2> QED  BY <2>7
<1>4. F = {}
  BY <1>1, <1>3, LeastNumber
<1> QED  BY <1>4

LEMMA RecoveredLocksAre ==
  ASSUME db \in Seq(TradeRow)
  PROVE  \E l : Recovers(l, Len(db)) /\ RecoveredLocks = l[Len(db)]
<1>1. Len(db) \in Nat
  OBVIOUS
<1>2. \E l : Recovers(l, Len(db))
  BY <1>1, RecoveryExists
<1>3. RecoveredLocks = (CHOOSE l : Recovers(l, Len(db)))[Len(db)]
  BY DEF RecoveredLocks, Recovers, RecoverRow, RowLock
<1> QED  BY <1>2, <1>3

\* What a recovery gives back: nothing or the lock of a recovered row, and never more
\* in all than the capital recovered.
RecoveryOK(l, n) ==
  /\ l \in [PositionKeys -> LockRec]
  /\ \A k \in PositionKeys :
       \/ l[k] = NoLock
       \/ \E i \in 1..n : Recovered(i) /\ db[i].key = k /\ l[k] = RowLock(db[i])
  /\ LockedTotal(l) <= Max2(0, RecoveredBalance)

LEMMA RecoveredRow ==
  ASSUME PaperTypeOK, LedgerOK, NEW i \in DOMAIN db, Recovered(i)
  PROVE  /\ db[i] \in TradeRow /\ RowLock(db[i]) \in LockRec
         /\ db[i].key \in PositionKeys /\ db[i].kind = "open" /\ ClosesAt(db[i]) > now
         /\ \A j \in DOMAIN db : db[j].key = db[i].key => db[j].kind = "open"
<1>1. db[i] \in TradeRow /\ now \in Nat /\ db \in Seq(TradeRow)
  BY DEF PaperTypeOK
<1>2. /\ db[i].kind = "open" /\ ClosesAt(db[i]) > now
      /\ ~ \E j \in DOMAIN db : db[j].key = db[i].key /\ db[j].kind = "exit"
  BY DEF Recovered, StillOpen, ForceClosed
<1>3. \A j \in DOMAIN db : db[j].kind \in {"open", "exit"}
  <2>1. \A j \in DOMAIN db : db[j] \in TradeRow
    BY <1>1
  <2> QED  BY <2>1 DEF TradeRow
<1>4. db[i].capital + db[i].net > 0
  BY <1>2, LedgerIs DEF LedgerOK
<1>5. db[i].key \in PositionKeys /\ db[i].at \in Nat /\ db[i].capital + db[i].net \in Nat
  BY <1>1, <1>4 DEF TradeRow
<1>6. ClosesAt(db[i]) \in Nat
  BY <1>5, PaperConstants DEF ClosesAt
<1>7. RowLock(db[i]) \in LockRec
  BY <1>5, <1>6 DEF RowLock, LockRec
<1> QED  BY <1>1, <1>2, <1>3, <1>5, <1>7

LEMMA RecoveredBalanceIsInt ==
  ASSUME PaperTypeOK PROVE RecoveredBalance \in Int
<1>1. NetTotal(db) \in Int
  BY NetIsInt DEF PaperTypeOK
<1> QED  BY <1>1, PaperConstants DEF RecoveredBalance

LEMMA RecoveryOfRow ==
  ASSUME PaperTypeOK, LedgerOK, NEW i \in DOMAIN db, NEW l, RecoveryOK(l, i - 1)
  PROVE  RecoveryOK(RecoverRow(l, i), i)
<1>0. i \in Nat /\ i > 0 /\ \A n \in 1..(i - 1) : n \in 1..i
  BY DEF PaperTypeOK
<1>1. CASE Recovered(i) /\ Fits(l, RecoveredBalance, db[i].key, db[i].capital + db[i].net)
  <2> DEFINE lock == RowLock(db[i])
             key == db[i].key
             m == [l EXCEPT ![key] = lock]
  <2>1. RecoverRow(l, i) = m
    BY <1>1 DEF RecoverRow
  <2>2. lock \in LockRec /\ key \in PositionKeys /\ l \in [PositionKeys -> LockRec]
    BY <1>1, RecoveredRow DEF RecoveryOK
  <2>3. lock.amount <= RecoveredBalance - (LockedTotal(l) - l[key].amount)
    BY <1>1 DEF Fits, RowLock
  <2>4. /\ m \in [PositionKeys -> LockRec]
        /\ LockedTotal(m) = LockedTotal(l) - l[key].amount + lock.amount
    <3> HIDE DEF lock, key
    <3> QED  BY <2>2, LockReplaced
  <2>5. ASSUME NEW k \in PositionKeys
        PROVE  \/ m[k] = NoLock
               \/ \E n \in 1..i : Recovered(n) /\ db[n].key = k /\ m[k] = RowLock(db[n])
    <3>1. CASE k = key
      <4>1. m[k] = lock
        BY <2>2, <3>1
      <4>2. i \in 1..i
        BY <1>0
      <4> QED  BY <1>1, <3>1, <4>1, <4>2
    <3>2. CASE k # key
      <4>1. m[k] = l[k]
        BY <2>2, <3>2
      <4>2. \/ l[k] = NoLock
            \/ \E n \in 1..(i - 1) : Recovered(n) /\ db[n].key = k /\ l[k] = RowLock(db[n])
        BY DEF RecoveryOK
      <4> HIDE DEF m
      <4> QED  BY <1>0, <4>1, <4>2
    <3> QED  BY <3>1, <3>2
  <2>6. LockedTotal(m) <= Max2(0, RecoveredBalance)
    <3>1. LockedTotal(l) \in Nat /\ RecoveredBalance \in Int
      BY <2>2, LockTotals, RecoveredBalanceIsInt
    <3>2. l[key].amount \in Nat /\ lock.amount \in Nat
      BY <2>2 DEF LockRec
    <3> HIDE DEF lock, key, m
    <3> QED  BY <2>3, <2>4, <3>1, <3>2 DEF Max2
  <2> HIDE DEF m
  <2> QED  BY <2>1, <2>4, <2>5, <2>6 DEF RecoveryOK
<1>2. CASE ~(Recovered(i) /\ Fits(l, RecoveredBalance, db[i].key, db[i].capital + db[i].net))
  <2>1. RecoverRow(l, i) = l
    BY <1>2 DEF RecoverRow
  <2> QED  BY <1>0, <2>1 DEF RecoveryOK
<1> QED  BY <1>1, <1>2

\* by the first row after which it would fail
LEMMA RecoveryIsSound ==
  ASSUME PaperTypeOK, LedgerOK
  PROVE  RecoveryOK(RecoveredLocks, Len(db))
<1> DEFINE N == Len(db)
<1>1. N \in Nat /\ DOMAIN db = 1..N /\ db \in Seq(TradeRow)
  BY DEF PaperTypeOK
<1>2. PICK l : Recovers(l, N) /\ RecoveredLocks = l[N]
  BY <1>1, RecoveredLocksAre
<1>3. /\ l[0] = [k \in PositionKeys |-> NoLock]
      /\ \A i \in 1..N : l[i] = RecoverRow(l[i - 1], i)
  BY <1>1, <1>2, RecoveryStep
<1> HIDE DEF N
<1> DEFINE F == {n \in 0..N : ~RecoveryOK(l[n], n)}
<1>4. F \subseteq 0..N
  OBVIOUS
<1>5. RecoveryOK(l[0], 0)
  <2>1. l[0] \in [PositionKeys -> LockRec] /\ LockedTotal(l[0]) = 0
    BY <1>3, NothingLocked
  <2>2. \A k \in PositionKeys : l[0][k] = NoLock
    BY <1>3
  <2>3. 0 <= Max2(0, RecoveredBalance)
    BY RecoveredBalanceIsInt DEF Max2
  <2> QED  BY <2>1, <2>2, <2>3 DEF RecoveryOK
<1>6. ASSUME NEW n \in F, \A m \in F : n <= m PROVE FALSE
  <2>1. n \in 1..N /\ n - 1 \in 0..N /\ n - 1 \notin F
    BY <1>1, <1>4, <1>5, <1>6
  <2>2. RecoveryOK(l[n - 1], n - 1)
    BY <2>1
  <2>3. RecoveryOK(RecoverRow(l[n - 1], n), n)
    BY <1>1, <2>1, <2>2, RecoveryOfRow
  <2> QED  BY <1>3, <2>1, <2>3
<1>7. F = {}
  BY <1>1, <1>4, <1>6, LeastNumber
<1>8. N \in 0..N
  BY <1>1
<1> QED  BY <1>2, <1>7, <1>8 DEF N

\* the trackers recovered block the key of every row that is recovered
LEMMA RecoveredTrackers ==
  ASSUME PaperTypeOK, LedgerOK
  PROVE  /\ RecoveredTracker \in [PositionKeys -> Nat]
         /\ \A i \in DOMAIN db :
              Recovered(i) => RecoveredTracker[db[i].key] = ClosesAt(db[i]) + ReentryDelay
<1>1. db \in Seq(TradeRow) /\ DOMAIN db = 1..Len(db) /\ Len(db) \in Nat
  BY DEF PaperTypeOK
<1> DEFINE rec(k, i) == db[i].key = k /\ Recovered(i)
           choice(k) == CHOOSE i \in DOMAIN db : rec(k, i)
<1>2. \A k \in PositionKeys : RecoveredTracker[k] =
        IF \E i \in DOMAIN db : rec(k, i) THEN ClosesAt(db[choice(k)]) + ReentryDelay ELSE 0
  BY DEF RecoveredTracker
<1>3. ASSUME NEW i \in DOMAIN db, Recovered(i)
      PROVE  ClosesAt(db[i]) + ReentryDelay \in Nat
  <2>1. RowLock(db[i]) \in LockRec
    BY <1>3, RecoveredRow
  <2>2. ClosesAt(db[i]) \in Nat
    BY <2>1 DEF RowLock, LockRec
  <2> QED  BY <2>2, PaperConstants
<1>4. ASSUME NEW i \in DOMAIN db, NEW j \in DOMAIN db, Recovered(i), Recovered(j),
             db[i].key = db[j].key
      PROVE  i = j
  <2>1. StillOpen(i) /\ StillOpen(j)
    BY <1>4 DEF Recovered
  <2>2. ~(i < j) /\ ~(j < i)
    BY <1>1, <1>4, <2>1 DEF Recovered
  <2> QED  BY <1>1, <2>2
<1>5. ASSUME NEW k \in PositionKeys, \E i \in DOMAIN db : rec(k, i)
      PROVE  choice(k) \in DOMAIN db /\ rec(k, choice(k))
  BY <1>5
<1>6. RecoveredTracker = [k \in PositionKeys |-> RecoveredTracker[k]]
  BY DEF RecoveredTracker
<1>7. ASSUME NEW k \in PositionKeys PROVE RecoveredTracker[k] \in Nat
  <2>1. CASE \E i \in DOMAIN db : rec(k, i)
    <3>1. choice(k) \in DOMAIN db /\ Recovered(choice(k))
      BY <1>5, <2>1
    <3> HIDE DEF choice
    <3> QED  BY <1>2, <1>3, <2>1, <3>1
  <2>2. CASE ~ \E i \in DOMAIN db : rec(k, i)
    BY <1>2, <2>2
  <2> QED  BY <2>1, <2>2
<1>8. ASSUME NEW i \in DOMAIN db, Recovered(i)
      PROVE  RecoveredTracker[db[i].key] = ClosesAt(db[i]) + ReentryDelay
  <2> DEFINE k == db[i].key
  <2>1. k \in PositionKeys /\ rec(k, i)
    BY <1>8, RecoveredRow
  <2>2. choice(k) \in DOMAIN db /\ rec(k, choice(k))
    BY <1>5, <2>1
  <2>3. choice(k) = i
    <3> HIDE DEF choice
    <3> QED  BY <1>4, <2>1, <2>2
  <2> HIDE DEF choice
  <2> QED  BY <1>2, <2>1, <2>3
<1>9. RecoveredTracker \in [PositionKeys -> Nat]
  <2> DEFINE T(k) == RecoveredTracker[k]
  <2>1. RecoveredTracker = [k \in PositionKeys |-> T(k)] /\ \A k \in PositionKeys : T(k) \in Nat
    BY <1>6, <1>7
  <2> HIDE DEF T
  <2> QED  BY <2>1
<1> QED  BY <1>8, <1>9

-----------------------------------------------------------------------------
(* Types                                                                   *)

LEMMA TrackersOfOpps ==
  ASSUME PaperTypeOK
  PROVE  /\ \A o \in Opps : Observed(o) \in [Opps -> TrackRec]
         /\ \A t \in [Opps -> TrackRec] : Lost(t) \in [Opps -> TrackRec] /\ Saved(t) \in [Opps -> TrackRec]
<1>1. tracked \in [Opps -> TrackRec] /\ scan \in Nat
  BY DEF PaperTypeOK
<1>2. ASSUME NEW o \in Opps PROVE Observed(o) \in [Opps -> TrackRec]
  <2>1. [tracked[o] EXCEPT !.seen = scan] \in TrackRec /\ [seen |-> scan, row |-> "pending"] \in TrackRec
    BY <1>1 DEF TrackRec
  <2>2. \/ Observed(o) = [tracked EXCEPT ![o] = [tracked[o] EXCEPT !.seen = scan]]
        \/ Observed(o) = [tracked EXCEPT ![o] = [seen |-> scan, row |-> "pending"]]
    BY DEF Observed
  <2> QED  BY <1>1, <2>1, <2>2
<1>3. ASSUME NEW t \in [Opps -> TrackRec]
      PROVE  Lost(t) \in [Opps -> TrackRec] /\ Saved(t) \in [Opps -> TrackRec]
  <2>1. \A o \in Opps : /\ t[o] \in TrackRec /\ NoTrack \in TrackRec
                        /\ [t[o] EXCEPT !.row = "lost"] \in TrackRec
                        /\ [t[o] EXCEPT !.row = "saved"] \in TrackRec
    BY DEF TrackRec, NoTrack
  <2>2. Lost(t) \in [Opps -> TrackRec]
    BY <2>1 DEF Lost
  <2>3. Saved(t) \in [Opps -> TrackRec]
    BY <2>1 DEF Saved
  <2> QED  BY <2>2, <2>3
<1> QED  BY <1>2, <1>3

\* the steps that leave the ledger, the locks and the trackers alone
Quiet ==
  \/ ScanBegins
  \/ \E o \in Opps, worth, telemetryFails \in BOOLEAN : Observe(o, worth, telemetryFails)
  \/ Halted \/ NotTraded \/ Check \/ CheckRaises
  \/ OperatorEngages \/ OperatorDisengages \/ TimePasses
  \/ UNCHANGED paperVars

\* the steps that roll rows back and keep what memory holds
RollsBack == ScanFails \/ \E o \in Opps : ObserveFails(o)

LEMMA StepKinds ==
  ASSUME [PaperNext]_paperVars
  PROVE  \/ Quiet \/ RollsBack
         \/ \E observerFails \in BOOLEAN : Decide(observerFails)
         \/ \E net \in Nets : Trade(net)
         \/ \E net \in Nets : TradeNotSaved(net)
         \/ \E k \in PositionKeys : ForceExit(k)
         \/ CommitScan \/ Crash \/ RestartProcess \/ CapitalPoolRead
  BY DEF PaperNext, Quiet, RollsBack

LEMMA QuietSteps ==
  ASSUME PaperTypeOK, Quiet
  PROVE  /\ db' = db /\ rows' = rows /\ balance' = balance /\ drift' = drift
         /\ locks' = locks /\ tracker' = tracker
         /\ PaperTypeOK'
         /\ now <= now' /\ (pc = "down" <=> pc' = "down")
<1>1. CASE ScanBegins
  BY <1>1 DEF PaperTypeOK, ScanBegins, memoryVars
<1>2. CASE \E o \in Opps, worth, telemetryFails \in BOOLEAN : Observe(o, worth, telemetryFails)
  <2>1. PICK o \in Opps, worth \in BOOLEAN, telemetryFails \in BOOLEAN :
          Observe(o, worth, telemetryFails)
    BY <1>2
  <2>2. tracked' \in [Opps -> TrackRec]
    BY <2>1, TrackersOfOpps DEF Observe
  <2>3. /\ pc = "scanning" /\ (pc' = "scanning" \/ (pc' = "deciding" /\ opp' \in Opps))
        /\ todo' \subseteq Opps /\ broken' \in BOOLEAN
    <3>1. pc = "scanning" /\ todo' = todo \ {o} /\ broken' = telemetryFails
      BY <2>1 DEF Observe
    <3>2. pc' = "scanning" \/ (pc' = "deciding" /\ opp' = o)
      <4>1. CASE worth /\ ~Occupied(Position[o], scan)
        BY <2>1, <4>1 DEF Observe
      <4>2. CASE ~(worth /\ ~Occupied(Position[o], scan))
        <5>1. UNCHANGED <<pc, opp>>
          BY <2>1, <4>2 DEF Observe
        <5> QED  BY <3>1, <5>1
      <4> QED  BY <4>1, <4>2
    <3>3. todo' \subseteq Opps
      BY <3>1 DEF PaperTypeOK
    <3> QED  BY <3>1, <3>2, <3>3
  <2> QED  BY <2>1, <2>2, <2>3 DEF PaperTypeOK, Observe
<1>3. CASE Halted \/ NotTraded
  BY <1>3 DEF PaperTypeOK, Halted, NotTraded, memoryVars
<1>4. CASE Check
  <2>1. kill' \in BOOLEAN
    BY <1>4 DEF Check, PaperTypeOK
  <2> QED  BY <1>4, <2>1 DEF PaperTypeOK, Check
<1>5. CASE CheckRaises
  BY <1>5 DEF PaperTypeOK, CheckRaises, memoryVars
<1>8. CASE OperatorEngages
  BY <1>8 DEF PaperTypeOK, OperatorEngages, scanVars
<1>9. CASE OperatorDisengages
  <2>1. kill' \in BOOLEAN
    BY <1>9 DEF OperatorDisengages
  <2> QED  BY <1>9, <2>1 DEF PaperTypeOK, OperatorDisengages, scanVars
<1>6. CASE TimePasses
  <2>1. now' = now + 1 /\ now \in Nat /\ Start <= now /\ scan <= now /\ scan \in Nat /\ Start \in Nat
    BY <1>6, PaperConstants DEF TimePasses, PaperTypeOK
  <2>2. now' \in Nat /\ now <= now' /\ Start <= now' /\ scan <= now'
    BY <2>1
  <2> QED  BY <1>6, <2>2 DEF PaperTypeOK, TimePasses, memoryVars, scanVars
<1>7. CASE UNCHANGED paperVars
  BY <1>7 DEF PaperTypeOK, paperVars, memoryVars, scanVars
<1> QED  BY <1>1, <1>2, <1>3, <1>4, <1>5, <1>6, <1>7, <1>8, <1>9 DEF Quiet

LEMMA RollBacks ==
  ASSUME PaperTypeOK, RollsBack
  PROVE  /\ now' = now /\ db' = db /\ rows' = <<>> /\ balance' = balance
         /\ drift' = drift + NetTotal(rows)
         /\ locks' = locks /\ tracker' = tracker /\ InScan /\ pc' = "sleeping"
         /\ PaperTypeOK'
<1>1. /\ now' = now /\ db' = db /\ balance' = balance /\ locks' = locks /\ tracker' = tracker
      /\ kill' = kill /\ lastCheck' = lastCheck
      /\ drift' = drift + NetTotal(rows) /\ InScan /\ SessionLost
      /\ tracked' = Lost(tracked) \/ \E o \in Opps : tracked' = Lost(Observed(o))
  BY DEF RollsBack, ScanFails, ObserveFails, InScan
<1>2. tracked \in [Opps -> TrackRec]
  BY DEF PaperTypeOK
<1>3. tracked' \in [Opps -> TrackRec]
  BY <1>1, <1>2, TrackersOfOpps
<1>4. drift' \in Int
  <2>1. NetTotal(rows) \in Int /\ drift \in Int
    BY NetIsInt DEF PaperTypeOK
  <2> QED  BY <1>1, <2>1
<1>5. <<>> \in Seq(TradeRow) /\ 0 \in Nat /\ 0 <= now
  <2>1. now \in Nat
    BY DEF PaperTypeOK
  <2> QED  BY <2>1
<1>6. /\ pc' = "sleeping" /\ scan' = 0 /\ todo' = {} /\ rows' = <<>> /\ broken' = FALSE
  BY <1>1 DEF SessionLost
<1>7. PaperTypeOK'
  BY <1>1, <1>3, <1>4, <1>5, <1>6 DEF PaperTypeOK
<1> QED  BY <1>1, <1>6, <1>7

LEMMA TypesPreserved ==
  ASSUME PaperTypeOK, LedgerOK, LocksOK, [PaperNext]_paperVars
  PROVE  PaperTypeOK'
<1>0. <<>> \in Seq(TradeRow) /\ 0 \in Nat /\ 0 <= now
  <2>1. now \in Nat
    BY DEF PaperTypeOK
  <2> QED  BY <2>1
<1>1. CASE \E observerFails \in BOOLEAN : Decide(observerFails)
  <2>1. PICK observerFails \in BOOLEAN : Decide(observerFails)
    BY <1>1
  <2>2. Position[opp] \in PositionKeys
    BY <2>1, PaperConstants DEF Decide, PaperTypeOK
  <2>3. scan + Holding[Position[opp]] + ReentryDelay \in Nat
    BY <2>2, PaperConstants DEF PaperTypeOK
  <2>4. tracker' \in [PositionKeys -> Nat] /\ broken' \in BOOLEAN
    BY <2>1, <2>3 DEF Decide, PaperTypeOK
  <2> QED  BY <2>1, <2>4 DEF PaperTypeOK, Decide
<1>2. ASSUME NEW net \in Nets, Trade(net)
      PROVE  PaperTypeOK'
  <2>1. pc = "trading" /\ Credit(TradedCapital, net) /\ rows' = Append(rows, NewRow(net))
    BY <1>2 DEF Trade, NewRow
  <2>2. PrunedLocks(locks, scan) \in [PositionKeys -> LockRec]
    BY Pruning DEF PaperTypeOK
  <2>3. balance' \in Int /\ locks' \in [PositionKeys -> LockRec] /\ NewRow(net) \in TradeRow
    BY <2>1, <2>2, Credited
  <2>4. rows' \in Seq(TradeRow)
    BY <2>1, <2>3 DEF PaperTypeOK
  <2> QED  BY <1>2, <2>3, <2>4 DEF PaperTypeOK, Trade
<1>3. ASSUME NEW net \in Nets, TradeNotSaved(net)
      PROVE  PaperTypeOK'
  <2>1. pc = "trading" /\ Credit(TradedCapital, net) /\ tracked' = Lost(tracked)
    BY <1>3 DEF TradeNotSaved
  <2>2. PrunedLocks(locks, scan) \in [PositionKeys -> LockRec]
    BY Pruning DEF PaperTypeOK
  <2>3. balance' \in Int /\ locks' \in [PositionKeys -> LockRec]
    BY <2>1, <2>2, Credited
  <2>4. tracked' \in [Opps -> TrackRec]
    BY <2>1, TrackersOfOpps DEF PaperTypeOK
  <2>5. drift' \in Int
    <3>1. NetTotal(rows) \in Int /\ drift \in Int /\ net \in Int
      BY NetIsInt, PaperConstants DEF PaperTypeOK
    <3> QED  BY <1>3, <3>1 DEF TradeNotSaved
  <2> QED  BY <1>0, <1>3, <2>3, <2>4, <2>5 DEF PaperTypeOK, TradeNotSaved, SessionLost
<1>4. ASSUME NEW k \in PositionKeys, ForceExit(k)
      PROVE  PaperTypeOK'
  <2> DEFINE exit == [key |-> k, capital |-> OpeningTrade(k).capital,
                      net |-> -OpeningTrade(k).net - UnwindCost, at |-> scan, kind |-> "exit"]
  <2>1. /\ k \in Overdue /\ rows' = Append(rows, exit)
        /\ balance' = balance + exit.net
        /\ locks' = [PrunedLocks(locks, scan) EXCEPT ![k] = NoLock]
    BY <1>4, OverduePositions DEF ForceExit, Reversed
  <2>2. OpeningTrade(k) \in TradeRow
    BY <2>1, OverduePositions
  <2>3. exit \in TradeRow
    BY <2>2, PaperConstants DEF TradeRow, PaperTypeOK
  <2>4. locks' \in [PositionKeys -> LockRec]
    BY <2>1, Pruning, NoLockIsLock DEF PaperTypeOK
  <2>5. balance' \in Int /\ rows' \in Seq(TradeRow)
    <3>1. exit.net \in Int /\ balance \in Int /\ rows \in Seq(TradeRow)
      BY <2>3 DEF TradeRow, PaperTypeOK
    <3> HIDE DEF exit
    <3> QED  BY <2>1, <2>3, <3>1
  <2> QED  BY <1>4, <2>4, <2>5 DEF PaperTypeOK, ForceExit
<1>5. CASE CommitScan
  <2>1. db' \in Seq(TradeRow)
    BY <1>5 DEF PaperTypeOK, CommitScan
  <2>2. tracked' \in [Opps -> TrackRec]
    BY <1>5, TrackersOfOpps DEF CommitScan, PaperTypeOK
  <2>3. lastCheck' \in Nat /\ pc' \in {"sleeping", "checking"}
    BY <1>5 DEF PaperTypeOK, CommitScan
  <2> QED  BY <1>0, <1>5, <2>1, <2>2, <2>3 DEF PaperTypeOK, CommitScan
<1>6. CASE Crash
  <2>1. locks' \in [PositionKeys -> LockRec] /\ tracker' \in [PositionKeys -> Nat]
    BY <1>6, NothingLocked DEF Crash, NoMemory
  <2>2. tracked' \in [Opps -> TrackRec]
    BY <1>6 DEF Crash, NoMemory, NoTrack, TrackRec
  <2>3. balance' \in Int
    BY <1>6, PaperConstants DEF Crash, NoMemory
  <2>4. /\ pc' = "down" /\ scan' = 0 /\ todo' = {} /\ rows' = <<>> /\ broken' = FALSE
        /\ lastCheck' = 0 /\ drift' = 0 /\ now' = now /\ db' = db
    BY <1>6 DEF Crash, NoMemory
  <2>5. kill' \in BOOLEAN /\ broken' \in BOOLEAN
    BY <1>6 DEF Crash, NoMemory
  <2> QED  BY <1>0, <2>1, <2>2, <2>3, <2>4, <2>5 DEF PaperTypeOK
<1>7. CASE RestartProcess
  <2>1. locks' \in [PositionKeys -> LockRec] /\ tracker' \in [PositionKeys -> Nat]
    BY <1>7, RecoveryIsSound, RecoveredTrackers DEF RestartProcess, RecoveryOK
  <2>2. balance' \in Int
    BY <1>7, RecoveredBalanceIsInt DEF RestartProcess
  <2> QED  BY <1>7, <2>1, <2>2 DEF PaperTypeOK, RestartProcess
<1>8. CASE CapitalPoolRead
  <2>1. locks' \in [PositionKeys -> LockRec]
    BY <1>8, Pruning DEF CapitalPoolRead, PaperTypeOK
  <2> QED  BY <1>8, <2>1 DEF PaperTypeOK, CapitalPoolRead, scanVars
<1> QED  BY <1>1, <1>2, <1>3, <1>4, <1>5, <1>6, <1>7, <1>8, StepKinds, QuietSteps, RollBacks

-----------------------------------------------------------------------------
(* Phases of a scan                                                        *)

LEMMA QuietPhases ==
  ASSUME PaperTypeOK, Quiet
  PROVE  /\ InScan => InScan'
         /\ Horizon <= Horizon'
         /\ pc' \in {"deciding", "trading"} =>
              /\ InScan /\ scan' = scan
              /\ \/ pc' = pc /\ opp' = opp
                 \/ pc' = "deciding" /\ tracker[Position[opp']] <= scan
<1>0. scan \in Nat /\ now \in Nat /\ scan <= now
  BY DEF PaperTypeOK
<1>1. CASE ScanBegins
  <2>1. pc = "sleeping" /\ pc' = "scanning" /\ scan' = now
    BY <1>1 DEF ScanBegins
  <2> QED  BY <1>0, <2>1 DEF InScan, Horizon
<1>2. CASE \E o \in Opps, worth, telemetryFails \in BOOLEAN : Observe(o, worth, telemetryFails)
  <2>1. PICK o \in Opps, worth \in BOOLEAN, telemetryFails \in BOOLEAN :
          Observe(o, worth, telemetryFails)
    BY <1>2
  <2>2. pc = "scanning" /\ scan' = scan
    BY <2>1 DEF Observe
  <2>3. CASE worth /\ ~Occupied(Position[o], scan)
    <3>1. pc' = "deciding" /\ opp' = o
      BY <2>1, <2>3 DEF Observe
    <3>2. Position[o] \in PositionKeys
      BY PaperConstants
    <3>3. tracker[Position[o]] \in Nat /\ ~(tracker[Position[o]] > scan)
      BY <2>3, <3>2 DEF Occupied, PaperTypeOK
    <3>4. tracker[Position[opp']] <= scan
      BY <1>0, <3>1, <3>3
    <3> QED  BY <1>0, <2>2, <3>1, <3>4 DEF InScan, Horizon
  <2>4. CASE ~(worth /\ ~Occupied(Position[o], scan))
    <3>1. UNCHANGED <<pc, opp>>
      BY <2>1, <2>4 DEF Observe
    <3> QED  BY <1>0, <2>2, <3>1 DEF InScan, Horizon
  <2> QED  BY <2>3, <2>4
<1>3. CASE Halted \/ NotTraded
  <2>1. pc \in {"deciding", "trading"} /\ pc' = "scanning" /\ scan' = scan
    BY <1>3 DEF Halted, NotTraded
  <2> QED  BY <1>0, <2>1 DEF InScan, Horizon
<1>4. CASE Check \/ CheckRaises
  <2>1. pc = "checking" /\ pc' = "sleeping" /\ now' = now
    BY <1>4 DEF Check, CheckRaises
  <2> QED  BY <1>0, <2>1 DEF InScan, Horizon
<1>5. CASE \/ OperatorEngages \/ OperatorDisengages \/ TimePasses \/ UNCHANGED paperVars
  <2>1. pc' = pc /\ opp' = opp /\ scan' = scan /\ (now' = now \/ now' = now + 1)
    BY <1>5 DEF OperatorEngages, OperatorDisengages, TimePasses, paperVars, scanVars
  <2> QED  BY <1>0, <2>1 DEF InScan, Horizon
<1> QED  BY <1>1, <1>2, <1>3, <1>4, <1>5 DEF Quiet

LEMMA AtRestPreserved ==
  ASSUME PaperTypeOK, AtRest, [PaperNext]_paperVars
  PROVE  AtRest'
<1>1. CASE Quiet
  <2>1. /\ rows' = rows /\ drift' = drift /\ (pc = "down" <=> pc' = "down")
        /\ InScan => InScan'
    BY <1>1, QuietSteps, QuietPhases
  <2> QED  BY <2>1 DEF AtRest
<1>2. CASE RollsBack
  <2>1. rows' = <<>> /\ pc' = "sleeping"
    BY <1>2, RollBacks
  <2> QED  BY <2>1 DEF AtRest
<1>3. CASE \E observerFails \in BOOLEAN : Decide(observerFails)
  BY <1>3 DEF AtRest, InScan, Decide
<1>4. CASE \E net \in Nets : Trade(net)
  BY <1>4 DEF AtRest, InScan, Trade
<1>5. CASE \E net \in Nets : TradeNotSaved(net)
  BY <1>5 DEF AtRest, TradeNotSaved, SessionLost
<1>6. CASE \E k \in PositionKeys : ForceExit(k)
  BY <1>6 DEF AtRest, InScan, ForceExit
<1>7. CASE CommitScan
  BY <1>7 DEF AtRest, CommitScan
<1>8. CASE Crash
  BY <1>8 DEF AtRest, Crash, NoMemory
<1>9. CASE RestartProcess
  BY <1>9 DEF AtRest, InScan, RestartProcess
<1>10. CASE CapitalPoolRead
  BY <1>10 DEF AtRest, InScan, CapitalPoolRead, scanVars
<1> QED  BY <1>1, <1>2, <1>3, <1>4, <1>5, <1>6, <1>7, <1>8, <1>9, <1>10, StepKinds

\* every step keeps the rows there are, but for those rolled back, or appends one
LEMMA LedgerSteps ==
  ASSUME PaperTypeOK, AtRest, LocksOK, [PaperNext]_paperVars
  PROVE  /\ now <= now'
         /\ \/ Keeps
            \/ \E net \in Nets : Trade(net) /\ Credit(TradedCapital, net) /\ Appends(NewRow(net))
            \/ \E k \in PositionKeys :
                 /\ ForceExit(k)
                 /\ Appends([key |-> k, capital |-> OpeningTrade(k).capital,
                             net |-> -OpeningTrade(k).net - UnwindCost, at |-> scan,
                             kind |-> "exit"])
<1>0. now \in Nat
  BY DEF PaperTypeOK
<1>1. CASE Quiet
  BY <1>1, QuietSteps, RowsUnchanged
<1>2. CASE RollsBack
  BY <1>0, <1>2, RollBacks, RowsDropped
<1>3. CASE \E observerFails \in BOOLEAN : Decide(observerFails)
  BY <1>0, <1>3, RowsUnchanged DEF Decide
<1>4. ASSUME NEW net \in Nets, Trade(net)
      PROVE  now <= now' /\ Credit(TradedCapital, net) /\ Appends(NewRow(net))
  <2>1. /\ now' = now /\ db' = db /\ rows' = Append(rows, NewRow(net))
        /\ pc = "trading" /\ Credit(TradedCapital, net)
    BY <1>4 DEF Trade, NewRow
  <2>2. NewRow(net) \in TradeRow
    BY <2>1, Credited
  <2> QED  BY <1>0, <2>1, <2>2, RowAppended
<1>5. CASE \E net \in Nets : TradeNotSaved(net)
  <2>1. now' = now /\ db' = db /\ rows' = <<>>
    BY <1>5 DEF TradeNotSaved, SessionLost
  <2> QED  BY <1>0, <2>1, RowsDropped
<1>6. ASSUME NEW k \in PositionKeys, ForceExit(k)
      PROVE  /\ now <= now'
             /\ Appends([key |-> k, capital |-> OpeningTrade(k).capital,
                         net |-> -OpeningTrade(k).net - UnwindCost, at |-> scan, kind |-> "exit"])
  <2> DEFINE exit == [key |-> k, capital |-> OpeningTrade(k).capital,
                      net |-> -OpeningTrade(k).net - UnwindCost, at |-> scan, kind |-> "exit"]
  <2>1. now' = now /\ db' = db /\ k \in Overdue /\ rows' = Append(rows, exit)
    BY <1>6, OverduePositions DEF ForceExit, Reversed
  <2>2. OpeningTrade(k) \in TradeRow
    BY <2>1, OverduePositions
  <2>3. exit \in TradeRow
    BY <2>2, PaperConstants DEF TradeRow, PaperTypeOK
  <2> HIDE DEF exit
  <2>4. now <= now' /\ Appends(exit)
    BY <1>0, <2>1, <2>3, RowAppended
  <2> QED  BY <2>4 DEF exit
<1>7. CASE CommitScan
  <2>1. now' = now /\ db' = db \o rows /\ rows' = <<>>
    BY <1>7 DEF CommitScan
  <2> QED  BY <1>0, <2>1, RowsCommitted
<1>8. CASE Crash
  <2>1. now' = now /\ db' = db /\ rows' = <<>>
    BY <1>8 DEF Crash
  <2> QED  BY <1>0, <2>1, RowsDropped
<1>9. CASE RestartProcess \/ CapitalPoolRead
  <2>1. now' = now /\ db' = db /\ rows' = rows
    BY <1>9 DEF RestartProcess, CapitalPoolRead, scanVars
  <2> QED  BY <1>0, <2>1, RowsUnchanged
<1> QED  BY <1>1, <1>2, <1>3, <1>4, <1>5, <1>6, <1>7, <1>8, <1>9, StepKinds

LEMMA LedgerPreserved ==
  ASSUME PaperTypeOK, AtRest, LedgerOK, LocksOK, [PaperNext]_paperVars
  PROVE  LedgerOK'
<1>0. /\ now <= now' /\ now \in Nat /\ now' \in Nat /\ scan \in Nat /\ scan <= now
      /\ \A i \in DOMAIN Ledger : Ledger[i] \in TradeRow
  <2>1. PaperTypeOK'
    BY TypesPreserved
  <2> QED  BY <2>1, LedgerIs, LedgerSteps DEF PaperTypeOK
<1>a. \A i \in DOMAIN Ledger : Ledger[i].at \in Nat
  BY <1>0 DEF TradeRow
<1>1. CASE Keeps
  <2>1. \A i \in DOMAIN Ledger' : i \in DOMAIN Ledger /\ Ledger'[i] = Ledger[i]
    BY <1>1 DEF Keeps
  <2>2. \A i \in DOMAIN Ledger : Ledger[i].at <= now'
    BY <1>0, <1>a DEF LedgerOK
  <2> QED  BY <2>1, <2>2 DEF LedgerOK
<1>2. ASSUME NEW row, Appends(row), row.at = scan, row.kind \in {"open", "exit"},
             row.kind = "exit" => row.key \in LegacyKeys,
             row.kind = "open" => row.capital + row.net > 0
      PROVE  LedgerOK'
  <2> DEFINE n == Len(Ledger) + 1
  <2>1. /\ DOMAIN Ledger' = DOMAIN Ledger \cup {n} /\ Ledger'[n] = row
        /\ \A i \in DOMAIN Ledger : Ledger'[i] = Ledger[i]
    BY <1>2 DEF Appends
  <2> HIDE DEF n
  <2>2. ASSUME NEW i \in DOMAIN Ledger'
        PROVE  /\ Ledger'[i].at <= now'
               /\ Ledger'[i].kind = "exit" => Ledger'[i].key \in LegacyKeys
               /\ Ledger'[i].kind = "open" => Ledger'[i].capital + Ledger'[i].net > 0
    <3>1. CASE i = n
      BY <1>0, <1>2, <2>1, <3>1
    <3>2. CASE i \in DOMAIN Ledger
      <4>1. Ledger[i].at <= now'
        BY <1>0, <1>a, <3>2 DEF LedgerOK
      <4> QED  BY <2>1, <3>2, <4>1 DEF LedgerOK
    <3> QED  BY <2>1, <3>1, <3>2
  <2> QED  BY <2>2 DEF LedgerOK
<1>3. ASSUME NEW net \in Nets, Trade(net), Credit(TradedCapital, net), Appends(NewRow(net))
      PROVE  LedgerOK'
  <2>1. pc = "trading"
    BY <1>3 DEF Trade
  <2>2. TradedCapital + net > 0
    BY <1>3, <2>1, Credited
  <2> QED  BY <1>2, <1>3, <2>2 DEF NewRow
<1>4. ASSUME NEW k \in PositionKeys, ForceExit(k),
             Appends([key |-> k, capital |-> OpeningTrade(k).capital,
                      net |-> -OpeningTrade(k).net - UnwindCost, at |-> scan, kind |-> "exit"])
      PROVE  LedgerOK'
  <2>1. k \in LegacyKeys
    BY <1>4, OverduePositions DEF ForceExit
  <2> QED  BY <1>2, <1>4, <2>1
<1> QED  BY <1>1, <1>3, <1>4, LedgerSteps

-----------------------------------------------------------------------------
(* The steps that take and free locks                                      *)

Wanes == \A k \in PositionKeys : locks'[k] = locks[k] \/ locks'[k] = NoLock

LEMMA PruningWanes ==
  ASSUME PaperTypeOK, NEW t \in Nat, locks' = PrunedLocks(locks, t)
  PROVE  Wanes
  BY Pruning DEF Wanes, PaperTypeOK

LEMMA LocksLetGo ==
  ASSUME PaperTypeOK, LocksOK, Wanes, Keeps
  PROVE  LocksOK'
<1> SUFFICES ASSUME NEW k \in PositionKeys, locks'[k].expiry > 0
             PROVE  /\ locks'[k].expiry = locks'[k].opened + Holding[k]
                    /\ k \in LegacyKeys =>
                         /\ \E i \in DOMAIN db' :
                              /\ db'[i].key = k /\ db'[i].kind = "open"
                              /\ locks'[k].amount = db'[i].capital + db'[i].net
                         /\ \A i \in DOMAIN Ledger' : Ledger'[i].key = k => Ledger'[i].kind = "open"
  BY DEF LocksOK
<1>1. locks'[k] = locks[k]
  BY NoLockIsLock DEF Wanes
<1>2. locks[k].expiry > 0
  BY <1>1
<1>3. locks[k].expiry = locks[k].opened + Holding[k]
  BY <1>2 DEF LocksOK
<1>4. ASSUME k \in LegacyKeys
      PROVE  /\ \E i \in DOMAIN db' :
                  /\ db'[i].key = k /\ db'[i].kind = "open"
                  /\ locks'[k].amount = db'[i].capital + db'[i].net
             /\ \A i \in DOMAIN Ledger' : Ledger'[i].key = k => Ledger'[i].kind = "open"
  <2>1. PICK i \in DOMAIN db : /\ db[i].key = k /\ db[i].kind = "open"
                               /\ locks[k].amount = db[i].capital + db[i].net
    BY <1>2, <1>4 DEF LocksOK
  <2>2. \A j \in DOMAIN Ledger : Ledger[j].key = k => Ledger[j].kind = "open"
    BY <1>2, <1>4 DEF LocksOK
  <2>3. i \in DOMAIN db' /\ db'[i] = db[i]
    BY DEF Keeps
  <2>4. \A j \in DOMAIN Ledger' : Ledger'[j].key = k => Ledger'[j].kind = "open"
    BY <2>2 DEF Keeps
  <2> QED  BY <1>1, <2>1, <2>3, <2>4
<1> QED  BY <1>1, <1>3, <1>4

LEMMA LocksPreserved ==
  ASSUME PaperTypeOK, AtRest, LedgerOK, LocksOK, [PaperNext]_paperVars
  PROVE  LocksOK'
<1>0. locks \in [PositionKeys -> LockRec] /\ scan \in Nat /\ now \in Nat
  BY DEF PaperTypeOK
<1> DEFINE pruned == PrunedLocks(locks, scan)
<1>a. /\ pruned \in [PositionKeys -> LockRec]
      /\ \A k \in PositionKeys : pruned[k] = locks[k] \/ pruned[k] = NoLock
  BY <1>0, Pruning
<1> HIDE DEF pruned
<1>1. CASE UNCHANGED locks /\ Keeps
  <2>1. Wanes
    BY <1>1 DEF Wanes
  <2> QED  BY <1>1, <2>1, LocksLetGo
<1>2. CASE Quiet
  BY <1>1, <1>2, QuietSteps, RowsUnchanged
<1>3. CASE RollsBack
  BY <1>1, <1>3, RollBacks, RowsDropped
<1>4. CASE \E observerFails \in BOOLEAN : Decide(observerFails)
  BY <1>1, <1>4, RowsUnchanged DEF Decide
<1>5. ASSUME NEW net \in Nets, pc = "trading", Credit(TradedCapital, net),
             Keeps \/ Appends(NewRow(net))
      PROVE  LocksOK'
  <2> DEFINE key == Position[opp]
             lock == TradeLock(net)
  <2>1. /\ key \in PositionKeys /\ key \notin LegacyKeys
        /\ locks' = [pruned EXCEPT ![key] = lock]
    BY <1>5, Credited DEF pruned
  <2>2. lock.expiry = lock.opened + Holding[key]
    BY DEF TradeLock
  <2> HIDE DEF lock, key
  <2>3. /\ locks'[key] = lock
        /\ \A k \in PositionKeys : k # key => locks'[k] = pruned[k]
    BY <1>a, <2>1
  <2>4. /\ \A i \in DOMAIN db : i \in DOMAIN db' /\ db'[i] = db[i]
        /\ \A i \in DOMAIN Ledger' : \/ i \in DOMAIN Ledger /\ Ledger'[i] = Ledger[i]
                                     \/ Ledger'[i] = NewRow(net)
    BY <1>5 DEF Keeps, Appends
  <2>5. NewRow(net).kind = "open"
    BY DEF NewRow
  <2>6. ASSUME NEW k \in PositionKeys, k # key, locks'[k].expiry > 0
        PROVE  locks'[k] = locks[k] /\ locks[k].expiry > 0
    BY <1>a, <2>3, <2>6, NoLockIsLock
  <2>7. ASSUME NEW k \in PositionKeys, locks'[k].expiry > 0
        PROVE  locks'[k].expiry = locks'[k].opened + Holding[k]
    <3>1. CASE k = key
      BY <2>2, <2>3, <3>1
    <3>2. CASE k # key
      BY <2>6, <2>7, <3>2 DEF LocksOK
    <3> QED  BY <3>1, <3>2
  <2>8. ASSUME NEW k \in PositionKeys, locks'[k].expiry > 0, k \in LegacyKeys
        PROVE  /\ \E i \in DOMAIN db' :
                    /\ db'[i].key = k /\ db'[i].kind = "open"
                    /\ locks'[k].amount = db'[i].capital + db'[i].net
               /\ \A i \in DOMAIN Ledger' : Ledger'[i].key = k => Ledger'[i].kind = "open"
    <3>1. k # key
      BY <2>1, <2>8
    <3>2. locks'[k] = locks[k] /\ locks[k].expiry > 0
      BY <2>6, <2>8, <3>1
    <3>3. PICK i \in DOMAIN db : /\ db[i].key = k /\ db[i].kind = "open"
                                 /\ locks[k].amount = db[i].capital + db[i].net
      BY <2>8, <3>2 DEF LocksOK
    <3>4. \A j \in DOMAIN Ledger : Ledger[j].key = k => Ledger[j].kind = "open"
      BY <2>8, <3>2 DEF LocksOK
    <3>5. \A j \in DOMAIN Ledger' : Ledger'[j].key = k => Ledger'[j].kind = "open"
      BY <2>4, <2>5, <3>4
    <3>6. i \in DOMAIN db' /\ db'[i] = db[i]
      BY <2>4
    <3> QED  BY <3>2, <3>3, <3>5, <3>6
  <2> QED  BY <2>7, <2>8 DEF LocksOK
<1>6. ASSUME NEW net \in Nets, Trade(net)
      PROVE  LocksOK'
  <2>1. pc = "trading" /\ Credit(TradedCapital, net) /\ rows' = Append(rows, NewRow(net)) /\ db' = db
    BY <1>6 DEF Trade, NewRow
  <2>2. Appends(NewRow(net))
    BY <2>1, Credited, RowAppended
  <2> QED  BY <1>5, <2>1, <2>2
<1>7. ASSUME NEW net \in Nets, TradeNotSaved(net)
      PROVE  LocksOK'
  <2>1. pc = "trading" /\ Credit(TradedCapital, net) /\ rows' = <<>> /\ db' = db
    BY <1>7 DEF TradeNotSaved, SessionLost
  <2> QED  BY <1>5, <2>1, RowsDropped
<1>8. ASSUME NEW x \in PositionKeys, ForceExit(x)
      PROVE  LocksOK'
  <2> DEFINE exit == [key |-> x, capital |-> OpeningTrade(x).capital,
                      net |-> -OpeningTrade(x).net - UnwindCost, at |-> scan, kind |-> "exit"]
  <2>1. locks' = [pruned EXCEPT ![x] = NoLock] /\ db' = db /\ rows' = Append(rows, exit) /\ x \in Overdue
    BY <1>8, OverduePositions DEF ForceExit, Reversed, pruned
  <2>2. exit \in TradeRow
    <3>1. OpeningTrade(x) \in TradeRow
      BY <2>1, OverduePositions
    <3> QED  BY <3>1, PaperConstants DEF TradeRow, PaperTypeOK
  <2>3. exit.key = x
    OBVIOUS
  <2> HIDE DEF exit
  <2>4. Appends(exit)
    BY <2>1, <2>2, RowAppended
  <2>5. ASSUME NEW k \in PositionKeys, locks'[k].expiry > 0
        PROVE  k # x /\ locks'[k] = locks[k] /\ locks[k].expiry > 0
    <3>1. CASE k = x
      <4>1. locks'[k] = NoLock
        BY <1>a, <2>1, <3>1
      <4> QED  BY <2>5, <4>1, NoLockIsLock
    <3>2. CASE k # x
      <4>1. locks'[k] = pruned[k]
        BY <1>a, <2>1, <3>2
      <4> QED  BY <1>a, <2>5, <3>2, <4>1, NoLockIsLock
    <3> QED  BY <3>1, <3>2
  <2>6. ASSUME NEW k \in PositionKeys, locks'[k].expiry > 0
        PROVE  locks'[k].expiry = locks'[k].opened + Holding[k]
    BY <2>5, <2>6 DEF LocksOK
  <2>7. ASSUME NEW k \in PositionKeys, locks'[k].expiry > 0, k \in LegacyKeys
        PROVE  /\ \E i \in DOMAIN db' :
                    /\ db'[i].key = k /\ db'[i].kind = "open"
                    /\ locks'[k].amount = db'[i].capital + db'[i].net
               /\ \A i \in DOMAIN Ledger' : Ledger'[i].key = k => Ledger'[i].kind = "open"
    <3>1. k # x /\ locks'[k] = locks[k] /\ locks[k].expiry > 0
      BY <2>5, <2>7
    <3>2. \E i \in DOMAIN db : /\ db[i].key = k /\ db[i].kind = "open"
                               /\ locks[k].amount = db[i].capital + db[i].net
      BY <2>7, <3>1 DEF LocksOK
    <3>3. \A j \in DOMAIN Ledger : Ledger[j].key = k => Ledger[j].kind = "open"
      BY <2>7, <3>1 DEF LocksOK
    <3>4. \A j \in DOMAIN Ledger' : \/ j \in DOMAIN Ledger /\ Ledger'[j] = Ledger[j]
                                    \/ Ledger'[j].key = x
      BY <2>3, <2>4 DEF Appends
    <3> QED  BY <2>1, <3>1, <3>2, <3>3, <3>4
  <2> QED  BY <2>6, <2>7 DEF LocksOK
<1>9. CASE CommitScan
  BY <1>1, <1>9, RowsCommitted DEF CommitScan
<1>10. CASE Crash
  <2>1. Wanes
    BY <1>10 DEF Wanes, Crash, NoMemory
  <2> QED  BY <1>10, <2>1, LocksLetGo, RowsDropped DEF Crash
<1>11. CASE RestartProcess
  <2>1. /\ locks' = RecoveredLocks /\ db' = db /\ rows' = rows /\ pc = "down"
    BY <1>11 DEF RestartProcess
  <2>2. RecoveryOK(RecoveredLocks, Len(db))
    BY RecoveryIsSound
  <2>3. Ledger' = db
    <3>1. rows = <<>>
      BY <2>1 DEF AtRest, InScan
    <3> QED  BY <2>1, <3>1, RowsUnchanged, LedgerIs
  <2>4. ASSUME NEW k \in PositionKeys, locks'[k].expiry > 0
        PROVE  \E i \in DOMAIN db : Recovered(i) /\ db[i].key = k /\ locks'[k] = RowLock(db[i])
    <3>1. \E i \in 1..Len(db) : Recovered(i) /\ db[i].key = k /\ locks'[k] = RowLock(db[i])
      BY <2>1, <2>2, <2>4, NoLockIsLock DEF RecoveryOK
    <3> QED  BY <3>1 DEF PaperTypeOK
  <2>5. ASSUME NEW k \in PositionKeys, locks'[k].expiry > 0
        PROVE  /\ locks'[k].expiry = locks'[k].opened + Holding[k]
               /\ \E i \in DOMAIN db' :
                    /\ db'[i].key = k /\ db'[i].kind = "open"
                    /\ locks'[k].amount = db'[i].capital + db'[i].net
               /\ \A i \in DOMAIN Ledger' : Ledger'[i].key = k => Ledger'[i].kind = "open"
    <3>1. PICK i \in DOMAIN db : Recovered(i) /\ db[i].key = k /\ locks'[k] = RowLock(db[i])
      BY <2>4, <2>5
    <3>2. /\ db[i].kind = "open"
          /\ \A j \in DOMAIN db : db[j].key = k => db[j].kind = "open"
      BY <3>1, RecoveredRow
    <3>3. /\ locks'[k].amount = db[i].capital + db[i].net
          /\ locks'[k].expiry = locks'[k].opened + Holding[k]
      BY <3>1 DEF RowLock, ClosesAt
    <3> QED  BY <2>1, <2>3, <3>1, <3>2, <3>3
  <2> QED  BY <2>5 DEF LocksOK
<1>12. CASE CapitalPoolRead
  <2>1. locks' = PrunedLocks(locks, now) /\ db' = db /\ rows' = rows
    BY <1>12 DEF CapitalPoolRead, scanVars
  <2> QED  BY <1>0, <2>1, LocksLetGo, PruningWanes, RowsUnchanged
<1> QED  BY <1>2, <1>3, <1>4, <1>6, <1>7, <1>8, <1>9, <1>10, <1>11, <1>12, StepKinds

LEMMA CreditedLocks ==
  ASSUME PaperTypeOK, pc = "trading", NEW net \in Nets, Credit(TradedCapital, net)
  PROVE  /\ locks'[Position[opp]] = TradeLock(net)
         /\ \A k \in PositionKeys :
              k # Position[opp] => locks'[k] = locks[k] \/ locks'[k] = NoLock
<1> DEFINE pruned == PrunedLocks(locks, scan)
           key == Position[opp]
<1>1. /\ pruned \in [PositionKeys -> LockRec]
      /\ \A k \in PositionKeys : pruned[k] = locks[k] \/ pruned[k] = NoLock
  BY Pruning DEF PaperTypeOK
<1>2. locks' = [pruned EXCEPT ![key] = TradeLock(net)] /\ key \in PositionKeys
  BY Credited
<1> HIDE DEF pruned, key
<1>3. locks'[key] = TradeLock(net) /\ \A k \in PositionKeys : k # key => locks'[k] = pruned[k]
  BY <1>1, <1>2
<1>4. \A k \in PositionKeys : k # key => locks'[k] = locks[k] \/ locks'[k] = NoLock
  BY <1>1, <1>3
<1> QED  BY <1>3, <1>4 DEF key

LEMMA ForcedLocks ==
  ASSUME PaperTypeOK, NEW x \in PositionKeys, ForceExit(x)
  PROVE  Wanes /\ locks'[x] = NoLock
<1> DEFINE pruned == PrunedLocks(locks, scan)
<1>1. /\ pruned \in [PositionKeys -> LockRec]
      /\ \A k \in PositionKeys : pruned[k] = locks[k] \/ pruned[k] = NoLock
  BY Pruning DEF PaperTypeOK
<1>2. locks' = [pruned EXCEPT ![x] = NoLock]
  BY DEF ForceExit
<1> HIDE DEF pruned
<1> QED  BY <1>1, <1>2 DEF Wanes

LEMMA TrackerPreserved ==
  ASSUME PaperTypeOK, AtRest, LedgerOK, LocksOK, TrackerOK, [PaperNext]_paperVars
  PROVE  TrackerOK'
<1>0. /\ scan \in Nat /\ now \in Nat /\ tracker \in [PositionKeys -> Nat]
      /\ \A k \in PositionKeys : /\ locks[k] \in LockRec /\ locks[k].expiry \in Nat
                                 /\ tracker[k] \in Nat
  BY DEF PaperTypeOK, LockRec
<1>a. ASSUME Wanes, tracker' = tracker
      PROVE  \A k \in PositionKeys : locks'[k].expiry <= tracker'[k]
  BY <1>0, <1>a, NoLockIsLock DEF Wanes, TrackerOK
<1>b. ASSUME locks' = locks PROVE Wanes
  BY <1>b DEF Wanes
<1>1. CASE Quiet
  <2>1. locks' = locks /\ tracker' = tracker
    BY <1>1, QuietSteps
  <2>2. pc' \in {"deciding", "trading"} =>
          /\ scan' = scan
          /\ \/ pc' = pc /\ opp' = opp
             \/ pc' = "deciding" /\ tracker[Position[opp']] <= scan
    BY <1>1, QuietPhases
  <2>3. \A k \in PositionKeys : locks'[k].expiry <= tracker'[k]
    BY <1>a, <1>b, <2>1
  <2>4. pc' = "deciding" => tracker'[Position[opp']] <= scan'
    BY <2>1, <2>2 DEF TrackerOK
  <2>5. pc' = "trading" => tracker'[Position[opp']] = scan' + Holding[Position[opp']] + ReentryDelay
    BY <2>1, <2>2 DEF TrackerOK
  <2> QED  BY <2>3, <2>4, <2>5 DEF TrackerOK
<1>2. CASE RollsBack
  <2>1. locks' = locks /\ tracker' = tracker /\ pc' = "sleeping"
    BY <1>2, RollBacks
  <2> QED  BY <1>a, <1>b, <2>1 DEF TrackerOK
<1>3. ASSUME NEW observerFails \in BOOLEAN, Decide(observerFails)
      PROVE  TrackerOK'
  <2> DEFINE key == Position[opp]
             until == scan + Holding[key] + ReentryDelay
  <2>1. /\ pc = "deciding" /\ pc' = "trading" /\ tracker' = [tracker EXCEPT ![key] = until]
        /\ locks' = locks /\ scan' = scan /\ opp' = opp
    BY <1>3 DEF Decide
  <2>2. opp \in Opps
    BY <2>1 DEF PaperTypeOK
  <2>3. key \in PositionKeys
    BY <2>2, PaperConstants
  <2>4. until \in Nat /\ scan <= until
    BY <1>0, <2>3, PaperConstants
  <2>5. locks[key].expiry <= tracker[key] /\ tracker[key] <= scan
    BY <2>1, <2>3 DEF TrackerOK
  <2>6. tracker'[Position[opp']] = scan' + Holding[Position[opp']] + ReentryDelay
    BY <1>0, <2>1, <2>3
  <2> HIDE DEF until, key
  <2>7. tracker'[key] = until /\ \A k \in PositionKeys : k # key => tracker'[k] = tracker[k]
    BY <1>0, <2>1, <2>3
  <2>8. ASSUME NEW k \in PositionKeys PROVE locks'[k].expiry <= tracker'[k]
    <3>1. CASE k = key
      BY <1>0, <2>1, <2>4, <2>5, <2>7, <3>1
    <3>2. CASE k # key
      BY <2>1, <2>7, <3>2 DEF TrackerOK
    <3> QED  BY <3>1, <3>2
  <2> QED  BY <2>1, <2>6, <2>8 DEF TrackerOK
<1>4. ASSUME NEW net \in Nets, Trade(net) \/ TradeNotSaved(net)
      PROVE  TrackerOK'
  <2> DEFINE key == Position[opp]
  <2>1. /\ pc = "trading" /\ Credit(TradedCapital, net) /\ tracker' = tracker
        /\ pc' \notin {"deciding", "trading"}
    BY <1>4 DEF Trade, TradeNotSaved, SessionLost
  <2>2. /\ locks'[key] = TradeLock(net)
        /\ \A k \in PositionKeys : k # key => locks'[k] = locks[k] \/ locks'[k] = NoLock
    BY <2>1, CreditedLocks
  <2>3. opp \in Opps
    BY <2>1 DEF PaperTypeOK
  <2>4. key \in PositionKeys
    BY <2>3, PaperConstants
  <2>5. Holding[key] \in Nat /\ ReentryDelay \in Nat /\ tracker[key] = scan + Holding[key] + ReentryDelay
    BY <2>1, <2>4, PaperConstants DEF TrackerOK
  <2>6. TradeLock(net).expiry = scan + Holding[key]
    BY DEF TradeLock
  <2> HIDE DEF key
  <2>7. ASSUME NEW k \in PositionKeys PROVE locks'[k].expiry <= tracker'[k]
    <3>1. CASE k = key
      BY <1>0, <2>1, <2>2, <2>5, <2>6, <3>1
    <3>2. CASE k # key
      BY <1>0, <2>1, <2>2, <3>2, NoLockIsLock DEF TrackerOK
    <3> QED  BY <3>1, <3>2
  <2> QED  BY <2>1, <2>7 DEF TrackerOK
<1>5. ASSUME NEW x \in PositionKeys, ForceExit(x)
      PROVE  TrackerOK'
  <2>1. Wanes /\ tracker' = tracker /\ pc' = "scanning"
    BY <1>5, ForcedLocks DEF ForceExit
  <2> QED  BY <1>a, <2>1 DEF TrackerOK
<1>6. CASE CommitScan
  <2>1. locks' = locks /\ tracker' = tracker /\ pc' \notin {"deciding", "trading"}
    BY <1>6 DEF CommitScan
  <2> QED  BY <1>a, <1>b, <2>1 DEF TrackerOK
<1>7. CASE Crash
  <2>1. pc' = "down" /\ \A k \in PositionKeys : locks'[k] = NoLock /\ tracker'[k] = 0
    BY <1>7 DEF Crash, NoMemory
  <2> QED  BY <2>1, NoLockIsLock DEF TrackerOK
<1>8. CASE RestartProcess
  <2>1. locks' = RecoveredLocks /\ tracker' = RecoveredTracker /\ pc' = "sleeping"
    BY <1>8 DEF RestartProcess
  <2>2. /\ RecoveredTracker \in [PositionKeys -> Nat]
        /\ \A i \in DOMAIN db :
             Recovered(i) => RecoveredTracker[db[i].key] = ClosesAt(db[i]) + ReentryDelay
    BY RecoveredTrackers
  <2>3. ASSUME NEW k \in PositionKeys PROVE locks'[k].expiry <= tracker'[k]
    <3>1. \/ locks'[k] = NoLock
          \/ \E i \in 1..Len(db) : Recovered(i) /\ db[i].key = k /\ locks'[k] = RowLock(db[i])
      BY <2>1, RecoveryIsSound DEF RecoveryOK
    <3>2. CASE locks'[k] = NoLock
      <4>1. tracker'[k] \in Nat
        BY <2>1, <2>2
      <4> QED  BY <3>2, <4>1, NoLockIsLock
    <3>3. ASSUME NEW i \in 1..Len(db), Recovered(i), db[i].key = k, locks'[k] = RowLock(db[i])
          PROVE  locks'[k].expiry <= tracker'[k]
      <4>1. i \in DOMAIN db
        BY DEF PaperTypeOK
      <4>2. tracker'[k] = ClosesAt(db[i]) + ReentryDelay
        BY <2>1, <2>2, <3>3, <4>1
      <4>3. RowLock(db[i]) \in LockRec /\ RowLock(db[i]).expiry = ClosesAt(db[i])
        BY <3>3, <4>1, RecoveredRow DEF RowLock
      <4>4. ClosesAt(db[i]) \in Nat /\ ReentryDelay \in Nat
        BY <4>3, PaperConstants DEF LockRec
      <4> QED  BY <3>3, <4>2, <4>3, <4>4
    <3> QED  BY <3>1, <3>2, <3>3
  <2> QED  BY <2>1, <2>3 DEF TrackerOK
<1>9. CASE CapitalPoolRead
  <2>1. /\ locks' = PrunedLocks(locks, now) /\ tracker' = tracker
        /\ pc' = pc /\ opp' = opp /\ scan' = scan
    BY <1>9 DEF CapitalPoolRead, scanVars
  <2>2. \A k \in PositionKeys : locks'[k].expiry <= tracker'[k]
    BY <1>0, <1>a, <2>1, PruningWanes
  <2> QED  BY <2>1, <2>2 DEF TrackerOK
<1> QED  BY <1>1, <1>2, <1>3, <1>4, <1>5, <1>6, <1>7, <1>8, <1>9, StepKinds

-----------------------------------------------------------------------------
(* Open positions block their key                                          *)

LEMMA RowsClose ==
  ASSUME PaperTypeOK
  PROVE  \A i \in DOMAIN Ledger :
           /\ ClosesAt(Ledger[i]) \in Int /\ Ledger[i].key \in PositionKeys
           /\ tracker[Ledger[i].key] \in Nat
<1>1. ASSUME NEW i \in DOMAIN Ledger
      PROVE  Ledger[i].at \in Nat /\ Ledger[i].key \in PositionKeys
  BY LedgerIs DEF TradeRow
<1>2. ASSUME NEW i \in DOMAIN Ledger
      PROVE  ClosesAt(Ledger[i]) \in Int
  <2>1. Ledger[i].at \in Int /\ Holding[Ledger[i].key] \in Int
    BY <1>1, PaperConstants
  <2> QED  BY <2>1 DEF ClosesAt
<1>3. tracker \in [PositionKeys -> Nat]
  BY DEF PaperTypeOK
<1> QED  BY <1>1, <1>2, <1>3

\* the first part of RowsOK
Blocked ==
  \A i \in DOMAIN Ledger : Ledger[i].key \notin LegacyKeys =>
    ClosesAt(Ledger[i]) <= tracker[Ledger[i].key] \/ ClosesAt(Ledger[i]) <= Horizon

LEMMA StaysBlocked ==
  ASSUME PaperTypeOK, PaperTypeOK', Blocked, Keeps, tracker' = tracker, Horizon <= Horizon'
  PROVE  Blocked'
<1>1. Horizon \in Int /\ Horizon' \in Int
  BY DEF PaperTypeOK, Horizon
<1>2. ASSUME NEW i \in DOMAIN Ledger', Ledger'[i].key \notin LegacyKeys
      PROVE  \/ ClosesAt(Ledger'[i]) <= tracker'[Ledger'[i].key]
             \/ ClosesAt(Ledger'[i]) <= Horizon'
  <2>1. i \in DOMAIN Ledger /\ Ledger'[i] = Ledger[i]
    BY DEF Keeps
  <2>2. ClosesAt(Ledger[i]) <= tracker[Ledger[i].key] \/ ClosesAt(Ledger[i]) <= Horizon
    BY <1>2, <2>1 DEF Blocked
  <2>3. ClosesAt(Ledger[i]) \in Int
    BY <2>1, RowsClose
  <2> QED  BY <1>1, <2>1, <2>2, <2>3
<1> QED  BY <1>2 DEF Blocked, ClosesAt

LEMMA RowsPreserved ==
  ASSUME PaperTypeOK, AtRest, LedgerOK, LocksOK, TrackerOK, RowsOK, NoDuplicatePositions,
         [PaperNext]_paperVars
  PROVE  RowsOK'
<1>0. /\ PaperTypeOK' /\ scan \in Nat /\ now \in Nat /\ scan <= now
      /\ scan' \in Nat /\ now' \in Nat /\ now <= now' /\ scan' <= now'
  BY TypesPreserved, LedgerSteps DEF PaperTypeOK
<1>a. pc # "down" => Blocked
  BY DEF RowsOK, Blocked
<1>b. ASSUME pc' \notin {"deciding", "trading"}, pc' # "down" => Blocked'
      PROVE  RowsOK'
  BY <1>b DEF RowsOK, Blocked
<1>c. ASSUME pc' \in {"deciding", "trading"}, Blocked',
             \A i \in DOMAIN Ledger' :
               Ledger'[i].key = Position[opp'] => ClosesAt(Ledger'[i]) <= scan'
      PROVE  RowsOK'
  BY <1>c DEF RowsOK, Blocked, ClosesAt
<1>1. CASE Quiet
  <2>1. /\ tracker' = tracker /\ db' = db /\ rows' = rows
        /\ (pc = "down" <=> pc' = "down") /\ Horizon <= Horizon'
    BY <1>1, QuietSteps, QuietPhases
  <2>2. Keeps /\ Ledger' = Ledger
    BY <2>1, RowsUnchanged
  <2>3. pc' # "down" => Blocked'
    BY <1>0, <1>a, <2>1, <2>2, StaysBlocked
  <2>4. CASE pc' \in {"deciding", "trading"}
    <3>1. /\ InScan /\ scan' = scan
          /\ \/ pc' = pc /\ opp' = opp
             \/ pc' = "deciding" /\ tracker[Position[opp']] <= scan
      BY <1>1, <2>4, QuietPhases
    <3>2. CASE pc' = pc /\ opp' = opp
      <4>1. \A i \in DOMAIN Ledger : Ledger[i].key = Position[opp] => ClosesAt(Ledger[i]) <= scan
        BY <2>4, <3>2 DEF RowsOK
      <4>2. \A i \in DOMAIN Ledger' :
              Ledger'[i].key = Position[opp'] => ClosesAt(Ledger'[i]) <= scan'
        BY <2>2, <3>1, <3>2, <4>1
      <4> QED  BY <1>c, <2>3, <2>4, <4>2
    <3>3. CASE pc' = "deciding" /\ tracker[Position[opp']] <= scan
      <4>1. opp' \in Opps
        BY <1>0, <3>3 DEF PaperTypeOK
      <4>2. Position[opp'] \notin LegacyKeys
        BY <4>1, PaperConstants
      <4>3. pc # "down" /\ Horizon = scan
        BY <3>1 DEF InScan, Horizon
      <4>4. ASSUME NEW i \in DOMAIN Ledger', Ledger'[i].key = Position[opp']
            PROVE  ClosesAt(Ledger'[i]) <= scan'
        <5>1. i \in DOMAIN Ledger /\ Ledger'[i] = Ledger[i]
          BY <2>2
        <5>2. ClosesAt(Ledger[i]) <= tracker[Position[opp']] \/ ClosesAt(Ledger[i]) <= scan
          BY <1>a, <4>2, <4>3, <4>4, <5>1 DEF Blocked
        <5>3. ClosesAt(Ledger[i]) \in Int /\ tracker[Position[opp']] \in Nat
          BY <4>4, <5>1, RowsClose
        <5> QED  BY <1>0, <3>1, <3>3, <5>1, <5>2, <5>3
      <4> QED  BY <1>c, <2>3, <2>4, <4>4
    <3> QED  BY <3>1, <3>2, <3>3
  <2> QED  BY <1>b, <2>3, <2>4
<1>2. CASE RollsBack
  <2>1. /\ now' = now /\ db' = db /\ rows' = <<>> /\ tracker' = tracker /\ InScan
        /\ pc' = "sleeping"
    BY <1>2, RollBacks
  <2>2. pc # "down" /\ Horizon <= Horizon'
    BY <1>0, <2>1 DEF InScan, Horizon
  <2>3. Blocked'
    BY <1>0, <1>a, <2>1, <2>2, RowsDropped, StaysBlocked
  <2> QED  BY <1>b, <2>1, <2>3
<1>3. ASSUME NEW observerFails \in BOOLEAN, Decide(observerFails)
      PROVE  RowsOK'
  <2> DEFINE key == Position[opp]
             until == scan + Holding[key] + ReentryDelay
  <2>1. /\ pc = "deciding" /\ pc' = "trading" /\ tracker' = [tracker EXCEPT ![key] = until]
        /\ db' = db /\ rows' = rows /\ scan' = scan /\ opp' = opp
    BY <1>3 DEF Decide
  <2>2. opp \in Opps
    BY <2>1 DEF PaperTypeOK
  <2>3. key \in PositionKeys
    BY <2>2, PaperConstants
  <2>5. \A i \in DOMAIN Ledger : Ledger[i].key = key => ClosesAt(Ledger[i]) <= scan
    BY <2>1 DEF RowsOK
  <2>6. Ledger' = Ledger /\ Horizon = scan /\ Horizon' = scan /\ pc # "down"
    BY <2>1, RowsUnchanged DEF Horizon, InScan
  <2> HIDE DEF until
  <2>7. \A k \in PositionKeys : k # key => tracker'[k] = tracker[k]
    BY <2>1, <2>3 DEF PaperTypeOK
  <2>8. ASSUME NEW i \in DOMAIN Ledger, Ledger[i].key \notin LegacyKeys
        PROVE  ClosesAt(Ledger[i]) <= tracker'[Ledger[i].key] \/ ClosesAt(Ledger[i]) <= scan
    <3>1. CASE Ledger[i].key = key
      BY <2>5, <3>1
    <3>2. CASE Ledger[i].key # key
      <4>1. tracker'[Ledger[i].key] = tracker[Ledger[i].key]
        BY <2>7, <3>2, RowsClose
      <4> QED  BY <1>a, <2>6, <2>8, <4>1 DEF Blocked
    <3> QED  BY <3>1, <3>2
  <2>9. Blocked'
    BY <2>6, <2>8 DEF Blocked, ClosesAt
  <2>10. \A i \in DOMAIN Ledger' : Ledger'[i].key = Position[opp'] => ClosesAt(Ledger'[i]) <= scan'
    BY <2>1, <2>5, <2>6
  <2> QED  BY <1>c, <2>1, <2>9, <2>10
<1>4. ASSUME NEW net \in Nets, Trade(net)
      PROVE  RowsOK'
  <2> DEFINE key == Position[opp]
             n == Len(Ledger) + 1
  <2>1. /\ pc = "trading" /\ Credit(TradedCapital, net) /\ tracker' = tracker /\ scan' = scan
        /\ db' = db /\ rows' = Append(rows, NewRow(net)) /\ pc' = "scanning"
    BY <1>4 DEF Trade, NewRow
  <2>2. opp \in Opps
    BY <2>1 DEF PaperTypeOK
  <2>3. key \in PositionKeys
    BY <2>2, PaperConstants
  <2>4. tracker[key] = scan + Holding[key] + ReentryDelay /\ Holding[key] \in Nat /\ ReentryDelay \in Nat
    BY <2>1, <2>3, PaperConstants DEF TrackerOK
  <2>5. NewRow(net).key = key /\ ClosesAt(NewRow(net)) = scan + Holding[key]
    BY DEF NewRow, ClosesAt
  <2> HIDE DEF key
  <2>6. ClosesAt(NewRow(net)) <= tracker[key]
    BY <1>0, <2>4, <2>5
  <2>7. Appends(NewRow(net))
    BY <2>1, Credited, RowAppended
  <2>8. /\ DOMAIN Ledger' = DOMAIN Ledger \cup {n} /\ Ledger'[n] = NewRow(net)
        /\ \A i \in DOMAIN Ledger : Ledger'[i] = Ledger[i]
    BY <2>7 DEF Appends
  <2> HIDE DEF n
  <2>9. Horizon = scan /\ Horizon' = scan /\ pc # "down"
    BY <2>1 DEF Horizon, InScan
  <2>10. ASSUME NEW i \in DOMAIN Ledger', Ledger'[i].key \notin LegacyKeys
         PROVE  ClosesAt(Ledger'[i]) <= tracker'[Ledger'[i].key] \/ ClosesAt(Ledger'[i]) <= Horizon'
    <3>1. CASE i = n
      <4>1. Ledger'[i] = NewRow(net)
        BY <2>8, <3>1
      <4> QED  BY <2>1, <2>5, <2>6, <4>1
    <3>2. CASE i \in DOMAIN Ledger
      <4>1. Ledger'[i] = Ledger[i]
        BY <2>8, <3>2
      <4>2. ClosesAt(Ledger[i]) <= tracker[Ledger[i].key] \/ ClosesAt(Ledger[i]) <= Horizon
        BY <1>a, <2>9, <2>10, <3>2, <4>1 DEF Blocked
      <4> QED  BY <2>1, <2>9, <4>1, <4>2
    <3> QED  BY <2>8, <3>1, <3>2
  <2>11. Blocked'
    BY <2>10 DEF Blocked, ClosesAt
  <2> QED  BY <1>b, <2>1, <2>11
<1>5. ASSUME NEW net \in Nets, TradeNotSaved(net)
      PROVE  RowsOK'
  <2>1. /\ pc = "trading" /\ tracker' = tracker /\ db' = db /\ rows' = <<>> /\ now' = now
        /\ pc' = "sleeping"
    BY <1>5 DEF TradeNotSaved, SessionLost
  <2>2. Horizon <= Horizon'
    BY <1>0, <2>1 DEF Horizon, InScan
  <2>3. Blocked'
    BY <1>0, <1>a, <2>1, <2>2, RowsDropped, StaysBlocked
  <2> QED  BY <1>b, <2>1, <2>3
<1>6. ASSUME NEW x \in PositionKeys, ForceExit(x)
      PROVE  RowsOK'
  <2> DEFINE exit == [key |-> x, capital |-> OpeningTrade(x).capital,
                      net |-> -OpeningTrade(x).net - UnwindCost, at |-> scan, kind |-> "exit"]
             n == Len(Ledger) + 1
  <2>1. /\ pc = "scanning" /\ tracker' = tracker /\ scan' = scan /\ pc' = pc
        /\ db' = db /\ rows' = Append(rows, exit) /\ x \in Overdue
    BY <1>6, OverduePositions DEF ForceExit, Reversed
  <2>2. exit \in TradeRow
    <3>1. OpeningTrade(x) \in TradeRow
      BY <2>1, OverduePositions
    <3> QED  BY <3>1, PaperConstants DEF TradeRow, PaperTypeOK
  <2>3. exit.key = x /\ x \in LegacyKeys
    BY <2>1, OverduePositions
  <2> HIDE DEF exit
  <2>4. Appends(exit)
    BY <2>1, <2>2, RowAppended
  <2>5. /\ DOMAIN Ledger' = DOMAIN Ledger \cup {n} /\ Ledger'[n] = exit
        /\ \A i \in DOMAIN Ledger : Ledger'[i] = Ledger[i]
    BY <2>4 DEF Appends
  <2> HIDE DEF n
  <2>6. Horizon' = Horizon
    BY <2>1 DEF Horizon, InScan
  <2>7. ASSUME NEW i \in DOMAIN Ledger', Ledger'[i].key \notin LegacyKeys
        PROVE  ClosesAt(Ledger'[i]) <= tracker'[Ledger'[i].key] \/ ClosesAt(Ledger'[i]) <= Horizon'
    <3>1. i \in DOMAIN Ledger /\ Ledger'[i] = Ledger[i]
      BY <2>3, <2>5, <2>7
    <3>2. ClosesAt(Ledger[i]) <= tracker[Ledger[i].key] \/ ClosesAt(Ledger[i]) <= Horizon
      BY <1>a, <2>1, <2>7, <3>1 DEF Blocked
    <3> QED  BY <2>1, <2>6, <3>1, <3>2
  <2>8. Blocked'
    BY <2>7 DEF Blocked, ClosesAt
  <2> QED  BY <1>b, <2>1, <2>8
<1>7. CASE CommitScan
  <2>1. /\ pc = "scanning" /\ tracker' = tracker /\ db' = db \o rows /\ rows' = <<>> /\ now' = now
        /\ pc' \in {"checking", "sleeping"}
    BY <1>7 DEF CommitScan
  <2>2. Horizon <= Horizon'
    BY <1>0, <2>1 DEF Horizon, InScan
  <2>3. Blocked'
    BY <1>0, <1>a, <2>1, <2>2, RowsCommitted, StaysBlocked
  <2> QED  BY <1>b, <2>1, <2>3
<1>8. CASE Crash
  BY <1>b, <1>8 DEF Crash
<1>9. CASE RestartProcess
  <2>1. /\ pc = "down" /\ pc' = "sleeping" /\ tracker' = RecoveredTracker
        /\ db' = db /\ rows' = rows /\ now' = now
    BY <1>9 DEF RestartProcess
  <2>2. rows = <<>>
    BY <2>1 DEF AtRest, InScan
  <2>3. Ledger = db /\ Ledger' = db /\ Horizon' = now
    BY <2>1, <2>2, LedgerIs, RowsUnchanged DEF Horizon, InScan
  <2>4. db \in Seq(TradeRow) /\ DOMAIN db = 1..Len(db) /\ Len(db) \in Nat
    BY DEF PaperTypeOK
  <2>5. ASSUME NEW i \in DOMAIN db, db[i].key \notin LegacyKeys, ~(ClosesAt(db[i]) <= now)
        PROVE  ClosesAt(db[i]) <= RecoveredTracker[db[i].key]
    <3>1. \A j \in DOMAIN db : db[j].key = db[i].key => db[j].kind = "open"
      <4>1. \A j \in DOMAIN db : db[j] \in TradeRow
        BY <2>4
      <4>2. \A j \in DOMAIN db : db[j].kind \in {"open", "exit"}
        BY <4>1 DEF TradeRow
      <4>3. \A j \in DOMAIN db : db[j].kind = "exit" => db[j].key \in LegacyKeys
        BY <2>3 DEF LedgerOK
      <4> QED  BY <2>5, <4>2, <4>3
    <3>2. ~ForceClosed(db[i].key)
      BY <3>1 DEF ForceClosed
    <3>3. ClosesAt(db[i]) \in Int
      BY <2>3, RowsClose
    <3>4. StillOpen(i)
      BY <1>0, <2>5, <3>1, <3>2, <3>3 DEF StillOpen
    <3>5. ASSUME NEW j \in 1..(i - 1), db[j].key = db[i].key, StillOpen(j)
          PROVE  FALSE
      <4>1. j \in DOMAIN db /\ j < i
        BY <2>4
      <4>2. ClosesAt(db[j]) <= db[i].at
        BY <2>3, <2>5, <3>5, <4>1 DEF NoDuplicatePositions, Ledger
      <4>3. db[i].at <= now
        BY <2>3 DEF LedgerOK
      <4>4. ClosesAt(db[j]) \in Int /\ db[i].at \in Nat
        <5>1. db[i] \in TradeRow
          BY <2>4
        <5> QED  BY <2>3, <4>1, <5>1, RowsClose DEF TradeRow
      <4>5. ClosesAt(db[j]) > now
        BY <3>5 DEF StillOpen
      <4> QED  BY <1>0, <4>2, <4>3, <4>4, <4>5
    <3>6. Recovered(i)
      BY <3>4, <3>5 DEF Recovered
    <3>7. RecoveredTracker[db[i].key] = ClosesAt(db[i]) + ReentryDelay
      BY <3>6, RecoveredTrackers
    <3> QED  BY <3>3, <3>7, PaperConstants
  <2>6. Blocked'
    BY <2>1, <2>3, <2>5 DEF Blocked, ClosesAt
  <2> QED  BY <1>b, <2>1, <2>6
<1>10. CASE CapitalPoolRead
  <2>1. /\ pc # "down" /\ tracker' = tracker /\ db' = db /\ rows' = rows /\ now' = now
        /\ pc' = pc /\ opp' = opp /\ scan' = scan
    BY <1>10 DEF CapitalPoolRead, scanVars
  <2>2. Ledger' = Ledger /\ Horizon' = Horizon
    BY <2>1, RowsUnchanged DEF Horizon, InScan
  <2> QED  BY <2>1, <2>2 DEF RowsOK, ClosesAt
<1> QED  BY <1>1, <1>2, <1>3, <1>4, <1>5, <1>6, <1>7, <1>8, <1>9, <1>10, StepKinds

-----------------------------------------------------------------------------
(* What the runs check                                                     *)

LEMMA DuplicatesPreserved ==
  ASSUME PaperTypeOK, AtRest, LocksOK, RowsOK, NoDuplicatePositions, [PaperNext]_paperVars
  PROVE  NoDuplicatePositions'
<1>1. \A i, j \in DOMAIN Ledger :
        /\ i < j
        /\ Ledger[i].key = Ledger[j].key /\ Ledger[i].key \notin LegacyKeys
        => ClosesAt(Ledger[i]) <= Ledger[j].at
  BY DEF NoDuplicatePositions, Ledger
<1>2. ASSUME NEW i \in DOMAIN Ledger', NEW j \in DOMAIN Ledger', i < j,
             Ledger'[i].key = Ledger'[j].key, Ledger'[i].key \notin LegacyKeys
      PROVE  ClosesAt(Ledger'[i]) <= Ledger'[j].at
  <2>1. CASE Keeps
    <3>1. /\ i \in DOMAIN Ledger /\ Ledger'[i] = Ledger[i]
          /\ j \in DOMAIN Ledger /\ Ledger'[j] = Ledger[j]
      BY <2>1 DEF Keeps
    <3> QED  BY <1>1, <1>2, <3>1
  <2>2. ASSUME NEW row, Appends(row),
               row.key \notin LegacyKeys =>
                 \A m \in DOMAIN Ledger : Ledger[m].key = row.key => ClosesAt(Ledger[m]) <= row.at
        PROVE  ClosesAt(Ledger'[i]) <= Ledger'[j].at
    <3> DEFINE n == Len(Ledger) + 1
    <3>1. /\ DOMAIN Ledger' = DOMAIN Ledger \cup {n} /\ Ledger'[n] = row
          /\ \A m \in DOMAIN Ledger : Ledger'[m] = Ledger[m] /\ m < n
      BY <2>2 DEF Appends
    <3>0. n \in Nat /\ \A m \in DOMAIN Ledger : m \in Nat
      BY LedgerIs
    <3> HIDE DEF n
    <3>2. i \in DOMAIN Ledger /\ Ledger'[i] = Ledger[i]
      BY <1>2, <3>0, <3>1
    <3>3. CASE j = n
      BY <1>2, <2>2, <3>1, <3>2, <3>3
    <3>4. CASE j \in DOMAIN Ledger
      BY <1>1, <1>2, <3>1, <3>2, <3>4
    <3> QED  BY <3>1, <3>3, <3>4
  <2>3. ASSUME NEW net \in Nets, Trade(net), Appends(NewRow(net))
        PROVE  ClosesAt(Ledger'[i]) <= Ledger'[j].at
    <3>1. pc = "trading" /\ NewRow(net).key = Position[opp] /\ NewRow(net).at = scan
      BY <2>3 DEF Trade, NewRow
    <3>2. \A m \in DOMAIN Ledger : Ledger[m].key = Position[opp] => ClosesAt(Ledger[m]) <= scan
      BY <3>1 DEF RowsOK
    <3> QED  BY <2>2, <2>3, <3>1, <3>2
  <2>4. ASSUME NEW k \in PositionKeys, ForceExit(k),
               Appends([key |-> k, capital |-> OpeningTrade(k).capital,
                        net |-> -OpeningTrade(k).net - UnwindCost, at |-> scan, kind |-> "exit"])
        PROVE  ClosesAt(Ledger'[i]) <= Ledger'[j].at
    <3>1. k \in LegacyKeys
      BY <2>4, OverduePositions DEF ForceExit
    <3> QED  BY <2>2, <2>4, <3>1
  <2> QED  BY <2>1, <2>3, <2>4, LedgerSteps
<1> QED  BY <1>2 DEF NoDuplicatePositions, Ledger, ClosesAt

LEMMA ForcedOncePreserved ==
  ASSUME PaperTypeOK, AtRest, LocksOK, ForcedOnce, [PaperNext]_paperVars
  PROVE  ForcedOnce'
<1>1. \A i, j \in DOMAIN Ledger :
        Ledger[i].kind = "exit" /\ Ledger[j].kind = "exit" /\ Ledger[i].key = Ledger[j].key => i = j
  BY DEF ForcedOnce, Ledger
<1>2. ASSUME NEW i \in DOMAIN Ledger', NEW j \in DOMAIN Ledger', Ledger'[i].kind = "exit",
             Ledger'[j].kind = "exit", Ledger'[i].key = Ledger'[j].key
      PROVE  i = j
  <2>1. CASE Keeps
    <3>1. /\ i \in DOMAIN Ledger /\ Ledger'[i] = Ledger[i]
          /\ j \in DOMAIN Ledger /\ Ledger'[j] = Ledger[j]
      BY <2>1 DEF Keeps
    <3> QED  BY <1>1, <1>2, <3>1
  <2>2. ASSUME NEW net \in Nets, Trade(net), Appends(NewRow(net))
        PROVE  i = j
    <3>1. NewRow(net).kind = "open"
      BY DEF NewRow
    <3>2. /\ i \in DOMAIN Ledger /\ Ledger'[i] = Ledger[i]
          /\ j \in DOMAIN Ledger /\ Ledger'[j] = Ledger[j]
      BY <1>2, <2>2, <3>1 DEF Appends
    <3> QED  BY <1>1, <1>2, <3>2
  <2>3. ASSUME NEW k \in PositionKeys, ForceExit(k),
               Appends([key |-> k, capital |-> OpeningTrade(k).capital,
                        net |-> -OpeningTrade(k).net - UnwindCost, at |-> scan, kind |-> "exit"])
        PROVE  i = j
    <3>1. k \in LegacyKeys /\ locks[k].expiry > 0
      BY <2>3, OverduePositions DEF ForceExit
    <3>2. \A m \in DOMAIN Ledger : Ledger[m].key = k => Ledger[m].kind = "open"
      BY <3>1 DEF LocksOK
    <3> DEFINE n == Len(Ledger) + 1
    <3>3. /\ DOMAIN Ledger' = DOMAIN Ledger \cup {n} /\ Ledger'[n].key = k
          /\ \A m \in DOMAIN Ledger : Ledger'[m] = Ledger[m]
      BY <2>3 DEF Appends
    <3> HIDE DEF n
    <3>4. ASSUME NEW m \in DOMAIN Ledger', Ledger'[m].kind = "exit", Ledger'[m].key = k
          PROVE  m = n
      BY <3>2, <3>3, <3>4
    <3>5. CASE i = n \/ j = n
      BY <1>2, <3>3, <3>4, <3>5
    <3>6. CASE i \in DOMAIN Ledger /\ j \in DOMAIN Ledger
      BY <1>1, <1>2, <3>3, <3>6
    <3> QED  BY <3>3, <3>5, <3>6
  <2> QED  BY <2>1, <2>2, <2>3, LedgerSteps
<1> QED  BY <1>2 DEF ForcedOnce, Ledger

LEMMA ReconciliationPreserved ==
  ASSUME PaperTypeOK, AtRest, LedgerOK, LocksOK, LedgerReconciles, [PaperNext]_paperVars
  PROVE  LedgerReconciles'
<1>0. /\ NetTotal(rows) \in Int /\ NetTotal(db) \in Int /\ balance \in Int /\ drift \in Int
      /\ Initial \in Nat /\ db \in Seq(TradeRow) /\ rows \in Seq(TradeRow)
  BY NetIsInt, PaperConstants DEF PaperTypeOK
<1>a. pc # "down" => balance = Initial + NetTotal(db) + NetTotal(rows) + drift
  BY DEF LedgerReconciles
<1>b. ASSUME balance' = Initial + NetTotal(db') + NetTotal(rows') + drift'
      PROVE  LedgerReconciles'
  BY <1>b DEF LedgerReconciles, NetTotal
<1>1. CASE Quiet
  <2>1. /\ balance' = balance /\ db' = db /\ rows' = rows /\ drift' = drift
        /\ (pc = "down" <=> pc' = "down")
    BY <1>1, QuietSteps
  <2> QED  BY <1>a, <2>1 DEF LedgerReconciles, NetTotal
<1>2. CASE RollsBack
  <2>1. /\ balance' = balance /\ db' = db /\ rows' = <<>> /\ drift' = drift + NetTotal(rows)
        /\ pc # "down"
    BY <1>2, RollBacks DEF InScan
  <2>2. NetTotal(rows') = 0
    BY <2>1, NetOfNone
  <2>3. NetTotal(db') = NetTotal(db)
    BY <2>1
  <2> QED  BY <1>0, <1>a, <1>b, <2>1, <2>2, <2>3
<1>3. CASE \E observerFails \in BOOLEAN : Decide(observerFails)
  <2>1. balance' = balance /\ db' = db /\ rows' = rows /\ drift' = drift /\ pc # "down"
    BY <1>3 DEF Decide
  <2> QED  BY <1>a, <1>b, <2>1
<1>4. ASSUME NEW net \in Nets, Trade(net)
      PROVE  LedgerReconciles'
  <2>1. /\ pc = "trading" /\ Credit(TradedCapital, net) /\ rows' = Append(rows, NewRow(net))
        /\ db' = db /\ drift' = drift
    BY <1>4 DEF Trade, NewRow
  <2>2. balance' = balance + net /\ NewRow(net) \in TradeRow
    BY <2>1, Credited
  <2>3. NetTotal(Append(rows, NewRow(net))) = NetTotal(rows) + NewRow(net).net
    BY <1>0, <2>2, NetOfAppend
  <2>4. NetTotal(rows') = NetTotal(rows) + net /\ net \in Int /\ NetTotal(db') = NetTotal(db)
    BY <2>1, <2>3, PaperConstants DEF NewRow
  <2> QED  BY <1>0, <1>a, <1>b, <2>1, <2>2, <2>4
<1>5. ASSUME NEW net \in Nets, TradeNotSaved(net)
      PROVE  LedgerReconciles'
  <2>1. /\ pc = "trading" /\ Credit(TradedCapital, net) /\ rows' = <<>>
        /\ db' = db /\ drift' = drift + NetTotal(rows) + net
    BY <1>5 DEF TradeNotSaved, SessionLost
  <2>2. balance' = balance + net /\ net \in Int
    BY <2>1, Credited, PaperConstants
  <2>3. NetTotal(rows') = 0 /\ NetTotal(db') = NetTotal(db)
    BY <2>1, NetOfNone
  <2> QED  BY <1>0, <1>a, <1>b, <2>1, <2>2, <2>3
<1>6. ASSUME NEW x \in PositionKeys, ForceExit(x)
      PROVE  LedgerReconciles'
  <2> DEFINE exit == [key |-> x, capital |-> OpeningTrade(x).capital,
                      net |-> -OpeningTrade(x).net - UnwindCost, at |-> scan, kind |-> "exit"]
  <2>1. /\ pc = "scanning" /\ balance' = balance + exit.net /\ drift' = drift
        /\ db' = db /\ rows' = Append(rows, exit) /\ x \in Overdue
    BY <1>6, OverduePositions DEF ForceExit, Reversed
  <2>2. exit \in TradeRow
    <3>1. OpeningTrade(x) \in TradeRow
      BY <2>1, OverduePositions
    <3> QED  BY <3>1, PaperConstants DEF TradeRow, PaperTypeOK
  <2> HIDE DEF exit
  <2>3. NetTotal(Append(rows, exit)) = NetTotal(rows) + exit.net
    BY <1>0, <2>2, NetOfAppend
  <2>4. NetTotal(rows') = NetTotal(rows) + exit.net /\ exit.net \in Int /\ NetTotal(db') = NetTotal(db)
    BY <2>1, <2>2, <2>3 DEF TradeRow
  <2> QED  BY <1>0, <1>a, <1>b, <2>1, <2>4
<1>7. CASE CommitScan
  <2>1. pc = "scanning" /\ balance' = balance /\ drift' = drift /\ db' = db \o rows /\ rows' = <<>>
    BY <1>7 DEF CommitScan
  <2>2. NetTotal(db \o rows) = NetTotal(db) + NetTotal(rows)
    BY <1>0, NetOfBoth
  <2>3. NetTotal(db') = NetTotal(db) + NetTotal(rows) /\ NetTotal(rows') = 0
    BY <2>1, <2>2, NetOfNone
  <2> QED  BY <1>0, <1>a, <1>b, <2>1, <2>3
<1>8. CASE Crash
  BY <1>8 DEF Crash, LedgerReconciles
<1>9. CASE RestartProcess
  <2>1. /\ pc = "down" /\ balance' = RecoveredBalance /\ db' = db /\ rows' = rows /\ drift' = drift
    BY <1>9 DEF RestartProcess
  <2>2. rows = <<>> /\ drift = 0
    BY <2>1 DEF AtRest, InScan
  <2>3. NetTotal(rows') = 0 /\ NetTotal(db') = NetTotal(db)
    BY <2>1, <2>2, NetOfNone
  <2>4. balance' = Initial + NetTotal(db)
    BY <2>1 DEF RecoveredBalance
  <2> QED  BY <1>0, <1>b, <2>1, <2>2, <2>3, <2>4
<1>10. CASE CapitalPoolRead
  <2>1. balance' = balance /\ db' = db /\ rows' = rows /\ drift' = drift /\ pc # "down"
    BY <1>10 DEF CapitalPoolRead, scanVars
  <2> QED  BY <1>a, <1>b, <2>1
<1> QED  BY <1>1, <1>2, <1>3, <1>4, <1>5, <1>6, <1>7, <1>8, <1>9, <1>10, StepKinds

\* Only a trade and the recovery take locks, each against what is free.
LEMMA CommitmentsCovered ==
  ASSUME PaperTypeOK, AtRest, LedgerOK, LocksOK, [PaperNext]_paperVars, TakesLocks
  PROVE  LockedTotal(locks') <= Max2(0, balance')
<1>0. /\ locks \in [PositionKeys -> LockRec] /\ balance \in Int /\ scan \in Nat /\ now \in Nat
  BY DEF PaperTypeOK
<1>a. ~Wanes
  BY DEF Wanes, TakesLocks
<1>1. ASSUME UNCHANGED locks PROVE FALSE
  BY <1>a, <1>1 DEF Wanes
<1>2. CASE Quiet \/ RollsBack
  BY <1>1, <1>2, QuietSteps, RollBacks
<1>3. CASE \E observerFails \in BOOLEAN : Decide(observerFails)
  BY <1>1, <1>3 DEF Decide
<1>4. ASSUME NEW net \in Nets, pc = "trading", Credit(TradedCapital, net)
      PROVE  LockedTotal(locks') <= Max2(0, balance')
  <2> DEFINE key == Position[opp]
             free == PrunedLocks(locks, scan)
  <2>1. /\ key \in PositionKeys /\ TradedCapital \in Nat /\ TradeLock(net) \in LockRec
        /\ TradedCapital <= balance - LockedTotal(free)
        /\ balance' = balance + net /\ net \in Int
        /\ locks' = [free EXCEPT ![key] = TradeLock(net)]
    BY <1>4, Credited, PaperConstants
  <2>2. TradeLock(net).amount = TradedCapital + net
    BY DEF TradeLock
  <2>3. free \in [PositionKeys -> LockRec] /\ LockedTotal(free) \in Nat
    <3>1. free \in [PositionKeys -> LockRec]
      BY <1>0, Pruning
    <3> QED  BY <3>1, LockTotals
  <2> HIDE DEF free, key
  <2>4. LockedTotal(locks') = LockedTotal(free) - free[key].amount + TradeLock(net).amount
    BY <2>1, <2>3, LockReplaced
  <2>5. free[key].amount \in Nat
    BY <2>1, <2>3 DEF LockRec
  <2>6. LockedTotal(locks') <= balance' /\ balance' \in Int /\ LockedTotal(locks') \in Int
    BY <1>0, <2>1, <2>2, <2>3, <2>4, <2>5
  <2> QED  BY <2>6 DEF Max2
<1>5. CASE \E net \in Nets : Trade(net) \/ TradeNotSaved(net)
  BY <1>4, <1>5 DEF Trade, TradeNotSaved
<1>6. CASE \E x \in PositionKeys : ForceExit(x)
  BY <1>a, <1>6, ForcedLocks
<1>7. CASE CommitScan
  BY <1>1, <1>7 DEF CommitScan
<1>8. CASE Crash
  BY <1>a, <1>8 DEF Crash, NoMemory, Wanes
<1>9. CASE RestartProcess
  <2>1. balance' = RecoveredBalance /\ locks' = RecoveredLocks
    BY <1>9 DEF RestartProcess
  <2> QED  BY <2>1, RecoveryIsSound DEF RecoveryOK
<1>10. CASE CapitalPoolRead
  BY <1>0, <1>a, <1>10, PruningWanes DEF CapitalPoolRead
<1> QED  BY <1>2, <1>3, <1>5, <1>6, <1>7, <1>8, <1>9, <1>10, StepKinds

-----------------------------------------------------------------------------
(* Theorems                                                                *)

PaperInv ==
  /\ PaperTypeOK /\ AtRest /\ LedgerOK /\ LocksOK /\ TrackerOK /\ RowsOK
  /\ NoDuplicatePositions

LEMMA PaperStarts ==
  ASSUME PaperInit
  PROVE  PaperInv /\ ForcedOnce /\ LedgerReconciles
<1>1. /\ now = Start /\ db \in Ledgers /\ pc = "down" /\ scan = 0 /\ todo = {} /\ rows = <<>>
      /\ broken = FALSE /\ balance = Initial /\ kill = FALSE /\ lastCheck = 0 /\ drift = 0
      /\ locks = [k \in PositionKeys |-> NoLock] /\ tracker = [k \in PositionKeys |-> 0]
      /\ tracked = [o \in Opps |-> NoTrack]
  BY DEF PaperInit
<1>2. /\ db \in Seq(TradeRow) /\ <<>> \in Seq(TradeRow)
      /\ \A i \in DOMAIN db :
           /\ db[i].key \in LegacyKeys /\ db[i].kind = "open" /\ db[i].at <= Start
           /\ db[i].capital + db[i].net > 0
  <2>1. db \in Seq(TradeRow)
    BY <1>1, LedgerAssumption DEF LedgerAssumption
  <2>2. \A i \in DOMAIN db :
          /\ db[i].key \in LegacyKeys /\ db[i].kind = "open" /\ db[i].at <= Start
          /\ db[i].capital + db[i].net > 0
    BY <1>1, LedgerAssumption DEF LedgerAssumption
  <2> QED  BY <2>1, <2>2
<1>3. PaperTypeOK
  <2>1. locks \in [PositionKeys -> LockRec] /\ tracker \in [PositionKeys -> Nat]
    BY <1>1, NothingLocked
  <2>2. tracked \in [Opps -> TrackRec]
    BY <1>1 DEF NoTrack, TrackRec
  <2>3. now \in Nat /\ Start <= now /\ scan \in Nat /\ scan <= now /\ balance \in Int
    BY <1>1, PaperConstants
  <2>4. broken \in BOOLEAN /\ kill \in BOOLEAN
    BY <1>1
  <2>5. /\ pc = "down" /\ todo \subseteq Opps /\ lastCheck \in Nat /\ drift \in Int
        /\ rows \in Seq(TradeRow)
    BY <1>1, <1>2
  <2> QED  BY <1>2, <2>1, <2>2, <2>3, <2>4, <2>5 DEF PaperTypeOK
<1>4. Ledger = db
  BY <1>1, <1>3, LedgerIs
<1>5. AtRest
  BY <1>1 DEF AtRest
<1>6. LedgerOK
  BY <1>1, <1>2, <1>4 DEF LedgerOK
<1>7. \A k \in PositionKeys : locks[k] = NoLock /\ tracker[k] = 0
  BY <1>1
<1>8. LocksOK /\ TrackerOK
  BY <1>1, <1>7, NoLockIsLock DEF LocksOK, TrackerOK
<1>9. RowsOK
  BY <1>1 DEF RowsOK
<1>10. NoDuplicatePositions /\ ForcedOnce
  BY <1>2, <1>4 DEF NoDuplicatePositions, ForcedOnce, Ledger
<1>11. LedgerReconciles
  BY <1>1 DEF LedgerReconciles
<1> QED  BY <1>3, <1>5, <1>6, <1>8, <1>9, <1>10, <1>11 DEF PaperInv

LEMMA PaperInvPreserved ==
  ASSUME PaperInv, [PaperNext]_paperVars
  PROVE  PaperInv'
<1>1. /\ PaperTypeOK /\ AtRest /\ LedgerOK /\ LocksOK /\ TrackerOK /\ RowsOK
      /\ NoDuplicatePositions
  BY DEF PaperInv
<1>2. PaperTypeOK' /\ AtRest' /\ LedgerOK' /\ LocksOK'
  BY <1>1, TypesPreserved, AtRestPreserved, LedgerPreserved, LocksPreserved
<1>3. TrackerOK' /\ RowsOK' /\ NoDuplicatePositions'
  BY <1>1, TrackerPreserved, RowsPreserved, DuplicatesPreserved
<1> QED  BY <1>2, <1>3 DEF PaperInv

LEMMA PaperInvariant == PaperSpec => []PaperInv
<1>1. PaperInit => PaperInv
  BY PaperStarts
<1>2. PaperInv /\ [PaperNext]_paperVars => PaperInv'
  BY PaperInvPreserved
<1> QED  BY <1>1, <1>2, PTL DEF PaperSpec

\* The key of every position that keeps capital locked is blocked, for any holding times
\* and re-entry delay and over any number of failed scans, crashes and restarts
\* (OpenPositionTracker against VirtualPortfolio and state_recovery.py).
THEOREM LockedKeysAreBlocked == PaperSpec => []TrackerCoversLocks
<1>1. PaperInv => TrackerCoversLocks
  BY DEF PaperInv, PaperTypeOK, LockRec, TrackerOK, TrackerCoversLocks
<1> QED  BY <1>1, PaperInvariant, PTL

\* No two positions of one key overlap in the ledger: neither a restart in the middle of
\* a holding time nor a scan that fails makes the program open a position it has.
THEOREM PositionsNeverOverlap == PaperSpec => []NoDuplicatePositions
<1>1. PaperInv => NoDuplicatePositions
  BY DEF PaperInv
<1> QED  BY <1>1, PaperInvariant, PTL

\* A position is forced out once, whatever happens between the release of its lock, the
\* row of its exit and the commit (the time stop of main.py, and its recovery).
THEOREM ExitsAreForcedOnce == PaperSpec => []ForcedOnce
<1>1. PaperInit => ForcedOnce
  BY PaperStarts
<1>2. PaperInv /\ ForcedOnce /\ [PaperNext]_paperVars => ForcedOnce'
  BY ForcedOncePreserved DEF PaperInv
<1> QED  BY <1>1, <1>2, PaperInvariant, PTL DEF PaperSpec

\* The live equity is that of the ledger, but for the rows of the running scan and the
\* credits of scans that failed: what check_ledger_integrity compares.
THEOREM EquityIsTheLedgers == PaperSpec => []LedgerReconciles
<1>1. PaperInit => LedgerReconciles
  BY PaperStarts
<1>2. PaperInv /\ LedgerReconciles /\ [PaperNext]_paperVars => LedgerReconciles'
  BY ReconciliationPreserved DEF PaperInv
<1> QED  BY <1>1, <1>2, PaperInvariant, PTL DEF PaperSpec

\* Neither a trade nor the recovery takes a lock beyond the balance, whatever the ledger
\* and however far forced exits have brought the balance below what is locked (simulate,
\* lock_capital and state_recovery.py).
THEOREM LocksAreTakenCovered == PaperSpec => NewLocksAreCovered
<1>1. PaperInv /\ [PaperNext]_paperVars =>
        [TakesLocks => LockedTotal(locks') <= Max2(0, balance')]_paperVars
  BY CommitmentsCovered DEF PaperInv
<1> QED  BY <1>1, PaperInvariant, PTL DEF PaperSpec, NewLocksAreCovered
=============================================================================
