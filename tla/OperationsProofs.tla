--------------------------- MODULE OperationsProofs ---------------------------
(***************************************************************************)
(* Proofs about the operations of live trading. SafeResume: its types,     *)
(* that no session trades over a kill switch record, that a scope is       *)
(* paused only by its own failures, and that the lives of the process      *)
(* together implement the guard. LiveUniverse: the lists are of one        *)
(* reading. VenueReads: nothing older than its time to live is used.       *)
(* OrderClients: the report of an order is exact. LiveReadiness: what is   *)
(* not known is never called safe. InventoryAdvice: the purchases of a     *)
(* report fit together, and none rests on one sighting.                    *)
(***************************************************************************)
EXTENDS SafeResume, LiveUniverse, VenueReads, OrderClients, LiveReadiness,
        InventoryAdvice, Sums, SequenceTheorems

-----------------------------------------------------------------------------
\* The rule table

LEMMA RulesDomain == DOMAIN Rules = 1..16
BY DEF Rules

LEMMA RuleMarks ==
  /\ Rules[1].mark = "API PERMISSION CHANGE"
  /\ Rules[2].mark = "NEUTRALIZATION FAILED"
  /\ Rules[3].mark = "COULD NOT RESTORE THE FLOOR"
  /\ Rules[4].mark = "CAPITAL SAFETY VIOLATION"
  /\ Rules[5].mark = "SESSION LOSS LIMIT REACHED"
  /\ Rules[6].mark = "FEE ASSET UNKNOWN"
  /\ Rules[7].mark = "UNEXPLAINED P&L DISCREPANCY"
  /\ Rules[8].mark = "DOUBLE ALLOCATION"
  /\ Rules[9].mark = "KILL SWITCH ENGAGED"
  /\ Rules[10].mark = "UNKNOWN ORDER STATE"
  /\ Rules[11].mark = "AMBIGUOUS SUBMISSION ERROR"
  /\ Rules[12].mark = "BALANCE / LEDGER MISMATCH"
  /\ Rules[13].mark = "SELL REJECTED AFTER BUY"
  /\ Rules[14].mark = "REBALANCE FAILED"
  /\ Rules[15].mark = "REPEATED EXECUTION ERROR"
  /\ Rules[16].mark = "SCRIPT ERROR"
BY DEF Rules, Rule, SafeStop

LEMMA StopLevels ==
  /\ Rules[1].level = 5
  /\ Rules[2].level = 5
  /\ Rules[3].level = 5
  /\ Rules[4].level = 5
  /\ Rules[5].level = 5
  /\ Rules[6].level = 5
  /\ Rules[7].level = 5
  /\ Rules[8].level = 5
  /\ Rules[9].level = 5
  /\ Rules[16].level = 5
BY DEF Rules, Rule, SafeStop

\* The marks of the nine first rules are those that need a person.
LEMMA PersonRules ==
  ASSUME NEW m \in NeedsPerson
  PROVE  \E i \in 1..9 : Rules[i].mark = m
<1>1. 1 \in 1..9 /\ 2 \in 1..9 /\ 3 \in 1..9
  OBVIOUS
<1>2. 4 \in 1..9 /\ 5 \in 1..9 /\ 6 \in 1..9
  OBVIOUS
<1>3. 7 \in 1..9 /\ 8 \in 1..9 /\ 9 \in 1..9
  OBVIOUS
<1>. QED  BY <1>1, <1>2, <1>3, RuleMarks, Zenon DEF NeedsPerson

LEMMA LowIndices ==
  ASSUME NEW i \in 1..9
  PROVE  \/ i = 1 \/ i = 2 \/ i = 3 \/ i = 4 \/ i = 5
         \/ i = 6 \/ i = 7 \/ i = 8 \/ i = 9
<1>1. CASE i \in 1..4
  BY <1>1
<1>2. CASE i \in 5..9
  BY <1>2
<1>. QED  BY <1>1, <1>2

LEMMA LowIsIndex ==
  ASSUME NEW i \in 1..9
  PROVE  i \in 1..16
OBVIOUS

LEMMA Thirds ==
  ASSUME NEW i \in 1..16
  PROVE  i \in 1..9 \/ i \in 10..15 \/ i = 16
OBVIOUS

LEMMA NoLater ==
  ASSUME NEW i \in 1..16, NEW k \in 1..9, i <= k
  PROVE  i \in 1..9
OBVIOUS

LEMMA LaterIndices ==
  ASSUME NEW i \in 10..15
  PROVE  i = 10 \/ i = 11 \/ i = 12 \/ i = 13 \/ i = 14 \/ i = 15
OBVIOUS

LEMMA ScriptErrorRule ==
  ASSUME NEW i \in 1..16, Rules[i].mark = "SCRIPT ERROR"
  PROVE  i = 16
<1>1. CASE i \in 1..9
  BY <1>1, LowIndices, RuleMarks, Zenon
<1>2. CASE i \in 10..15
  BY <1>2, LaterIndices, RuleMarks, Zenon
<1>. QED  BY <1>1, <1>2, Thirds, Zenon

\* A plan of the highest level stops trading, whatever is known.
LEMMA LevelFiveStops ==
  ASSUME NEW c, c.level = 5, NEW known \in BOOLEAN
  PROVE  Stops(DecideRecoveryPlan(c, known))
<1>1. ~AutoRecoverable(c)
  BY DEF AutoRecoverable
<1>2. DecideRecoveryPlan(c, known).action =
        IF c.category = "CODE_LOGIC_UNKNOWN" /\ ~known
        THEN "CODE_FIX_REQUIRED" ELSE "GLOBAL_SAFE_STOP"
  BY <1>1, Zenon DEF DecideRecoveryPlan
<1>. QED  BY <1>2, Zenon DEF Stops

LEMMA MatchingRules ==
  ASSUME NEW t
  PROVE  /\ Matching(t) \in SUBSET (1..16)
         /\ \A k \in 1..16 : Rules[k].mark \in t => k \in Matching(t)
         /\ \A k \in Matching(t) : Rules[k].mark \in t
BY RulesDomain DEF Matching

\* A set of rules that is not empty has a first one.
LEMMA FirstRule ==
  ASSUME NEW M \in SUBSET (1..16), M # {}
  PROVE  \E i \in M : \A j \in M : i <= j
<1>1. PICK i \in M : \A j \in M : ~(<<j, i>> \in OpToRel(<, Nat))
  <2>1. M \subseteq Nat
    OBVIOUS
  <2>. QED  BY <2>1, WFMin, NatLessThanWellFounded, Zenon
<1>2. ASSUME NEW j \in M  PROVE i <= j
  <2>1. i \in Nat /\ j \in Nat
    OBVIOUS
  <2>2. <<j, i>> \in Nat \X Nat
    BY <2>1
  <2>3. ~(<<j, i>>[1] < <<j, i>>[2])
    BY <1>1, <2>2 DEF OpToRel
  <2>. QED  BY <2>1, <2>3
<1>. QED  BY <1>2

\* An incident that needs a person stops trading, whatever is known of it.
LEMMA PersonMeansStop ==
  ASSUME NEW t, NEW known \in BOOLEAN,
         t \cap NeedsPerson # {} \/ t = {} \/ t = {"SCRIPT ERROR"}
  PROVE  Stops(DecideRecoveryPlan(ClassifyIncident(t), known))
<1>1. CASE Matching(t) = {}
  <2>1. ClassifyIncident(t).level = 5
    BY <1>1 DEF ClassifyIncident, Unknown, Rule
  <2>. QED  BY <2>1, LevelFiveStops
<1>2. CASE Matching(t) # {}
  <2>1. PICK f \in Matching(t) : \A j \in Matching(t) : f <= j
    BY <1>2, FirstRule, MatchingRules
  <2>2. PICK i \in Matching(t) : /\ \A j \in Matching(t) : i <= j
                                /\ ClassifyIncident(t) = Rules[i]
    BY <1>2, <2>1 DEF ClassifyIncident
  <2>3. i \in 1..16
    BY MatchingRules
  <2>4. i \in 1..9 \/ i = 16
    <3>1. CASE t \cap NeedsPerson # {}
      <4>1. PICK m \in NeedsPerson : m \in t
        BY <3>1
      <4>2. PICK k \in 1..9 : Rules[k].mark = m
        BY PersonRules
      <4>3. k \in 1..16
        BY LowIsIndex, Zenon
      <4>4. k \in Matching(t)
        BY <4>1, <4>2, <4>3, MatchingRules
      <4>. QED  BY <2>2, <2>3, <4>4, NoLater, Zenon
    <3>2. CASE t = {}
      BY <3>2, <2>2, MatchingRules
    <3>3. CASE t = {"SCRIPT ERROR"}
      BY <3>3, <2>2, <2>3, MatchingRules, ScriptErrorRule
    <3>. QED  BY <3>1, <3>2, <3>3
  <2>5. Rules[i].level = 5
    BY <2>4, LowIndices, StopLevels, Zenon
  <2>. QED  BY <2>2, <2>5, LevelFiveStops
<1>. QED  BY <1>1, <1>2

-----------------------------------------------------------------------------
\* Types

LEMMA FreshBreakerType ==
  FreshBreaker \in [Keys -> [failures : Nat, tripped : BOOLEAN, until : Nat]]
BY DEF FreshBreaker, FreshKey

LEMMA RecordFailureType ==
  ASSUME ResumeTypeOK, NEW k \in Keys
  PROVE  RecordFailure(breaker, k)[k] \in [failures : Nat, tripped : BOOLEAN, until : Nat]
<1>1. breaker[k].failures + 1 \in Nat /\ breaker[k].until \in Nat /\ now + Cooldown \in Nat
  BY ResumeAssumption DEF ResumeTypeOK
<1>2. (breaker[k].failures + 1 >= TripThreshold) \in BOOLEAN
  OBVIOUS
<1>. QED  BY <1>1, <1>2 DEF RecordFailure, ResumeTypeOK

\* A session that has taken up an attempt knows which.
CurrentAttempt ==
  pc \in {"intent", "started", "running", "returned",
          "engage", "engaging", "resolve", "resolving"} => cur \in Attempts

LEMMA SessionKeepsAttempt ==
  ASSUME CurrentAttempt, [ResumeNext]_rvars
  PROVE  CurrentAttempt'
BY DEF CurrentAttempt, ResumeNext, Start, StartIntent, WriteIntent, Call, CallRefused,
       Return, Succeed, Decide, TruncateKill, WriteKill, ResolveIntent, WriteResolution,
       Crash, Tick, ClearKillSwitch, ReviewIntents, rvars, session

(* Everything that survives a crash, and everything that does not, keeps    *)
(* its type.                                                                *)
THEOREM ResumeTypeCorrect == ResumeSpec => []ResumeTypeOK
<1>1. ResumeInit => ResumeTypeOK /\ CurrentAttempt
  <2> SUFFICES ASSUME ResumeInit PROVE ResumeTypeOK /\ CurrentAttempt
    OBVIOUS
  <2>1. TypeOK
    BY DEF ResumeInit, Init, TypeOK, Phases
  <2>2. log \in Logs /\ logFile \in Logs
    BY DEF ResumeInit, Logs, IntentStates
  <2>3. breaker \in [Keys -> [failures : Nat, tripped : BOOLEAN, until : Nat]]
    BY FreshBreakerType DEF ResumeInit
  <2>4. inRow \in [Keys -> Nat] /\ now \in Nat
    BY DEF ResumeInit
  <2>5. /\ pc \in Pcs /\ cur \in Attempts \cup {None} /\ stop \in BOOLEAN
        /\ incident \in IncidentTypes \cup {NoIncident}
        /\ killFile \in Attempts \cup {Missing, Torn}
        /\ CurrentAttempt
    BY DEF ResumeInit, Pcs, CurrentAttempt
  <2>. QED  BY <2>1, <2>2, <2>3, <2>4, <2>5 DEF ResumeTypeOK
<1>2. ResumeTypeOK /\ CurrentAttempt /\ [ResumeNext]_rvars => ResumeTypeOK' /\ CurrentAttempt'
  <2> SUFFICES ASSUME ResumeTypeOK, CurrentAttempt, [ResumeNext]_rvars PROVE ResumeTypeOK'
    BY SessionKeepsAttempt
  <2> USE DEF ResumeTypeOK, TypeOK, Phases, Pcs, Logs, IntentStates
  <2>1. CASE Start
    BY <2>1 DEF Start, gvars, files
  <2>2. ASSUME NEW a \in Attempts, StartIntent(a) PROVE ResumeTypeOK'
    BY <2>2 DEF StartIntent, gvars, Truncate
  <2>3. CASE WriteIntent \/ WriteResolution
    BY <2>3 DEF WriteIntent, WriteResolution, gvars, memory
  <2>4. CASE Call
    BY <2>4, ResumeAssumption DEF Call, Begin, files, memory
  <2>5. CASE CallRefused
    BY <2>5 DEF CallRefused, Refuse, files, memory
  <2>6. CASE Return
    BY <2>6 DEF Return, files, memory
  <2>7. CASE Succeed
    <3>1. breaker' \in [Keys -> [failures : Nat, tripped : BOOLEAN, until : Nat]]
      BY <2>7 DEF Succeed, RecordSuccess, FreshKey
    <3>2. inRow' \in [Keys -> Nat]
      BY <2>7 DEF Succeed, RecordSuccess
    <3>. QED  BY <2>7, <3>1, <3>2 DEF Succeed, RecordSuccess, files
  <2>8. CASE Decide
    <3>1. PICK explained \in BOOLEAN, known \in BOOLEAN :
            /\ phase' \in [Attempts -> Phases]
            /\ stop' \in BOOLEAN
            /\ pc' \in {"engage", "resolve"}
            /\ breaker' = [k \in Keys |->
                 IF k \in KeyOf(DecideRecoveryPlan(ClassifyIncident(incident), known).scope, cur)
                 THEN RecordFailure(breaker, k)[k] ELSE breaker[k]]
            /\ inRow' = [k \in Keys |->
                 IF k \in KeyOf(DecideRecoveryPlan(ClassifyIncident(incident), known).scope, cur)
                 THEN inRow[k] + 1 ELSE inRow[k]]
      BY <2>8 DEF Decide, Stops
    <3>2. breaker' \in [Keys -> [failures : Nat, tripped : BOOLEAN, until : Nat]]
      BY <3>1, RecordFailureType
    <3>3. inRow' \in [Keys -> Nat]
      BY <3>1
    <3>. QED  BY <2>8, <3>1, <3>2, <3>3 DEF Decide, files
  <2>9. CASE TruncateKill \/ WriteKill
    BY <2>9 DEF TruncateKill, WriteKill, CurrentAttempt, gvars, memory
  <2>10. CASE ResolveIntent
    BY <2>10 DEF ResolveIntent, Truncate, gvars
  <2>11. CASE Crash
    BY <2>11, FreshBreakerType DEF Crash, files
  <2>12. CASE Tick
    BY <2>12 DEF Tick, gvars, session, files, memory
  <2>13. CASE ClearKillSwitch
    BY <2>13 DEF ClearKillSwitch, Critical, session, memory
  <2>14. CASE ReviewIntents
    BY <2>14 DEF ReviewIntents, Critical, session, memory
  <2>15. CASE UNCHANGED rvars
    BY <2>15 DEF rvars, gvars, session, files, memory
  <2>. QED
    BY <2>1, <2>2, <2>3, <2>4, <2>5, <2>6, <2>7, <2>8, <2>9, <2>10, <2>11,
       <2>12, <2>13, <2>14, <2>15 DEF ResumeNext
<1>. QED  BY <1>1, <1>2, PTL DEF ResumeSpec

-----------------------------------------------------------------------------
\* The circuit breaker

BreakerCounts ==
  \A k \in Keys : /\ breaker[k].failures = inRow[k]
                  /\ breaker[k].tripped => inRow[k] >= TripThreshold

(* A key is paused only by its own incidents in a row.                      *)
THEOREM ResumePausedByItsOwnFailures == ResumeSpec => []PausedByItsOwnFailures
<1>1. ResumeInit => BreakerCounts
  BY DEF ResumeInit, BreakerCounts, FreshBreaker, FreshKey
<1>2. ResumeTypeOK /\ BreakerCounts /\ [ResumeNext]_rvars => BreakerCounts'
  <2> SUFFICES ASSUME ResumeTypeOK, BreakerCounts, [ResumeNext]_rvars
               PROVE  BreakerCounts'
    OBVIOUS
  <2>1. CASE Succeed
    BY <2>1 DEF Succeed, RecordSuccess, BreakerCounts, FreshKey
  <2>2. CASE Decide
    <3>1. PICK known \in BOOLEAN :
            /\ breaker' = [k \in Keys |->
                 IF k \in KeyOf(DecideRecoveryPlan(ClassifyIncident(incident), known).scope, cur)
                 THEN RecordFailure(breaker, k)[k] ELSE breaker[k]]
            /\ inRow' = [k \in Keys |->
                 IF k \in KeyOf(DecideRecoveryPlan(ClassifyIncident(incident), known).scope, cur)
                 THEN inRow[k] + 1 ELSE inRow[k]]
      BY <2>2 DEF Decide
    <3> SUFFICES ASSUME NEW k \in Keys
                 PROVE  /\ breaker'[k].failures = inRow'[k]
                        /\ breaker'[k].tripped => inRow'[k] >= TripThreshold
      BY DEF BreakerCounts
    <3>2. RecordFailure(breaker, k)[k].failures = inRow[k] + 1
      BY DEF RecordFailure, ResumeTypeOK, BreakerCounts
    <3>3. RecordFailure(breaker, k)[k].tripped => inRow[k] + 1 >= TripThreshold
      BY DEF RecordFailure, ResumeTypeOK, BreakerCounts
    <3>. QED  BY <3>1, <3>2, <3>3 DEF BreakerCounts
  <2>3. CASE Crash
    BY <2>3 DEF Crash, BreakerCounts, FreshBreaker, FreshKey
  <2>4. CASE UNCHANGED <<breaker, inRow>>
    BY <2>4 DEF BreakerCounts
  <2>. QED
    BY <2>1, <2>2, <2>3, <2>4
       DEF ResumeNext, rvars, memory, Start, StartIntent, WriteIntent, Call, CallRefused,
           Return, TruncateKill, WriteKill, ResolveIntent, WriteResolution, Tick,
           ClearKillSwitch, ReviewIntents
<1>3. BreakerCounts => PausedByItsOwnFailures
  BY DEF BreakerCounts, PausedByItsOwnFailures, IsTripped
<1>. QED  BY <1>1, <1>2, <1>3, ResumeTypeCorrect, PTL DEF ResumeSpec

-----------------------------------------------------------------------------
\* The lives of the process

\* One attempt runs at a time, the session's own.
RunsInSession ==
  /\ \A a \in Attempts : phase[a] = "running" =>
       a = cur /\ pc \in {"running", "returned"}
  /\ pc \in {"running", "returned"} => phase[cur] = "running"

\* What the session has written when it trades, ends and resolves.
SessionFiles ==
  /\ pc \in {"ready", "intent", "started", "running", "returned"} =>
       killFile = Missing /\ Unsettled = {}
  /\ pc = "intent" => log[cur] = "open"
  /\ pc \in {"started", "running", "returned"} =>
       logFile = log /\ log[cur] = "open"
  /\ pc \in {"engage", "engaging"} => Unsettled \subseteq {cur} /\ stop
  /\ pc = "engaging" => killFile = Torn
  /\ pc \in {"resolve", "resolving"} =>
       /\ \A u \in Unsettled : killFile = u
       /\ ~stop => Unsettled = {} /\ killFile = Missing

\* At most one end awaits a review, and one of the files tells of it.
OnRecord ==
  /\ reviewed \subseteq Critical
  /\ \A u, v \in Unsettled : u = v
  /\ killFile \in Attempts => Unsettled \subseteq {killFile}
  /\ \A u \in Unsettled : \/ logFile = Torn \/ logFile[u] = "open"
                          \/ killFile = Torn \/ killFile = u

ResumeInv == RunsInSession /\ SessionFiles /\ OnRecord

LEMMA CriticalEnd ==
  ASSUME ResumeTypeOK, NEW a \in Attempts, phase[a] = "running",
         phase' = [phase EXCEPT ![a] = "critical"], reviewed' = reviewed,
         reviewed \subseteq Critical
  PROVE  Critical' = Critical \cup {a} /\ Unsettled' = Unsettled \cup {a}
<1>1. Critical' = Critical \cup {a}
  BY DEF Critical, ResumeTypeOK, TypeOK
<1>2. a \notin reviewed
  BY DEF Critical
<1>. QED  BY <1>1, <1>2 DEF Unsettled

LEMMA CleanEnd ==
  ASSUME ResumeTypeOK, NEW a \in Attempts, phase[a] # "critical",
         NEW p, p # "critical",
         phase' = [phase EXCEPT ![a] = p], reviewed' = reviewed
  PROVE  Critical' = Critical /\ Unsettled' = Unsettled
<1>1. Critical' = Critical
  BY DEF Critical, ResumeTypeOK, TypeOK
<1>. QED  BY <1>1 DEF Unsettled

\* An attempt that ends critical stops the session.
LEMMA DecideEffect ==
  ASSUME ResumeTypeOK, CurrentAttempt, Decide
  PROVE  /\ cur \in Attempts
         /\ \/ phase' = [phase EXCEPT ![cur] = "critical"] /\ stop' /\ pc' = "engage"
            \/ /\ phase' = [phase EXCEPT ![cur] = "clean"]
               /\ (stop' /\ pc' = "engage") \/ (~stop' /\ pc' = "resolve")
<1>1. cur \in Attempts
  BY DEF Decide, CurrentAttempt
<1>2. PICK explained \in BOOLEAN, known \in BOOLEAN, gaveUp \in BOOLEAN :
        LET plan == DecideRecoveryPlan(ClassifyIncident(incident), known)
            person == \/ incident \cap NeedsPerson # {}
                      \/ incident \in {{}, {"SCRIPT ERROR"}}
                      \/ gaveUp
        IN /\ phase' = [phase EXCEPT ![cur] = IF person THEN "critical" ELSE "clean"]
           /\ stop' = (Stops(plan) \/ gaveUp)
           /\ pc' = IF Stops(plan) \/ gaveUp THEN "engage" ELSE "resolve"
  BY Zenon DEF Decide
<1>3. \/ incident \cap NeedsPerson # {}
      \/ incident \in {{}, {"SCRIPT ERROR"}}
      => Stops(DecideRecoveryPlan(ClassifyIncident(incident), known))
  BY PersonMeansStop
<1>. QED  BY <1>1, <1>2, <1>3

(* Every attempt that is not settled has a record that the next life reads. *)
THEOREM ResumeInvariant == ResumeSpec => []ResumeInv
<1>1. ResumeInit => ResumeInv
  BY ResumeAssumption DEF ResumeInit, Init, ResumeInv, RunsInSession, SessionFiles,
     OnRecord, Unsettled, Critical
<1>2. ResumeTypeOK /\ CurrentAttempt /\ ResumeInv /\ [ResumeNext]_rvars => ResumeInv'
  <2> SUFFICES ASSUME ResumeTypeOK, CurrentAttempt, ResumeInv, [ResumeNext]_rvars
               PROVE  ResumeInv'
    OBVIOUS
  <2> USE DEF ResumeInv, RunsInSession, SessionFiles, OnRecord
  <2>0. ASSUME UNCHANGED <<phase, reviewed>> PROVE Unsettled' = Unsettled /\ Critical' = Critical
    BY <2>0 DEF Unsettled, Critical
  <2>1. CASE Start
    <3>1. killFile = Missing /\ Unresolved(logFile) = {}
      BY <2>1 DEF Start, Preflight, KillSwitchRead
    <3>2. Unsettled = {}
      BY <2>1, <3>1, ResumeAssumption DEF Start, Unresolved, Unsettled, Critical
    <3>. QED  BY <2>0, <2>1, <3>1, <3>2 DEF Start, gvars, files
  <2>2. ASSUME NEW a \in Attempts, StartIntent(a) PROVE ResumeInv'
    BY <2>0, <2>2 DEF StartIntent, gvars, Truncate, ResumeTypeOK, Logs
  <2>3. CASE WriteIntent
    BY <2>0, <2>3 DEF WriteIntent, gvars, memory
  <2>4. CASE Call
    <3>1. phase' = [phase EXCEPT ![cur] = "running"] /\ phase[cur] = "idle" /\ cur \in Attempts
      BY <2>4 DEF Call, Begin, CurrentAttempt
    <3>2. Unsettled' = Unsettled /\ Critical' = Critical
      BY <2>4, <3>1, CleanEnd DEF Call, Begin
    <3>. QED  BY <2>4, <3>1, <3>2 DEF Call, Begin, files, memory, ResumeTypeOK, TypeOK
  <2>5. CASE CallRefused
    <3>1. phase' = [phase EXCEPT ![cur] = "refused"] /\ phase[cur] = "idle" /\ cur \in Attempts
      BY <2>5 DEF CallRefused, Refuse, CurrentAttempt
    <3>2. Unsettled' = Unsettled /\ Critical' = Critical
      BY <2>5, <3>1, CleanEnd DEF CallRefused, Refuse
    <3>. QED  BY <2>5, <3>1, <3>2 DEF CallRefused, Refuse, files, memory, ResumeTypeOK, TypeOK
  <2>6. CASE Return
    BY <2>0, <2>6 DEF Return, files, memory
  <2>7. CASE Succeed
    <3>1. phase' = [phase EXCEPT ![cur] = "clean"] /\ phase[cur] = "running" /\ cur \in Attempts
      BY <2>7 DEF Succeed, CurrentAttempt
    <3>2. Unsettled' = Unsettled /\ Critical' = Critical
      BY <2>7, <3>1, CleanEnd DEF Succeed
    <3>. QED  BY <2>7, <3>1, <3>2 DEF Succeed, files, ResumeTypeOK, TypeOK
  <2>8. CASE Decide
    <3>1. /\ phase[cur] = "running" /\ cur \in Attempts /\ Unsettled = {}
          /\ logFile = log /\ log[cur] = "open" /\ killFile = Missing
          /\ UNCHANGED <<killFile, logFile, log, reviewed, cur>>
      BY <2>8 DEF Decide, CurrentAttempt, files
    <3>2. CASE phase' = [phase EXCEPT ![cur] = "critical"] /\ stop' /\ pc' = "engage"
      <4>1. Critical' = Critical \cup {cur} /\ Unsettled' = {cur}
        BY <3>1, <3>2, CriticalEnd
      <4>. QED  BY <3>1, <3>2, <4>1, ResumeAssumption DEF ResumeTypeOK, TypeOK
    <3>3. CASE /\ phase' = [phase EXCEPT ![cur] = "clean"]
               /\ (stop' /\ pc' = "engage") \/ (~stop' /\ pc' = "resolve")
      <4>1. Critical' = Critical /\ Unsettled' = {}
        BY <3>1, <3>3, CleanEnd
      <4>. QED  BY <3>1, <3>3, <4>1, ResumeAssumption DEF ResumeTypeOK, TypeOK
    <3>. QED  BY <2>8, <3>2, <3>3, DecideEffect
  <2>9. CASE TruncateKill
    BY <2>0, <2>9, ResumeAssumption DEF TruncateKill, gvars, memory
  <2>10. CASE WriteKill
    BY <2>0, <2>10 DEF WriteKill, gvars, memory
  <2>11. CASE ResolveIntent
    BY <2>0, <2>11 DEF ResolveIntent, Truncate, gvars
  <2>12. CASE WriteResolution
    BY <2>0, <2>12 DEF WriteResolution, gvars, memory
  <2>13. CASE Crash
    <3>1. CASE pc \in {"running", "returned"}
      <4>1. cur \in Attempts /\ phase[cur] = "running"
        BY <3>1 DEF CurrentAttempt
      <4>2. phase' = [phase EXCEPT ![cur] = "critical"]
        BY <2>13, <3>1, <4>1 DEF Crash, ResumeTypeOK, TypeOK
      <4>3. Critical' = Critical \cup {cur} /\ Unsettled' = {cur}
        BY <2>13, <3>1, <4>1, <4>2, CriticalEnd DEF Crash
      <4>. QED  BY <2>13, <3>1, <4>1, <4>2, <4>3, ResumeAssumption
                DEF Crash, files, ResumeTypeOK, TypeOK
    <3>2. CASE pc \notin {"running", "returned"}
      <4>1. phase' = phase
        BY <2>13, <3>2 DEF Crash, ResumeTypeOK, TypeOK
      <4>. QED  BY <2>0, <2>13, <3>2, <4>1 DEF Crash, files
    <3>. QED  BY <3>1, <3>2
  <2>14. CASE Tick
    BY <2>0, <2>14 DEF Tick, gvars, session, files, memory
  <2>15. CASE ClearKillSwitch
    <3>1. Critical' = Critical /\ reviewed' \subseteq Critical
      BY <2>15 DEF ClearKillSwitch, Critical
    <3>2. killFile \in Attempts \/ killFile = Torn => Unsettled' = {}
      BY <2>15, <3>1 DEF ClearKillSwitch, Unsettled
    <3>3. Unsettled' = {}
      BY <2>15, <3>2 DEF ClearKillSwitch, ResumeTypeOK
    <3>. QED  BY <2>15, <3>1, <3>3, ResumeAssumption DEF ClearKillSwitch, session, memory
  <2>16. CASE ReviewIntents
    <3>1. Critical' = Critical /\ reviewed' \subseteq Critical
      BY <2>16 DEF ReviewIntents, Critical
    <3>2. Unsettled' \subseteq Unsettled
      BY <2>16, <3>1 DEF ReviewIntents, Unsettled
    <3>3. \A u \in Unsettled' : killFile = Torn \/ killFile = u
      BY <2>16, <3>1, <3>2 DEF ReviewIntents, Unsettled, Unresolved, Critical
    <3>. QED  BY <2>16, <3>1, <3>2, <3>3 DEF ReviewIntents, session, memory
  <2>17. CASE UNCHANGED rvars
    BY <2>0, <2>17 DEF rvars, gvars, session, files, memory
  <2>. QED
    BY <2>1, <2>2, <2>3, <2>4, <2>5, <2>6, <2>7, <2>8, <2>9, <2>10, <2>11,
       <2>12, <2>13, <2>14, <2>15, <2>16, <2>17 DEF ResumeNext
<1>3. ResumeInit => CurrentAttempt
  BY DEF ResumeInit, CurrentAttempt
<1>4. CurrentAttempt /\ [ResumeNext]_rvars => CurrentAttempt'
  BY SessionKeepsAttempt
<1>. QED  BY <1>1, <1>2, <1>3, <1>4, ResumeTypeCorrect, PTL DEF ResumeSpec

(* While a kill switch record is on disk no session trades.                 *)
THEOREM ResumeNoSessionOverARecord == ResumeSpec => []NoSessionOverARecord
<1>1. ResumeInv => NoSessionOverARecord
  BY DEF ResumeInv, SessionFiles, NoSessionOverARecord
<1>. QED  BY <1>1, ResumeInvariant, PTL

-----------------------------------------------------------------------------
\* The lives of the process are one guard

LivesVars == <<phase, Unsettled # {}, reviewed>>

(* Whatever crashes and however often, what a person and the two files see  *)
(* of the attempts is a guard whose kill switch is never lost.              *)
THEOREM ResumeImplementsGuard == ResumeSpec => LivesImplementGuard
<1>1. ResumeInit => Lives!Init
  BY DEF ResumeInit, Init, Lives!Init, Unsettled, Critical
<1>2. ResumeTypeOK /\ CurrentAttempt /\ ResumeInv /\ [ResumeNext]_rvars
        => [Lives!Next]_LivesVars
  <2> SUFFICES ASSUME ResumeTypeOK, CurrentAttempt, ResumeInv, [ResumeNext]_rvars
               PROVE  [Lives!Next]_LivesVars
    OBVIOUS
  <2> USE DEF ResumeInv, RunsInSession, SessionFiles, OnRecord
  <2>0. ASSUME UNCHANGED <<phase, reviewed>> PROVE UNCHANGED LivesVars
    BY <2>0 DEF LivesVars, Unsettled, Critical
  <2>1. CASE Call
    <3>1. /\ phase' = [phase EXCEPT ![cur] = "running"] /\ phase[cur] = "idle"
          /\ cur \in Attempts /\ Unsettled = {}
          /\ Cardinality(Running) < MaxConcurrent /\ reviewed' = reviewed
      BY <2>1 DEF Call, Begin, CurrentAttempt
    <3>2. Unsettled' = {}
      BY <3>1, CleanEnd
    <3>3. Lives!Begin(cur)
      BY <3>1, <3>2 DEF Lives!Begin, Lives!Running, Running, Cardinality, Lives!Cardinality
    <3>. QED  BY <3>1, <3>3 DEF Lives!Next
  <2>2. CASE CallRefused
    <3>1. /\ phase' = [phase EXCEPT ![cur] = "refused"] /\ phase[cur] = "idle"
          /\ cur \in Attempts /\ reviewed' = reviewed
      BY <2>2 DEF CallRefused, Refuse, CurrentAttempt
    <3>2. Unsettled' = Unsettled
      BY <3>1, CleanEnd
    <3>3. Lives!Refuse(cur)
      BY <3>1, <3>2 DEF Lives!Refuse
    <3>. QED  BY <3>1, <3>3 DEF Lives!Next
  <2>3. ASSUME phase' = [phase EXCEPT ![cur] = "clean"], phase[cur] = "running",
               cur \in Attempts, reviewed' = reviewed
        PROVE  Lives!Next
    <3>1. Unsettled' = Unsettled
      BY <2>3, CleanEnd
    <3>2. Lives!End(cur)
      BY <2>3, <3>1 DEF Lives!End
    <3>. QED  BY <2>3, <3>2 DEF Lives!Next
  <2>4. ASSUME phase' = [phase EXCEPT ![cur] = "critical"], phase[cur] = "running",
               cur \in Attempts, reviewed' = reviewed
        PROVE  Lives!Next
    <3>1. Unsettled' # {}
      BY <2>4, CriticalEnd
    <3>2. Lives!EndCritical(cur)
      BY <2>4, <3>1 DEF Lives!EndCritical
    <3>. QED  BY <2>4, <3>2 DEF Lives!Next
  <2>5. CASE Succeed
    BY <2>5, <2>3 DEF Succeed, CurrentAttempt
  <2>6. CASE Decide
    <3>1. phase[cur] = "running" /\ reviewed' = reviewed
      BY <2>6 DEF Decide
    <3>. QED  BY <2>3, <2>4, <2>6, <3>1, DecideEffect
  <2>7. CASE Crash
    <3>1. CASE pc \in {"running", "returned"}
      <4>1. cur \in Attempts /\ phase[cur] = "running"
        BY <3>1 DEF CurrentAttempt
      <4>2. phase' = [phase EXCEPT ![cur] = "critical"] /\ reviewed' = reviewed
        BY <2>7, <3>1, <4>1 DEF Crash, ResumeTypeOK, TypeOK
      <4>. QED  BY <2>4, <4>1, <4>2
    <3>2. CASE pc \notin {"running", "returned"}
      <4>1. phase' = phase /\ reviewed' = reviewed
        BY <2>7, <3>2 DEF Crash, ResumeTypeOK, TypeOK
      <4>. QED  BY <2>0, <4>1
    <3>. QED  BY <3>1, <3>2
  <2>8. ASSUME phase' = phase, reviewed' = reviewed \cup Critical PROVE Lives!Next
    <3>1. Critical' = Critical /\ Unsettled' = {}
      BY <2>8 DEF Critical, Unsettled
    <3>2. Lives!Disengage
      BY <2>8, <3>1 DEF Lives!Disengage, Lives!Critical, Critical
    <3>. QED  BY <3>2 DEF Lives!Next
  <2>9. CASE ClearKillSwitch
    <3>1. phase' = phase /\ reviewed' = reviewed \cup Critical
      BY <2>9 DEF ClearKillSwitch, ResumeTypeOK, Unsettled
    <3>. QED  BY <2>8, <3>1
  <2>10. CASE ReviewIntents
    <3>1. CASE logFile = Torn \/ \E u \in Unsettled : logFile[u] = "open"
      <4>1. phase' = phase /\ reviewed' = reviewed \cup Critical
        BY <2>10, <3>1 DEF ReviewIntents, Unsettled, Unresolved, Critical
      <4>. QED  BY <2>8, <4>1
    <3>2. CASE ~(logFile = Torn \/ \E u \in Unsettled : logFile[u] = "open")
      <4>1. phase' = phase /\ reviewed' = reviewed
        BY <2>10, <3>2 DEF ReviewIntents, Unsettled, Unresolved, Critical
      <4>. QED  BY <2>0, <4>1
    <3>. QED  BY <3>1, <3>2
  <2>11. CASE UNCHANGED <<phase, reviewed>>
    BY <2>0, <2>11
  <2>. QED
    BY <2>1, <2>2, <2>5, <2>6, <2>7, <2>9, <2>10, <2>11
       DEF ResumeNext, rvars, gvars, Start, StartIntent, WriteIntent, Return,
           TruncateKill, WriteKill, ResolveIntent, WriteResolution, Tick
<1>3. ResumeInit => CurrentAttempt
  BY DEF ResumeInit, CurrentAttempt
<1>4. CurrentAttempt /\ [ResumeNext]_rvars => CurrentAttempt'
  BY SessionKeepsAttempt
<1>5. [Lives!Next]_LivesVars <=> [Lives!Next]_Lives!gvars
  BY DEF LivesVars, Lives!gvars
<1>. QED
  BY <1>1, <1>2, <1>3, <1>4, <1>5, ResumeTypeCorrect, ResumeInvariant, PTL
     DEF ResumeSpec, LivesImplementGuard, Lives!Spec

-----------------------------------------------------------------------------
\* The universe of symbols

LEMMA PairsOfMarkets ==
  \A p \in Pairs : p \in {{"binance", "bybit"}, {"binance", "okx"}, {"bybit", "okx"}}
<1> SUFFICES ASSUME NEW p \in Pairs
             PROVE  p \in {{"binance", "bybit"}, {"binance", "okx"}, {"bybit", "okx"}}
  OBVIOUS
<1>1. p \subseteq Markets /\ Cardinality(p) = 2
  BY DEF Pairs
<1>2. Cardinality(Markets) = 3 /\ IsFiniteSet(Markets)
  <2>1. Cardinality({}) = 0 /\ IsFiniteSet({})
    BY FS_EmptySet
  <2>2. Cardinality({"binance"}) = 1 /\ IsFiniteSet({"binance"})
    BY FS_Singleton
  <2>3. Cardinality({"binance", "bybit"}) = 2 /\ IsFiniteSet({"binance", "bybit"})
    <3>1. {"binance", "bybit"} = {"binance"} \cup {"bybit"} /\ "bybit" \notin {"binance"}
      OBVIOUS
    <3> QED  BY <3>1, <2>2, FS_AddElement
  <2>4. Markets = {"binance", "bybit"} \cup {"okx"} /\ "okx" \notin {"binance", "bybit"}
    BY DEF Markets
  <2> QED  BY <2>3, <2>4, FS_AddElement
<1>3. \A x : Cardinality({x}) = 1
  BY FS_Singleton
<1>4. p # {} /\ p # Markets /\ \A x : p # {x}
  <2>1. ASSUME p = {} PROVE FALSE
    <3>1. Cardinality(p) = 0
      BY <2>1, FS_EmptySet
    <3> QED  BY <3>1, <1>1
  <2>2. ASSUME p = Markets PROVE FALSE
    <3>1. Cardinality(p) = 3
      BY <2>2, <1>2
    <3> QED  BY <3>1, <1>1
  <2>3. ASSUME NEW x, p = {x} PROVE FALSE
    <3>1. Cardinality(p) = 1
      BY <2>3, <1>3
    <3> QED  BY <3>1, <1>1
  <2> QED  BY <2>1, <2>2, <2>3
<1>5. \A x \in p : x = "binance" \/ x = "bybit" \/ x = "okx"
  BY <1>1 DEF Markets
<1>6. CASE "binance" \notin p
  <2>1. "bybit" \in p /\ "okx" \in p
    BY <1>4, <1>5, <1>6
  <2>2. p = {"bybit", "okx"}
    BY <2>1, <1>5, <1>6
  <2> QED  BY <2>2
<1>7. CASE "bybit" \notin p
  <2>1. "binance" \in p /\ "okx" \in p
    BY <1>4, <1>5, <1>7
  <2>2. p = {"binance", "okx"}
    BY <2>1, <1>5, <1>7
  <2> QED  BY <2>2
<1>8. CASE "okx" \notin p
  <2>1. "binance" \in p /\ "bybit" \in p
    BY <1>4, <1>5, <1>8
  <2>2. p = {"binance", "bybit"}
    BY <2>1, <1>5, <1>8
  <2> QED  BY <2>2
<1>9. "binance" \notin p \/ "bybit" \notin p \/ "okx" \notin p
  BY <1>4, <1>5 DEF Markets
<1> QED  BY <1>6, <1>7, <1>8, <1>9

(***************************************************************************)
(* Whatever readings fail and whatever the exchanges list meanwhile, the   *)
(* lists of the cached universe are of one reading: a coin is on all three *)
(* exchanges if it is on two pairs of them (get_universe).                 *)
(***************************************************************************)
THEOREM UniverseOneReading == UniverseSpec => []UniverseIsOneReading
<1>1. ASSUME NEW r
      PROVE  \A p, q \in Pairs : p # q =>
               Intersections(r).allThree = Intersections(r).pair[p] \cap Intersections(r).pair[q]
  <2> SUFFICES ASSUME NEW p \in Pairs, NEW q \in Pairs, p # q
               PROVE  Intersections(r).allThree
                        = Intersections(r).pair[p] \cap Intersections(r).pair[q]
    OBVIOUS
  <2>1. p \cup q = Markets
    <3>1. /\ p \in {{"binance", "bybit"}, {"binance", "okx"}, {"bybit", "okx"}}
          /\ q \in {{"binance", "bybit"}, {"binance", "okx"}, {"bybit", "okx"}}
      BY PairsOfMarkets
    <3>2. CASE p = {"binance", "bybit"}
      <4>1. q = {"binance", "okx"} \/ q = {"bybit", "okx"}
        BY <3>1, <3>2
      <4> QED  BY <3>2, <4>1 DEF Markets
    <3>3. CASE p = {"binance", "okx"}
      <4>1. q = {"binance", "bybit"} \/ q = {"bybit", "okx"}
        BY <3>1, <3>3
      <4> QED  BY <3>3, <4>1 DEF Markets
    <3>4. CASE p = {"bybit", "okx"}
      <4>1. q = {"binance", "bybit"} \/ q = {"binance", "okx"}
        BY <3>1, <3>4
      <4> QED  BY <3>4, <4>1 DEF Markets
    <3> QED  BY <3>1, <3>2, <3>3, <3>4
  <2>2. /\ Intersections(r).allThree = {c \in Coins : \A x \in Markets : c \in r.got[x]}
        /\ Intersections(r).pair[p] = {c \in Coins : \A x \in p : c \in r.got[x]}
        /\ Intersections(r).pair[q] = {c \in Coins : \A x \in q : c \in r.got[x]}
    BY DEF Intersections
  <2> QED  BY <2>1, <2>2
<1>2. UniverseInit => UniverseIsOneReading
  BY DEF UniverseInit, UniverseIsOneReading
<1>3. UniverseIsOneReading /\ [UniverseNext]_universeVars => UniverseIsOneReading'
  <2> SUFFICES ASSUME UniverseIsOneReading, [UniverseNext]_universeVars
               PROVE  UniverseIsOneReading'
    OBVIOUS
  <2>1. CASE EndFetch
    <3>1. cached' = cached \/ cached' = Intersections(reading)
      BY <2>1 DEF EndFetch, Kept
    <3>2. CASE cached' = cached
      BY <3>2 DEF UniverseIsOneReading
    <3>3. CASE cached' = Intersections(reading)
      BY <1>1, <3>3 DEF UniverseIsOneReading
    <3> QED  BY <3>1, <3>2, <3>3
  <2>2. CASE ~EndFetch
    <3>1. cached' = cached
      BY <2>2 DEF UniverseNext, GetUniverse, ReadBinance, ReadBybitPage, ReadOkx, ListingChanges,
                  TimePasses, universeVars
    <3> QED  BY <3>1 DEF UniverseIsOneReading
  <2> QED  BY <2>1, <2>2
<1> QED  BY <1>2, <1>3, PTL DEF UniverseSpec

-----------------------------------------------------------------------------
\* The observers' readings

Kinds == {"account", "rules", "fee"}

IsEntry(e) ==
  e = [at |-> e.at, read |-> e.read, value |-> e.value, filled |-> e.filled]
    /\ e.at \in Nat /\ e.read \in Nat /\ e.filled \in BOOLEAN /\ e.at <= e.read

IsWork(w) ==
  /\ w = [busy |-> w.busy, site |-> w.site, at |-> w.at, left |-> w.left, got |-> w.got,
          book |-> w.book, side |-> w.side, wanted |-> w.wanted, result |-> w.result]
  /\ w.site \in ReadSites /\ w.at \in Nat
  /\ w.got = [k \in Kinds |-> w.got[k]]

\* An entry is dated when its observation began, and was read no earlier: its
\* age is taken for no less than it is.
ReadsInv ==
  /\ hour \in Nat /\ IsWork(work) /\ work.at <= hour
  /\ memo = [s \in ReadSites \X Kinds |-> memo[s]]
  /\ \A s \in ReadSites \X Kinds : IsEntry(memo[s])
  /\ \A k \in Kinds : IsEntry(work.got[k])
  /\ ReadIsFresh

LEMMA TtlIsPositive == \A k : TtlOf(k) \in Nat \ {0}
  BY ReadsAssumption DEF TtlOf

LEMMA AbsentIsEntry == IsEntry(Absent) /\ Absent.filled = FALSE
  BY DEF IsEntry, Absent

\* between observations nothing is held
LEMMA RestingFields ==
  \E g : /\ g = [k \in Kinds |-> Absent]
         /\ Resting = [busy |-> FALSE, site |-> "binance", at |-> 0, left |-> <<>>, got |-> g,
                       book |-> Nothing, side |-> "buy", wanted |-> 0, result |-> Nothing]
  BY DEF Resting, Kinds

LEMMA RestingMarked ==
  ASSUME NEW r, NEW w, w = [Resting EXCEPT !.result = r]
  PROVE  \E g : /\ g = [k \in Kinds |-> Absent]
                /\ w = [busy |-> FALSE, site |-> "binance", at |-> 0, left |-> <<>>, got |-> g,
                        book |-> Nothing, side |-> "buy", wanted |-> 0, result |-> r]
<1>1. PICK g : /\ g = [k \in Kinds |-> Absent]
               /\ Resting = [busy |-> FALSE, site |-> "binance", at |-> 0, left |-> <<>>, got |-> g,
                             book |-> Nothing, side |-> "buy", wanted |-> 0, result |-> Nothing]
  BY RestingFields
<1>2. Resting = [busy |-> FALSE, site |-> "binance", at |-> 0, left |-> <<>>, got |-> g,
                 book |-> Nothing, side |-> "buy", wanted |-> 0, result |-> Nothing]
  BY <1>1
<1>3. w = [busy |-> FALSE, site |-> "binance", at |-> 0, left |-> <<>>, got |-> g,
           book |-> Nothing, side |-> "buy", wanted |-> 0, result |-> r]
  BY <1>2
<1> QED  BY <1>1, <1>3

LEMMA RestingIsBlank ==
  ASSUME NEW r, NEW w, w = [Resting EXCEPT !.result = r] \/ w = Resting
  PROVE  IsWork(w) /\ w.at = 0 /\ \A k \in Kinds : w.got[k] = Absent
<1>1. \E g, v : /\ g = [k \in Kinds |-> Absent]
                /\ w = [busy |-> FALSE, site |-> "binance", at |-> 0, left |-> <<>>, got |-> g,
                        book |-> Nothing, side |-> "buy", wanted |-> 0, result |-> v]
  BY RestingMarked, RestingFields
<1>2. PICK g, v : /\ g = [k \in Kinds |-> Absent]
                  /\ w = [busy |-> FALSE, site |-> "binance", at |-> 0, left |-> <<>>, got |-> g,
                          book |-> Nothing, side |-> "buy", wanted |-> 0, result |-> v]
  BY <1>1
<1>3. g = [k \in Kinds |-> g[k]] /\ \A k \in Kinds : g[k] = Absent
  BY <1>2
<1>4. "binance" \in ReadSites
  BY DEF ReadSites
<1> QED  BY <1>2, <1>3, <1>4 DEF IsWork

\* what is read, or taken from the cache, takes its place in the observation
LEMMA GotEntry ==
  ASSUME ReadsInv, NEW k \in Kinds, NEW e, IsEntry(e),
         e.filled => work.at - e.read < TtlOf(k),
         work' = Proceed(k, e), hour' = hour,
         memo' = [s \in ReadSites \X Kinds |-> memo'[s]],
         \A s \in ReadSites \X Kinds : IsEntry(memo'[s])
  PROVE  ReadsInv'
<1>1. work' = [busy |-> work.busy, site |-> work.site, at |-> work.at, left |-> Tail(work.left),
               got |-> [work.got EXCEPT ![k] = e], book |-> work.book, side |-> work.side,
               wanted |-> work.wanted, result |-> work.result]
  BY DEF ReadsInv, IsWork, Proceed
<1>2. /\ work'.at = work.at /\ work'.site = work.site
      /\ work'.got = [work.got EXCEPT ![k] = e]
  BY <1>1
<1>3. /\ work'.got = [j \in Kinds |-> work'.got[j]] /\ work'.got[k] = e
      /\ \A j \in Kinds : j # k => work'.got[j] = work.got[j]
  BY <1>2 DEF ReadsInv, IsWork
<1>4. IsWork(work')
  BY <1>1, <1>2, <1>3 DEF IsWork, ReadsInv
<1>5. \A j \in Kinds : IsEntry(work'.got[j])
  BY <1>3 DEF ReadsInv
<1>6. \A j \in Kinds : work'.got[j].filled => work'.at - work'.got[j].read < TtlOf(j)
  BY <1>2, <1>3 DEF ReadsInv, ReadIsFresh, Kinds
<1>7. ReadIsFresh'
  BY <1>6 DEF ReadIsFresh, Kinds, TtlOf
<1> QED  BY <1>2, <1>4, <1>5, <1>7 DEF ReadsInv

\* an entry that has just been read is fresh, and the cache may keep it
LEMMA FreshEntry ==
  ASSUME ReadsInv, NEW value, NEW k \in Kinds
  PROVE  /\ IsEntry(Entry(value))
         /\ work.at - Entry(value).read < TtlOf(k)
<1>1. hour \in Nat /\ work.at \in Nat /\ work.at <= hour
  BY DEF ReadsInv, IsWork
<1>2. TtlOf(k) \in Nat \ {0}
  BY TtlIsPositive
<1> QED  BY <1>1, <1>2 DEF Entry, IsEntry

LEMMA KeptEntry ==
  ASSUME ReadsInv, NEW value, NEW k \in Kinds, Keep(k, value) \/ UNCHANGED memo
  PROVE  /\ memo' = [s \in ReadSites \X Kinds |-> memo'[s]]
         /\ \A s \in ReadSites \X Kinds : IsEntry(memo'[s])
<1>1. CASE UNCHANGED memo
  BY <1>1 DEF ReadsInv
<1>2. CASE Keep(k, value)
  <2>1. memo' = [memo EXCEPT ![Slot(k)] = Entry(value)]
    BY <1>2 DEF Keep
  <2>2. IsEntry(Entry(value))
    BY FreshEntry
  <2> QED  BY <2>1, <2>2 DEF ReadsInv
<1> QED  BY <1>1, <1>2

\* an observation that is abandoned leaves nothing
LEMMA Abandoned ==
  ASSUME ReadsInv, Abandon \/ work' = Resting, hour' = hour,
         memo' = [s \in ReadSites \X Kinds |-> memo'[s]],
         \A s \in ReadSites \X Kinds : IsEntry(memo'[s])
  PROVE  ReadsInv'
<1>1. /\ IsWork(work') /\ work'.at = 0 /\ \A k \in Kinds : work'.got[k] = Absent
  BY RestingIsBlank DEF Abandon
<1>2. \A k \in Kinds : IsEntry(work'.got[k]) /\ work'.got[k].filled = FALSE
  BY <1>1, AbsentIsEntry
<1>3. ReadIsFresh'
  BY <1>2 DEF ReadIsFresh, Kinds
<1> QED  BY <1>1, <1>2, <1>3 DEF ReadsInv

\* a step that leaves time, caches and readings alone
LEMMA SameReadings ==
  ASSUME ReadsInv, hour' = hour, memo' = memo,
         IsWork(work'), work'.at = work.at, work'.got = work.got
  PROVE  ReadsInv'
  BY DEF ReadsInv, ReadIsFresh, Kinds, TtlOf

\* An observation begins with nothing in hand, at the present hour.
LEMMA Begun ==
  ASSUME ReadsInv, NEW x \in ReadSites, NEW side, NEW wanted, work' = BeginObservation(x, side, wanted),
         hour' = hour, memo' = memo
  PROVE  ReadsInv'
<1>1. PICK g : /\ g = [k \in Kinds |-> Absent]
               /\ Resting = [busy |-> FALSE, site |-> "binance", at |-> 0, left |-> <<>>, got |-> g,
                             book |-> Nothing, side |-> "buy", wanted |-> 0, result |-> Nothing]
  BY RestingFields
<1>2. g = [k \in Kinds |-> g[k]] /\ \A k \in Kinds : g[k] = Absent
  BY <1>1
<1>3. work' = [busy |-> TRUE, site |-> x, at |-> hour, left |-> Program[watcher], got |-> g,
               book |-> Nothing, side |-> side, wanted |-> wanted, result |-> Nothing]
  <2>1. Resting = [busy |-> FALSE, site |-> "binance", at |-> 0, left |-> <<>>, got |-> g,
                   book |-> Nothing, side |-> "buy", wanted |-> 0, result |-> Nothing]
    BY <1>1
  <2> QED  BY <2>1 DEF BeginObservation
<1>4. IsWork(work') /\ work'.at = hour /\ work'.got = g
  BY <1>2, <1>3 DEF IsWork, ReadsInv
<1>5. \A k \in Kinds : IsEntry(work'.got[k]) /\ work'.got[k].filled = FALSE
  BY <1>2, <1>4, AbsentIsEntry
<1>6. ReadIsFresh'
  BY <1>5 DEF ReadIsFresh, Kinds
<1> QED  BY <1>4, <1>5, <1>6 DEF ReadsInv

\* a value that has just been read, or none, kept or not
LEMMA GotValue ==
  ASSUME ReadsInv, NEW k \in Kinds, NEW v, NEW e, e = Entry(v) \/ e = Absent,
         work' = Proceed(k, e), Keep(k, v) \/ UNCHANGED memo, hour' = hour
  PROVE  ReadsInv'
<1>1. IsEntry(e) /\ (e.filled => work.at - e.read < TtlOf(k))
  BY FreshEntry, AbsentIsEntry
<1>2. /\ memo' = [s \in ReadSites \X Kinds |-> memo'[s]]
      /\ \A s \in ReadSites \X Kinds : IsEntry(memo'[s])
  BY KeptEntry
<1> QED  BY <1>1, <1>2, GotEntry

LEMMA GaveUp ==
  ASSUME ReadsInv, Abandon \/ work' = Resting, NEW k \in Kinds, NEW v, Keep(k, v) \/ UNCHANGED memo, hour' = hour
  PROVE  ReadsInv'
<1>1. /\ memo' = [s \in ReadSites \X Kinds |-> memo'[s]]
      /\ \A s \in ReadSites \X Kinds : IsEntry(memo'[s])
  BY KeptEntry
<1> QED  BY <1>1, Abandoned

LEMMA ReadsInvInit == ReadsInit => ReadsInv
<1> SUFFICES ASSUME ReadsInit PROVE ReadsInv
  OBVIOUS
<1>1. PICK g : /\ g = [k \in Kinds |-> Absent]
               /\ Resting = [busy |-> FALSE, site |-> "binance", at |-> 0, left |-> <<>>, got |-> g,
                             book |-> Nothing, side |-> "buy", wanted |-> 0, result |-> Nothing]
  BY RestingFields
<1>2. g = [k \in Kinds |-> g[k]] /\ \A k \in Kinds : g[k] = Absent
  BY <1>1
<1>3. work.at = 0 /\ work.got = g /\ IsWork(work)
  BY <1>1, <1>2 DEF ReadsInit, IsWork, ReadSites
<1>4. memo = [s \in ReadSites \X Kinds |-> Absent]
  BY DEF ReadsInit, Kinds
<1>5. \A k \in Kinds : IsEntry(work.got[k]) /\ work.got[k].filled = FALSE
  BY <1>2, <1>3, AbsentIsEntry
<1>6. ReadIsFresh
  BY <1>5 DEF ReadIsFresh, Kinds
<1>7. \A s \in ReadSites \X Kinds : IsEntry(memo[s])
  BY <1>4, AbsentIsEntry
<1>8. hour = 0
  BY DEF ReadsInit
<1> QED  BY <1>3, <1>4, <1>5, <1>6, <1>7, <1>8 DEF ReadsInv

LEMMA ReadsInvStep == ReadsInv /\ [ReadsNext]_readsVars => ReadsInv'
<1> SUFFICES ASSUME ReadsInv, [ReadsNext]_readsVars PROVE ReadsInv'
  OBVIOUS
<1>1. ASSUME NEW x \in ReadSites, NEW side \in {"buy", "sell"}, NEW w \in Wanted, Observe(x, side, w)
      PROVE  ReadsInv'
  BY <1>1, Begun DEF Observe
<1>2. ASSUME NEW k \in Kinds, UseCached(k) PROVE ReadsInv'
  <2>1. Slot(k) \in ReadSites \X Kinds /\ IsEntry(memo[Slot(k)])
    BY DEF Slot, ReadsInv, IsWork
  <2>2. memo[Slot(k)].filled /\ work.at - memo[Slot(k)].at < TtlOf(k)
    BY <1>2 DEF UseCached, Fresh
  <2>3. work.at - memo[Slot(k)].read < TtlOf(k)
    BY <2>1, <2>2, TtlIsPositive DEF IsEntry, ReadsInv, IsWork
  <2>4. work' = Proceed(k, memo[Slot(k)]) /\ hour' = hour /\ memo' = memo
    BY <1>2 DEF UseCached
  <2> QED  BY <2>1, <2>3, <2>4, GotEntry DEF ReadsInv
<1>3. CASE ReadRules
  <2>1. "rules" \in Kinds /\ hour' = hour
    BY <1>3 DEF Kinds, ReadRules
  <2>2. \/ \E v : Keep("rules", v) /\ work' = Proceed("rules", Entry(v))
        \/ Abandon /\ (Keep("rules", Nothing) \/ UNCHANGED memo)
    BY <1>3 DEF ReadRules
  <2> QED  BY <2>1, <2>2, GotValue, GaveUp
<1>4. CASE RulesMissing
  BY <1>4, GaveUp DEF RulesMissing, Kinds
<1>5. CASE ReadFee
  <2>1. "fee" \in Kinds /\ hour' = hour
    BY <1>5 DEF Kinds, ReadFee
  <2>2. \/ \E v : Keep("fee", v) /\ work' = Proceed("fee", Entry(v))
        \/ (Keep("fee", Nothing) \/ UNCHANGED memo) /\ work' = Proceed("fee", Absent)
        \/ Abandon /\ UNCHANGED memo
    BY <1>5 DEF ReadFee
  <2> QED  BY <2>1, <2>2, GotValue, GaveUp
<1>6. CASE ReadAccount
  <2>1. "account" \in Kinds /\ hour' = hour
    BY <1>6 DEF Kinds, ReadAccount
  <2>2. \/ Keep("account", funds) /\ work' = Proceed("account", Entry(funds))
        \/ UNCHANGED memo /\ work' = Proceed("account", Absent)
    BY <1>6 DEF ReadAccount
  <2> QED  BY <2>1, <2>2, GotValue
<1>7. CASE ReadBook
  <2>1. CASE Abandon
    BY <1>7, <2>1, GaveUp DEF ReadBook, Kinds
  <2>2. CASE ~Abandon
    <3>1. \/ \E b : work' = [work EXCEPT !.left = Tail(@), !.book = b]
          \/ work' = [work EXCEPT !.left = Tail(@)]
      BY <1>7, <2>2 DEF ReadBook
    <3>2. IsWork(work') /\ work'.at = work.at /\ work'.got = work.got
      BY <3>1 DEF ReadsInv, IsWork
    <3> QED  BY <1>7, <3>2, SameReadings DEF ReadBook
  <2> QED  BY <2>1, <2>2
<1>8. CASE QuoteMicro
  <2>1. \E q : work' = [work EXCEPT !.result = q]
    BY <1>8 DEF QuoteMicro
  <2>2. IsWork(work') /\ work'.at = work.at /\ work'.got = work.got
    BY <2>1 DEF ReadsInv, IsWork
  <2> QED  BY <1>8, <2>2, SameReadings DEF QuoteMicro
<1>9. CASE SecondLeg
  BY <1>9, Begun DEF SecondLeg, ReadSites
<1>10. CASE Deliver
  BY <1>10, GaveUp DEF Deliver, Kinds
<1>11. CASE Alter
  BY <1>11, SameReadings DEF Alter, ReadsInv
<1>12. CASE HourPasses
  <2>1. hour' = hour + 1 /\ work' = work /\ memo' = memo
    BY <1>12 DEF HourPasses
  <2> QED  BY <2>1 DEF ReadsInv, ReadIsFresh, IsWork, TtlOf
<1>13. CASE UNCHANGED readsVars
  BY <1>13, SameReadings DEF readsVars, ReadsInv
<1> QED  BY <1>1, <1>2, <1>3, <1>4, <1>5, <1>6, <1>7, <1>8, <1>9, <1>10, <1>11, <1>12, <1>13
         DEF ReadsNext, Kinds

\* Whatever calls fail and whenever the exchanges change, what the observers
\* of micro_live, dual_leg_observer and multi_exchange_snapshot go by was
\* read less than its time to live before they began.
THEOREM ReadsAreFresh == ReadsSpec => []ReadIsFresh
<1>1. ReadsInv => ReadIsFresh
  BY DEF ReadsInv
<1> QED  BY <1>1, ReadsInvInit, ReadsInvStep, PTL DEF ReadsSpec

-----------------------------------------------------------------------------
\* Orders and their reports

Trade == [qty : TradeQtys, asset : FeeAssets]

OrderTypeOK ==
  /\ site \in OrderVenues
  /\ exchange \in [id : {Null} \cup [hyphen : BOOLEAN], state : {"none"} \cup LiveStates \cup EndStates,
                   trades : Seq(Trade), listed : Nat, rolled : BOOLEAN]
  /\ exchange.listed <= Len(exchange.trades)
  /\ caller.waits \in {"place", "poll", "trades", "done", "timeout"}

\* A wait that has seen a terminal word is about an order that is over: what it has
\* executed is the quantity in hand, and stays so.
OrderInv ==
  /\ OrderTypeOK
  /\ caller.waits = "trades" =>
       site = "binance" /\ exchange.state \in EndStates /\ caller.executed = Executed /\ Executed > 0
  /\ caller.waits = "done" => exchange.state \in EndStates
  /\ PricedReportIsExact

\* Each trade pays one unit of a fee, and executes one at least.
LEMMA FeesAreCovered ==
  ASSUME NEW trades \in Seq(Trade)
  PROVE  /\ \A a \in FeeAssets : FeesByAsset(trades)[a] \in Nat /\ FeesByAsset(trades)[a] <= Total(trades)
         /\ Total(trades) \in Nat
<1> DEFINE D == DOMAIN trades
           f == [i \in D |-> trades[i].qty]
<1>1. D = 1..Len(trades) /\ Len(trades) \in Nat /\ \A i \in D : trades[i] \in Trade
  OBVIOUS
<1>2. IsFiniteSet(D) /\ \A i \in D : f[i] \in Nat \ {0}
  <2>1. \A i \in D : f[i] \in Nat \ {0}
    BY <1>1, OrderAssumption DEF OrderAssumption, Trade
  <2> HIDE DEF D, f
  <2> QED  BY <1>1, <2>1, FS_Interval
<1>3. Total(trades) = SumFunctionOnSet(f, D)
  BY DEF Total, SumFunction, SumFunctionOnSet, FoldFunction
<1> HIDE DEF f, D
<1>4. Cardinality(D) <= Total(trades) /\ Total(trades) \in Nat /\ Cardinality(D) \in Nat
  BY <1>2, <1>3, SumCounts, SumNat, FS_CardinalityType
<1>5. ASSUME NEW a \in FeeAssets
      PROVE  FeesByAsset(trades)[a] \in Nat /\ FeesByAsset(trades)[a] <= Total(trades)
  <2> DEFINE P == {i \in DOMAIN trades : trades[i].asset = a}
  <2>1. P \subseteq D
    BY DEF D
  <2>2. IsFiniteSet(P) /\ Cardinality(P) \in Nat /\ Cardinality(P) <= Cardinality(D)
    <3> HIDE DEF P
    <3> QED  BY <1>2, <2>1, FS_Subset, FS_CardinalityType
  <2>3. FeesByAsset(trades)[a] = Cardinality(P)
    BY DEF FeesByAsset
  <2> QED  BY <1>4, <2>2, <2>3
<1> QED  BY <1>4, <1>5

\* A fee that has a price is in one asset, which the net quantity takes into account.
LEMMA PricedIsExact ==
  ASSUME NEW trades \in Seq(Trade), ResolveFee(FeesByAsset(trades)).usd # Null
  PROVE  NetBaseQtyAfterFee(Total(trades), ResolveFee(FeesByAsset(trades)))
           = Total(trades) - FeesByAsset(trades)["base"]
<1> DEFINE fees == FeesByAsset(trades)
           total == Total(trades)
           nonzero == {a \in FeeAssets : fees[a] > 0}
           fee == ResolveFee(fees)
<1>1. total \in Nat /\ \A a \in FeeAssets : fees[a] \in Nat /\ fees[a] <= total
  BY FeesAreCovered
<1>2. fee.usd # Null
  OBVIOUS
<1> SUFFICES NetBaseQtyAfterFee(total, fee) = total - fees["base"]
  OBVIOUS
<1> HIDE DEF fees, total
<1>3. CASE nonzero = {}
  <2>1. fee.amount = 0
    BY <1>3 DEF ResolveFee
  <2>2. ~(fees["base"] > 0) /\ fees["base"] \in Nat
    BY <1>1, <1>3 DEF FeeAssets
  <2>3. NetBaseQtyAfterFee(total, fee) = total
    BY <1>1, <2>1 DEF NetBaseQtyAfterFee
  <2> QED  BY <1>1, <2>2, <2>3
<1>4. CASE nonzero # {}
  <2> DEFINE a == CHOOSE x \in nonzero : TRUE
  <2>1. IsFiniteSet(nonzero) /\ a \in nonzero
    <3>1. FeeAssets = {"base", "quote"} \cup {"promo"} /\ nonzero \subseteq FeeAssets
      BY DEF FeeAssets
    <3>2. IsFiniteSet(FeeAssets)
      <4>1. IsFiniteSet({"base"}) /\ IsFiniteSet({"quote"}) /\ IsFiniteSet({"promo"})
        BY FS_Singleton
      <4>2. FeeAssets = ({"base"} \cup {"quote"}) \cup {"promo"}
        BY DEF FeeAssets
      <4> QED  BY <4>1, <4>2, FS_Union
    <3> QED  BY <1>4, <3>1, <3>2, FS_Subset
  <2>2. Cardinality(nonzero) \in Nat /\ ~(Cardinality(nonzero) > 1)
    <3>1. Cardinality(nonzero) > 1 => fee.usd = Null
      BY <1>4 DEF ResolveFee
    <3> HIDE DEF nonzero, fee
    <3> QED  BY <1>2, <2>1, <3>1, FS_CardinalityType
  <2>3. fee = [asset |-> a, amount |-> fees[a],
               usd |-> CASE a = "quote" -> fees[a]
                         [] a = "base"  -> fees[a] * Price
                         [] OTHER       -> Null]
    BY <1>4, <2>2 DEF ResolveFee
  <2>4. \A x \in nonzero : x = a
    <3> HIDE DEF nonzero, a
    <3>1. Cardinality(nonzero) = 1
      BY <1>4, <2>1, <2>2, FS_EmptySet
    <3> QED  BY <2>1, <3>1, FS_Singleton
  <2>5. a \in {"base", "quote"}
    <3>1. a \in FeeAssets
      BY <2>1
    <3> HIDE DEF a, fee
    <3> QED  BY <1>2, <2>3, <3>1 DEF FeeAssets
  <2>6. fees["base"] \in Nat /\ fees["base"] <= total /\ fees["quote"] \in Nat
    BY <1>1 DEF FeeAssets
  <2> HIDE DEF a, fee, nonzero
  <2>7. CASE a = "base"
    <3>1. fee.asset = "base" /\ fee.amount = fees["base"]
      BY <2>3, <2>7
    <3>2. NetBaseQtyAfterFee(total, fee) = total - fees["base"]
      BY <1>1, <2>6, <3>1 DEF NetBaseQtyAfterFee
    <3> QED  BY <3>2
  <2>8. CASE a = "quote"
    <3>1. fee.asset = "quote"
      BY <2>3, <2>8
    <3>2. fees["base"] = 0
      <4>1. "base" \notin nonzero
        BY <2>4, <2>8
      <4> QED  BY <2>6, <4>1 DEF FeeAssets, nonzero
    <3>3. NetBaseQtyAfterFee(total, fee) = total
      BY <3>1 DEF NetBaseQtyAfterFee
    <3> QED  BY <1>1, <3>2, <3>3
  <2> QED  BY <2>5, <2>7, <2>8
<1> QED  BY <1>3, <1>4

LEMMA TerminalIsOver ==
  ASSUME NEW v \in OrderVenues, NEW s \in {"none"} \cup LiveStates \cup EndStates, IsTerminal(v, Says(v, s))
  PROVE  s \in EndStates
BY DEF OrderVenues, LiveStates, EndStates, IsTerminal, Says, TerminalWords, BinanceTerminal,
       BybitTerminal, OkxTerminal

LEMMA OrderPreserved == OrderInv /\ [OrderNext]_orderVars => OrderInv'
<1> SUFFICES ASSUME OrderInv, [OrderNext]_orderVars PROVE OrderInv'
  OBVIOUS
<1> USE DEF OrderInv
<1>e. exchange.trades \in Seq(Trade) /\ Executed \in Nat /\ Len(exchange.trades) \in Nat
  BY FeesAreCovered DEF OrderTypeOK, Executed
<1>t. exchange.trades' = exchange.trades => Executed' = Executed
  BY DEF Executed
<1>1. ASSUME NEW accepted \in BOOLEAN, NEW raised \in BOOLEAN, Placed(accepted, raised) PROVE OrderInv'
  <2>1. /\ caller'.waits = "poll" /\ site' = site
        /\ exchange' = IF accepted THEN [exchange EXCEPT !.id = ClientOrderId(site), !.state = "new"]
                       ELSE exchange
    BY <1>1 DEF Placed, OrderTypeOK
  <2>2. ClientOrderId(site) \in [hyphen : BOOLEAN]
    BY DEF ClientOrderId, ToOkxClientOrderId
  <2>3. OrderTypeOK'
    BY <2>1, <2>2 DEF OrderTypeOK, LiveStates
  <2> QED  BY <2>1, <2>3 DEF PricedReportIsExact
<1>2. ASSUME NEW q \in TradeQtys, NEW a \in FeeAssets, Execute(q, a) PROVE OrderInv'
  <2> DEFINE t == [qty |-> q, asset |-> a]
  <2>1. /\ exchange.state \in LiveStates /\ UNCHANGED <<site, caller, report>>
        /\ exchange' = [exchange EXCEPT !.trades = Append(exchange.trades, t),
                          !.state = IF Executed + q = OrderQty THEN "filled" ELSE "partial"]
    BY <1>2 DEF Execute, Alive
  <2>2. Append(exchange.trades, t) \in Seq(Trade) /\ Len(Append(exchange.trades, t)) = Len(exchange.trades) + 1
        /\ Len(exchange.trades) \in Nat
    <3>1. t \in Trade
      BY DEF Trade
    <3> HIDE DEF t
    <3> QED  BY <1>e, <3>1
  <2>3. OrderTypeOK'
    <3> HIDE DEF t
    <3>1. exchange'.listed = exchange.listed /\ exchange'.trades = Append(exchange.trades, t)
      BY <2>1 DEF OrderTypeOK
    <3>2. exchange'.listed <= Len(exchange'.trades)
      BY <2>2, <3>1 DEF OrderTypeOK
    <3>3. (IF Executed + q = OrderQty THEN "filled" ELSE "partial") \in {"none"} \cup LiveStates \cup EndStates
      BY DEF LiveStates, EndStates
    <3> QED  BY <2>1, <2>2, <3>2, <3>3 DEF OrderTypeOK
  <2>4. exchange.state \notin EndStates
    BY <2>1 DEF LiveStates, EndStates
  <2>5. caller.waits \notin {"trades", "done"}
    BY <2>4
  <2> QED  BY <2>1, <2>3, <2>5 DEF PricedReportIsExact
<1>3. CASE Finish
  <2>1. PICK s \in EndStates : exchange' = [exchange EXCEPT !.state = s]
    BY <1>3 DEF Finish, EndStates
  <2>2. exchange.state \in LiveStates /\ UNCHANGED <<site, caller, report>>
    BY <1>3 DEF Finish, Alive
  <2>3. OrderTypeOK'
    BY <2>1, <2>2 DEF OrderTypeOK
  <2>4. caller.waits \notin {"trades", "done"}
    BY <2>2 DEF LiveStates, EndStates
  <2> QED  BY <2>2, <2>3, <2>4 DEF PricedReportIsExact
<1>4. CASE ListTrade \/ RollOff \/ UNCHANGED orderVars
  <2>1. /\ OrderTypeOK' /\ UNCHANGED <<site, caller, report>>
        /\ exchange'.trades = exchange.trades /\ exchange'.state = exchange.state
    <3>1. CASE ListTrade
      <4>1. exchange' = [exchange EXCEPT !.listed = exchange.listed + 1]
            /\ exchange.listed < Len(exchange.trades) /\ UNCHANGED <<site, caller, report>>
        BY <3>1 DEF ListTrade
      <4>2. exchange.listed + 1 \in Nat /\ exchange.listed + 1 <= Len(exchange.trades)
        BY <1>e, <4>1 DEF OrderTypeOK
      <4> QED  BY <4>1, <4>2 DEF OrderTypeOK
    <3>2. CASE RollOff
      BY <3>2 DEF RollOff, OrderTypeOK
    <3>3. CASE UNCHANGED orderVars
      BY <3>3 DEF orderVars, OrderTypeOK
    <3> QED  BY <1>4, <3>1, <3>2, <3>3
  <2>2. Executed' = Executed
    BY <2>1 DEF Executed
  <2> QED  BY <2>1, <2>2 DEF PricedReportIsExact
<1>5. ASSUME NEW r, Answered(r),
             (r # Null /\ r.terminal) =>
                /\ exchange.state \in EndStates
                /\ (r.usd # Null /\ r.complete) =>
                     r.filled = Executed /\ r.net = Executed - FeesByAsset(exchange.trades)["base"]
      PROVE  OrderInv'
  <2>1. /\ report' = r /\ UNCHANGED <<site, exchange>>
        /\ caller' = [caller EXCEPT !.polls = @ + 1,
                        !.waits = IF r # Null /\ r.terminal THEN "done" ELSE "poll"]
    BY <1>5 DEF Answered
  <2>2. caller'.waits = (IF r # Null /\ r.terminal THEN "done" ELSE "poll")
    BY <2>1 DEF OrderTypeOK
  <2>3. OrderTypeOK' /\ (Executed' = Executed)
    BY <2>1, <2>2 DEF OrderTypeOK, Executed
  <2> QED  BY <1>5, <2>1, <2>2, <2>3 DEF PricedReportIsExact
<1>6. CASE PollOpenOnBinance
  <2> DEFINE r == Normalized(site, Word, Executed, <<>>, exchange.trades = <<>>)
  <2>1. Answered(r) /\ (~IsTerminal(site, Word) \/ Executed = 0)
    BY <1>6 DEF PollOpenOnBinance
  <2>2. r.terminal = IsTerminal(site, Word) /\ r.complete = (exchange.trades = <<>>)
    BY DEF Normalized
  <2>3. IsTerminal(site, Word) => exchange.state \in EndStates
    BY TerminalIsOver DEF Word, OrderTypeOK
  <2>4. ASSUME r.usd # Null, exchange.trades = <<>>
        PROVE  r.filled = Executed /\ r.net = Executed - FeesByAsset(exchange.trades)["base"]
    <3>1. ResolveFee(FeesByAsset(exchange.trades)).usd # Null
      BY <2>4 DEF Normalized
    <3>2. r.filled = Total(exchange.trades)
          /\ r.net = NetBaseQtyAfterFee(Total(exchange.trades), ResolveFee(FeesByAsset(exchange.trades)))
      BY <2>4 DEF Executed, Normalized
    <3> QED  BY <1>e, <3>1, <3>2, PricedIsExact DEF Executed
  <2> HIDE DEF r
  <2> QED  BY <1>5, <2>1, <2>2, <2>3, <2>4
<1>7. CASE PollOnBybit \/ PollOnOkx
  <2> DEFINE r == Normalized(site, Word, Executed, exchange.trades, TRUE)
  <2>1. Answered(r)
    BY <1>7 DEF PollOnBybit, PollOnOkx
  <2>2. r.terminal = IsTerminal(site, Word)
    BY DEF Normalized
  <2>3. IsTerminal(site, Word) => exchange.state \in EndStates
    BY TerminalIsOver DEF Word, OrderTypeOK
  <2>4. /\ r.filled = Executed /\ r.usd = ResolveFee(FeesByAsset(exchange.trades)).usd
        /\ r.net = NetBaseQtyAfterFee(Executed, ResolveFee(FeesByAsset(exchange.trades)))
    BY DEF Normalized
  <2> HIDE DEF r
  <2>5. r.usd # Null => r.filled = Executed /\ r.net = Executed - FeesByAsset(exchange.trades)["base"]
    BY <1>e, <2>4, PricedIsExact DEF Executed
  <2> QED  BY <1>5, <2>1, <2>2, <2>3, <2>5
<1>8. CASE PollOrder
  <2>1. /\ site = "binance" /\ IsTerminal(site, Word) /\ Executed > 0
        /\ caller' = [caller EXCEPT !.waits = "trades", !.word = Word, !.executed = Executed]
        /\ UNCHANGED <<site, exchange, report>>
    BY <1>8 DEF PollOrder, Polls
  <2>2. exchange.state \in EndStates
    BY <2>1, TerminalIsOver DEF Word, OrderTypeOK
  <2>3. caller'.waits = "trades" /\ caller'.executed = Executed /\ (Executed' = Executed)
    BY <2>1 DEF Executed, OrderTypeOK
  <2>4. OrderTypeOK'
    BY <2>1, <2>3 DEF OrderTypeOK
  <2> QED  BY <2>1, <2>2, <2>3, <2>4 DEF PricedReportIsExact
<1>9. CASE PollTrades
  <2> DEFINE trades == SubSeq(exchange.trades, 1, exchange.listed)
             r == Normalized(site, caller.word, IF trades # <<>> THEN Total(trades) ELSE caller.executed,
                             trades, exchange.listed = Len(exchange.trades))
  <2>1. Answered(r) /\ caller.waits = "trades"
    BY <1>9 DEF PollTrades
  <2>2. r.complete = (exchange.listed = Len(exchange.trades))
    BY DEF Normalized
  <2>3. ASSUME r.usd # Null, exchange.listed = Len(exchange.trades)
        PROVE  r.filled = Executed /\ r.net = Executed - FeesByAsset(exchange.trades)["base"]
    <3>1. trades = exchange.trades
      BY <1>e, <2>3
    <3>2. /\ r.filled = Executed /\ r.usd = ResolveFee(FeesByAsset(exchange.trades)).usd
          /\ r.net = NetBaseQtyAfterFee(Executed, ResolveFee(FeesByAsset(exchange.trades)))
      BY <2>1, <3>1 DEF Normalized, Executed
    <3> QED  BY <1>e, <2>3, <3>2, PricedIsExact DEF Executed
  <2> HIDE DEF r
  <2> QED  BY <1>5, <2>1, <2>2, <2>3
<1>10. CASE PollFails
  BY <1>5, <1>10 DEF PollFails
<1>11. CASE Deadline
  <2>1. caller' = [caller EXCEPT !.waits = "timeout"] /\ UNCHANGED <<site, exchange, report>>
    BY <1>11 DEF Deadline
  <2>2. OrderTypeOK' /\ caller'.waits = "timeout"
    BY <2>1 DEF OrderTypeOK
  <2> QED  BY <2>2 DEF PricedReportIsExact
<1> QED
  BY <1>1, <1>2, <1>3, <1>4, <1>6, <1>7, <1>8, <1>9, <1>10, <1>11
     DEF OrderNext, PlaceOnBinance, PlaceOnBybit, PlaceOnOkx

\* Once the wait ends with a terminal report whose fee has a price and whose trades were all
\* listed, the quantity it names is all the order ever executes, and the net quantity what
\* the account gained, for any trades and however the polls fall between them.
THEOREM OrderReportsAreExact == OrderSpec => []PricedReportIsExact
<1>1. OrderInit => OrderInv
  <2> SUFFICES ASSUME OrderInit PROVE OrderInv
    OBVIOUS
  <2>1. <<>> \in Seq(Trade) /\ Len(<<>>) = 0
    OBVIOUS
  <2> QED  BY <2>1 DEF OrderInit, OrderInv, OrderTypeOK, PricedReportIsExact
<1>2. OrderInv => PricedReportIsExact
  BY DEF OrderInv
<1> QED  BY <1>1, <1>2, OrderPreserved, PTL DEF OrderSpec

-----------------------------------------------------------------------------
\* The readiness report

LEMMA QuotientIs ==
  ASSUME NEW n \in Nat, NEW d \in Nat \ {0}
  PROVE  /\ n \div d \in Nat
         /\ n % d \in Nat /\ n % d < d
         /\ n = d * (n \div d) + (n % d)
<1>1. n \div d \in Nat
  OBVIOUS
<1>2. n % d \in Nat /\ n % d < d
  OBVIOUS
<1>3. n = d * (n \div d) + (n % d)
  OBVIOUS
<1> QED  BY <1>1, <1>2, <1>3

LEMMA MultipleOfDivisor ==
  ASSUME NEW a \in Nat, NEW n \in Nat, NEW d \in Nat \ {0}, n % d = 0
  PROVE  (a * n) % d = 0
<1>1. PICK q \in Nat : n = d * q
  <2>1. n = d * (n \div d) + (n % d) /\ n \div d \in Nat
    BY QuotientIs
  <2> DEFINE q == n \div d
             p == d * q
  <2>2. n = p + 0 /\ p \in Int /\ q \in Nat
    BY <2>1
  <2>3. n = p
    <3> HIDE DEF p
    <3> QED  BY <2>2
  <2> HIDE DEF q
  <2> QED  BY <2>2, <2>3 DEF p
<1>2. a * n = d * (a * q) /\ a * q \in Nat
  BY <1>1
<1> DEFINE m == a * q
<1>3. (d * m) % d = 0
  <2>1. m \in Nat
    BY <1>2
  <2> HIDE DEF m
  <2> QED  BY <2>1
<1> QED  BY <1>2, <1>3

\* The size proposed is one both exchanges take.
LEMMA CommonOrderIsTaken ==
  ASSUME StepsNest, NEW b \in BinanceLots, NEW y \in BybitLots, NEW f \in {b, y},
         SmallestCommonOrder(b, y) # NotRead
  PROVE  LET size == SmallestCommonOrder(b, y)
         IN  size.qty % f.step = 0 /\ size.qty >= f.minQty /\ size.notional >= f.minNotional
<1> DEFINE step == LargerOf(b.step, y.step)
           required == LargerOf(LargerOf(b.minNotional, b.minQty * AskPrice),
                                LargerOf(y.minNotional, y.minQty * AskPrice))
           d == AskPrice * step
           units == CeilDiv(required, d)
           qty == units * step
<1>1. /\ b.step \in Nat \ {0} /\ b.minQty \in Nat /\ b.minNotional \in Nat
      /\ y.step \in Nat \ {0} /\ y.minQty \in Nat /\ y.minNotional \in Nat
      /\ AskPrice \in Nat \ {0}
  BY ReadinessAssumption DEF ReadinessAssumption
<1>2. SmallestCommonOrder(b, y) = [qty |-> qty, notional |-> qty * AskPrice]
  BY DEF SmallestCommonOrder, RoundedUp
<1>3. step \in Nat \ {0} /\ step % f.step = 0 /\ f.step \in Nat \ {0} /\ f.minQty \in Nat
      /\ f.minNotional \in Nat
  BY <1>1 DEF StepsNest, LargerOf
<1>4. /\ required \in Nat
      /\ f.minNotional <= required /\ f.minQty * AskPrice <= required
  <2>1. b.minQty * AskPrice \in Nat /\ y.minQty * AskPrice \in Nat
    BY <1>1
  <2> DEFINE p == b.minQty * AskPrice
             r == y.minQty * AskPrice
  <2>2. /\ LargerOf(LargerOf(b.minNotional, p), LargerOf(y.minNotional, r)) \in Nat
        /\ b.minNotional <= LargerOf(LargerOf(b.minNotional, p), LargerOf(y.minNotional, r))
        /\ y.minNotional <= LargerOf(LargerOf(b.minNotional, p), LargerOf(y.minNotional, r))
        /\ p <= LargerOf(LargerOf(b.minNotional, p), LargerOf(y.minNotional, r))
        /\ r <= LargerOf(LargerOf(b.minNotional, p), LargerOf(y.minNotional, r))
    <3> HIDE DEF p, r
    <3>1. p \in Nat /\ r \in Nat
      BY <2>1 DEF p, r
    <3> QED  BY <1>1, <3>1 DEF LargerOf
  <2>3. CASE f = b
    BY <2>2, <2>3
  <2>4. CASE f = y
    BY <2>2, <2>4
  <2> QED  BY <2>3, <2>4
<1> HIDE DEF required, step
<1>5. d \in Nat \ {0}
  BY <1>1, <1>3
<1>6. units \in Nat /\ required <= d * units
  <2> HIDE DEF d
  <2>1. required + d - 1 \in Nat
    BY <1>4, <1>5
  <2> DEFINE n == required + d - 1
  <2>2. n \div d \in Nat /\ n = d * (n \div d) + (n % d) /\ n % d \in Nat /\ n % d < d
    <3> HIDE DEF n
    <3>1. n \in Nat
      BY <2>1 DEF n
    <3> QED  BY <1>5, <3>1, QuotientIs
  <2> DEFINE u == n \div d
             w == d * u
             rest == n % d
  <2>3. w \in Nat /\ n = w + rest /\ rest \in Nat /\ rest < d
    <3>1. u \in Nat
      BY <2>2
    <3> HIDE DEF u, n
    <3> QED  BY <1>5, <2>2, <3>1 DEF u
  <2> HIDE DEF w, rest
  <2>4. required <= w
    BY <1>4, <1>5, <2>3
  <2>5. units = u
    BY DEF CeilDiv
  <2> QED  BY <2>2, <2>4, <2>5 DEF w
<1> HIDE DEF units
<1>7. qty \in Nat /\ qty % f.step = 0
  <2>1. units \in Nat /\ step \in Nat /\ f.step \in Nat \ {0} /\ step % f.step = 0
    BY <1>3, <1>6
  <2>2. (units * step) % f.step = 0
    BY <2>1, MultipleOfDivisor
  <2>3. units * step \in Nat
    BY <2>1
  <2> QED  BY <2>2, <2>3
<1>8. d * units = qty * AskPrice
  <2>1. units \in Nat /\ step \in Nat /\ AskPrice \in Nat
    BY <1>1, <1>3, <1>6
  <2> QED  BY <2>1
<1> HIDE DEF qty, d
<1>9. f.minNotional <= qty * AskPrice /\ f.minQty * AskPrice <= qty * AskPrice
  <2>1. d * units \in Int /\ f.minQty * AskPrice \in Int
    BY <1>1, <1>3, <1>5, <1>6
  <2> QED  BY <1>3, <1>4, <1>6, <1>8, <2>1
<1>10. f.minQty <= qty
  <2>1. AskPrice \in Nat \ {0} /\ f.minQty \in Nat /\ qty \in Nat
    BY <1>1, <1>3, <1>7
  <2>2. ASSUME f.minQty > qty PROVE FALSE
    <3>1. f.minQty >= qty + 1
      BY <2>1, <2>2
    <3>2. f.minQty * AskPrice >= (qty + 1) * AskPrice
      BY <2>1, <3>1
    <3>3. (qty + 1) * AskPrice = qty * AskPrice + AskPrice
      BY <2>1
    <3>4. qty * AskPrice \in Int /\ f.minQty * AskPrice \in Int
      BY <2>1
    <3> QED  BY <1>9, <2>1, <3>2, <3>3, <3>4
  <2> QED  BY <2>1, <2>2
<1> QED  BY <1>2, <1>7, <1>9, <1>10

\* What was read is what is so, or was when it was read: the scopes never change, the
\* balances only by a transfer.
ReadinessInv ==
  /\ DOMAIN knows = DOMAIN Unread /\ transfers \in Nat
  /\ lots.binance \in BinanceLots /\ lots.bybit \in BybitLots
  /\ knows.restrictions \in {scopes.binance, NotRead} /\ knows.keyInfo \in {scopes.bybit, NotRead}
  /\ transfers = 0 =>
       knows.gateUsdt \in {purse["binance"], NotRead} /\ knows.gateCoins \in {hoard["bybit"], NotRead}
  /\ stage = "done" => gate = Gate(knows)

LEMMA ReadinessPreserved == ReadinessInv /\ [ReadinessNext]_readinessVars => ReadinessInv'
<1> SUFFICES ASSUME ReadinessInv, [ReadinessNext]_readinessVars PROVE ReadinessInv'
  OBVIOUS
<1> USE DEF ReadinessInv
<1>f. {"restrictions", "keyInfo", "gateUsdt", "gateCoins"} \subseteq DOMAIN knows
  BY DEF Unread
<1>1. CASE ReadUniverse \/ ReadUsdt \/ ScanSymbol \/ EndRanking
  <2>1. /\ UNCHANGED <<purse, hoard, transfers, scopes, lots>> /\ stage' # "done"
        /\ DOMAIN knows' = DOMAIN knows
        /\ knows'.restrictions = knows.restrictions /\ knows'.keyInfo = knows.keyInfo
        /\ knows'.gateUsdt = knows.gateUsdt /\ knows'.gateCoins = knows.gateCoins
    <3>1. CASE ReadUniverse
      BY <1>f, <3>1 DEF ReadUniverse, World, Goes
    <3>2. CASE ReadUsdt
      BY <1>f, <3>2 DEF ReadUsdt, World, Goes
    <3>3. CASE ScanSymbol
      BY <1>f, <3>3 DEF ScanSymbol, World
    <3>4. CASE EndRanking
      BY <1>f, <3>4 DEF EndRanking, World, Goes
    <3> QED  BY <1>1, <3>1, <3>2, <3>3, <3>4
  <2> QED  BY <2>1
<1>2. CASE ReadRestrictions
  <2>1. PICK v \in {scopes.binance, NotRead} : knows' = [knows EXCEPT !.restrictions = v]
    BY <1>2 DEF ReadRestrictions
  <2>2. UNCHANGED <<purse, hoard, transfers, scopes, lots>> /\ stage' = "account"
    BY <1>2 DEF ReadRestrictions, World, Goes
  <2> QED  BY <1>f, <2>1, <2>2
<1>3. CASE ReadGateUsdt
  <2>1. PICK v \in {purse["binance"], NotRead} : knows' = [knows EXCEPT !.gateUsdt = v]
    BY <1>3 DEF ReadGateUsdt
  <2>2. UNCHANGED <<purse, hoard, transfers, scopes, lots>> /\ stage' = "keyInfo"
    BY <1>3 DEF ReadGateUsdt, World, Goes
  <2> QED  BY <1>f, <2>1, <2>2
<1>4. CASE ReadKeyInfo
  <2>1. PICK v \in {scopes.bybit, NotRead} : knows' = [knows EXCEPT !.keyInfo = v]
    BY <1>4 DEF ReadKeyInfo
  <2>2. UNCHANGED <<purse, hoard, transfers, scopes, lots>> /\ stage' = "wallet"
    BY <1>4 DEF ReadKeyInfo, World, Goes
  <2> QED  BY <1>f, <2>1, <2>2
<1>5. CASE ReadGateCoins
  <2>1. PICK v \in {hoard["bybit"], NotRead} : knows' = [knows EXCEPT !.gateCoins = v]
    BY <1>5 DEF ReadGateCoins
  <2>2. UNCHANGED <<purse, hoard, transfers, scopes, lots>> /\ stage' = "filters"
    BY <1>5 DEF ReadGateCoins, World, Goes
  <2> QED  BY <1>f, <2>1, <2>2
<1>6. CASE ReadFilters
  <2>1. PICK ok \in BOOLEAN : /\ knows' = [knows EXCEPT !.filters = ok]
                              /\ gate' = Gate([knows EXCEPT !.filters = ok])
    BY <1>6 DEF ReadFilters
  <2>2. UNCHANGED <<purse, hoard, transfers, scopes, lots>>
    BY <1>6 DEF ReadFilters, World
  <2>3. gate' = Gate(knows)'
    BY <2>1, <2>2 DEF Gate
  <2> QED  BY <1>f, <2>1, <2>2, <2>3
<1>7. CASE Transfer
  <2>1. /\ transfers' = transfers + 1 /\ stage # "done" /\ stage' = stage
        /\ UNCHANGED <<scopes, lots, knows>>
    BY <1>7 DEF Transfer
  <2>2. transfers' # 0 /\ transfers' \in Nat
    BY <2>1
  <2> QED  BY <2>1, <2>2
<1>8. CASE UNCHANGED readinessVars
  <2>1. UNCHANGED <<purse, hoard, transfers, scopes, lots, stage, knows, gate>>
    BY <1>8 DEF readinessVars
  <2>2. Gate(knows)' = Gate(knows)
    BY <2>1 DEF Gate
  <2> QED  BY <2>1, <2>2
<1> QED  BY <1>1, <1>2, <1>3, <1>4, <1>5, <1>6, <1>7, <1>8 DEF ReadinessNext

\* What the report asserts is so, whichever readings fail and whatever the keys' scopes and
\* the filters are, provided the coarser of two steps is a multiple of the finer one.
THEOREM ReadinessKnowsWhatItSays ==
  ASSUME StepsNest
  PROVE  ReadinessSpec => []UnknownIsNeverSafe
<1>1. ReadinessInit => ReadinessInv
  BY DEF ReadinessInit, ReadinessInv, Unread
<1>2. ReadinessInv => UnknownIsNeverSafe
  <2> SUFFICES ASSUME ReadinessInv, stage = "done" PROVE UnknownIsNeverSafe
    BY DEF UnknownIsNeverSafe
  <2> DEFINE size == IF knows.filters THEN SmallestCommonOrder(lots.binance, lots.bybit) ELSE NotRead
  <2> DEFINE trades == BinanceTradeReady(knows.restrictions) /\ BybitTradeReady(knows.keyInfo)
             closed == WithdrawalsDisabled(knows.restrictions) /\ WithdrawalsDisabled(knows.keyInfo)
             covered == /\ size # NotRead
                        /\ knows.gateUsdt # NotRead /\ knows.gateUsdt >= size.notional
                        /\ knows.gateCoins # NotRead /\ knows.gateCoins >= size.qty
             ready == trades /\ closed /\ covered
  <2>0. gate = [trades |-> trades, closed |-> closed, size |-> size, ready |-> ready]
    BY DEF ReadinessInv, Gate
  <2>1. /\ gate.closed => closed
        /\ gate.trades => trades
        /\ gate.ready => covered
        /\ gate.size = size
    <3> HIDE DEF trades, closed, covered, size, ready
    <3>1. gate.closed = closed /\ gate.trades = trades /\ gate.size = size /\ gate.ready = ready
      BY <2>0
    <3> QED  BY <3>1 DEF ready
  <2>2. gate.closed => ~scopes.binance.withdraw /\ ~scopes.bybit.withdraw
    BY <2>1 DEF ReadinessInv, WithdrawalsDisabled
  <2>3. ReadyToStart => scopes.binance.trade /\ scopes.bybit.spot /\ ~scopes.bybit.readOnly
    BY <2>1 DEF ReadinessInv, ReadyToStart, BinanceTradeReady, BybitTradeReady
  <2>4. ASSUME gate.ready, NEW f \in {lots.binance, lots.bybit}
        PROVE  /\ gate.size.qty % f.step = 0 /\ gate.size.qty >= f.minQty
               /\ gate.size.notional >= f.minNotional
    <3>1. size = SmallestCommonOrder(lots.binance, lots.bybit) /\ size # NotRead
      BY <2>1, <2>4
    <3>2. lots.binance \in BinanceLots /\ lots.bybit \in BybitLots
      BY DEF ReadinessInv
    <3> HIDE DEF size
    <3> QED  BY <2>1, <3>1, <3>2, CommonOrderIsTaken
  <2>5. ASSUME gate.ready, transfers = 0
        PROVE  gate.size.notional <= purse["binance"] /\ gate.size.qty <= hoard["bybit"]
    <3> HIDE DEF size
    <3> QED  BY <2>1, <2>5 DEF ReadinessInv
  <2> QED  BY <2>2, <2>3, <2>4, <2>5 DEF UnknownIsNeverSafe
<1> QED  BY <1>1, <1>2, ReadinessPreserved, PTL DEF ReadinessSpec

-----------------------------------------------------------------------------
\* The purchases of a report

LEMMA LeastOfFour ==
  ASSUME NEW a \in Int, NEW b \in Int, NEW c \in Int, NEW d \in Int
  PROVE  LET m == Min({a, b, c, d})
         IN  m \in Int /\ m <= a /\ m <= b /\ m <= c /\ m <= d
<1>1. \E x \in {a, b, c, d} : \A y \in {a, b, c, d} : x <= y
  <2>1. \E x \in {a, b} : x <= a /\ x <= b
    OBVIOUS
  <2>2. \E x \in {c, d} : x <= c /\ x <= d
    OBVIOUS
  <2>3. PICK x \in {a, b}, z \in {c, d} : x <= a /\ x <= b /\ z <= c /\ z <= d
    BY <2>1, <2>2
  <2>4. CASE x <= z
    BY <2>3, <2>4
  <2>5. CASE z <= x
    BY <2>3, <2>5
  <2> QED  BY <2>3, <2>4, <2>5
<1>2. Min({a, b, c, d}) \in {a, b, c, d} /\ \A y \in {a, b, c, d} : Min({a, b, c, d}) <= y
  BY <1>1 DEF Min
<1> QED  BY <1>2

LEMMA LargerOfTwo ==
  ASSUME NEW a \in Int, NEW b \in Int
  PROVE  LET m == Max({a, b}) IN m \in {a, b} /\ m >= a /\ m >= b
<1>1. \E x \in {a, b} : \A y \in {a, b} : x >= y
  OBVIOUS
<1>2. Max({a, b}) \in {a, b} /\ \A y \in {a, b} : Max({a, b}) >= y
  BY <1>1 DEF Max
<1> QED  BY <1>2

Unspent(sit) ==
  [exposure |-> Max({0, MaxExposure - ValueHeld(sit)}), usdt |-> sit.usdt, buys |-> {}]

\* the purchases of the first n assets
Buys(f, n, order, sit) ==
  f = [i \in 0..n |-> IF i = 0 THEN Unspent(sit) ELSE Buy(f[i - 1], order[i], sit)]

LEMMA BuysStep ==
  ASSUME NEW n \in Nat, NEW f, NEW order, NEW sit, Buys(f, n, order, sit)
  PROVE  f[0] = Unspent(sit) /\ \A i \in 1..n : f[i] = Buy(f[i - 1], order[i], sit)
<1> DEFINE G(i) == IF i = 0 THEN Unspent(sit) ELSE Buy(f[i - 1], order[i], sit)
<1>1. f = [i \in 0..n |-> G(i)]
  BY DEF Buys
<1>2. \A i \in 0..n : f[i] = G(i)
  <2> HIDE DEF G
  <2> QED  BY <1>1
<1>3. 0 \in 0..n /\ \A i \in 1..n : i \in 0..n /\ i # 0
  OBVIOUS
<1> QED  BY <1>2, <1>3

\* by the first number of assets for which there would be none
LEMMA BuysExist ==
  ASSUME NEW N \in Nat, NEW order, NEW sit
  PROVE  \E f : Buys(f, N, order, sit)
<1> DEFINE F == {n \in 0..N : ~ \E f : Buys(f, n, order, sit)}
<1>1. F \subseteq 0..N
  OBVIOUS
<1>2. 0 \notin F
  <2> DEFINE f == [i \in 0..0 |-> Unspent(sit)]
             G(i) == IF i = 0 THEN Unspent(sit) ELSE Buy(f[i - 1], order[i], sit)
  <2>1. \A i \in 0..0 : G(i) = Unspent(sit)
    <3>1. \A i \in 0..0 : i = 0
      OBVIOUS
    <3> QED  BY <3>1
  <2>2. f = [i \in 0..0 |-> G(i)]
    <3> HIDE DEF G
    <3> QED  BY <2>1
  <2>3. Buys(f, 0, order, sit)
    BY <2>2 DEF G, Buys
  <2> QED  BY <2>3
<1>3. ASSUME NEW n \in F, \A m \in F : n <= m PROVE FALSE
  <2>1. n \in Nat /\ n > 0 /\ n - 1 \in 0..N /\ n - 1 \notin F
    BY <1>1, <1>2, <1>3
  <2>2. PICK h : Buys(h, n - 1, order, sit)
    BY <2>1
  <2>3. n - 1 \in Nat
    BY <2>1
  <2>4. h[0] = Unspent(sit) /\ \A i \in 1..(n - 1) : h[i] = Buy(h[i - 1], order[i], sit)
    BY <2>2, <2>3, BuysStep
  <2> DEFINE f == [i \in 0..n |-> IF i = n THEN Buy(h[n - 1], order[n], sit) ELSE h[i]]
             G(i) == IF i = 0 THEN Unspent(sit) ELSE Buy(f[i - 1], order[i], sit)
  <2>5. ASSUME NEW i \in 0..n PROVE f[i] = G(i)
    <3>1. CASE i = 0
      <4>1. f[0] = h[0]
        BY <2>1, <3>1
      <4> QED  BY <2>4, <3>1, <4>1
    <3>2. CASE i = n
      <4>1. f[n - 1] = h[n - 1] /\ n # 0
        BY <2>1
      <4>2. f[n] = Buy(h[n - 1], order[n], sit)
        BY <2>1
      <4> HIDE DEF f
      <4> QED  BY <3>2, <4>1, <4>2
    <3>3. CASE i # 0 /\ i # n
      <4>1. i \in 1..(n - 1) /\ i - 1 \in 0..n /\ i - 1 # n
        BY <2>1, <3>3
      <4>2. f[i] = h[i] /\ f[i - 1] = h[i - 1]
        BY <3>3, <4>1
      <4>3. h[i] = Buy(h[i - 1], order[i], sit)
        BY <2>4, <4>1
      <4> HIDE DEF f
      <4> QED  BY <3>3, <4>2, <4>3
    <3> QED  BY <3>1, <3>2, <3>3
  <2>6. Buys(f, n, order, sit)
    <3>1. f = [i \in 0..n |-> G(i)]
      <4> HIDE DEF G
      <4> QED  BY <2>5
    <3> QED  BY <3>1 DEF G, Buys
  <2>7. \E g : Buys(g, n, order, sit)
    BY <2>6
  <2> QED  BY <2>7
<1>4. F = {}
  BY <1>1, <1>3, LeastNumber
<1> QED  BY <1>4

Purchase(sit) == [asset : Symbols, on : DOMAIN sit.usdt, size : Nat \ {0}]

LEMMA SizesAreInt ==
  ASSUME NEW sit, NEW B, IsFiniteSet(B), B \subseteq Purchase(sit)
  PROVE  SizeOf(B) \in Nat
<1> DEFINE f == [b \in B |-> b.size]
<1>1. \A b \in B : f[b] \in Nat
  BY DEF Purchase
<1> HIDE DEF f
<1>2. SumFunctionOnSet(f, B) \in Nat
  BY <1>1, SumNat
<1> QED  BY <1>2 DEF f, SizeOf

LEMMA OneMorePurchase ==
  ASSUME NEW sit, NEW B, IsFiniteSet(B), B \subseteq Purchase(sit),
         NEW b \in Purchase(sit), b \notin B
  PROVE  SizeOf(B \cup {b}) = SizeOf(B) + b.size
<1> DEFINE C == B \cup {b}
           f == [x \in C |-> x.size]
           g == [x \in B |-> x.size]
<1>1. IsFiniteSet(C) /\ b \in C /\ C \ {b} = B /\ f[b] = b.size
  BY FS_AddElement
<1>2. \A x \in C : f[x] \in Int
  BY DEF Purchase
<1>3. \A x \in B : f[x] \in Int /\ f[x] = g[x]
  BY DEF Purchase
<1>4. SizeOf(C) = SumFunctionOnSet(f, C) /\ SizeOf(B) = SumFunctionOnSet(g, B)
  BY DEF SizeOf
<1> HIDE DEF f, g, C
<1>5. SumFunctionOnSet(f, C) = f[b] + SumFunctionOnSet(f, C \ {b})
  BY <1>1, <1>2, SumTake
<1>6. SumFunctionOnSet(f, B) = SumFunctionOnSet(g, B) /\ SumFunctionOnSet(f, B) \in Int
  BY <1>3, SumSame, SumInt
<1>7. b.size \in Nat
  BY DEF Purchase
<1>8. SizeOf(C) = SizeOf(B) + b.size
  <2>1. SizeOf(C) = f[b] + SumFunctionOnSet(f, B)
    BY <1>1, <1>4, <1>5
  <2>2. SumFunctionOnSet(f, B) = SizeOf(B) /\ SizeOf(B) \in Int
    BY <1>4, <1>6
  <2> QED  BY <1>1, <1>7, <2>1, <2>2
<1> QED  BY <1>8 DEF C

On(B, x) == {b \in B : b.on = x}

\* What was bought and what is left add up to what there was, and each purchase
\* respects its own limits.
PurchasesFit(left, n, order, sit) ==
  /\ left \in [exposure : Nat, usdt : [DOMAIN sit.usdt -> Nat], buys : SUBSET Purchase(sit)]
  /\ IsFiniteSet(left.buys)
  /\ \A b \in left.buys : /\ b.size <= MaxRebalance /\ b.size + sit.value[b.asset] <= MaxPerAsset
                          /\ \E i \in 1..n : b.asset = order[i]
  /\ SizeOf(left.buys) + left.exposure = Unspent(sit).exposure
  /\ \A x \in DOMAIN sit.usdt : SizeOf(On(left.buys, x)) + left.usdt[x] = sit.usdt[x]

LEMMA SymbolsAreFinite == IsFiniteSet(Symbols)
<1>1. Universe \in Seq(STRING)
  BY ScanAssumption DEF ScanAssumption
<1>2. DOMAIN Universe = 1..Len(Universe) /\ Len(Universe) \in Nat
  BY <1>1
<1>4. Universe \in Surjection(1..Len(Universe), Symbols)
  BY <1>1, <1>2 DEF Surjection, Symbols
<1> QED  BY <1>2, <1>4, FS_NatSurjection DEF ExistsSurjection

LEMMA SituationIs ==
  ASSUME NEW sit \in Situations
  PROVE  /\ IsFiniteSet(Symbols) /\ ValueHeld(sit) \in Nat
         /\ sit.value \in [Symbols -> Nat] /\ sit.usdt \in [DOMAIN sit.usdt -> Nat]
         /\ \A s \in DOMAIN sit.blocked : sit.blocked[s] \in DOMAIN sit.usdt
         /\ MaxExposure \in Nat /\ MaxPerAsset \in Nat /\ MaxRebalance \in Nat
<1>1. /\ sit.value \in [Symbols -> Nat] /\ sit.usdt \in [DOMAIN sit.usdt -> Nat]
      /\ \A s \in DOMAIN sit.blocked : sit.blocked[s] \in DOMAIN sit.usdt
      /\ MaxExposure \in Nat /\ MaxPerAsset \in Nat /\ MaxRebalance \in Nat
  BY AdviceAssumption DEF AdviceAssumption
<1>2. IsFiniteSet(Symbols)
  BY SymbolsAreFinite
<1>3. SumFunctionOnSet(sit.value, Symbols) \in Nat
  BY <1>1, <1>2, SumNat
<1> QED  BY <1>1, <1>2, <1>3 DEF ValueHeld

LEMMA BuysAre ==
  ASSUME NEW e, NEW u, NEW B, NEW C
  PROVE  [[exposure |-> e, usdt |-> u, buys |-> B] EXCEPT !.buys = C]
           = [exposure |-> e, usdt |-> u, buys |-> C]
OBVIOUS

LEMMA OneMoreFits ==
  ASSUME NEW sit \in Situations, NEW order, NEW left, NEW n \in Nat \ {0},
         PurchasesFit(left, n - 1, order, sit),
         order[n] \in Symbols, order[n] \in DOMAIN sit.blocked,
         \A i \in 1..(n - 1) : order[i] # order[n]
  PROVE  PurchasesFit(Buy(left, order[n], sit), n, order, sit)
<1> DEFINE s == order[n]
           x == sit.blocked[s]
           size == Min({MaxRebalance, MaxPerAsset - sit.value[s], left.exposure, left.usdt[x]})
           b == [asset |-> s, on |-> x, size |-> size]
           more == [Spend(left, x, size) EXCEPT !.buys = @ \cup {b}]
<1>1. Buy(left, s, sit) = IF size <= 0 THEN left ELSE more
  BY DEF Buy
<1>2. /\ s \in Symbols /\ x \in DOMAIN sit.usdt
      /\ sit.value[s] \in Nat /\ sit.usdt[x] \in Nat /\ MaxRebalance \in Nat /\ MaxPerAsset \in Nat
  BY SituationIs
<1>3. /\ left \in [exposure : Nat, usdt : [DOMAIN sit.usdt -> Nat], buys : SUBSET Purchase(sit)]
      /\ IsFiniteSet(left.buys)
      /\ \A c \in left.buys : /\ c.size <= MaxRebalance /\ c.size + sit.value[c.asset] <= MaxPerAsset
                              /\ \E i \in 1..(n - 1) : c.asset = order[i]
      /\ SizeOf(left.buys) + left.exposure = Unspent(sit).exposure
      /\ \A y \in DOMAIN sit.usdt : SizeOf(On(left.buys, y)) + left.usdt[y] = sit.usdt[y]
  BY DEF PurchasesFit
<1>4. left.exposure \in Nat /\ left.usdt[x] \in Nat /\ left.buys \subseteq Purchase(sit)
  BY <1>2, <1>3
<1>5. /\ size \in Int /\ size <= MaxRebalance /\ size <= MaxPerAsset - sit.value[s]
      /\ size <= left.exposure /\ size <= left.usdt[x]
  <2> DEFINE room == MaxPerAsset - sit.value[s]
             money == left.usdt[x]
  <2>1. MaxRebalance \in Int /\ room \in Int /\ left.exposure \in Int /\ money \in Int
    BY <1>2, <1>4
  <2>2. size = Min({MaxRebalance, room, left.exposure, money})
    OBVIOUS
  <2>3. /\ size \in Int /\ size <= MaxRebalance /\ size <= room
        /\ size <= left.exposure /\ size <= money
    <3> HIDE DEF room, money, size
    <3> QED  BY <2>1, <2>2, LeastOfFour
  <2> QED  BY <2>3
<1>6. 1..(n - 1) \subseteq 1..n /\ n \in 1..n
  OBVIOUS
<1> HIDE DEF size, x, s
<1>7. CASE size <= 0
  <2>1. \A c \in left.buys : \E i \in 1..n : c.asset = order[i]
    BY <1>3, <1>6
  <2>2. PurchasesFit(left, n, order, sit)
    BY <1>3, <2>1 DEF PurchasesFit
  <2> QED  BY <1>1, <1>7, <2>2 DEF s
<1>8. CASE size > 0
  <2>1. b \in Purchase(sit) /\ b.size = size /\ b.on = x /\ b.asset = s
    BY <1>2, <1>5, <1>8 DEF Purchase
  <2>2. b \notin left.buys
    BY <1>3, <2>1 DEF s
  <2> HIDE DEF b
  <2> DEFINE usdt == [left.usdt EXCEPT ![x] = left.usdt[x] - size]
  <2>3. /\ more = [exposure |-> left.exposure - size, usdt |-> usdt, buys |-> left.buys \cup {b}]
    <3>1. left = [exposure |-> left.exposure, usdt |-> left.usdt, buys |-> left.buys]
      BY <1>3
    <3>2. Spend(left, x, size) = [exposure |-> left.exposure - size, usdt |-> usdt, buys |-> left.buys]
      BY DEF Spend
    <3> DEFINE spent == Spend(left, x, size)
    <3>3. spent = [exposure |-> left.exposure - size, usdt |-> usdt, buys |-> left.buys]
      BY <3>2
    <3> HIDE DEF spent, usdt
    <3>4. [spent EXCEPT !.buys = spent.buys \cup {b}]
            = [exposure |-> left.exposure - size, usdt |-> usdt, buys |-> left.buys \cup {b}]
      <4>1. spent.buys = left.buys
        BY <3>3
      <4> DEFINE C == left.buys \cup {b}
      <4>2. [spent EXCEPT !.buys = C] = [exposure |-> left.exposure - size, usdt |-> usdt, buys |-> C]
        <5> HIDE DEF C
        <5> QED  BY <3>3, BuysAre
      <4> QED  BY <4>1, <4>2
    <3> QED  BY <3>4 DEF spent
  <2>4. left.exposure - size \in Nat /\ left.usdt[x] - size \in Nat
    BY <1>4, <1>5, <1>8
  <2>5. /\ usdt \in [DOMAIN sit.usdt -> Nat] /\ usdt[x] = left.usdt[x] - size
        /\ \A y \in DOMAIN sit.usdt : y # x => usdt[y] = left.usdt[y]
    BY <1>2, <1>3, <2>4
  <2> HIDE DEF usdt, more
  <2>6. more \in [exposure : Nat, usdt : [DOMAIN sit.usdt -> Nat], buys : SUBSET Purchase(sit)]
    BY <1>4, <2>1, <2>3, <2>4, <2>5
  <2>7. more.exposure = left.exposure - size /\ more.usdt = usdt /\ more.buys = left.buys \cup {b}
    BY <2>3
  <2>8. IsFiniteSet(more.buys)
    BY <1>3, <2>7, FS_AddElement
  <2>9. \A c \in more.buys : /\ c.size <= MaxRebalance /\ c.size + sit.value[c.asset] <= MaxPerAsset
                             /\ \E i \in 1..n : c.asset = order[i]
    <3>1. b.size <= MaxRebalance /\ b.size + sit.value[b.asset] <= MaxPerAsset
      BY <1>2, <1>5, <2>1
    <3>2. \E i \in 1..n : b.asset = order[i]
      BY <1>6, <2>1 DEF s
    <3> QED  BY <1>3, <1>6, <2>7, <3>1, <3>2
  <2>10. SizeOf(more.buys) = SizeOf(left.buys) + size
    BY <1>3, <1>4, <2>1, <2>2, <2>7, OneMorePurchase
  <2>11. SizeOf(left.buys) \in Nat
    BY <1>3, <1>4, SizesAreInt
  <2>12. SizeOf(more.buys) + more.exposure = Unspent(sit).exposure
    BY <1>3, <1>4, <1>5, <2>7, <2>10, <2>11
  <2>13. ASSUME NEW y \in DOMAIN sit.usdt
         PROVE  SizeOf(On(more.buys, y)) + more.usdt[y] = sit.usdt[y]
    <3>1. /\ IsFiniteSet(On(left.buys, y)) /\ On(left.buys, y) \subseteq Purchase(sit)
          /\ b \notin On(left.buys, y)
      <4>1. On(left.buys, y) \subseteq left.buys
        BY DEF On
      <4> QED  BY <1>3, <1>4, <2>2, <4>1, FS_Subset
    <3>2. SizeOf(On(left.buys, y)) \in Nat
      BY <3>1, SizesAreInt
    <3>3. CASE y = x
      <4>1. On(more.buys, y) = On(left.buys, y) \cup {b}
        BY <2>1, <2>7, <3>3 DEF On
      <4>2. SizeOf(On(more.buys, y)) = SizeOf(On(left.buys, y)) + size
        BY <2>1, <3>1, <4>1, OneMorePurchase
      <4> QED  BY <1>3, <1>4, <1>5, <2>5, <2>7, <3>2, <3>3, <4>2
    <3>4. CASE y # x
      <4>1. On(more.buys, y) = On(left.buys, y)
        BY <2>1, <2>7, <3>4 DEF On
      <4> QED  BY <1>3, <2>5, <2>7, <3>4, <4>1
    <3> QED  BY <3>3, <3>4
  <2>14. PurchasesFit(more, n, order, sit)
    BY <2>6, <2>8, <2>9, <2>12, <2>13 DEF PurchasesFit
  <2> QED  BY <1>1, <1>5, <1>8, <2>14 DEF s
<1> QED  BY <1>5, <1>7, <1>8

\* by the first asset after which they would not fit
LEMMA AllPurchasesFit ==
  ASSUME NEW sit \in Situations, NEW S, S \subseteq Symbols, S \subseteq DOMAIN sit.blocked, IsFiniteSet(S),
         NEW order \in SetToSeqs(S)
  PROVE  \E left : /\ PurchasesFit(left, Len(order), order, sit) /\ Purchases(order, sit) = left.buys
                   /\ \A i \in 1..Len(order) : order[i] \in S
<1>1. /\ Cardinality(S) \in Nat /\ order \in [1..Cardinality(S) -> S]
      /\ \A i, j \in 1..Cardinality(S) : i # j => order[i] # order[j]
  BY FS_CardinalityType DEF SetToSeqs
<1>2. Len(order) = Cardinality(S)
  BY <1>1
<1> DEFINE N == Len(order)
<1>3. N \in Nat /\ \A i \in 1..N : order[i] \in S
  BY <1>1, <1>2
<1>4. \A i, j \in 1..N : i # j => order[i] # order[j]
  BY <1>1, <1>2
<1>5. \E f : Buys(f, N, order, sit)
  <2> HIDE DEF N
  <2> QED  BY <1>3, BuysExist
<1>6. Purchases(order, sit) = (CHOOSE f : Buys(f, N, order, sit))[N].buys
  BY DEF Purchases, Buys, Unspent
<1>7. PICK f : Buys(f, N, order, sit) /\ Purchases(order, sit) = f[N].buys
  BY <1>5, <1>6
<1> HIDE DEF N
<1>8. f[0] = Unspent(sit) /\ \A i \in 1..N : f[i] = Buy(f[i - 1], order[i], sit)
  BY <1>3, <1>7, BuysStep
<1> DEFINE F == {n \in 0..N : ~PurchasesFit(f[n], n, order, sit)}
<1>9. F \subseteq 0..N
  OBVIOUS
<1>10. PurchasesFit(f[0], 0, order, sit)
  <2> DEFINE left == Unspent(sit)
  <2>1. Max({0, MaxExposure - ValueHeld(sit)}) \in Nat
    <3> DEFINE room == MaxExposure - ValueHeld(sit)
    <3>1. room \in Int /\ 0 \in Int
      BY SituationIs
    <3>2. Max({0, room}) \in {0, room} /\ Max({0, room}) >= 0
      <4> HIDE DEF room
      <4> QED  BY <3>1, LargerOfTwo
    <3> QED  BY <3>1, <3>2
  <2>2. left.exposure = Max({0, MaxExposure - ValueHeld(sit)}) /\ left.usdt = sit.usdt /\ left.buys = {}
    BY DEF Unspent
  <2>3. left \in [exposure : Nat, usdt : [DOMAIN sit.usdt -> Nat], buys : SUBSET Purchase(sit)]
    BY <2>1, SituationIs DEF Unspent
  <2>4. SizeOf({}) = 0
    BY SumOfNone DEF SizeOf
  <2>5. \A x \in DOMAIN sit.usdt : On(left.buys, x) = {} /\ sit.usdt[x] \in Nat
    BY <2>2, SituationIs DEF On
  <2>6. IsFiniteSet(left.buys)
    BY <2>2, FS_EmptySet
  <2>8. ASSUME NEW x \in DOMAIN sit.usdt
        PROVE  SizeOf(On(left.buys, x)) + left.usdt[x] = sit.usdt[x]
    <3>1. SizeOf(On(left.buys, x)) = 0
      BY <2>4, <2>5
    <3> QED  BY <2>2, <2>5, <3>1
  <2>9. SizeOf(left.buys) + left.exposure = left.exposure
    BY <2>1, <2>2, <2>4
  <2> HIDE DEF left
  <2>7. PurchasesFit(left, 0, order, sit)
    BY <2>2, <2>3, <2>6, <2>8, <2>9 DEF PurchasesFit, left
  <2> QED  BY <1>8, <2>7 DEF left
<1>11. ASSUME NEW n \in F, \A m \in F : n <= m PROVE FALSE
  <2>1. n \in 1..N /\ n - 1 \in 0..N /\ n - 1 \notin F
    BY <1>3, <1>9, <1>10, <1>11
  <2>2. PurchasesFit(f[n - 1], n - 1, order, sit)
    BY <2>1
  <2>3. n \in Nat \ {0} /\ \A i \in 1..(n - 1) : i \in 1..N /\ i # n
    BY <1>3, <2>1
  <2>4. \A i \in 1..(n - 1) : order[i] # order[n]
    BY <1>4, <2>1, <2>3
  <2>5. order[n] \in Symbols /\ order[n] \in DOMAIN sit.blocked
    BY <1>3, <2>1
  <2>6. PurchasesFit(Buy(f[n - 1], order[n], sit), n, order, sit)
    BY <2>2, <2>3, <2>4, <2>5, OneMoreFits
  <2> QED  BY <1>8, <2>1, <2>6
<1>12. F = {}
  <2> HIDE DEF F
  <2> QED  BY <1>3, <1>9, <1>11, LeastNumber
<1>13. N \in 0..N
  BY <1>3
<1>14. PurchasesFit(f[N], N, order, sit)
  BY <1>12, <1>13
<1> QED  BY <1>3, <1>7, <1>14 DEF N

\* The purchases of a report fit together within every limit, for any limits and
\* accounts and in whatever order the assets are taken (recommend_rebalance).
THEOREM PurchasesWithinLimits == AdviceSpec => []ExposureWithinLimits
<1>1. AdviceInit => ExposureWithinLimits
  BY DEF AdviceInit, ExposureWithinLimits
<1>2. ExposureWithinLimits /\ [AdviceNext]_adviceVars => ExposureWithinLimits'
  <2> SUFFICES ASSUME ExposureWithinLimits, [AdviceNext]_adviceVars, advice' # NoAdvice
               PROVE  ExposureWithinLimits'
    BY DEF ExposureWithinLimits
  <2>1. CASE ScanNext /\ advice' = NoAdvice
    BY <2>1
  <2>2. CASE UNCHANGED adviceVars
    <3>1. advice' = advice
      BY <2>2 DEF adviceVars
    <3> QED  BY <3>1 DEF ExposureWithinLimits
  <2>3. CASE BuildInventoryReport
    <3>0. PICK sit \in Situations, best \in [Symbols -> LiveLegs \cup {NoAdvice}] :
            LET E == {s \in Symbols : best[s] # NoAdvice /\ Eligible(s, best[s])}
            IN  \E order \in SetToSeqs({s \in E : s \in DOMAIN sit.blocked}) :
                  advice' = [best |-> best, sit |-> sit, buys |-> Purchases(order, sit),
                             sells |-> {s \in Symbols \ E : sit.value[s] > 0}]
      BY <2>3 DEF BuildInventoryReport
    <3> DEFINE E == {s \in Symbols : best[s] # NoAdvice /\ Eligible(s, best[s])}
    <3>1. PICK order \in SetToSeqs({s \in E : s \in DOMAIN sit.blocked}) :
            advice' = [best |-> best, sit |-> sit, buys |-> Purchases(order, sit),
                       sells |-> {s \in Symbols \ E : sit.value[s] > 0}]
      BY <3>0
    <3>e. E \subseteq Symbols
      OBVIOUS
    <3> HIDE DEF E
    <3> DEFINE S == {s \in E : s \in DOMAIN sit.blocked}
    <3>2. S \subseteq Symbols /\ S \subseteq DOMAIN sit.blocked /\ S \subseteq E /\ order \in SetToSeqs(S)
      BY <3>1, <3>e
    <3> HIDE DEF S
    <3>3. IsFiniteSet(S)
      BY <3>2, SituationIs, FS_Subset
    <3>4. PICK left : /\ PurchasesFit(left, Len(order), order, sit) /\ Purchases(order, sit) = left.buys
                      /\ \A i \in 1..Len(order) : order[i] \in S
      BY <3>2, <3>3, AllPurchasesFit
    <3> DEFINE buys == left.buys
    <3>5. /\ advice'.sit = sit /\ advice'.buys = buys
          /\ advice'.sells = {s \in Symbols \ E : sit.value[s] > 0}
      BY <3>1, <3>4
    <3>6. SizeOf(buys) \in Nat /\ \A x \in DOMAIN sit.usdt : SizeOf(On(buys, x)) \in Nat
      <4>1. IsFiniteSet(buys) /\ buys \subseteq Purchase(sit)
        BY <3>4 DEF PurchasesFit
      <4>2. \A x : IsFiniteSet(On(buys, x)) /\ On(buys, x) \subseteq Purchase(sit)
        BY <4>1, FS_Subset DEF On
      <4> QED  BY <4>1, <4>2, SizesAreInt
    <3>7. SizeOf(buys) + ValueHeld(sit) <= Max({MaxExposure, ValueHeld(sit)})
      <4>1. SizeOf(buys) <= Max({0, MaxExposure - ValueHeld(sit)})
        <5>1. left.exposure \in Nat /\ SizeOf(buys) + left.exposure = Max({0, MaxExposure - ValueHeld(sit)})
          BY <3>4 DEF PurchasesFit, Unspent
        <5> QED  BY <3>6, <5>1
      <4> DEFINE held == ValueHeld(sit)
      <4>2. held \in Nat /\ MaxExposure \in Nat /\ MaxExposure - held \in Int
        BY SituationIs
      <4>3. /\ Max({0, MaxExposure - held}) \in {0, MaxExposure - held}
            /\ Max({MaxExposure, held}) >= MaxExposure /\ Max({MaxExposure, held}) >= held
            /\ Max({MaxExposure, held}) \in Int
        <5> HIDE DEF held
        <5>1. 0 \in Int /\ MaxExposure \in Int /\ held \in Int
          BY <4>2
        <5> QED  BY <4>2, <5>1, LargerOfTwo
      <4> QED  BY <3>6, <4>1, <4>2, <4>3
    <3>8. ASSUME NEW x \in DOMAIN sit.usdt PROVE SizeOf(On(buys, x)) <= sit.usdt[x]
      <4>1. left.usdt[x] \in Nat /\ SizeOf(On(buys, x)) + left.usdt[x] = sit.usdt[x]
        BY <3>4 DEF PurchasesFit
      <4> QED  BY <3>6, <4>1
    <3>9. ASSUME NEW b \in buys
          PROVE  /\ b.size <= MaxRebalance /\ b.size + sit.value[b.asset] <= MaxPerAsset
                 /\ b.asset \notin advice'.sells
      <4>1. /\ b.size <= MaxRebalance /\ b.size + sit.value[b.asset] <= MaxPerAsset
            /\ \E i \in 1..Len(order) : b.asset = order[i]
        BY <3>4 DEF PurchasesFit
      <4>2. b.asset \in E
        BY <3>2, <3>4, <4>1
      <4> QED  BY <3>5, <4>1, <4>2
    <3>10. /\ SizeOf(advice'.buys) + ValueHeld(advice'.sit) <= Max({MaxExposure, ValueHeld(advice'.sit)})
           /\ \A x \in DOMAIN advice'.sit.usdt : SizeOf({b \in advice'.buys : b.on = x}) <= advice'.sit.usdt[x]
           /\ \A b \in advice'.buys : /\ b.size <= MaxRebalance
                                      /\ b.size + advice'.sit.value[b.asset] <= MaxPerAsset
                                      /\ b.asset \notin advice'.sells
      BY <3>5, <3>7, <3>8, <3>9 DEF On
    <3> QED  BY <3>10 DEF ExposureWithinLimits
  <2> QED  BY <2>1, <2>2, <2>3 DEF AdviceNext
<1> QED  BY <1>1, <1>2, PTL DEF AdviceSpec

-----------------------------------------------------------------------------
\* What the scanner saw, and what its rows say of it

LEMMA TwoOf ==
  ASSUME NEW S, NEW n \in Nat, n >= 2, Cardinality(S) >= n
  PROVE  \E x, y \in S : x # y
<1> SUFFICES ASSUME ~ \E x, y \in S : x # y PROVE FALSE
  OBVIOUS
<1>1. CASE S = {}
  <2>1. Cardinality(S) = 0
    BY <1>1, FS_EmptySet
  <2> QED  BY <2>1
<1>2. CASE S # {}
  <2>1. PICK x : S = {x}
    BY <1>2
  <2>2. Cardinality(S) = 1
    BY <2>1, FS_Singleton
  <2> QED  BY <2>2
<1> QED  BY <1>1, <1>2

LEMMA TwoAreTwo ==
  ASSUME NEW S, IsFiniteSet(S), NEW x \in S, NEW y \in S, x # y
  PROVE  Cardinality(S) >= 2
<1> DEFINE R == S \ {x}
           T == R \ {y}
<1>1. IsFiniteSet(R) /\ Cardinality(R) = Cardinality(S) - 1
  BY FS_RemoveElement
<1>2. y \in R
  OBVIOUS
<1> HIDE DEF R
<1>3. IsFiniteSet(T) /\ Cardinality(T) = Cardinality(R) - 1
  BY <1>1, <1>2, FS_RemoveElement
<1>4. Cardinality(S) \in Nat /\ Cardinality(R) \in Nat /\ Cardinality(T) \in Nat
  BY <1>1, <1>3, FS_CardinalityType
<1> QED  BY <1>1, <1>3, <1>4

LEMMA RoutesAreFinite == IsFiniteSet(Routes)
<1> DEFINE three == {"binance", "bybit", "okx"}
<1>1. IsFiniteSet(three)
  <2>1. IsFiniteSet({"binance"}) /\ three = ({"binance"} \cup {"bybit"}) \cup {"okx"}
    BY FS_Singleton
  <2>2. IsFiniteSet({"binance"} \cup {"bybit"})
    BY <2>1, FS_AddElement
  <2> QED  BY <2>1, <2>2, FS_AddElement
<1>2. IsFiniteSet(three \X three)
  BY <1>1, FS_Product
<1>3. IsFiniteSet(Legs)
  <2>1. Legs \subseteq three \X three
    BY DEF Legs
  <2> QED  BY <1>2, <2>1, FS_Subset
<1> QED  BY <1>3, SymbolsAreFinite, FS_Product DEF Routes

\* the sightings of an edge
Edges(k) == {o \in seen : o.positive /\ o.key = k}

\* A positive row was seen when it says, in its life, and at the start of the streak it
\* tells of; a life writes one row of a direction at a time.
RowIsSeen(r) ==
  /\ r.at \in Nat /\ r.at <= tick /\ r.seenAt \in Nat /\ r.life \in Nat /\ r.life <= life
  /\ r.life = life => r.seenAt < cycle.rest
  /\ r.positive => \E o \in Edges(r.key) : o.at = r.seenAt /\ o.life = r.life
  /\ r.persistence \in Int
  /\ r.persistence # 0 => \E o \in Edges(r.key) : o.at = r.seenAt - r.persistence

SightInv ==
  /\ tick \in Nat /\ life \in Nat /\ cycle.rest \in Nat
  /\ cycle.open => cycle.at \in Nat /\ cycle.at <= tick /\ cycle.rest <= tick
  /\ IsFiniteSet(seen)
  /\ streaks \in [Routes -> Int]
  /\ \A k \in Routes : streaks[k] # NoStreak => \E o \in Edges(k) : o.at = streaks[k]
  /\ \A r \in table : RowIsSeen(r)
  /\ \A r, s \in table : r.key = s.key /\ r.life = s.life /\ r.seenAt = s.seenAt => r = s

LEMMA LatestIs ==
  ASSUME SightInv, NEW R, R \subseteq table, R # {}
  PROVE  Latest(R) \in R
<1>1. \A r \in R : /\ r.at \in Nat /\ r.at <= tick /\ r.life \in Nat /\ r.life <= life
  BY DEF SightInv, RowIsSeen
<1>2. tick \in Nat /\ life \in Nat
  BY DEF SightInv
<1>3. PICK r \in R : \A x \in R : x.at <= r.at
  <2> DEFINE F == {tick - x.at : x \in R}
  <2>1. F \subseteq 0..tick /\ F # {}
    BY <1>1, <1>2
  <2>2. PICK n \in F : \A m \in F : n <= m
    <3> HIDE DEF F
    <3> QED  BY <1>2, <2>1, LeastNumber
  <2>3. PICK r \in R : n = tick - r.at
    OBVIOUS
  <2>4. ASSUME NEW x \in R PROVE x.at <= r.at
    <3>1. n <= tick - x.at
      BY <2>2
    <3> QED  BY <1>1, <1>2, <2>3, <3>1
  <2> QED  BY <2>4
<1>4. PICK s \in R : s.at = r.at /\ \A x \in R : x.at = r.at => x.life <= s.life
  <2> DEFINE Q == {x \in R : x.at = r.at}
             F == {life - x.life : x \in Q}
  <2>1. F \subseteq 0..life /\ F # {}
    BY <1>1, <1>2
  <2>2. PICK n \in F : \A m \in F : n <= m
    <3> HIDE DEF F
    <3> QED  BY <1>2, <2>1, LeastNumber
  <2>3. PICK s \in Q : n = life - s.life
    OBVIOUS
  <2>4. ASSUME NEW x \in Q PROVE x.life <= s.life
    <3>1. n <= life - x.life
      BY <2>2
    <3> QED  BY <1>1, <1>2, <2>3, <3>1
  <2> QED  BY <2>3, <2>4
<1>5. \A x \in R : x.at < s.at \/ (x.at = s.at /\ x.life <= s.life)
  BY <1>1, <1>3, <1>4
<1> QED  BY <1>5 DEF Latest

\* What is eligible was seen twice.
LEMMA EligibleWasSeenTwice ==
  ASSUME SightInv, Confirmations >= 2, NEW s, NEW l, Eligible(s, l)
  PROVE  Cardinality(Edges(<<s, l>>)) >= 2
<1> DEFINE k == <<s, l>>
           R == RowsOf(k, tick - Lookback)
           last == Latest(R)
           confirmed == {r \in R : r.positive /\ r.at >= last.at - Window}
<1>1. \A r \in R : r \in table /\ r.key = k
  BY DEF RowsOf
<1>2. Regime(R) \in {"CONFIRMED_SHORT_TERM", "PERSISTENT"}
  BY DEF Eligible
<1> HIDE DEF k, R
<1>3. /\ R # {} /\ last.positive
      /\ last.persistence >= Persistent \/ Confirmed(Cardinality(confirmed))
  BY <1>2 DEF Regime
<1>4. last \in R
  BY <1>1, <1>3, LatestIs
<1> HIDE DEF last
<1>5. IsFiniteSet(Edges(k))
  BY FS_Subset DEF SightInv, Edges
<1>6. CASE last.persistence >= Persistent
  <2>1. RowIsSeen(last) /\ last.key = k
    BY <1>1, <1>4 DEF SightInv
  <2>2. Persistent \in Nat \ {0}
    BY AdviceAssumption DEF AdviceAssumption
  <2>3. last.persistence \in Int /\ last.persistence # 0 /\ last.seenAt \in Nat
    BY <1>6, <2>1, <2>2 DEF RowIsSeen
  <2>4. PICK o \in Edges(k) : o.at = last.seenAt
    BY <1>3, <2>1 DEF RowIsSeen
  <2>5. PICK p \in Edges(k) : p.at = last.seenAt - last.persistence
    BY <2>1, <2>3 DEF RowIsSeen
  <2>6. o # p
    BY <2>3, <2>4, <2>5
  <2> QED  BY <1>5, <2>6, TwoAreTwo DEF k
<1>7. CASE Confirmed(Cardinality(confirmed))
  <2>1. Cardinality(confirmed) >= Confirmations
    BY <1>7 DEF Confirmed
  <2>2. PICK r \in confirmed, x \in confirmed : r # x
    <3>1. Confirmations \in Nat
      BY AdviceAssumption DEF AdviceAssumption
    <3> HIDE DEF confirmed
    <3> QED  BY <2>1, <3>1, TwoOf
  <2>3. /\ r \in table /\ x \in table /\ r.key = k /\ x.key = k /\ r.positive /\ x.positive
        /\ RowIsSeen(r) /\ RowIsSeen(x)
    BY <1>1 DEF SightInv
  <2>4. PICK o \in Edges(k) : o.at = r.seenAt /\ o.life = r.life
    BY <2>3 DEF RowIsSeen
  <2>5. PICK p \in Edges(k) : p.at = x.seenAt /\ p.life = x.life
    BY <2>3 DEF RowIsSeen
  <2>6. o # p
    BY <2>2, <2>3, <2>4, <2>5 DEF SightInv
  <2> QED  BY <1>5, <2>6, TwoAreTwo DEF k
<1> QED  BY <1>3, <1>6, <1>7

\* What a scan of stage B leaves, by what it found of each direction.
LEMMA StageBObserves ==
  ASSUME StageB
  PROVE  \E of :
    /\ DOMAIN of \subseteq Routes
    /\ streaks' = [k \in Routes |-> IF k \in DOMAIN of THEN Continued(streaks[k], IsPositive(of[k]))
                                    ELSE streaks[k]]
    /\ seen' = seen \cup {[key |-> k, at |-> tick, life |-> life,
                           positive |-> k \in {j \in DOMAIN of : IsPositive(of[j])}] : k \in DOMAIN of}
    /\ table' = table \cup {Row(k, of[k]) : k \in DOMAIN of} \/ table' = table
<1>1. PICK quotes \in [StageBSymbols -> Outcomes \cup {Lost}], committed \in BOOLEAN :
        LET of == [k \in {k \in Routes : /\ k[1] \in StageBSymbols /\ quotes[k[1]] # Lost
                                       /\ k[2] \in DOMAIN quotes[k[1]]} |-> quotes[k[1]][k[2]]]
            positives == {k \in DOMAIN of : IsPositive(of[k])}
        IN  /\ streaks' = [k \in Routes |-> IF k \in DOMAIN of
                                            THEN Continued(streaks[k], IsPositive(of[k])) ELSE streaks[k]]
            /\ seen' = seen \cup {[key |-> k, at |-> tick, life |-> life, positive |-> k \in positives] : k \in DOMAIN of}
            /\ IF committed THEN table' = table \cup {Row(k, of[k]) : k \in DOMAIN of}
               ELSE UNCHANGED <<table, totals>>
  BY DEF StageB
<1> DEFINE of == [k \in {k \in Routes : /\ k[1] \in StageBSymbols /\ quotes[k[1]] # Lost
                                       /\ k[2] \in DOMAIN quotes[k[1]]} |-> quotes[k[1]][k[2]]]
<1>2. DOMAIN of \subseteq Routes
  OBVIOUS
<1>3. /\ streaks' = [k \in Routes |-> IF k \in DOMAIN of THEN Continued(streaks[k], IsPositive(of[k]))
                                     ELSE streaks[k]]
      /\ seen' = seen \cup {[key |-> k, at |-> tick, life |-> life,
                            positive |-> k \in {j \in DOMAIN of : IsPositive(of[j])}] : k \in DOMAIN of}
      /\ IF committed THEN table' = table \cup {Row(k, of[k]) : k \in DOMAIN of}
         ELSE UNCHANGED <<table, totals>>
  BY <1>1
<1> HIDE DEF of
<1> QED  BY <1>2, <1>3

LEMMA SightPreserved == SightInv /\ [ScanNext]_scanVars => SightInv'
<1> SUFFICES ASSUME SightInv, [ScanNext]_scanVars PROVE SightInv'
  OBVIOUS
<1>1. CASE StageA
  <2>1. /\ ~cycle.open /\ tick >= cycle.rest /\ UNCHANGED <<tick, life, streaks, table, seen>>
        /\ cycle'.at = tick /\ cycle'.rest = cycle.rest
    BY <1>1 DEF StageA
  <2>2. \A r \in table : RowIsSeen(r)'
    BY <2>1 DEF SightInv, RowIsSeen, Edges
  <2>3. \A k \in Routes : Edges(k)' = Edges(k)
    BY <2>1 DEF Edges
  <2> QED  BY <2>1, <2>2, <2>3 DEF SightInv
<1>2. CASE StageB
  <2>1. PICK of :
          /\ DOMAIN of \subseteq Routes
          /\ streaks' = [k \in Routes |-> IF k \in DOMAIN of THEN Continued(streaks[k], IsPositive(of[k]))
                                          ELSE streaks[k]]
          /\ seen' = seen \cup {[key |-> k, at |-> tick, life |-> life,
                                 positive |-> k \in {j \in DOMAIN of : IsPositive(of[j])}] : k \in DOMAIN of}
          /\ table' = table \cup {Row(k, of[k]) : k \in DOMAIN of} \/ table' = table
    BY <1>2, StageBObserves
  <2>2. /\ cycle.open /\ UNCHANGED <<tick, life>>
        /\ ~cycle'.open /\ cycle'.rest = tick + 1
    BY <1>2 DEF StageB, NoCycle
  <2>3. tick \in Nat /\ life \in Nat /\ cycle.at \in Nat /\ cycle.at <= tick /\ cycle.rest <= tick /\ cycle.rest \in Nat
    BY <2>2 DEF SightInv
  <2> DEFINE sight(k) == [key |-> k, at |-> tick, life |-> life,
                          positive |-> k \in {j \in DOMAIN of : IsPositive(of[j])}]
  <2>4. seen' = seen \cup {sight(k) : k \in DOMAIN of}
    BY <2>1
  <2>5. \A k \in DOMAIN of :
          /\ sight(k).key = k /\ sight(k).at = tick /\ sight(k).life = life
          /\ sight(k).positive = (k \in {j \in DOMAIN of : IsPositive(of[j])})
    OBVIOUS
  <2> HIDE DEF sight
  <2>6. \A k : Edges(k) \subseteq Edges(k)'
    BY <2>4 DEF Edges
  <2>7. ASSUME NEW k \in DOMAIN of, IsPositive(of[k])
        PROVE  \E o \in Edges(k)' : o.at = tick /\ o.life = life
    <3> DEFINE o == sight(k)
    <3>1. o \in seen' /\ o.positive /\ o.key = k /\ o.at = tick /\ o.life = life
      BY <2>4, <2>5, <2>7
    <3> HIDE DEF o
    <3>2. \E p \in seen' : p.positive /\ p.key = k /\ p.at = tick /\ p.life = life
      BY <3>1
    <3> QED  BY <3>2 DEF Edges
  <2>8. IsFiniteSet(seen')
    <3> DEFINE D == DOMAIN of
               f == [k \in D |-> sight(k)]
               T == {sight(k) : k \in D}
    <3>1. f \in Surjection(D, T)
      BY DEF Surjection
    <3>2. IsFiniteSet(D)
      BY <2>1, RoutesAreFinite, FS_Subset
    <3> HIDE DEF f, D
    <3>3. IsFiniteSet(T)
      <4> HIDE DEF T
      <4> QED  BY <3>1, <3>2, FS_Surjection
    <3>4. IsFiniteSet(seen \cup T)
      <4> HIDE DEF T
      <4> QED  BY <3>3, FS_Union DEF SightInv
    <3> QED  BY <2>4, <3>4 DEF D
  <2>9. \A k \in Routes : streaks[k] \in Int /\ (streaks[k] # NoStreak => \E o \in Edges(k)' : o.at = streaks[k])
    BY <2>6 DEF SightInv
  <2>10. \A k \in DOMAIN of :
           LET since == Continued(streaks[k], IsPositive(of[k]))
           IN  /\ since \in Int
               /\ since # NoStreak => \E o \in Edges(k)' : o.at = since
               /\ since # NoStreak <=> IsPositive(of[k])
    BY <2>1, <2>3, <2>7, <2>9 DEF Continued, NoStreak
  <2>11. streaks' \in [Routes -> Int] /\ \A k \in Routes : streaks'[k] # NoStreak => \E o \in Edges(k)' : o.at = streaks'[k]
    <3>1. ASSUME NEW k \in Routes
          PROVE  streaks'[k] \in Int /\ (streaks'[k] # NoStreak => \E o \in Edges(k)' : o.at = streaks'[k])
      <4>1. CASE k \in DOMAIN of
        <5>1. streaks'[k] = Continued(streaks[k], IsPositive(of[k]))
          BY <2>1, <4>1
        <5> QED  BY <2>10, <4>1, <5>1
      <4>2. CASE k \notin DOMAIN of
        <5>1. streaks'[k] = streaks[k]
          BY <2>1, <4>2
        <5> QED  BY <2>9, <5>1
      <4> QED  BY <4>1, <4>2
    <3> QED  BY <2>1, <3>1
  <2>12. ASSUME NEW r \in table PROVE RowIsSeen(r)' /\ ~(r.life = life /\ r.seenAt = tick)
    <3>1. RowIsSeen(r)
      BY DEF SightInv
    <3>2. r.life = life => r.seenAt < cycle.rest /\ r.seenAt \in Nat
      BY <3>1 DEF RowIsSeen
    <3>3. r.life = life => r.seenAt < tick + 1 /\ r.seenAt # tick
      BY <2>3, <3>2
    <3> QED  BY <2>2, <2>6, <3>1, <3>3 DEF RowIsSeen
  <2>13. ASSUME NEW k \in DOMAIN of, NEW r, r = Row(k, of[k])
         PROVE  RowIsSeen(r)' /\ r.key = k /\ r.life = life /\ r.seenAt = tick
    <3> DEFINE q == of[k]
               since == Continued(streaks[k], IsPositive(q))
    <3>1. /\ r.key = k /\ r.at = cycle.at /\ r.seenAt = tick /\ r.life = life
          /\ r.positive = IsPositive(q)
          /\ r.persistence = IF IsPositive(q) THEN tick - since ELSE 0
      BY <2>13 DEF Row
    <3>2. /\ since \in Int /\ (since # NoStreak => \E o \in Edges(k)' : o.at = since)
          /\ since # NoStreak <=> IsPositive(q)
      BY <2>10
    <3> HIDE DEF since, q
    <3>3. r.persistence \in Int /\ (r.persistence # 0 => IsPositive(q) /\ tick - r.persistence = since)
      BY <2>3, <3>1, <3>2
    <3>4. r.positive => \E o \in Edges(k)' : o.at = tick /\ o.life = life
      BY <2>7, <3>1 DEF q
    <3>5. r.persistence # 0 => \E o \in Edges(k)' : o.at = tick - r.persistence
      BY <3>2, <3>3
    <3>6. RowIsSeen(r)'
      <4>1. r.at \in Nat /\ r.at <= tick /\ r.seenAt \in Nat /\ r.life \in Nat /\ r.life <= life /\ r.seenAt < tick + 1
        BY <2>3, <3>1
      <4> QED  BY <2>2, <3>1, <3>3, <3>4, <3>5, <4>1 DEF RowIsSeen
    <3> QED  BY <3>1, <3>6
  <2>14. \A r \in table' : RowIsSeen(r)'
    BY <2>1, <2>12, <2>13
  <2>15. \A r, s \in table' : r.key = s.key /\ r.life = s.life /\ r.seenAt = s.seenAt => r = s
    <3> SUFFICES ASSUME NEW r \in table', NEW s \in table',
                        r.key = s.key, r.life = s.life, r.seenAt = s.seenAt
                 PROVE  r = s
      OBVIOUS
    <3> DEFINE new == {Row(k, of[k]) : k \in DOMAIN of}
    <3>1. \A x \in new : \E k \in DOMAIN of : x = Row(k, of[k]) /\ x.key = k /\ x.life = life /\ x.seenAt = tick
      BY <2>13
    <3>2. table' \subseteq table \cup new
      BY <2>1
    <3> HIDE DEF new
    <3>3. CASE r \in table /\ s \in table
      BY <3>3 DEF SightInv
    <3>4. CASE r \in new /\ s \in new
      BY <3>1, <3>4
    <3>5. CASE (r \in table /\ s \in new) \/ (r \in new /\ s \in table)
      BY <2>12, <3>1, <3>5
    <3> QED  BY <3>2, <3>3, <3>4, <3>5
  <2>16. tick' \in Nat /\ life' \in Nat /\ cycle'.rest \in Nat
    BY <2>2, <2>3
  <2> QED  BY <2>2, <2>8, <2>11, <2>14, <2>15, <2>16 DEF SightInv
<1>3. CASE ScanTick
  <2>1. tick' = tick + 1 /\ UNCHANGED <<life, cycle, streaks, table, seen>>
    BY <1>3 DEF ScanTick
  <2>2. \A k : Edges(k)' = Edges(k)
    BY <2>1 DEF Edges
  <2>3. \A r \in table : RowIsSeen(r)'
    BY <2>1, <2>2 DEF SightInv, RowIsSeen
  <2> QED  BY <2>1, <2>2, <2>3 DEF SightInv
<1>4. CASE ScannerRestarts
  <2>1. /\ life' = life + 1 /\ ~cycle'.open /\ cycle'.rest = 0 /\ UNCHANGED <<tick, table, seen>>
        /\ streaks' = [k \in Routes |-> NoStreak]
    BY <1>4 DEF ScannerRestarts, NoCycle
  <2>2. \A k : Edges(k)' = Edges(k)
    BY <2>1 DEF Edges
  <2>3. ASSUME NEW r \in table PROVE RowIsSeen(r)'
    <3>1. RowIsSeen(r) /\ life \in Nat
      BY DEF SightInv
    <3>2. r.life <= life' /\ r.life # life'
      BY <2>1, <3>1 DEF RowIsSeen
    <3> QED  BY <2>1, <2>2, <3>1, <3>2 DEF RowIsSeen
  <2>4. \A k \in Routes : streaks'[k] = NoStreak
    BY <2>1
  <2>5. streaks' \in [Routes -> Int]
    BY <2>1 DEF NoStreak
  <2> QED  BY <2>1, <2>2, <2>3, <2>4, <2>5 DEF SightInv
<1>5. CASE UNCHANGED scanVars
  <2>1. UNCHANGED <<tick, life, cycle, streaks, table, seen>>
    BY <1>5 DEF scanVars
  <2>2. \A k : Edges(k)' = Edges(k)
    BY <2>1 DEF Edges
  <2>3. \A r \in table : RowIsSeen(r)'
    BY <2>1, <2>2 DEF SightInv, RowIsSeen
  <2> QED  BY <2>1, <2>2, <2>3 DEF SightInv
<1> QED  BY <1>1, <1>2, <1>3, <1>4, <1>5 DEF ScanNext

\* The report never buys for one sighting, however the scanner's calls, scans and
\* transactions fail and however often it restarts, when two confirmations are asked for.
THEOREM PurchasesWereSeenTwice ==
  ASSUME Confirmations >= 2
  PROVE  AdviceSpec => []NoBuyOnOneSighting
<1>1. AdviceInit => SightInv /\ NoBuyOnOneSighting
  <2> SUFFICES ASSUME AdviceInit PROVE SightInv /\ NoBuyOnOneSighting
    OBVIOUS
  <2>1. /\ tick = 0 /\ life = 0 /\ cycle.rest = 0 /\ ~cycle.open /\ table = {} /\ seen = {}
        /\ streaks = [k \in Routes |-> NoStreak] /\ advice = NoAdvice
    BY DEF AdviceInit, ScanInit, NoCycle
  <2>2. streaks \in [Routes -> Int] /\ \A k \in Routes : streaks[k] = NoStreak
    BY <2>1 DEF NoStreak
  <2> QED  BY <2>1, <2>2, FS_EmptySet DEF SightInv, NoBuyOnOneSighting
<1>2. SightInv /\ NoBuyOnOneSighting /\ [AdviceNext]_adviceVars => (SightInv /\ NoBuyOnOneSighting)'
  <2> SUFFICES ASSUME SightInv, NoBuyOnOneSighting, [AdviceNext]_adviceVars
               PROVE  SightInv' /\ NoBuyOnOneSighting'
    OBVIOUS
  <2>1. CASE ScanNext /\ advice' = NoAdvice
    BY <2>1, SightPreserved DEF NoBuyOnOneSighting
  <2>2. CASE UNCHANGED adviceVars
    <3>1. UNCHANGED scanVars /\ advice' = advice
      BY <2>2 DEF adviceVars
    <3>2. seen' = seen
      BY <3>1 DEF scanVars
    <3> QED  BY <3>1, <3>2, SightPreserved DEF NoBuyOnOneSighting
  <2>3. CASE BuildInventoryReport
    <3>1. UNCHANGED scanVars
      BY <2>3 DEF BuildInventoryReport
    <3>2. seen' = seen /\ SightInv'
      BY <3>1, SightPreserved DEF scanVars
    <3>3. PICK sit \in Situations, best \in [Symbols -> LiveLegs \cup {NoAdvice}] :
            LET E == {s \in Symbols : best[s] # NoAdvice /\ Eligible(s, best[s])}
            IN  \E order \in SetToSeqs({s \in E : s \in DOMAIN sit.blocked}) :
                  advice' = [best |-> best, sit |-> sit, buys |-> Purchases(order, sit),
                             sells |-> {s \in Symbols \ E : sit.value[s] > 0}]
      BY <2>3 DEF BuildInventoryReport
    <3> DEFINE E == {s \in Symbols : best[s] # NoAdvice /\ Eligible(s, best[s])}
               S == {s \in E : s \in DOMAIN sit.blocked}
    <3>4. PICK order \in SetToSeqs(S) :
            advice' = [best |-> best, sit |-> sit, buys |-> Purchases(order, sit),
                       sells |-> {s \in Symbols \ E : sit.value[s] > 0}]
      BY <3>3
    <3>5. /\ S \subseteq Symbols /\ S \subseteq DOMAIN sit.blocked
          /\ \A s \in S : Eligible(s, best[s])
      OBVIOUS
    <3> HIDE DEF S, E
    <3>6. IsFiniteSet(S)
      BY <3>5, SymbolsAreFinite, FS_Subset
    <3>7. PICK left : /\ PurchasesFit(left, Len(order), order, sit) /\ Purchases(order, sit) = left.buys
                      /\ \A i \in 1..Len(order) : order[i] \in S
      BY <3>5, <3>6, AllPurchasesFit
    <3>8. advice'.buys = left.buys /\ advice'.best = best
      BY <3>4, <3>7
    <3>9. ASSUME NEW b \in left.buys PROVE Cardinality(Edges(<<b.asset, best[b.asset]>>)) >= 2
      <4>1. b.asset \in S
        BY <3>7 DEF PurchasesFit
      <4> QED  BY <3>5, <4>1, EligibleWasSeenTwice
    <3>10. \A b \in advice'.buys :
             Cardinality({o \in seen' : o.positive /\ o.key = <<b.asset, advice'.best[b.asset]>>}) >= 2
      BY <3>2, <3>8, <3>9 DEF Edges
    <3> QED  BY <3>2, <3>10 DEF NoBuyOnOneSighting
  <2> QED  BY <2>1, <2>2, <2>3 DEF AdviceNext
<1> QED  BY <1>1, <1>2, PTL DEF AdviceSpec
=============================================================================
