------------------------------ MODULE SafeResume ------------------------------
(***************************************************************************)
(* The guarded attempts of GuardedAttempts over many lives of the process  *)
(* that makes them. The guard's kill switch is memory and dies with the    *)
(* process; what survives is two files, the order intent log and the       *)
(* persistent kill switch (app/operations), which a start reads before it  *)
(* trades again. Either file is truncated before it is written, so a crash *)
(* may leave it torn. What becomes of an attempt's incident is decided by  *)
(* Incidents, and repeated ones pause a symbol or an exchange              *)
(* (circuit_breaker.py). The session that calls all this is a script       *)
(* outside the repository; its steps are those the docstrings require,     *)
(* with the kill switch stored before the intent is resolved.              *)
(***************************************************************************)
EXTENDS GuardedAttempts, Incidents

CONSTANTS
  None,             \* no attempt
  Torn,             \* a file truncated and not yet written
  Missing,          \* no file
  IncidentTypes,    \* the incidents considered, each a set of marks
  Keys,             \* breaker scopes: "SYMBOL:...", "EXCHANGE:...", "GLOBAL:GLOBAL"
  SymbolKey,        \* the symbol scope of each attempt
  ExchangeKey,      \* the exchange scope of each attempt
  GlobalKey,
  TripThreshold,    \* DEFAULT_TRIP_THRESHOLD
  Cooldown,         \* DEFAULT_COOLDOWN_SECONDS
  MaxNow            \* bound of the clock

ASSUME ResumeAssumption ==
  /\ None \notin Attempts
  /\ Missing \notin Attempts /\ Torn \notin Attempts /\ Torn # Missing
  /\ Torn \notin [Attempts -> {"none", "open", "resolved"}]
  /\ \A t \in IncidentTypes : t \subseteq Marks
  /\ SymbolKey \in [Attempts -> Keys] /\ ExchangeKey \in [Attempts -> Keys]
  /\ GlobalKey \in Keys
  /\ TripThreshold \in Nat \ {0} /\ Cooldown \in Nat /\ MaxNow \in Nat

VARIABLES
  pc,        \* where the session is
  cur,       \* the attempt it is at
  incident,  \* the incident that attempt returned with, if any
  stop,      \* the recovery plan is to stop
  log,       \* the intent log in memory
  logFile,   \* ... and on disk
  killFile,  \* the persistent kill switch on disk
  breaker,   \* failures in a row and the cooldown of each key (memory)
  inRow,     \* observer: incidents of each key since its last success
  now        \* the clock

session == <<pc, cur, incident, stop>>
files   == <<logFile, killFile>>
memory  == <<log, breaker, inRow>>
rvars   == <<gvars, session, files, memory, now>>

Pcs == {"down", "ready", "intent", "started", "running", "returned",
        "engage", "engaging", "resolve", "resolving", "stopped"}

IntentStates == {"none", "open", "resolved"}
Logs         == [Attempts -> IntentStates]
NoIncident   == {"-"}

Unresolved(l) == {a \in Attempts : l[a] = "open"}

FreshKey    == [failures |-> 0, tripped |-> FALSE, until |-> 0]
FreshBreaker == [k \in Keys |-> FreshKey]

-----------------------------------------------------------------------------
\* Circuit breaker

\* mutant: a cooldown that is never over counts from the first failure
RecordFailureEarly(b, k) ==
  [b EXCEPT ![k] = [failures |-> @.failures + 1,
                    tripped |-> @.failures + 2 >= TripThreshold,
                    until |-> IF @.failures + 2 >= TripThreshold
                              THEN now + Cooldown ELSE @.until]]

RecordFailure(b, k) ==
  [b EXCEPT ![k] = [failures |-> @.failures + 1,
                    tripped |-> @.failures + 1 >= TripThreshold,
                    until |-> IF @.failures + 1 >= TripThreshold
                              THEN now + Cooldown ELSE @.until]]

RecordSuccess(b, ks) == [k \in Keys |-> IF k \in ks THEN FreshKey ELSE b[k]]

IsTripped(k) == breaker[k].tripped /\ now < breaker[k].until

\* the scope of a plan, as a key of the attempt it concerns
KeyOf(scope, a) ==
  CASE scope = "SYMBOL_DIRECTION" -> {SymbolKey[a]}
    [] scope = "EXCHANGE" -> {ExchangeKey[a]}
    [] scope = "GLOBAL" -> {GlobalKey}
    [] OTHER -> {}

KeysOf(a) == {SymbolKey[a], ExchangeKey[a], GlobalKey}

-----------------------------------------------------------------------------
\* Startup

Preflight(openOrders, unresolved, balances, ledger, engaged) ==
  CASE openOrders # {}    -> "OPEN_ORDERS"
    [] openOrders = {} /\ unresolved # {} -> "UNKNOWN_ORDERS"
    [] openOrders = {} /\ unresolved = {} /\ ~balances -> "BALANCES"
    [] openOrders = {} /\ unresolved = {} /\ balances /\ ~ledger -> "LEDGER_STATE"
    [] openOrders = {} /\ unresolved = {} /\ balances /\ ledger /\ engaged -> "KILL_SWITCH"
    [] OTHER -> "SAFE_TO_RESUME"

\* mutant: a file that cannot be read says nothing
KillSwitchReadNaively == killFile \notin {Missing, Torn}

\* load_state: whatever is there and is not a clear record counts as engaged
KillSwitchRead == killFile # Missing

\* A log that cannot be parsed raises here, and the process does not start.
Start ==
  /\ pc = "down"
  /\ logFile # Torn
  /\ \E open \in SUBSET {"binance", "bybit", "okx"}, balances, ledger \in BOOLEAN :
       Preflight(open, Unresolved(logFile), balances, ledger, KillSwitchRead)
         = "SAFE_TO_RESUME"
  /\ pc' = "ready"
  /\ log' = logFile
  /\ UNCHANGED <<gvars, cur, incident, stop, files, breaker, inRow, now>>

-----------------------------------------------------------------------------
\* One attempt, from its intent to its resolution

Truncate == logFile' = Torn

StartIntent(a) ==
  /\ pc = "ready"
  /\ phase[a] = "idle"
  /\ \A k \in KeysOf(a) : ~IsTripped(k)
  /\ pc' = "intent"
  /\ cur' = a
  /\ log' = [log EXCEPT ![a] = "open"]
  /\ Truncate
  /\ UNCHANGED <<gvars, incident, stop, killFile, breaker, inRow, now>>

WriteIntent ==
  /\ pc = "intent"
  /\ logFile' = log
  /\ pc' = "started"
  /\ UNCHANGED <<gvars, cur, incident, stop, killFile, memory, now>>

Call ==
  /\ pc = "started"
  /\ Begin(cur)
  /\ pc' = "running"
  /\ UNCHANGED <<cur, incident, stop, files, memory, now>>

\* the guard's own switch may still be latched by an earlier attempt
CallRefused ==
  /\ pc = "started"
  /\ kill
  /\ Refuse(cur)
  /\ pc' = "resolve"
  /\ stop' = FALSE
  /\ UNCHANGED <<cur, incident, files, memory, now>>

\* outcomes after which the executors latch the guard's kill switch
Latching == {"KILL SWITCH ENGAGED", "NEUTRALIZATION FAILED", "UNKNOWN ORDER STATE"}

Return ==
  /\ pc = "running"
  /\ \E t \in IncidentTypes \cup {NoIncident} :
       /\ incident' = t
       /\ kill' = (kill \/ t \cap Latching # {})
  /\ pc' = "returned"
  /\ UNCHANGED <<phase, reviewed, cur, stop, files, memory, now>>

\* An incident that recalculation may explain: one more status read, or a
\* reconciliation with further events.
Explainable == {"AMBIGUOUS_ORDER_STATE", "RECONCILIATION"}

Succeed ==
  /\ pc = "returned"
  /\ incident = NoIncident
  /\ phase' = [phase EXCEPT ![cur] = "clean"]
  /\ stop' = FALSE
  /\ pc' = "resolve"
  /\ breaker' = RecordSuccess(breaker, KeysOf(cur))
  /\ inRow' = [k \in Keys |-> IF k \in KeysOf(cur) THEN 0 ELSE inRow[k]]
  /\ UNCHANGED <<kill, reviewed, cur, incident, files, log, now>>

\* What of an incident needs a person, whatever the table says of it.
NeedsPerson ==
  {"API PERMISSION CHANGE", "NEUTRALIZATION FAILED", "COULD NOT RESTORE THE FLOOR",
   "CAPITAL SAFETY VIOLATION", "SESSION LOSS LIMIT REACHED", "FEE ASSET UNKNOWN",
   "UNEXPLAINED P&L DISCREPANCY", "DOUBLE ALLOCATION", "KILL SWITCH ENGAGED"}

Decide ==
  /\ pc = "returned"
  /\ incident # NoIncident
  /\ \E explained, known \in BOOLEAN :
       LET c == ClassifyIncident(incident)
           plan == DecideRecoveryPlan(c, known)
           gaveUp == c.category \in Explainable /\ ~explained
           person == \/ incident \cap NeedsPerson # {}
                     \/ incident \in {{}, {"SCRIPT ERROR"}}
                     \/ gaveUp
       IN /\ phase' = [phase EXCEPT ![cur] = IF person THEN "critical" ELSE "clean"]
          /\ stop' = (Stops(plan) \/ gaveUp)
          /\ pc' = IF Stops(plan) \/ gaveUp THEN "engage" ELSE "resolve"
          /\ breaker' = [k \in Keys |-> IF k \in KeyOf(plan.scope, cur)
                                        THEN RecordFailure(breaker, k)[k] ELSE breaker[k]]
          /\ inRow' = [k \in Keys |-> IF k \in KeyOf(plan.scope, cur)
                                      THEN inRow[k] + 1 ELSE inRow[k]]
  /\ UNCHANGED <<kill, reviewed, cur, incident, files, log, now>>

TruncateKill ==
  /\ pc = "engage"
  /\ killFile' = Torn
  /\ pc' = "engaging"
  /\ UNCHANGED <<gvars, cur, incident, stop, logFile, memory, now>>

WriteKill ==
  /\ pc = "engaging"
  /\ killFile' = cur
  /\ pc' = "resolve"
  /\ UNCHANGED <<gvars, cur, incident, stop, logFile, memory, now>>

ResolveIntent ==
  /\ pc = "resolve"
  /\ log' = [log EXCEPT ![cur] = "resolved"]
  /\ Truncate
  /\ pc' = "resolving"
  /\ UNCHANGED <<gvars, cur, incident, stop, killFile, breaker, inRow, now>>

WriteResolution ==
  /\ pc = "resolving"
  /\ logFile' = log
  /\ pc' = IF stop THEN "stopped" ELSE "ready"
  /\ UNCHANGED <<gvars, cur, incident, stop, killFile, memory, now>>

-----------------------------------------------------------------------------
\* Faults, time and people

\* The process dies at any moment, or is ended. What it was doing is unknown.
Crash ==
  /\ pc # "down"
  /\ pc' = "down"
  /\ kill' = FALSE
  /\ phase' = [a \in Attempts |-> IF phase[a] = "running" THEN "critical" ELSE phase[a]]
  /\ cur' = None /\ incident' = NoIncident /\ stop' = FALSE
  /\ log' = [a \in Attempts |-> "none"]
  /\ breaker' = FreshBreaker
  /\ inRow' = [k \in Keys |-> 0]
  /\ UNCHANGED <<reviewed, files, now>>

Tick ==
  /\ now < MaxNow
  /\ now' = now + 1
  /\ UNCHANGED <<gvars, session, files, memory>>

\* A person reviews the incident on record, then removes the record.
ClearKillSwitch ==
  /\ pc \in {"down", "stopped"}
  /\ killFile # Missing
  /\ reviewed' = reviewed \cup (IF killFile = Torn THEN Critical
                                ELSE Critical \cap {killFile})
  /\ killFile' = Missing
  /\ UNCHANGED <<phase, kill, session, logFile, memory, now>>

\* A person finds out what became of the operations without a resolution.
ReviewIntents ==
  /\ pc = "down"
  /\ logFile # Torn => Unresolved(logFile) # {}
  /\ reviewed' = reviewed \cup (IF logFile = Torn THEN Critical
                                ELSE Critical \cap Unresolved(logFile))
  /\ logFile' = [a \in Attempts |-> IF phase[a] = "idle" THEN "none" ELSE "resolved"]
  /\ UNCHANGED <<phase, kill, session, killFile, memory, now>>

-----------------------------------------------------------------------------

ResumeInit ==
  /\ Init
  /\ pc = "down" /\ cur = None /\ incident = NoIncident /\ stop = FALSE
  /\ log = [a \in Attempts |-> "none"]
  /\ logFile = [a \in Attempts |-> "none"]
  /\ killFile = Missing
  /\ breaker = FreshBreaker
  /\ inRow = [k \in Keys |-> 0]
  /\ now = 0

ResumeNext ==
  \/ Start
  \/ \E a \in Attempts : StartIntent(a)
  \/ WriteIntent \/ Call \/ CallRefused \/ Return \/ Succeed \/ Decide
  \/ TruncateKill \/ WriteKill \/ ResolveIntent \/ WriteResolution
  \/ Crash \/ Tick
  \/ ClearKillSwitch \/ ReviewIntents

ResumeSpec == ResumeInit /\ [][ResumeNext]_rvars

-----------------------------------------------------------------------------

(* The types, of the state that survives a crash and of the state that     *)
(* does not.                                                               *)
ResumeTypeOK ==
  /\ TypeOK
  /\ pc \in Pcs /\ cur \in Attempts \cup {None} /\ stop \in BOOLEAN
  /\ incident \in IncidentTypes \cup {NoIncident}
  /\ log \in Logs /\ logFile \in Logs \cup {Torn}
  /\ killFile \in Attempts \cup {Missing, Torn}
  /\ breaker \in [Keys -> [failures : Nat, tripped : BOOLEAN, until : Nat]]
  /\ inRow \in [Keys -> Nat] /\ now \in Nat

(* As long as a kill switch record is on disk, also one that a crash left  *)
(* unreadable, no session trades: not even one whose log was cleared by a  *)
(* person meanwhile.                                                       *)
NoSessionOverARecord ==
  pc \in {"ready", "intent", "started", "running", "returned"} => killFile = Missing

(* A symbol or an exchange is paused only by as many incidents of its own  *)
(* in a row as the threshold says, with no success of its own in between:  *)
(* a problem of one does not pause another.                                *)
PausedByItsOwnFailures ==
  \A k \in Keys : IsTripped(k) => inRow[k] >= TripThreshold

Unsettled == Critical \ reviewed

Lives == INSTANCE GuardedAttempts WITH kill <- (Unsettled # {})

(* Over any number of crashes and restarts the process keeps the promise   *)
(* of a guard whose kill switch is never lost: it is engaged from a        *)
(* critical end, or a crash in the middle of an attempt, to the review.    *)
LivesImplementGuard == Lives!Spec
=============================================================================
