--------------------------- MODULE GuardedAttempts ---------------------------
(***************************************************************************)
(* What an execution guard promises about the real-money attempts it       *)
(* admits, whatever an attempt does between its start and its end.         *)
(* app/execution/live_guard.py is one such guard: attempts share a kill    *)
(* switch and a number of slots; an attempt that ends with the market in   *)
(* an unknown or unhedged state engages the kill switch as it ends, and    *)
(* only an operator, who then reviews every such attempt, disengages it.   *)
(* An attempt may also end by raising, which promises nothing.             *)
(***************************************************************************)
EXTENDS Naturals, FiniteSets

CONSTANTS
  Attempts,      \* calls of the executor, one element per call
  MaxConcurrent  \* max_concurrent_arbitrages

ASSUME AttemptsAssumption ==
  /\ IsFiniteSet(Attempts)
  /\ MaxConcurrent \in Nat

VARIABLES
  phase,     \* where each attempt is
  kill,      \* the kill switch
  reviewed   \* attempts an operator has looked at before disengaging

gvars == <<phase, kill, reviewed>>

Phases == {"idle", "refused", "running", "clean", "critical", "raised"}

Running  == {a \in Attempts : phase[a] = "running"}
Critical == {a \in Attempts : phase[a] = "critical"}

Init ==
  /\ phase = [a \in Attempts |-> "idle"]
  /\ kill = FALSE
  /\ reviewed = {}

Refuse(a) ==
  /\ phase[a] = "idle"
  /\ phase' = [phase EXCEPT ![a] = "refused"]
  /\ UNCHANGED <<kill, reviewed>>

Begin(a) ==
  /\ phase[a] = "idle"
  /\ ~kill
  /\ Cardinality(Running) < MaxConcurrent
  /\ phase' = [phase EXCEPT ![a] = "running"]
  /\ UNCHANGED <<kill, reviewed>>

End(a) ==
  /\ phase[a] = "running"
  /\ \E p \in {"clean", "raised"} : phase' = [phase EXCEPT ![a] = p]
  /\ UNCHANGED <<kill, reviewed>>

EndCritical(a) ==
  /\ phase[a] = "running"
  /\ phase' = [phase EXCEPT ![a] = "critical"]
  /\ kill' = TRUE
  /\ UNCHANGED reviewed

Engage ==
  /\ kill' = TRUE
  /\ UNCHANGED <<phase, reviewed>>

Disengage ==
  /\ kill' = FALSE
  /\ reviewed' = reviewed \cup Critical
  /\ UNCHANGED phase

Next ==
  \/ \E a \in Attempts : Refuse(a) \/ Begin(a) \/ End(a) \/ EndCritical(a)
  \/ Engage
  \/ Disengage

Spec == Init /\ [][Next]_gvars

-----------------------------------------------------------------------------

TypeOK ==
  /\ phase \in [Attempts -> Phases]
  /\ kill \in BOOLEAN
  /\ reviewed \subseteq Attempts

(* No more attempts run at once than the guard has slots for.              *)
BoundedConcurrency == Cardinality(Running) <= MaxConcurrent

(* While some attempt that ended critical has not been reviewed by an      *)
(* operator, the kill switch is engaged.                                   *)
CriticalHoldsKill == Critical \subseteq reviewed \/ kill

(* With a single slot nothing runs beside an unreviewed critical end: also *)
(* not a call that had been admitted before the kill switch engaged.       *)
NothingRunsUnreviewed ==
  MaxConcurrent = 1 /\ Running # {} => Critical \subseteq reviewed
=============================================================================
