---------------------------- MODULE Reconciliation ----------------------------
(***************************************************************************)
(* Comparing what a ledger says an asset's balance did with what it did,   *)
(* and looking for the events that were left out of the comparison         *)
(* (app/execution/reconciliation.py,                                       *)
(* app/operations/reconciliation_self_healing.py).                         *)
(*                                                                         *)
(* Movements happen on an account; the ledger of the session reports some  *)
(* of them, others are found later among verified events, others never.    *)
(***************************************************************************)
EXTENDS Integers, FiniteSets, Functions

CONSTANTS Assets, Watched, Deltas, Events, ToleranceAbs

\* an event that has not happened
CONSTANT NoMovement

ASSUME ReconciliationAssumption ==
  /\ Watched \in Assets /\ Deltas \subseteq Int /\ IsFiniteSet(Events) /\ ToleranceAbs \in Nat
  /\ NoMovement \notin [asset : Assets, delta : Deltas]

VARIABLES
  moved,     \* the movement of every event: its asset and net_base_delta
  reported,  \* the events given to reconcile_asset_balance
  found,     \* the events given to attempt_reconciliation_recovery
  verdict,   \* "open", "match", "mismatch", "recovered" or "stop"
  explained  \* the events that explain a mismatch

reconciliationVars == <<moved, reported, found, verdict, explained>>

ReconciliationInit ==
  /\ moved = [e \in Events |-> NoMovement]
  /\ reported = {} /\ found = {} /\ explained = {}
  /\ verdict = "open"

Happened == {e \in Events : moved[e] # NoMovement}
Of(S) == {e \in S : moved[e].asset = Watched}
NetOf(S) == SumFunction([e \in S |-> moved[e].delta])

ActualDelta   == NetOf(Of(Happened))
ExpectedDelta == NetOf(Of(reported))
AbsDelta(x)   == IF x >= 0 THEN x ELSE -x

\* the larger of the absolute tolerance and 2 % of what was expected
Tolerance ==
  LET relative == AbsDelta(ExpectedDelta) \div 50
  IN  IF ToleranceAbs >= relative THEN ToleranceAbs ELSE relative

Within(S) == AbsDelta(ActualDelta - ExpectedDelta - NetOf(S)) <= Tolerance

Happen(e, asset, delta, how) ==
  /\ verdict = "open" /\ moved[e] = NoMovement
  /\ moved' = [moved EXCEPT ![e] = [asset |-> asset, delta |-> delta]]
  /\ reported' = IF how = "reported" THEN reported \cup {e} ELSE reported
  /\ found' = IF how = "found" THEN found \cup {e} ELSE found
  /\ UNCHANGED <<verdict, explained>>

\* reconcile_asset_balance
Reconcile ==
  /\ verdict = "open" /\ Happened # {}
  /\ verdict' = IF Within({}) THEN "match" ELSE "mismatch"
  /\ UNCHANGED <<moved, reported, found, explained>>

\* attempt_reconciliation_recovery: the smallest sets of the asset's own events first
\* mutant: one event at a time
ExplanationsOfOne == {S \in SUBSET Of(found) : Cardinality(S) = 1 /\ Within(S)}

Explanations == {S \in SUBSET Of(found) : S # {} /\ Within(S)}

Recover ==
  /\ verdict = "mismatch" /\ Explanations # {}
  /\ \E S \in Explanations :
       /\ \A T \in Explanations : Cardinality(S) <= Cardinality(T)
       /\ explained' = S
  /\ verdict' = "recovered"
  /\ UNCHANGED <<moved, reported, found>>

SafeStopUnexplained ==
  /\ verdict = "mismatch" /\ Explanations = {}
  /\ verdict' = "stop"
  /\ UNCHANGED <<moved, reported, found, explained>>

ReconciliationNext ==
  \/ \E e \in Events, a \in Assets, d \in Deltas, how \in {"reported", "found", "lost"} :
       Happen(e, a, d, how)
  \/ Reconcile \/ Recover \/ SafeStopUnexplained

ReconciliationSpec == ReconciliationInit /\ [][ReconciliationNext]_reconciliationVars

-----------------------------------------------------------------------------

(* A person is called only for a movement nobody can show: if every event  *)
(* of the asset was reported or found, the mismatch is recovered, however  *)
(* many events are missing and whatever foreign events lie among them, and *)
(* a recovery never rests on another asset's events.                       *)
StopMeansUnexplained ==
  /\ verdict = "stop" => \E e \in Of(Happened) : e \notin reported \cup found
  /\ verdict = "recovered" => explained \subseteq Of(found)
=============================================================================
