------------------------ MODULE GuardedAttemptsProofs ------------------------
(* The guard's promises hold in every behaviour, for any finite set of  *)
(* calls and any number of slots.                                           *)
EXTENDS GuardedAttempts, FiniteSetTheorems, TLAPS

LEMMA RunningIsFinite ==
  IsFiniteSet(Running) /\ Cardinality(Running) \in Nat
BY AttemptsAssumption, FS_Subset, FS_CardinalityType DEF Running

LEMMA PairCardinality ==
  ASSUME NEW x, NEW y, x # y
  PROVE  Cardinality({x, y}) = 2
<1>1. {x, y} = {x} \cup {y}
  OBVIOUS
<1>2. IsFiniteSet({x}) /\ Cardinality({x}) = 1
  BY FS_Singleton
<1>3. Cardinality({x} \cup {y}) = Cardinality({x}) + 1
  BY <1>2, FS_AddElement
<1>. QED
  BY <1>1, <1>2, <1>3

(* Every variable keeps its type.                                           *)
THEOREM GuardedTypeCorrect == Spec => []TypeOK
<1>1. Init => TypeOK
  BY DEF Init, TypeOK, Phases
<1>2. TypeOK /\ [Next]_gvars => TypeOK'
  BY DEF TypeOK, Phases, Next, gvars, Refuse, Begin, End, EndCritical,
         Engage, Disengage, Critical
<1>. QED
  BY <1>1, <1>2, PTL DEF Spec

(* However calls are interleaved, no more of them run than there are slots. *)
THEOREM GuardedBoundedConcurrency == Spec => []BoundedConcurrency
<1>1. Init => BoundedConcurrency
  <2> SUFFICES ASSUME Init PROVE BoundedConcurrency
    OBVIOUS
  <2>1. Running = {}
    BY DEF Init, Running
  <2>. QED
    BY <2>1, FS_EmptySet, AttemptsAssumption DEF BoundedConcurrency
<1>2. TypeOK /\ BoundedConcurrency /\ [Next]_gvars => BoundedConcurrency'
  <2> SUFFICES ASSUME TypeOK, BoundedConcurrency, [Next]_gvars
               PROVE  BoundedConcurrency'
    OBVIOUS
  <2>1. ASSUME Running' \subseteq Running PROVE BoundedConcurrency'
    BY <2>1, RunningIsFinite, FS_Subset, FS_CardinalityType, AttemptsAssumption
       DEF BoundedConcurrency
  <2>2. ASSUME NEW a \in Attempts, Begin(a) PROVE BoundedConcurrency'
    <3>1. Running' = Running \cup {a} /\ a \notin Running
      BY <2>2 DEF Begin, Running, TypeOK
    <3>2. Cardinality(Running') = Cardinality(Running) + 1
      BY <3>1, RunningIsFinite, FS_AddElement
    <3>. QED
      BY <3>2, <2>2, RunningIsFinite, AttemptsAssumption DEF Begin, BoundedConcurrency
  <2>3. ASSUME NEW a \in Attempts, Refuse(a) \/ End(a) \/ EndCritical(a)
        PROVE  Running' \subseteq Running
    BY <2>3 DEF Refuse, End, EndCritical, Running, TypeOK
  <2>4. CASE Engage \/ Disengage \/ UNCHANGED gvars
    BY <2>4, <2>1 DEF Engage, Disengage, gvars, Running
  <2>. QED
    BY <2>1, <2>2, <2>3, <2>4 DEF Next
<1>. QED
  BY <1>1, <1>2, GuardedTypeCorrect, PTL DEF Spec

(* As long as a critical end is unreviewed the kill switch is engaged.      *)
THEOREM GuardedCriticalHoldsKill == Spec => []CriticalHoldsKill
<1>1. Init => CriticalHoldsKill
  BY DEF Init, CriticalHoldsKill, Critical
<1>2. TypeOK /\ CriticalHoldsKill /\ [Next]_gvars => CriticalHoldsKill'
  <2> SUFFICES ASSUME TypeOK, CriticalHoldsKill, [Next]_gvars
               PROVE  CriticalHoldsKill'
    OBVIOUS
  <2> USE DEF CriticalHoldsKill, Critical
  <2>1. ASSUME NEW a \in Attempts, Refuse(a) \/ Begin(a) \/ End(a)
        PROVE  CriticalHoldsKill'
    BY <2>1 DEF Refuse, Begin, End, TypeOK
  <2>2. ASSUME NEW a \in Attempts, EndCritical(a) PROVE CriticalHoldsKill'
    BY <2>2 DEF EndCritical
  <2>3. CASE Engage \/ Disengage \/ UNCHANGED gvars
    BY <2>3 DEF Engage, Disengage, gvars
  <2>. QED
    BY <2>1, <2>2, <2>3 DEF Next
<1>. QED
  BY <1>1, <1>2, GuardedTypeCorrect, PTL DEF Spec

(* With one slot, a call that ends critical was the only one running: what  *)
(* runs next was admitted after an operator's review.                       *)
THEOREM GuardedNothingRunsUnreviewed == Spec => []NothingRunsUnreviewed
<1>1. Init => NothingRunsUnreviewed
  BY DEF Init, NothingRunsUnreviewed, Running
<1>2. TypeOK /\ BoundedConcurrency /\ CriticalHoldsKill /\ NothingRunsUnreviewed
      /\ [Next]_gvars => NothingRunsUnreviewed'
  <2> SUFFICES ASSUME TypeOK, BoundedConcurrency, CriticalHoldsKill, NothingRunsUnreviewed,
                      [Next]_gvars, MaxConcurrent = 1, Running' # {}
               PROVE  Critical' \subseteq reviewed'
    BY DEF NothingRunsUnreviewed
  <2> USE DEF NothingRunsUnreviewed, Critical, Running, TypeOK
  <2>1. ASSUME NEW a \in Attempts, Refuse(a) \/ End(a)
        PROVE  Critical' \subseteq reviewed'
    BY <2>1 DEF Refuse, End
  <2>2. ASSUME NEW a \in Attempts, Begin(a) PROVE Critical' \subseteq reviewed'
    BY <2>2 DEF Begin, CriticalHoldsKill
  <2>3. ASSUME NEW a \in Attempts, EndCritical(a) PROVE FALSE
    <3>1. PICK b \in Attempts : b \in Running /\ b # a
      BY <2>3 DEF EndCritical
    <3>2. {a, b} \in SUBSET Running
      BY <2>3, <3>1 DEF EndCritical
    <3>3. Cardinality({a, b}) = 2
      BY <3>1, PairCardinality
    <3>4. Cardinality({a, b}) <= Cardinality(Running)
      BY <3>2, RunningIsFinite, FS_Subset
    <3>. QED
      BY <3>3, <3>4, RunningIsFinite DEF BoundedConcurrency
  <2>4. CASE Engage \/ Disengage \/ UNCHANGED gvars
    BY <2>4 DEF Engage, Disengage, gvars
  <2>. QED
    BY <2>1, <2>2, <2>3, <2>4 DEF Next
<1>. QED
  BY <1>1, <1>2, GuardedTypeCorrect, GuardedBoundedConcurrency,
     GuardedCriticalHoldsKill, PTL DEF Spec
=============================================================================
