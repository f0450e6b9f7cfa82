-------------------------------- MODULE Sums ---------------------------------
(***************************************************************************)
(* What SumFunctionOnSet of the community modules returns, for every       *)
(* function and finite set; that other folds, and iterations over numbers, *)
(* exist and have a type.  They are recursive functions, a fold over the   *)
(* subsets of a set, so each fact is an induction; the induction theorems  *)
(* of the library take an operator, which the provers cannot instantiate,  *)
(* and so each induction here is about a least counterexample, which the   *)
(* theorem WFMin gives as a set.                                           *)
(***************************************************************************)
EXTENDS Integers, FiniteSets, Functions, FiniteSetTheorems, WellFoundedInduction, TLAPS

Pick(S) == CHOOSE x \in S : TRUE

\* h is the recursion of the sum of f on the subsets of S
SumsOn(f, S, h) ==
  h = [T \in SUBSET S |-> IF T = {} THEN 0 ELSE f[Pick(T)] + h[T \ {Pick(T)}]]

LEMMA PickIn == \A S : S # {} => Pick(S) \in S
  BY DEF Pick

\* a family of finite sets has a least one
LEMMA LeastSet ==
  ASSUME NEW S, IsFiniteSet(S), NEW F, F \subseteq SUBSET S, F # {}
  PROVE  \E T \in F : \A U \in F : ~(U \subseteq T /\ U # T)
<1>1. IsWellFoundedOn(StrictSubsetOrdering(S), SUBSET S)
  BY FS_StrictSubsetOrderingWellFounded, FS_FiniteSubsetsOfFinite
<1>2. PICK T \in F : \A U \in F : ~(<<U, T>> \in StrictSubsetOrdering(S))
  BY <1>1, WFMin
<1>3. ASSUME NEW U \in F, U \subseteq T, U # T PROVE FALSE
  <2>1. <<U, T>> \in (SUBSET S) \X (SUBSET S)
    OBVIOUS
  <2>2. <<U, T>> \in StrictSubsetOrdering(S)
    BY <1>3, <2>1 DEF StrictSubsetOrdering
  <2> QED  BY <1>2, <2>2
<1>4. \A U \in F : ~(U \subseteq T /\ U # T)
  BY <1>3
<1> QED  BY <1>4

LEMMA SumsOnEquation ==
  ASSUME NEW f, NEW S, NEW h, SumsOn(f, S, h), NEW T, T \subseteq S
  PROVE  h[T] = IF T = {} THEN 0 ELSE f[Pick(T)] + h[T \ {Pick(T)}]
<1>1. T \in SUBSET S
  OBVIOUS
<1> QED  BY <1>1 DEF SumsOn

\* two recursions agree where both are defined
LEMMA SumsOnAgree ==
  ASSUME NEW f, NEW S, NEW R, NEW g, NEW h, SumsOn(f, S, g), SumsOn(f, R, h),
         NEW T, T \subseteq S, T \subseteq R, IsFiniteSet(T)
  PROVE  g[T] = h[T]
<1> DEFINE F == {U \in SUBSET T : g[U] # h[U]}
<1> SUFFICES ASSUME F # {} PROVE FALSE
  OBVIOUS
<1>0. F \subseteq SUBSET T
  OBVIOUS
<1>1. PICK U \in F : \A V \in F : ~(V \subseteq U /\ V # U)
  <2> HIDE DEF F
  <2> QED  BY <1>0, LeastSet
<1>2. U \subseteq S /\ U \subseteq R /\ U \subseteq T /\ g[U] # h[U]
  OBVIOUS
<1>3. /\ g[U] = IF U = {} THEN 0 ELSE f[Pick(U)] + g[U \ {Pick(U)}]
      /\ h[U] = IF U = {} THEN 0 ELSE f[Pick(U)] + h[U \ {Pick(U)}]
  <2> HIDE DEF F
  <2>0. U \subseteq S /\ U \subseteq R
    BY <1>2
  <2>1. g[U] = IF U = {} THEN 0 ELSE f[Pick(U)] + g[U \ {Pick(U)}]
    BY <2>0, SumsOnEquation
  <2>2. h[U] = IF U = {} THEN 0 ELSE f[Pick(U)] + h[U \ {Pick(U)}]
    BY <2>0, SumsOnEquation
  <2> QED  BY <2>1, <2>2
<1>4. U # {} /\ Pick(U) \in U
  BY <1>2, <1>3, PickIn
<1>5. U \ {Pick(U)} \notin F
  BY <1>1, <1>4
<1> QED  BY <1>2, <1>3, <1>4, <1>5

LEMMA SumsOnExists ==
  ASSUME NEW f, NEW S, IsFiniteSet(S)
  PROVE  \E h : SumsOn(f, S, h)
<1> DEFINE F == {U \in SUBSET S : ~ \E h : SumsOn(f, U, h)}
<1> SUFFICES ASSUME F # {} PROVE FALSE
  OBVIOUS
<1>0. F \subseteq SUBSET S
  OBVIOUS
<1>1. PICK T \in F : \A U \in F : ~(U \subseteq T /\ U # T)
  <2> HIDE DEF F
  <2> QED  BY <1>0, LeastSet
<1>2. T \subseteq S /\ ~ \E h : SumsOn(f, T, h)
  OBVIOUS
<1> DEFINE H(U) == CHOOSE h : SumsOn(f, U, h)
<1>3. ASSUME NEW U, U \subseteq T, U # T PROVE SumsOn(f, U, H(U))
  <2>1. U \notin F /\ U \in SUBSET S
    BY <1>1, <1>2, <1>3
  <2> QED  BY <2>1
<1>4. ASSUME NEW U, U \subseteq T PROVE IsFiniteSet(U)
  BY <1>2, <1>4, FS_Subset
<1> DEFINE V(U) == IF U = {} THEN 0 ELSE f[Pick(U)] + H(U \ {Pick(U)})[U \ {Pick(U)}]
           h == [U \in SUBSET T |-> V(U)]
<1>5. ASSUME NEW U, U \subseteq T, U # T PROVE V(U) = H(U)[U]
  <2>1. H(U)[U] = IF U = {} THEN 0 ELSE f[Pick(U)] + H(U)[U \ {Pick(U)}]
    <3> HIDE DEF H
    <3> QED BY <1>3, <1>5, SumsOnEquation
  <2>2. CASE U = {}
    BY <2>1, <2>2
  <2>3. CASE U # {}
    <3> DEFINE W == U \ {Pick(U)}
    <3>1. W \subseteq T /\ W # T /\ W \subseteq U
      BY <1>5, <2>3, PickIn
    <3>2. SumsOn(f, W, H(W)) /\ SumsOn(f, U, H(U)) /\ IsFiniteSet(W)
      BY <1>3, <1>4, <1>5, <3>1
    <3> HIDE DEF W, H
    <3>3. H(U)[W] = H(W)[W]
      BY <3>1, <3>2, SumsOnAgree
    <3> USE DEF W
    <3> QED  BY <2>1, <2>3, <3>3
  <2> QED  BY <2>2, <2>3
<1>6. ASSUME NEW U \in SUBSET T
      PROVE  V(U) = IF U = {} THEN 0 ELSE f[Pick(U)] + h[U \ {Pick(U)}]
  <2>1. CASE U = {}
    BY <2>1
  <2>2. CASE U # {}
    <3> DEFINE W == U \ {Pick(U)}
    <3>1. W \subseteq T /\ W # T
      BY <1>6, <2>2, PickIn
    <3>2. h[W] = V(W)
      BY <3>1
    <3>3. V(W) = H(W)[W]
      BY <1>5, <3>1
    <3>4. V(U) = f[Pick(U)] + H(W)[W]
      BY <2>2
    <3> HIDE DEF V, H, h
    <3> QED  BY <2>2, <3>2, <3>3, <3>4
  <2> QED  BY <2>1, <2>2
<1>7. h = [U \in SUBSET T |-> IF U = {} THEN 0 ELSE f[Pick(U)] + h[U \ {Pick(U)}]]
  <2> HIDE DEF V
  <2>1. h = [U \in SUBSET T |-> V(U)]
    OBVIOUS
  <2> HIDE DEF h
  <2> QED  BY <1>6, <2>1
<1> QED  BY <1>2, <1>7 DEF SumsOn

LEMMA SumIsRecursion ==
  ASSUME NEW f, NEW S, IsFiniteSet(S)
  PROVE  \E h : SumsOn(f, S, h) /\ SumFunctionOnSet(f, S) = h[S]
<1> DEFINE g == CHOOSE h : SumsOn(f, S, h)
<1>1. SumFunctionOnSet(f, S) = (CHOOSE h : SumsOn(f, S, h))[S]
  BY DEF SumFunctionOnSet, FoldFunctionOnSet, MapThenFoldSet, SumsOn, Pick
<1>2. SumsOn(f, S, g)
  BY SumsOnExists
<1> QED  BY <1>1, <1>2

LEMMA SumOfNone == ASSUME NEW f PROVE SumFunctionOnSet(f, {}) = 0
<1>1. IsFiniteSet({})
  BY FS_EmptySet
<1>2. PICK h : SumsOn(f, {}, h) /\ SumFunctionOnSet(f, {}) = h[{}]
  BY <1>1, SumIsRecursion
<1> QED  BY <1>2, SumsOnEquation

\* the chosen element first
LEMMA SumPick ==
  ASSUME NEW f, NEW S, IsFiniteSet(S), S # {}
  PROVE  SumFunctionOnSet(f, S) = f[Pick(S)] + SumFunctionOnSet(f, S \ {Pick(S)})
<1> DEFINE R == S \ {Pick(S)}
<1>1. IsFiniteSet(R) /\ R \subseteq S
  BY FS_RemoveElement
<1> HIDE DEF R
<1>2. PICK h : SumsOn(f, S, h) /\ SumFunctionOnSet(f, S) = h[S]
  BY SumIsRecursion
<1>3. PICK g : SumsOn(f, R, g) /\ SumFunctionOnSet(f, R) = g[R]
  BY <1>1, SumIsRecursion
<1>4. h[R] = g[R]
  BY <1>1, <1>2, <1>3, SumsOnAgree
<1>5. S \subseteq S
  OBVIOUS
<1>6. h[S] = IF S = {} THEN 0 ELSE f[Pick(S)] + h[S \ {Pick(S)}]
  BY <1>2, <1>5, SumsOnEquation
<1> QED  BY <1>2, <1>3, <1>4, <1>6 DEF R

LEMMA SumInt ==
  ASSUME NEW f, NEW S, IsFiniteSet(S), \A x \in S : f[x] \in Int
  PROVE  SumFunctionOnSet(f, S) \in Int
<1> DEFINE F == {T \in SUBSET S : SumFunctionOnSet(f, T) \notin Int}
<1>1. F \subseteq SUBSET S /\ (SumFunctionOnSet(f, S) \notin Int => S \in F)
  OBVIOUS
<1>2. ASSUME NEW T \in F, \A U \in F : ~(U \subseteq T /\ U # T) PROVE FALSE
  <2>1. T \subseteq S /\ IsFiniteSet(T) /\ T # {}
    <3>1. T \subseteq S /\ IsFiniteSet(T)
      BY FS_Subset
    <3>2. CASE T = {}
      BY <3>2, SumOfNone
    <3> QED  BY <3>1, <3>2
  <2>2. Pick(T) \in T /\ SumFunctionOnSet(f, T) = f[Pick(T)] + SumFunctionOnSet(f, T \ {Pick(T)})
    BY <2>1, PickIn, SumPick
  <2>3. T \ {Pick(T)} \notin F
    BY <1>2, <2>2
  <2> QED  BY <2>1, <2>2, <2>3
<1> HIDE DEF F
<1>3. F = {}
  BY <1>1, <1>2, LeastSet
<1> QED  BY <1>1, <1>3

\* any element first: the choice does not matter
LEMMA SumTake ==
  ASSUME NEW f, NEW S, IsFiniteSet(S), \A x \in S : f[x] \in Int, NEW a \in S
  PROVE  SumFunctionOnSet(f, S) = f[a] + SumFunctionOnSet(f, S \ {a})
<1> DEFINE Sum(T) == SumFunctionOnSet(f, T)
           F == {T \in SUBSET S : \E x \in T : Sum(T) # f[x] + Sum(T \ {x})}
<1>1. F \subseteq SUBSET S /\ (Sum(S) # f[a] + Sum(S \ {a}) => S \in F)
  OBVIOUS
<1>2. ASSUME NEW T \in F, \A U \in F : ~(U \subseteq T /\ U # T) PROVE FALSE
  <2>1. PICK x \in T : Sum(T) # f[x] + Sum(T \ {x})
    OBVIOUS
  <2> DEFINE p == Pick(T)
  <2>2. T \subseteq S /\ IsFiniteSet(T) /\ T # {} /\ p \in T
    BY <2>1, FS_Subset, PickIn
  <2>3. Sum(T) = f[p] + Sum(T \ {p})
    BY <2>2, SumPick
  <2>4. p # x
    BY <2>1, <2>3
  <2> HIDE DEF p
  <2>5. T \ {p} \notin F /\ T \ {x} \notin F
    BY <1>2, <2>2
  <2>6. Sum(T \ {p}) = f[x] + Sum((T \ {p}) \ {x}) /\ Sum(T \ {x}) = f[p] + Sum((T \ {x}) \ {p})
    BY <2>2, <2>4, <2>5
  <2>7. (T \ {p}) \ {x} = (T \ {x}) \ {p}
    OBVIOUS
  <2> DEFINE R == (T \ {p}) \ {x}
  <2>8. IsFiniteSet(R) /\ \A y \in R : f[y] \in Int
    BY <2>2, FS_RemoveElement
  <2>9. Sum(R) \in Int /\ f[x] \in Int /\ f[p] \in Int
    BY <2>2, <2>8, SumInt
  <2>10. Sum(T \ {p}) = f[x] + Sum(R) /\ Sum(T \ {x}) = f[p] + Sum(R)
    BY <2>6, <2>7
  <2> HIDE DEF R, F
  <2>11. f[p] + (f[x] + Sum(R)) = f[x] + (f[p] + Sum(R))
    BY <2>9
  <2> QED  BY <2>1, <2>3, <2>10, <2>11
<1> HIDE DEF F
<1>3. F = {}
  BY <1>1, <1>2, LeastSet
<1> QED  BY <1>1, <1>3

\* one element more
LEMMA SumAdd ==
  ASSUME NEW f, NEW S, IsFiniteSet(S), NEW a, a \notin S, \A x \in S \cup {a} : f[x] \in Int
  PROVE  SumFunctionOnSet(f, S \cup {a}) = f[a] + SumFunctionOnSet(f, S)
<1>1. IsFiniteSet(S \cup {a}) /\ (S \cup {a}) \ {a} = S
  BY FS_AddElement
<1> QED  BY <1>1, SumTake

\* the sum is of the values, and grows with them
LEMMA SumAtMost ==
  ASSUME NEW f, NEW g, NEW S, IsFiniteSet(S),
         \A x \in S : f[x] \in Int /\ g[x] \in Int /\ f[x] <= g[x]
  PROVE  SumFunctionOnSet(f, S) <= SumFunctionOnSet(g, S)
<1> DEFINE F == {T \in SUBSET S : ~(SumFunctionOnSet(f, T) <= SumFunctionOnSet(g, T))}
<1>1. F \subseteq SUBSET S /\ (~(SumFunctionOnSet(f, S) <= SumFunctionOnSet(g, S)) => S \in F)
  OBVIOUS
<1>2. ASSUME NEW T \in F, \A U \in F : ~(U \subseteq T /\ U # T) PROVE FALSE
  <2> DEFINE p == Pick(T)
             R == T \ {p}
  <2>1. T \subseteq S /\ IsFiniteSet(T) /\ T # {}
    <3>1. T \subseteq S /\ IsFiniteSet(T)
      BY FS_Subset
    <3>2. CASE T = {}
      BY <3>2, SumOfNone
    <3> QED  BY <3>1, <3>2
  <2>2. p \in T /\ IsFiniteSet(R) /\ R \subseteq S /\ R # T /\ R \subseteq T
    BY <2>1, PickIn, FS_RemoveElement
  <2>3. /\ SumFunctionOnSet(f, T) = f[p] + SumFunctionOnSet(f, R)
        /\ SumFunctionOnSet(g, T) = g[p] + SumFunctionOnSet(g, R)
    BY <2>1, SumPick
  <2> HIDE DEF R, p
  <2>4. SumFunctionOnSet(f, R) \in Int /\ SumFunctionOnSet(g, R) \in Int
    BY <2>2, SumInt
  <2>5. SumFunctionOnSet(f, R) <= SumFunctionOnSet(g, R)
    BY <1>2, <2>2
  <2>6. SumFunctionOnSet(f, T) <= SumFunctionOnSet(g, T)
    BY <2>1, <2>2, <2>3, <2>4, <2>5
  <2> QED  BY <2>6
<1> HIDE DEF F
<1>3. F = {}
  BY <1>1, <1>2, LeastSet
<1> QED  BY <1>1, <1>3

LEMMA SumSame ==
  ASSUME NEW f, NEW g, NEW S, IsFiniteSet(S), \A x \in S : f[x] \in Int /\ f[x] = g[x]
  PROVE  SumFunctionOnSet(f, S) = SumFunctionOnSet(g, S)
<1>1. \A x \in S : f[x] \in Int /\ g[x] \in Int /\ f[x] <= g[x] /\ g[x] <= f[x]
  OBVIOUS
<1>2. SumFunctionOnSet(f, S) <= SumFunctionOnSet(g, S) /\ SumFunctionOnSet(g, S) <= SumFunctionOnSet(f, S)
  BY <1>1, SumAtMost
<1>3. SumFunctionOnSet(f, S) \in Int /\ SumFunctionOnSet(g, S) \in Int
  BY <1>1, SumInt
<1> QED  BY <1>2, <1>3

LEMMA SumOfZeros ==
  ASSUME NEW f, NEW S, IsFiniteSet(S), \A x \in S : f[x] = 0
  PROVE  SumFunctionOnSet(f, S) = 0
<1> DEFINE F == {T \in SUBSET S : SumFunctionOnSet(f, T) # 0}
<1>1. F \subseteq SUBSET S /\ (SumFunctionOnSet(f, S) # 0 => S \in F)
  OBVIOUS
<1>2. ASSUME NEW T \in F, \A U \in F : ~(U \subseteq T /\ U # T) PROVE FALSE
  <2>1. T \subseteq S /\ IsFiniteSet(T) /\ T # {}
    <3>1. T \subseteq S /\ IsFiniteSet(T)
      BY FS_Subset
    <3>2. CASE T = {}
      BY <3>2, SumOfNone
    <3> QED  BY <3>1, <3>2
  <2>2. Pick(T) \in T /\ SumFunctionOnSet(f, T) = f[Pick(T)] + SumFunctionOnSet(f, T \ {Pick(T)})
    BY <2>1, PickIn, SumPick
  <2>3. T \ {Pick(T)} \notin F
    BY <1>2, <2>2
  <2> QED  BY <2>1, <2>2, <2>3
<1> HIDE DEF F
<1>3. F = {}
  BY <1>1, <1>2, LeastSet
<1> QED  BY <1>1, <1>3

LEMMA SumNat ==
  ASSUME NEW f, NEW S, IsFiniteSet(S), \A x \in S : f[x] \in Nat
  PROVE  SumFunctionOnSet(f, S) \in Nat
<1> DEFINE zero == [x \in S |-> 0]
<1>1. \A x \in S : zero[x] = 0 /\ zero[x] \in Int /\ f[x] \in Int /\ zero[x] <= f[x]
  OBVIOUS
<1> HIDE DEF zero
<1>2. SumFunctionOnSet(zero, S) = 0 /\ SumFunctionOnSet(zero, S) <= SumFunctionOnSet(f, S)
  BY <1>1, SumOfZeros, SumAtMost
<1>3. SumFunctionOnSet(f, S) \in Int
  BY <1>1, SumInt
<1> QED  BY <1>2, <1>3

\* one value changes
LEMMA SumChange ==
  ASSUME NEW f, NEW g, NEW S, IsFiniteSet(S), NEW a \in S,
         \A x \in S : f[x] \in Int /\ g[x] \in Int,
         \A x \in S : x # a => g[x] = f[x]
  PROVE  SumFunctionOnSet(g, S) = SumFunctionOnSet(f, S) - f[a] + g[a]
<1> DEFINE R == S \ {a}
<1>1. IsFiniteSet(R) /\ \A x \in R : f[x] \in Int /\ f[x] = g[x]
  BY FS_RemoveElement
<1>2. SumFunctionOnSet(f, R) = SumFunctionOnSet(g, R) /\ SumFunctionOnSet(f, R) \in Int
  BY <1>1, SumSame, SumInt
<1>3. SumFunctionOnSet(f, S) = f[a] + SumFunctionOnSet(f, R)
  BY SumTake
<1>4. SumFunctionOnSet(g, S) = g[a] + SumFunctionOnSet(g, R)
  BY SumTake
<1> HIDE DEF R
<1> QED  BY <1>2, <1>3, <1>4

\* sets without a common element
LEMMA SumUnion ==
  ASSUME NEW f, NEW S, NEW R, IsFiniteSet(S), IsFiniteSet(R), S \cap R = {},
         \A x \in S \cup R : f[x] \in Int
  PROVE  SumFunctionOnSet(f, S \cup R) = SumFunctionOnSet(f, S) + SumFunctionOnSet(f, R)
<1> DEFINE Sum(T) == SumFunctionOnSet(f, T)
           F == {T \in SUBSET R : Sum(S \cup T) # Sum(S) + Sum(T)}
<1>1. F \subseteq SUBSET R /\ (Sum(S \cup R) # Sum(S) + Sum(R) => R \in F)
  OBVIOUS
<1>2. ASSUME NEW T \in F, \A U \in F : ~(U \subseteq T /\ U # T) PROVE FALSE
  <2>1. CASE T = {}
    <3>1. Sum(T) = 0 /\ Sum(S) \in Int /\ S \cup T = S
      BY <2>1, SumOfNone, SumInt
    <3> QED  BY <3>1
  <2>2. CASE T # {}
    <3> DEFINE p == Pick(T)
               U == T \ {p}
    <3>1. p \in T /\ T \subseteq R /\ IsFiniteSet(T) /\ IsFiniteSet(U) /\ p \notin S
      BY <2>2, PickIn, FS_Subset, FS_RemoveElement
    <3>2. IsFiniteSet(S \cup T) /\ p \in S \cup T /\ (S \cup T) \ {p} = S \cup U
      BY <3>1, FS_Union
    <3>3. \A x \in S \cup T : f[x] \in Int
      BY <3>1
    <3>4. Sum(S \cup T) = f[p] + Sum((S \cup T) \ {p})
      <4> HIDE DEF p, F
      <4> QED  BY <3>2, <3>3, SumTake
    <3>5. Sum(T) = f[p] + Sum(U)
      BY <2>2, <3>1, SumPick
    <3>6. U \notin F
      BY <1>2, <3>1
    <3>7. Sum(S \cup U) = Sum(S) + Sum(U)
      BY <3>1, <3>6
    <3>8. Sum(S) \in Int /\ Sum(U) \in Int /\ f[p] \in Int
      BY <3>1, SumInt
    <3> HIDE DEF U, F, p
    <3>9. f[p] + (Sum(S) + Sum(U)) = Sum(S) + (f[p] + Sum(U))
      BY <3>8
    <3>10. Sum(S \cup T) = Sum(S) + Sum(T)
      BY <3>2, <3>4, <3>5, <3>7, <3>9
    <3> QED  BY <3>10 DEF F
  <2> QED  BY <2>1, <2>2
<1> HIDE DEF F
<1>3. F = {}
  BY <1>1, <1>2, LeastSet
<1> QED  BY <1>1, <1>3

\* a sum of positive numbers is no less than their number
LEMMA SumCounts ==
  ASSUME NEW f, NEW S, IsFiniteSet(S), \A x \in S : f[x] \in Nat \ {0}
  PROVE  Cardinality(S) <= SumFunctionOnSet(f, S)
<1> DEFINE F == {T \in SUBSET S : ~(Cardinality(T) <= SumFunctionOnSet(f, T))}
<1>1. F \subseteq SUBSET S /\ (~(Cardinality(S) <= SumFunctionOnSet(f, S)) => S \in F)
  OBVIOUS
<1>2. ASSUME F # {} PROVE FALSE
  <2>1. PICK T \in F : \A U \in F : ~(U \subseteq T /\ U # T)
    <3> HIDE DEF F
    <3> QED  BY <1>1, <1>2, LeastSet
  <2>2. T \subseteq S /\ ~(Cardinality(T) <= SumFunctionOnSet(f, T)) /\ IsFiniteSet(T)
    BY FS_Subset
  <2>3. T # {}
    BY <2>2, SumOfNone, FS_EmptySet
  <2>4. PICK a \in T : TRUE
    BY <2>3
  <2> DEFINE R == T \ {a}
  <2>5. R \in SUBSET S /\ R \notin F
    BY <2>1, <2>2, <2>4
  <2> HIDE DEF R
  <2>6. Cardinality(R) <= SumFunctionOnSet(f, R)
    <3>1. \A U \in SUBSET S : U \notin F => Cardinality(U) <= SumFunctionOnSet(f, U)
      OBVIOUS
    <3> HIDE DEF F
    <3> QED  BY <2>5, <3>1
  <2>7. IsFiniteSet(R) /\ Cardinality(T) = Cardinality(R) + 1 /\ Cardinality(R) \in Nat
    <3>1. IsFiniteSet(R) /\ Cardinality(R) = Cardinality(T) - 1
      BY <2>2, <2>4, FS_RemoveElement DEF R
    <3>2. Cardinality(T) \in Nat /\ Cardinality(R) \in Nat
      BY <2>2, <3>1, FS_CardinalityType
    <3> QED  BY <3>1, <3>2
  <2>8. \A x \in T : f[x] \in Int
    BY <2>2
  <2> HIDE DEF F
  <2>9. SumFunctionOnSet(f, T) = f[a] + SumFunctionOnSet(f, R)
    BY <2>2, <2>4, <2>8, SumTake DEF R
  <2>10. SumFunctionOnSet(f, R) \in Int
    BY <2>7, <2>8, SumInt DEF R
  <2> QED  BY <2>2, <2>4, <2>6, <2>7, <2>9, <2>10
<1> QED  BY <1>1, <1>2

\* a set of numbers below a bound has a least element
LEMMA LeastNumber ==
  ASSUME NEW N \in Nat, NEW F, F \subseteq 0..N, F # {}
  PROVE  \E n \in F : \A m \in F : n <= m
<1> DEFINE upTo(n) == 0..n
           G == {upTo(n) : n \in F}
<1>1. IsFiniteSet(0..N)
  <2>1. 0 \in Int /\ N \in Int
    OBVIOUS
  <2> QED  BY <2>1, FS_Interval
<1>2. G \subseteq SUBSET (0..N) /\ G # {}
  <2>1. ASSUME NEW n \in F PROVE upTo(n) \in SUBSET (0..N)
    <3>1. n \in Nat /\ n <= N
      BY <2>1
    <3> QED  BY <3>1
  <2>2. PICK n \in F : TRUE
    OBVIOUS
  <2>3. upTo(n) \in G
    BY <2>2
  <2> HIDE DEF upTo
  <2> QED  BY <2>1, <2>3
<1>3. PICK T \in G : \A U \in G : ~(U \subseteq T /\ U # T)
  <2> DEFINE I == 0..N
  <2>1. IsFiniteSet(I) /\ G \subseteq SUBSET I /\ G # {}
    BY <1>1, <1>2
  <2> HIDE DEF G, I
  <2> QED  BY <2>1, LeastSet
<1>4. PICK n \in F : T = upTo(n)
  BY <1>3
<1>5. ASSUME NEW m \in F, ~(n <= m) PROVE FALSE
  <2>1. n \in Nat /\ m \in Nat /\ m < n
    BY <1>5
  <2>2. upTo(m) \in G /\ upTo(m) \subseteq T
    BY <1>4, <2>1
  <2>3. n \in T /\ n \notin upTo(m)
    BY <1>4, <2>1
  <2> QED  BY <1>3, <2>2, <2>3
<1> QED  BY <1>5
\* a finite set has an element at which a function is largest
LEMMA LargestValue ==
  ASSUME NEW S, IsFiniteSet(S), S # {}, NEW f, \A x \in S : f[x] \in Int
  PROVE  \E x \in S : \A y \in S : f[y] <= f[x]
<1> DEFINE Has(T) == \E x \in T : \A y \in T : f[y] <= f[x]
           F == {T \in SUBSET S : T # {} /\ ~Has(T)}
<1>1. F \subseteq SUBSET S /\ (~Has(S) => S \in F)
  OBVIOUS
<1>2. ASSUME F # {} PROVE FALSE
  <2>1. PICK T \in F : \A U \in F : ~(U \subseteq T /\ U # T)
    <3> HIDE DEF F
    <3> QED  BY <1>1, <1>2, LeastSet
  <2>2. T \subseteq S /\ T # {} /\ ~Has(T)
    OBVIOUS
  <2>3. PICK a \in T : TRUE
    BY <2>2
  <2> DEFINE R == T \ {a}
  <2>4. CASE R = {}
    <3>1. \A y \in T : y = a
      BY <2>4
    <3> QED  BY <2>2, <2>3, <3>1
  <2>5. CASE R # {}
    <3>1. R \subseteq S /\ R \subseteq T /\ R # T
      BY <2>2, <2>3
    <3>2. Has(R)
      <4> HIDE DEF R, Has
      <4> QED  BY <2>1, <2>5, <3>1
    <3>3. PICK m \in R : \A y \in R : f[y] <= f[m]
      BY <3>2
    <3>4. f[m] \in Int /\ f[a] \in Int /\ \A y \in T : f[y] \in Int
      BY <2>2, <2>3, <3>1
    <3>5. \A y \in T : y = a \/ y \in R
      OBVIOUS
    <3> HIDE DEF R
    <3>6. CASE f[a] <= f[m]
      <4>1. \A y \in T : f[y] <= f[m]
        BY <3>3, <3>4, <3>5, <3>6
      <4> QED  BY <2>2, <3>1, <4>1
    <3>7. CASE f[m] <= f[a]
      <4>1. \A y \in T : f[y] <= f[a]
        BY <3>3, <3>4, <3>5, <3>7
      <4> QED  BY <2>2, <2>3, <4>1
    <3> QED  BY <3>4, <3>6, <3>7
  <2> QED  BY <2>4, <2>5
<1> QED  BY <1>1, <1>2

LEMMA LargestOfNumbers ==
  ASSUME NEW S, IsFiniteSet(S), S # {}, S \subseteq Int
  PROVE  /\ \E x \in S : \A y \in S : y <= x
         /\ \E x \in S : \A y \in S : x <= y
<1> DEFINE same == [x \in S |-> x]
           negative == [x \in S |-> -x]
<1>1. \E x \in S : \A y \in S : same[y] <= same[x]
  <2>1. \A x \in S : same[x] \in Int
    OBVIOUS
  <2> HIDE DEF same
  <2> QED  BY <2>1, LargestValue
<1>2. \E x \in S : \A y \in S : negative[y] <= negative[x]
  <2>1. \A x \in S : negative[x] \in Int
    OBVIOUS
  <2> HIDE DEF negative
  <2> QED  BY <2>1, LargestValue
<1>3. \A x, y \in S : negative[y] <= negative[x] => x <= y
  OBVIOUS
<1>4. \E x \in S : \A y \in S : x <= y
  <2> HIDE DEF negative
  <2> QED  BY <1>2, <1>3
<1> QED  BY <1>1, <1>4

-----------------------------------------------------------------------------
\* Iterations

\* h applies F again and again, from z, M times
Iterates(h, F, z, T, M) ==
  /\ h \in [0..M -> T] /\ h[0] = z
  /\ \A n \in 1..M : h[n] = F[h[n - 1]]

LEMMA IterationExists ==
  ASSUME NEW T, NEW z \in T, NEW F \in [T -> T], NEW M \in Nat
  PROVE  \E h : Iterates(h, F, z, T, M)
<1> DEFINE To(m, h) == Iterates(h, F, z, T, m)
           Missing == {m \in 0..M : ~ \E h : To(m, h)}
<1> SUFFICES ASSUME Missing # {} PROVE FALSE
  OBVIOUS
<1>1. PICK m \in Missing : \A k \in Missing : m <= k
  <2>1. Missing \subseteq 0..M
    OBVIOUS
  <2> HIDE DEF Missing
  <2> QED  BY <2>1, LeastNumber
<1>2. m \in 0..M /\ ~ \E h : To(m, h)
  OBVIOUS
<1>3. CASE m = 0
  <2> DEFINE h == [n \in 0..0 |-> z]
  <2>1. To(0, h)
    BY DEF Iterates
  <2> QED  BY <1>2, <1>3, <2>1
<1>4. CASE m # 0
  <2>1. m - 1 \in 0..M /\ ~(m <= m - 1)
    BY <1>2, <1>4
  <2>2. m - 1 \notin Missing
    <3> HIDE DEF Missing
    <3> QED  BY <1>1, <2>1
  <2>3. PICK g : To(m - 1, g)
    BY <2>1, <2>2
  <2> DEFINE h == [n \in 0..m |-> IF n = m THEN F[g[m - 1]] ELSE g[n]]
  <2>4. h \in [0..m -> T] /\ h[0] = z
    BY <1>2, <1>4, <2>3 DEF Iterates
  <2>5. ASSUME NEW n \in 1..m PROVE h[n] = F[h[n - 1]]
    <3>1. CASE n = m
      BY <1>2, <1>4, <3>1
    <3>2. CASE n # m
      BY <1>2, <1>4, <2>3, <3>2 DEF Iterates
    <3> QED  BY <3>1, <3>2
  <2>6. To(m, h)
    <3> HIDE DEF h
    <3> QED  BY <2>4, <2>5 DEF Iterates
  <2> QED  BY <1>2, <2>6
<1> QED  BY <1>3, <1>4
-----------------------------------------------------------------------------
\* Folds

\* h folds b with g over the subsets of S, in the order that c chooses
FoldsOn(g, c, b, S, h) ==
  h = [T \in SUBSET S |-> IF T = {} THEN b ELSE g[c[T]][h[T \ {c[T]}]]]

Chooses(c, S) == \A T \in SUBSET S : T # {} => c[T] \in T

LEMMA FoldsOnAgree ==
  ASSUME NEW g, NEW c, NEW b, NEW S, NEW R, NEW h, NEW k,
         FoldsOn(g, c, b, S, h), FoldsOn(g, c, b, R, k), Chooses(c, S),
         NEW T, T \subseteq S, T \subseteq R, IsFiniteSet(T)
  PROVE  h[T] = k[T]
<1> DEFINE F == {U \in SUBSET T : h[U] # k[U]}
<1> SUFFICES ASSUME F # {} PROVE FALSE
  OBVIOUS
<1>1. PICK U \in F : \A V \in F : ~(V \subseteq U /\ V # U)
  <2>1. F \subseteq SUBSET T
    OBVIOUS
  <2> HIDE DEF F
  <2> QED  BY <2>1, LeastSet
<1>2. U \subseteq S /\ U \subseteq R /\ U \subseteq T /\ h[U] # k[U]
  OBVIOUS
<1>3. /\ h[U] = IF U = {} THEN b ELSE g[c[U]][h[U \ {c[U]}]]
      /\ k[U] = IF U = {} THEN b ELSE g[c[U]][k[U \ {c[U]}]]
  <2> HIDE DEF F
  <2>0. U \in SUBSET S /\ U \in SUBSET R
    BY <1>2
  <2>1. h[U] = IF U = {} THEN b ELSE g[c[U]][h[U \ {c[U]}]]
    BY <2>0 DEF FoldsOn
  <2>2. k[U] = IF U = {} THEN b ELSE g[c[U]][k[U \ {c[U]}]]
    BY <2>0 DEF FoldsOn
  <2> QED  BY <2>1, <2>2
<1>4. U # {} /\ c[U] \in U
  <2> HIDE DEF F
  <2> QED  BY <1>2, <1>3 DEF Chooses
<1>5. U \ {c[U]} \notin F
  BY <1>1, <1>4
<1> QED  BY <1>2, <1>3, <1>4, <1>5

LEMMA FoldsOnExists ==
  ASSUME NEW g, NEW c, NEW b, NEW S, IsFiniteSet(S), Chooses(c, S)
  PROVE  \E h : FoldsOn(g, c, b, S, h)
<1> DEFINE F == {U \in SUBSET S : ~ \E h : FoldsOn(g, c, b, U, h)}
<1> SUFFICES ASSUME F # {} PROVE FALSE
  OBVIOUS
<1>1. PICK T \in F : \A U \in F : ~(U \subseteq T /\ U # T)
  <2>1. F \subseteq SUBSET S
    OBVIOUS
  <2> HIDE DEF F
  <2> QED  BY <2>1, LeastSet
<1>2. T \subseteq S /\ ~ \E h : FoldsOn(g, c, b, T, h)
  OBVIOUS
<1> DEFINE H(U) == CHOOSE h : FoldsOn(g, c, b, U, h)
<1>3. ASSUME NEW U, U \subseteq T, U # T PROVE FoldsOn(g, c, b, U, H(U))
  <2>1. U \notin F /\ U \in SUBSET S
    BY <1>1, <1>2, <1>3
  <2> QED  BY <2>1
<1>4. ASSUME NEW U, U \subseteq T PROVE IsFiniteSet(U) /\ Chooses(c, U)
  <2>1. U \in SUBSET S /\ SUBSET U \subseteq SUBSET S
    BY <1>2, <1>4
  <2> QED  BY <2>1, FS_Subset DEF Chooses
<1> DEFINE V(U) == IF U = {} THEN b ELSE g[c[U]][H(U \ {c[U]})[U \ {c[U]}]]
           h == [U \in SUBSET T |-> V(U)]
<1>5. ASSUME NEW U, U \subseteq T, U # {} PROVE c[U] \in U
  BY <1>2, <1>5 DEF Chooses
<1>6. ASSUME NEW U, U \subseteq T, U # T PROVE V(U) = H(U)[U]
  <2>1. H(U)[U] = IF U = {} THEN b ELSE g[c[U]][H(U)[U \ {c[U]}]]
    <3> HIDE DEF H
    <3>1. FoldsOn(g, c, b, U, H(U)) /\ U \in SUBSET U
      BY <1>3, <1>6
    <3> QED BY <3>1 DEF FoldsOn
  <2>2. CASE U = {}
    BY <2>1, <2>2
  <2>3. CASE U # {}
    <3> DEFINE W == U \ {c[U]}
    <3>1. W \subseteq T /\ W # T /\ W \subseteq U
      BY <1>5, <1>6, <2>3
    <3>2. FoldsOn(g, c, b, W, H(W)) /\ FoldsOn(g, c, b, U, H(U)) /\ IsFiniteSet(W) /\ Chooses(c, U)
      BY <1>3, <1>4, <1>6, <3>1
    <3> HIDE DEF W, H
    <3>3. H(U)[W] = H(W)[W]
      <4>1. W \subseteq W
        OBVIOUS
      <4> QED  BY <3>1, <3>2, <4>1, FoldsOnAgree
    <3> USE DEF W
    <3> QED  BY <2>1, <2>3, <3>3
  <2> QED  BY <2>2, <2>3
<1>7. ASSUME NEW U \in SUBSET T
      PROVE  V(U) = IF U = {} THEN b ELSE g[c[U]][h[U \ {c[U]}]]
  <2>1. CASE U = {}
    BY <2>1
  <2>2. CASE U # {}
    <3> DEFINE W == U \ {c[U]}
    <3>1. W \subseteq T /\ W # T
      BY <1>5, <1>7, <2>2
    <3>2. h[W] = V(W)
      BY <3>1
    <3>3. V(W) = H(W)[W]
      BY <1>6, <3>1
    <3>4. V(U) = g[c[U]][H(W)[W]]
      BY <2>2
    <3> HIDE DEF V, H, h
    <3> QED  BY <2>2, <3>2, <3>3, <3>4
  <2> QED  BY <2>1, <2>2
<1>8. h = [U \in SUBSET T |-> IF U = {} THEN b ELSE g[c[U]][h[U \ {c[U]}]]]
  <2> HIDE DEF V
  <2>1. h = [U \in SUBSET T |-> V(U)]
    OBVIOUS
  <2> HIDE DEF h
  <2> QED  BY <1>7, <2>1
<1> QED  BY <1>2, <1>8 DEF FoldsOn

\* what one step keeps, the fold keeps
LEMMA FoldsOnType ==
  ASSUME NEW g, NEW c, NEW b, NEW S, NEW h, FoldsOn(g, c, b, S, h), IsFiniteSet(S), Chooses(c, S),
         NEW Typ, b \in Typ, \A x \in S : g[x] \in [Typ -> Typ]
  PROVE  \A T \in SUBSET S : h[T] \in Typ
<1> DEFINE F == {T \in SUBSET S : h[T] \notin Typ}
<1> SUFFICES ASSUME F # {} PROVE FALSE
  OBVIOUS
<1>1. PICK T \in F : \A U \in F : ~(U \subseteq T /\ U # T)
  <2>1. F \subseteq SUBSET S
    OBVIOUS
  <2> HIDE DEF F
  <2> QED  BY <2>1, LeastSet
<1>2. T \subseteq S /\ h[T] \notin Typ
  OBVIOUS
<1>3. h[T] = IF T = {} THEN b ELSE g[c[T]][h[T \ {c[T]}]]
  <2>1. T \in SUBSET S
    BY <1>2
  <2> HIDE DEF F
  <2> QED  BY <2>1 DEF FoldsOn
<1>4. T # {}
  BY <1>2, <1>3
<1>5. c[T] \in T
  BY <1>2, <1>4 DEF Chooses
<1>6. h[T \ {c[T]}] \in Typ
  <2>1. T \ {c[T]} \in SUBSET S /\ T \ {c[T]} \notin F
    BY <1>1, <1>2, <1>5
  <2> QED  BY <2>1
<1> QED  BY <1>2, <1>3, <1>4, <1>5, <1>6

-----------------------------------------------------------------------------
\* Quotients

\* A share of an amount is part of it, and all of it only for the whole.
LEMMA ShareOfAmount ==
  ASSUME NEW part \in Nat, NEW whole \in Nat \ {0}, part <= whole, NEW amount \in Nat
  PROVE  /\ (part * amount) \div whole \in 0..amount
         /\ part = whole => (part * amount) \div whole = amount
<1> DEFINE share == (part * amount) \div whole
<1>1. part * amount \in Nat /\ part * amount <= whole * amount
  OBVIOUS
<1>2. share \in Int /\ whole * share <= part * amount /\ part * amount < whole * share + whole
  BY <1>1
<1> HIDE DEF share
<1>3. share >= 0
  <2> SUFFICES ASSUME share <= -1 PROVE FALSE
    BY <1>2
  <2>1. whole * share + whole <= 0
    BY <1>2
  <2>. QED  BY <1>1, <1>2, <2>1
<1>4. share <= amount
  <2> SUFFICES ASSUME share >= amount + 1 PROVE FALSE
    BY <1>2
  <2>1. whole * share >= whole * amount + whole
    BY <1>2
  <2>. QED  BY <1>1, <1>2, <2>1
<1>5. part = whole => share = amount
  <2> SUFFICES ASSUME part = whole, share <= amount - 1 PROVE FALSE
    BY <1>2, <1>4
  <2>1. whole * share + whole <= whole * amount
    BY <1>2
  <2>. QED  BY <1>1, <1>2, <2>1
<1>. QED  BY <1>2, <1>3, <1>4, <1>5 DEF share
=============================================================================
