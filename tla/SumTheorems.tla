------------------------------ MODULE SumTheorems ------------------------------
(***************************************************************************)
(* Sums of natural numbers over a finite set, as the modules take them     *)
(* with MapThenSumSet of FiniteSetsExt.                                    *)
(*                                                                         *)
(* That operator chooses a recursive function, and nothing about it can be *)
(* shown by an induction theorem whose hypothesis is an operator.  A sum   *)
(* is therefore counted: it is the cardinality of the set of its units,    *)
(* about which FiniteSetTheorems says what is needed, and the recursive    *)
(* function agrees with it because a smallest set on which they differ     *)
(* would not be empty, and would differ without its chosen element too.    *)
(***************************************************************************)
EXTENDS FiniteSetsExt, FiniteSetTheorems, WellFoundedInduction, TLAPS

\* f[x] units for every x of S, each counted from 1.
UnitsOf(f, S) == {u \in S \X Nat : 1 <= u[2] /\ u[2] <= f[u[1]]}

\* The total of f over S.
TotalOf(f, S) == Cardinality(UnitsOf(f, S))

\* The element MapThenFoldSet takes out of s first.
Chosen(s) == CHOOSE e \in s : TRUE

\* Sums over the subsets of S, as MapThenSumSet finds them.
Adds(it, f, S) ==
  it = [s \in SUBSET S |-> IF s = {} THEN 0 ELSE f[Chosen(s)] + it[s \ {Chosen(s)}]]

\* One element has as many units as its value.
LEMMA UnitsOfOne ==
  ASSUME NEW f, NEW x, f[x] \in Nat
  PROVE  IsFiniteSet(UnitsOf(f, {x})) /\ TotalOf(f, {x}) = f[x]
  <1> DEFINE T == 1 .. f[x]
             g == [n \in T |-> <<x, n>>]
  <1>1. IsFiniteSet(T) /\ Cardinality(T) = f[x]  BY FS_Interval
  <1>2. UnitsOf(f, {x}) = {<<x, n>> : n \in T}  BY DEF UnitsOf
  <1>3. g \in Bijection(T, UnitsOf(f, {x}))
    BY <1>2 DEF Bijection, Injection, Surjection, IsInjective
  <1>4. ExistsBijection(T, UnitsOf(f, {x}))  BY <1>3 DEF ExistsBijection
  <1> QED BY <1>1, <1>4, FS_Bijection DEF TotalOf

\* A sum has finitely many units.
LEMMA UnitsFinite ==
  ASSUME NEW f, NEW S, IsFiniteSet(S), \A x \in S : f[x] \in Nat
  PROVE  IsFiniteSet(UnitsOf(f, S))
  <1> DEFINE T == {UnitsOf(f, {x}) : x \in S}
             g == [x \in S |-> UnitsOf(f, {x})]
  <1>1. g \in Surjection(S, T)  BY DEF Surjection
  <1>2. IsFiniteSet(T)  BY <1>1, FS_Surjection
  <1>3. \A t \in T : IsFiniteSet(t)  BY UnitsOfOne
  <1>4. UnitsOf(f, S) = UNION T  BY DEF UnitsOf
  <1> HIDE DEF T
  <1> QED BY <1>2, <1>3, <1>4, FS_UNION

\* Totals of disjoint sets add up;
LEMMA TotalOfDisjoint ==
  ASSUME NEW f, NEW S, NEW R, IsFiniteSet(S), IsFiniteSet(R), S \cap R = {},
         \A x \in S \cup R : f[x] \in Nat
  PROVE  TotalOf(f, S \cup R) = TotalOf(f, S) + TotalOf(f, R)
  <1>1. IsFiniteSet(UnitsOf(f, S)) /\ IsFiniteSet(UnitsOf(f, R))  BY UnitsFinite
  <1>2. UnitsOf(f, S \cup R) = UnitsOf(f, S) \cup UnitsOf(f, R)  BY DEF UnitsOf
  <1>3. UnitsOf(f, S) \cap UnitsOf(f, R) = {}  BY DEF UnitsOf
  <1>4. Cardinality(UnitsOf(f, S)) \in Nat /\ Cardinality(UnitsOf(f, R)) \in Nat /\ Cardinality({}) = 0
    BY <1>1, FS_CardinalityType, FS_EmptySet
  <1>5. Cardinality(UnitsOf(f, S) \cup UnitsOf(f, R))
          = Cardinality(UnitsOf(f, S)) + Cardinality(UnitsOf(f, R)) - Cardinality(UnitsOf(f, S) \cap UnitsOf(f, R))
    BY <1>1, FS_Union
  <1>6. Cardinality(UnitsOf(f, S) \cap UnitsOf(f, R)) = 0  BY <1>3, <1>4
  <1>7. PICK a, b, c, d : /\ a = Cardinality(UnitsOf(f, S)) /\ b = Cardinality(UnitsOf(f, R))
                         /\ c = Cardinality(UnitsOf(f, S \cup R))
                         /\ d = Cardinality(UnitsOf(f, S) \cap UnitsOf(f, R))
    OBVIOUS
  <1>8. c = a + b - d /\ a \in Nat /\ b \in Nat /\ d = 0  BY <1>2, <1>4, <1>5, <1>6, <1>7
  <1>9. c = a + b  BY <1>8
  <1> QED BY <1>7, <1>9 DEF TotalOf

\* that of the empty set is zero,
LEMMA TotalOfNone == ASSUME NEW f PROVE TotalOf(f, {}) = 0
  BY FS_EmptySet DEF TotalOf, UnitsOf

\* and an element adds its value to that of the others.
LEMMA TotalWithout ==
  ASSUME NEW f, NEW S, NEW x \in S, IsFiniteSet(S), \A y \in S : f[y] \in Nat
  PROVE  TotalOf(f, S) = f[x] + TotalOf(f, S \ {x})
  <1>1. IsFiniteSet(S \ {x}) /\ IsFiniteSet({x})  BY FS_RemoveElement, FS_Singleton
  <1>2. S = {x} \cup (S \ {x}) /\ {x} \cap (S \ {x}) = {}  OBVIOUS
  <1>3. TotalOf(f, {x} \cup (S \ {x})) = TotalOf(f, {x}) + TotalOf(f, S \ {x})
    BY <1>1, <1>2, TotalOfDisjoint
  <1> QED BY <1>2, <1>3, UnitsOfOne

\* The totals of the subsets of S obey the recursion ...
LEMMA TotalsAdd ==
  ASSUME NEW f, NEW S, IsFiniteSet(S), \A x \in S : f[x] \in Nat
  PROVE  Adds([s \in SUBSET S |-> TotalOf(f, s)], f, S)
  <1>1. ASSUME NEW s \in SUBSET S, s # {} PROVE TotalOf(f, s) = f[Chosen(s)] + TotalOf(f, s \ {Chosen(s)})
    <2>1. Chosen(s) \in s  BY <1>1 DEF Chosen
    <2>2. IsFiniteSet(s)  BY FS_Subset
    <2>3. \A y \in s : f[y] \in Nat  OBVIOUS
    <2> QED BY <2>1, <2>2, <2>3, TotalWithout
  <1>2. \A s \in SUBSET S : s \ {Chosen(s)} \in SUBSET S  OBVIOUS
  <1> QED BY <1>1, <1>2, TotalOfNone DEF Adds

\* ... and whatever obeys it is the total.
LEMMA AddsUniquely ==
  ASSUME NEW f, NEW S, IsFiniteSet(S), \A x \in S : f[x] \in Nat, NEW it, Adds(it, f, S)
  PROVE  it[S] = TotalOf(f, S)
  <1> DEFINE R == StrictSubsetOrdering(S)
             Wrong == {s \in SUBSET S : it[s] # TotalOf(f, s)}
  <1>1. IsWellFoundedOn(R, FiniteSubsetsOf(S))  BY FS_StrictSubsetOrderingWellFounded
  <1>2. Wrong \subseteq FiniteSubsetsOf(S)  BY FS_Subset DEF FiniteSubsetsOf
  <1>3. SUFFICES ASSUME Wrong # {} PROVE FALSE  OBVIOUS
  <1>4. PICK s \in Wrong : \A y \in Wrong : <<y, s>> \notin R
    <2> HIDE DEF R, Wrong
    <2> QED BY <1>1, <1>2, <1>3, WFMin
  <1>5. s # {}  BY TotalOfNone DEF Adds
  <1>6. Chosen(s) \in s /\ s \in SUBSET S /\ IsFiniteSet(s)  BY <1>5, FS_Subset DEF Chosen
  <1> DEFINE r == s \ {Chosen(s)}
  <1>7. r \in SUBSET S /\ r # s /\ r \subseteq s  BY <1>6
  <1> HIDE DEF r
  <1>b. <<r, s>> \in R  BY <1>6, <1>7 DEF StrictSubsetOrdering
  <1>8. it[r] = TotalOf(f, r)  BY <1>4, <1>7, <1>b
  <1> USE DEF r
  <1>9. it[s] = f[Chosen(s)] + it[s \ {Chosen(s)}]  BY <1>5, <1>6 DEF Adds
  <1> QED BY <1>6, <1>8, <1>9, TotalWithout

\* The sum of the values f has on S.
SumOver(f, S) == MapThenSumSet(LAMBDA x : f[x], S)

\* The sum of the values of a function, which the books of the services are stated with, is
\* their total.
THEOREM SumIsTotal ==
  ASSUME NEW f, NEW S, IsFiniteSet(S), \A x \in S : f[x] \in Nat
  PROVE  SumOver(f, S) = TotalOf(f, S)
  <1>1. SumOver(f, S) = (CHOOSE it : Adds(it, f, S))[S]
    BY DEF SumOver, MapThenSumSet, MapThenFoldSet, Adds, Chosen
  <1>2. Adds(CHOOSE it : Adds(it, f, S), f, S)  BY TotalsAdd
  <1> QED BY <1>1, <1>2, AddsUniquely

(***************************************************************************)
(* What the proofs use of a total.                                         *)
(***************************************************************************)
\* A total is a natural number,
LEMMA TotalType ==
  ASSUME NEW f, NEW S, IsFiniteSet(S), \A x \in S : f[x] \in Nat
  PROVE  TotalOf(f, S) \in Nat
  BY UnitsFinite, FS_CardinalityType DEF TotalOf

\* depends on nothing but the values summed,
LEMMA TotalSame ==
  ASSUME NEW f, NEW g, NEW S, \A x \in S : f[x] = g[x]
  PROVE  TotalOf(f, S) = TotalOf(g, S)
  <1>1. UnitsOf(f, S) = UnitsOf(g, S)  BY DEF UnitsOf
  <1> QED  BY <1>1 DEF TotalOf

\* grows by the value of a new element,
LEMMA TotalWith ==
  ASSUME NEW f, NEW S, NEW x, x \notin S, IsFiniteSet(S), \A y \in S : f[y] \in Nat, f[x] \in Nat
  PROVE  TotalOf(f, S \cup {x}) = f[x] + TotalOf(f, S)
  <1>1. IsFiniteSet(S \cup {x})  BY FS_AddElement
  <1>2. (S \cup {x}) \ {x} = S  OBVIOUS
  <1> QED  BY <1>1, <1>2, TotalWithout

\* and is no less than the value of any element.
LEMMA TotalCovers ==
  ASSUME NEW f, NEW S, NEW x \in S, IsFiniteSet(S), \A y \in S : f[y] \in Nat
  PROVE  f[x] <= TotalOf(f, S) /\ TotalOf(f, S \ {x}) = TotalOf(f, S) - f[x]
  <1>1. IsFiniteSet(S \ {x})  BY FS_RemoveElement
  <1>2. TotalOf(f, S \ {x}) \in Nat  BY <1>1, TotalType
  <1>3. TotalOf(f, S) = f[x] + TotalOf(f, S \ {x})  BY TotalWithout
  <1> QED  BY <1>2, <1>3
===============================================================================
