-------------------------------- MODULE Sums --------------------------------
(***************************************************************************)
(* Facts about SumFunctionOnSet, the sum of a function's values over a     *)
(* finite set.  The induction they need is WFMin's, which asks for the     *)
(* set of counterexamples instead of an operator.                          *)
(***************************************************************************)
EXTENDS Functions, FiniteSets, FiniteSetTheorems, WellFoundedInduction, TLAPS

\* A set of numbers that has each number of which it has all smaller ones is Nat.
LEMMA StrongInduction ==
  ASSUME NEW S \in SUBSET Nat,
         \A n \in Nat : (0 .. n - 1) \subseteq S => n \in S
  PROVE  S = Nat
<1> DEFINE T == Nat \ S
           R == OpToRel(<, Nat)
<1> SUFFICES ASSUME T # {} PROVE FALSE
  OBVIOUS
<1>1. IsWellFoundedOn(R, Nat)
  BY NatLessThanWellFounded
<1>2. \A x, y \in Nat : <<y, x>> \in R <=> y < x
  BY DEF OpToRel
<1>3. T \subseteq Nat
  OBVIOUS
<1> HIDE DEF R, T
<1>4. PICK n \in T : \A m \in T : <<m, n>> \notin R
  BY <1>1, <1>3, WFMin
<1>5. n \in Nat /\ n \notin S
  BY <1>4 DEF T
<1>6. ASSUME NEW m \in 0 .. n - 1 PROVE m \in S
  <2>1. m \in Nat /\ m < n
    BY <1>5
  <2> QED
    BY <1>2, <1>4, <1>5, <2>1 DEF T
<1> QED
  BY <1>5, <1>6

\* g has the sum of f over each subset of S of at most n elements.
First(s) == CHOOSE x \in s : TRUE
SumEquation(g, f, s) == g[s] = IF s = {} THEN 0 ELSE f[First(s)] + g[s \ {First(s)}]
Solves(g, f, S) ==
  g = [s \in SUBSET S |-> IF s = {} THEN 0 ELSE f[First(s)] + g[s \ {First(s)}]]
SumsUpTo(g, f, S, n) == \A s \in SUBSET S : Cardinality(s) <= n => SumEquation(g, f, s)

\* The recursion in SumFunctionOnSet has a solution.
LEMMA SumSolution ==
  ASSUME NEW f, NEW S, IsFiniteSet(S)
  PROVE  \E g : Solves(g, f, S)
<1> DEFINE Solved == {n \in Nat : \E g : DOMAIN g = SUBSET S /\ SumsUpTo(g, f, S, n)}
<1>1. \A s \in SUBSET S : IsFiniteSet(s) /\ Cardinality(s) \in Nat
  BY FS_Subset, FS_CardinalityType
<1>2. ASSUME NEW s \in SUBSET S, s # {}
      PROVE  /\ First(s) \in s /\ s \ {First(s)} \in SUBSET S
             /\ Cardinality(s \ {First(s)}) = Cardinality(s) - 1
             /\ Cardinality(s) # 0
  BY <1>1, <1>2, FS_RemoveElement, FS_EmptySet DEF First
<1>3. 0 \in Solved
  <2> DEFINE g == [s \in SUBSET S |-> 0]
  <2>1. SumsUpTo(g, f, S, 0)
    <3>1. ASSUME NEW s \in SUBSET S, Cardinality(s) <= 0 PROVE s = {}
      BY <1>1, <3>1, FS_EmptySet
    <3>2. SumEquation(g, f, {})
      BY DEF SumEquation
    <3> HIDE DEF g
    <3> QED
      BY <3>1, <3>2 DEF SumsUpTo
  <2> HIDE DEF g
  <2>2. DOMAIN g = SUBSET S
    BY DEF g
  <2> QED
    BY <2>1, <2>2
<1>4. ASSUME NEW n \in Nat, n \in Solved PROVE n + 1 \in Solved
  <2>1. PICK g : DOMAIN g = SUBSET S /\ SumsUpTo(g, f, S, n)
    BY <1>4
  <2> DEFINE h == [s \in SUBSET S |-> IF s = {} THEN 0 ELSE f[First(s)] + g[s \ {First(s)}]]
  <2>2. ASSUME NEW s \in SUBSET S, Cardinality(s) <= n PROVE h[s] = g[s]
    BY <2>1, <2>2 DEF SumsUpTo, SumEquation
  <2>3. ASSUME NEW s \in SUBSET S, Cardinality(s) <= n + 1 PROVE SumEquation(h, f, s)
    <3>1. CASE s = {}
      BY <3>1 DEF SumEquation
    <3>2. CASE s # {}
      <4>1. /\ Cardinality(s \ {First(s)}) <= n /\ s \ {First(s)} \in SUBSET S
        BY <1>1, <1>2, <2>3, <3>2
      <4>2. h[s \ {First(s)}] = g[s \ {First(s)}]
        BY <2>2, <4>1
      <4>3. h[s] = f[First(s)] + g[s \ {First(s)}]
        BY <3>2
      <4> HIDE DEF h
      <4> QED
        BY <3>2, <4>2, <4>3 DEF SumEquation
    <3> QED
      BY <3>1, <3>2
  <2> HIDE DEF h
  <2>4. DOMAIN h = SUBSET S
    BY DEF h
  <2> QED
    BY <2>3, <2>4 DEF SumsUpTo
<1>5. Solved = Nat
  <2>1. ASSUME NEW n \in Nat, (0 .. n - 1) \subseteq Solved PROVE n \in Solved
    <3>1. CASE n = 0
      BY <1>3, <3>1
    <3>2. CASE n # 0
      <4>1. n - 1 \in 0 .. n - 1 /\ n - 1 \in Nat /\ (n - 1) + 1 = n
        BY <3>2
      <4> QED
        BY <1>4, <2>1, <4>1
    <3> QED
      BY <3>1, <3>2
  <2>2. Solved \in SUBSET Nat
    OBVIOUS
  <2> HIDE DEF Solved
  <2> QED
    BY <2>1, <2>2, StrongInduction
<1>6. PICK g : DOMAIN g = SUBSET S /\ SumsUpTo(g, f, S, Cardinality(S))
  BY <1>1, <1>5
<1> DEFINE h == [s \in SUBSET S |-> IF s = {} THEN 0 ELSE f[First(s)] + g[s \ {First(s)}]]
<1>7. \A s \in SUBSET S : Cardinality(s) <= Cardinality(S)
  BY FS_Subset
<1>8. \A s \in SUBSET S : h[s] = g[s]
  BY <1>6, <1>7 DEF SumsUpTo, SumEquation
<1>9. \A s \in SUBSET S : s # {} => h[s \ {First(s)}] = g[s \ {First(s)}]
  BY <1>2, <1>8
<1>10. h = [s \in SUBSET S |-> IF s = {} THEN 0 ELSE f[First(s)] + h[s \ {First(s)}]]
  BY <1>9
<1> HIDE DEF h
<1> QED
  BY <1>10 DEF Solves

\* The units of a sum: f[x] pairs for each x.
Units(f, S) == {u \in S \X Nat : u[2] < f[u[1]]}

\* SumFunctionOnSet is what its name says.
LEMMA SumEquations ==
  ASSUME NEW f, NEW S, IsFiniteSet(S)
  PROVE  \E g : /\ SumFunctionOnSet(f, S) = g[S]
                /\ \A s \in SUBSET S : SumEquation(g, f, s)
<1> DEFINE G == CHOOSE g : Solves(g, f, S)
<1>1. SumFunctionOnSet(f, S) = G[S]
  BY DEF SumFunctionOnSet, FoldFunctionOnSet, MapThenFoldSet, First, Solves
<1>2. Solves(G, f, S)
  BY SumSolution
<1> HIDE DEF G
<1>3. \A s \in SUBSET S : SumEquation(G, f, s)
  BY <1>2 DEF SumEquation, Solves
<1> QED
  BY <1>1, <1>3

\* The units of one element.
LEMMA UnitsOfOne ==
  ASSUME NEW x, NEW n \in Nat
  PROVE  /\ IsFiniteSet({x} \X (0 .. n - 1))
         /\ Cardinality({x} \X (0 .. n - 1)) = n
<1>1. IsFiniteSet({x}) /\ Cardinality({x}) = 1
  BY FS_Singleton
<1>2. IsFiniteSet(0 .. n - 1) /\ Cardinality(0 .. n - 1) = n
  BY FS_Interval
<1> QED
  BY <1>1, <1>2, FS_Product

\* An element's units are apart from all others'.
LEMMA UnitsSplit ==
  ASSUME NEW S, NEW f, \A y \in S : f[y] \in Nat, NEW x \in S, IsFiniteSet(Units(f, S \ {x}))
  PROVE  /\ IsFiniteSet(Units(f, S))
         /\ Cardinality(Units(f, S)) = f[x] + Cardinality(Units(f, S \ {x}))
<1> DEFINE A == {x} \X (0 .. f[x] - 1)
           B == Units(f, S \ {x})
<1>1. IsFiniteSet(A) /\ Cardinality(A) = f[x] /\ f[x] \in Nat
  BY UnitsOfOne
<1>2. Units(f, S) = A \cup B
  BY <1>1 DEF Units
<1>3. A \cap B = {}
  BY DEF Units
<1>4. Cardinality(B) \in Nat
  BY FS_CardinalityType
<1> HIDE DEF A, B
<1>5. IsFiniteSet(A \cup B) /\ Cardinality(A \cup B) = Cardinality(A) + Cardinality(B) - Cardinality({})
  <2>1. IsFiniteSet(B)
    BY DEF B
  <2>2. /\ IsFiniteSet(A \cup B)
        /\ Cardinality(A \cup B) = Cardinality(A) + Cardinality(B) - Cardinality(A \cap B)
    BY <1>1, <2>1, FS_Union
  <2> QED
    BY <1>3, <2>2
<1> QED
  BY <1>1, <1>2, <1>4, <1>5, FS_EmptySet DEF B

\* The sum is the number of units.
LEMMA SumIsCount ==
  ASSUME NEW S, IsFiniteSet(S), NEW f, \A x \in S : f[x] \in Nat
  PROVE  /\ IsFiniteSet(Units(f, S))
         /\ SumFunctionOnSet(f, S) = Cardinality(Units(f, S))
<1>1. PICK g : /\ SumFunctionOnSet(f, S) = g[S]
               /\ \A s \in SUBSET S : SumEquation(g, f, s)
  BY SumEquations
<1>2. \A s \in SUBSET S : IsFiniteSet(s) /\ Cardinality(s) \in Nat
  BY FS_Subset, FS_CardinalityType
<1> DEFINE Counts(s) == IsFiniteSet(Units(f, s)) /\ g[s] = Cardinality(Units(f, s))
           N == {n \in Nat : \A s \in SUBSET S : Cardinality(s) = n => Counts(s)}
<1>3. ASSUME NEW n \in Nat, (0 .. n - 1) \subseteq N PROVE n \in N
  <2> SUFFICES ASSUME NEW s \in SUBSET S, Cardinality(s) = n PROVE Counts(s)
    OBVIOUS
  <2>1. SumEquation(g, f, s)
    BY <1>1
  <2>2. CASE s = {}
    <3>1. Units(f, s) = {} /\ g[s] = 0
      BY <2>1, <2>2 DEF Units, SumEquation
    <3> QED
      BY <3>1, FS_EmptySet
  <2>3. CASE s # {}
    <3> DEFINE x == First(s)
    <3>1. x \in s /\ s \ {x} \in SUBSET S
      BY <2>3 DEF First
    <3>2. Cardinality(s \ {x}) = n - 1 /\ n # 0
      BY <1>2, <2>3, <3>1, FS_RemoveElement, FS_EmptySet
    <3>3. n - 1 \in 0 .. n - 1
      BY <3>2
    <3>4. Counts(s \ {x})
      BY <1>3, <3>1, <3>2, <3>3
    <3>5. g[s] = f[x] + g[s \ {x}]
      BY <2>1, <2>3 DEF SumEquation
    <3>6. \A y \in s : f[y] \in Nat
      OBVIOUS
    <3> HIDE DEF x
    <3> QED
      BY <3>1, <3>4, <3>5, <3>6, UnitsSplit
  <2> QED
    BY <2>2, <2>3
<1>4. N = Nat
  <2>1. N \in SUBSET Nat
    OBVIOUS
  <2> HIDE DEF N
  <2> QED
    BY <1>3, <2>1, StrongInduction
<1>5. Counts(S)
  BY <1>2, <1>4
<1> QED
  BY <1>1, <1>5

\* A sum of numbers is a number.
LEMMA SumType ==
  ASSUME NEW S, IsFiniteSet(S), NEW f, \A x \in S : f[x] \in Nat
  PROVE  SumFunctionOnSet(f, S) \in Nat
BY SumIsCount, FS_CardinalityType

\* The sum over no element.
LEMMA SumOfNone == ASSUME NEW f PROVE SumFunctionOnSet(f, {}) = 0
<1>1. Units(f, {}) = {}
  BY DEF Units
<1> QED
  BY <1>1, SumIsCount, FS_EmptySet

\* The sum of zeroes.
LEMMA SumOfZeroes ==
  ASSUME NEW S, IsFiniteSet(S), NEW f, \A x \in S : f[x] = 0
  PROVE  SumFunctionOnSet(f, S) = 0
<1>1. Units(f, S) = {}
  BY DEF Units
<1> QED
  BY <1>1, SumIsCount, FS_EmptySet

\* One element apart.
LEMMA SumSplit ==
  ASSUME NEW S, IsFiniteSet(S), NEW f, \A y \in S : f[y] \in Nat, NEW x \in S
  PROVE  SumFunctionOnSet(f, S) = f[x] + SumFunctionOnSet(f, S \ {x})
<1>1. IsFiniteSet(S \ {x}) /\ \A y \in S \ {x} : f[y] \in Nat
  BY FS_RemoveElement
<1> QED
  BY <1>1, SumIsCount, UnitsSplit

\* The elements of S whose value is not 0 go to different elements of T with no less.
LEMMA SumMoved ==
  ASSUME NEW S, IsFiniteSet(S), NEW f, \A x \in S : f[x] \in Nat,
         NEW T, IsFiniteSet(T), NEW h, \A y \in T : h[y] \in Nat,
         NEW p, \A x \in S : f[x] # 0 => p[x] \in T /\ f[x] <= h[p[x]],
         \A x, y \in S : f[x] # 0 /\ f[y] # 0 /\ p[x] = p[y] => x = y
  PROVE  SumFunctionOnSet(f, S) <= SumFunctionOnSet(h, T)
<1> DEFINE F == Units(f, S)
           H == Units(h, T)
           m == [u \in F |-> <<p[u[1]], u[2]>>]
<1>1. IsFiniteSet(F) /\ IsFiniteSet(H)
  BY SumIsCount
<1>2. \A u \in F : /\ u[1] \in S /\ u[2] \in Nat /\ u = <<u[1], u[2]>>
                   /\ u[2] < f[u[1]] /\ f[u[1]] # 0 /\ f[u[1]] \in Nat
  BY DEF Units
<1>3. \A u \in F : <<p[u[1]], u[2]>> \in H
  BY <1>2 DEF Units
<1>4. \A u, v \in F : m[u] = m[v] => u = v
  BY <1>2
<1>5. m \in Injection(F, H)
  BY <1>3, <1>4 DEF Injection, IsInjective
<1> HIDE DEF F, H, m
<1>6. Cardinality(F) <= Cardinality(H)
  BY <1>1, <1>5, FS_Injection
<1> QED
  BY <1>6, SumIsCount DEF F, H

\* Greater values have a greater sum.
LEMMA SumMonotone ==
  ASSUME NEW S, IsFiniteSet(S), NEW f, \A x \in S : f[x] \in Nat,
         NEW h, \A x \in S : h[x] \in Nat /\ f[x] <= h[x]
  PROVE  SumFunctionOnSet(f, S) <= SumFunctionOnSet(h, S)
<1> DEFINE p == [x \in S |-> x]
<1>1. \A x \in S : p[x] = x
  OBVIOUS
<1> HIDE DEF p
<1> QED
  BY <1>1, SumMoved

\* The sum is its values'.
LEMMA SumSame ==
  ASSUME NEW S, NEW f, NEW h, IsFiniteSet(S), \A x \in S : f[x] \in Nat /\ f[x] = h[x]
  PROVE  SumFunctionOnSet(f, S) = SumFunctionOnSet(h, S)
<1>1. Units(f, S) = Units(h, S)
  BY DEF Units
<1> QED
  BY <1>1, SumIsCount

\* More at one element.
LEMMA SumChanged ==
  ASSUME NEW S, IsFiniteSet(S), NEW f, \A y \in S : f[y] \in Nat,
         NEW x \in S, NEW n \in Nat, NEW h, h[x] = f[x] + n,
         \A y \in S \ {x} : h[y] = f[y]
  PROVE  SumFunctionOnSet(h, S) = SumFunctionOnSet(f, S) + n
<1>1. \A y \in S : h[y] \in Nat
  OBVIOUS
<1>2. IsFiniteSet(S \ {x})
  BY FS_RemoveElement
<1>3. SumFunctionOnSet(f, S) = f[x] + SumFunctionOnSet(f, S \ {x})
  BY SumSplit
<1>4. SumFunctionOnSet(h, S) = h[x] + SumFunctionOnSet(h, S \ {x})
  BY <1>1, SumSplit
<1>5. SumFunctionOnSet(f, S \ {x}) = SumFunctionOnSet(h, S \ {x})
  BY <1>2, SumSame
<1>6. SumFunctionOnSet(f, S \ {x}) \in Nat
  BY <1>2, SumType
<1> QED
  BY <1>3, <1>4, <1>5, <1>6
=============================================================================
