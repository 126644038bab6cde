------------------------------ MODULE FiniteSums ------------------------------
(* Induction for sets of numbers and finite sets, stated of sets and not of *)
(* predicates so that it can be cited with any of them; smallest elements;  *)
(* and the sum of a function over a finite set, which the modules write     *)
(* SumFunctionOnSet.  Lemmas for the proofs about the other modules.        *)
EXTENDS Naturals, FiniteSets, FiniteSetsExt, Functions, FiniteSetTheorems, TLAPS

\* A set with 0 and every successor has every number: were n missing, then
\* m |-> m + 1 would map those of 0..n that are there into themselves without 0.
LEMMA NatSetInduction ==
  ASSUME NEW P, 0 \in P, \A n \in Nat : n \in P => n + 1 \in P
  PROVE  Nat \subseteq P
<1> SUFFICES ASSUME NEW n \in Nat, n \notin P PROVE FALSE
  OBVIOUS
<1> DEFINE A == {m \in 0..n : m \in P}
           B == A \ {0}
           f == [m \in A |-> m + 1]
<1>1. IsFiniteSet(A)
  <2>1. IsFiniteSet(0..n) /\ A \in SUBSET (0..n)
    BY FS_Interval
  <2> QED
    BY <2>1, FS_Subset
<1>2. 0 \in A
  OBVIOUS
<1>3. f \in [A -> B]
  <2> SUFFICES ASSUME NEW m \in A PROVE m + 1 \in B
    OBVIOUS
  <2>1. m \in Nat /\ m <= n /\ m + 1 \in P
    OBVIOUS
  <2>2. m # n
    OBVIOUS
  <2> QED
    BY <2>1, <2>2
<1>4. IsFiniteSet(B) /\ Cardinality(B) = Cardinality(A) - 1
  BY <1>1, <1>2, FS_RemoveElement
<1>5. Cardinality(A) \in Nat
  BY <1>1, FS_CardinalityType
<1>6. Cardinality(B) < Cardinality(A)
  BY <1>4, <1>5
<1>7. \E x, y \in A : x # y /\ f[x] = f[y]
  <2> HIDE DEF A, B, f
  <2> QED
    BY <1>1, <1>3, <1>4, <1>6, FS_PigeonHole
<1>8. \A x, y \in A : f[x] = f[y] => x = y
  OBVIOUS
<1> QED
  BY <1>7, <1>8

\* A set of numbers that is not empty has a smallest element, which Min finds.
LEMMA MinOfNats ==
  ASSUME NEW S, S \subseteq Nat, S # {}
  PROVE  Min(S) \in S /\ \A x \in S : Min(S) <= x
<1>1. \E m \in S : \A x \in S : m <= x
  <2> SUFFICES ASSUME \A m \in S : \E x \in S : x < m PROVE FALSE
    OBVIOUS
  <2> DEFINE P == {n \in Nat : \A x \in S : n < x}
  <2>1. 0 \in P
    OBVIOUS
  <2>2. ASSUME NEW n \in Nat, n \in P PROVE n + 1 \in P
    <3>1. \A x \in S : n + 1 <= x
      BY <2>2
    <3>2. n + 1 \notin S
      BY <3>1
    <3> QED
      BY <3>1, <3>2
  <2> HIDE DEF P
  <2>3. Nat \subseteq P
    BY <2>1, <2>2, NatSetInduction
  <2>4. PICK x \in S : TRUE
    OBVIOUS
  <2>5. x \in P
    BY <2>3
  <2> QED
    BY <2>4, <2>5 DEF P
<1> QED
  BY <1>1 DEF Min

\* A set of sets with the empty set, and with T \cup {x} whenever it has T, has
\* every finite set.
LEMMA FiniteSetInduction ==
  ASSUME NEW S, IsFiniteSet(S), NEW P, {} \in P,
         \A T \in SUBSET S : \A x \in S \ T : T \in P => T \cup {x} \in P
  PROVE  S \in P
<1> DEFINE N == {n \in Nat : \A T \in SUBSET S : Cardinality(T) = n => T \in P}
<1>1. \A T \in SUBSET S : IsFiniteSet(T) /\ Cardinality(T) \in Nat
  BY FS_Subset, FS_CardinalityType
<1>2. 0 \in N
  BY <1>1, FS_EmptySet
<1>3. ASSUME NEW n \in Nat, n \in N PROVE n + 1 \in N
  <2> SUFFICES ASSUME NEW T \in SUBSET S, Cardinality(T) = n + 1 PROVE T \in P
    OBVIOUS
  <2>1. T # {}
    <3>1. Cardinality({}) = 0 /\ n + 1 # 0
      BY FS_EmptySet
    <3> QED
      BY <3>1
  <2>2. PICK x \in T : TRUE
    BY <2>1
  <2>3. Cardinality(T \ {x}) = n
    <3>1. IsFiniteSet(T)
      BY <1>1
    <3>2. Cardinality(T \ {x}) = Cardinality(T) - 1
      BY <2>2, <3>1, FS_RemoveElement
    <3> QED
      BY <3>2
  <2>4. T \ {x} \in P
    BY <1>3, <2>3
  <2>5. T = (T \ {x}) \cup {x} /\ x \in S \ (T \ {x})
    OBVIOUS
  <2> QED
    BY <2>4, <2>5
<1> HIDE DEF N
<1>4. Nat \subseteq N
  BY <1>2, <1>3, NatSetInduction
<1> QED
  BY <1>1, <1>4 DEF N

------------------------------------------------------------------------------
(* Sums *)

Pick(s) == CHOOSE x \in s : TRUE

\* What the library's definition asks of the sums of all subsets of S.
IsSums(g, w, S) ==
  g = [s \in SUBSET S |-> IF s = {} THEN 0 ELSE w[Pick(s)] + g[s \ {Pick(s)}]]

LEMMA SumDefinition ==
  ASSUME NEW w, NEW S
  PROVE  SumFunctionOnSet(w, S) = (CHOOSE g : IsSums(g, w, S))[S]
BY DEF SumFunctionOnSet, FoldFunctionOnSet, MapThenFoldSet, IsSums, Pick

\* A function has that form as soon as it satisfies the equation at each subset.
LEMMA SumsEquation ==
  ASSUME NEW w, NEW S, NEW g
  PROVE  IsSums(g, w, S) <=>
           /\ g = [s \in SUBSET S |-> g[s]]
           /\ \A s \in SUBSET S : g[s] = IF s = {} THEN 0 ELSE w[Pick(s)] + g[s \ {Pick(s)}]
BY DEF IsSums

\* One element picked from a finite set leaves a smaller one.
LEMMA PickOne ==
  ASSUME NEW s, IsFiniteSet(s), s # {}
  PROVE  /\ Pick(s) \in s /\ IsFiniteSet(s \ {Pick(s)})
         /\ Cardinality(s) \in Nat /\ Cardinality(s) # 0
         /\ Cardinality(s \ {Pick(s)}) = Cardinality(s) - 1
<1>1. Pick(s) \in s
  BY DEF Pick
<1>2. Cardinality(s) \in Nat /\ Cardinality(s) # 0
  BY FS_CardinalityType, FS_EmptySet
<1> QED
  BY <1>1, <1>2, FS_RemoveElement

\* There are such functions: one that is right for the sets of at most n elements
\* tells what it should have been for those of n + 1.
LEMMA SumsExist ==
  ASSUME NEW w, NEW S, IsFiniteSet(S)
  PROVE  \E g : IsSums(g, w, S)
<1> DEFINE Right(g, s) == g[s] = IF s = {} THEN 0 ELSE w[Pick(s)] + g[s \ {Pick(s)}]
           Q == {n \in Nat : \E g : /\ g = [s \in SUBSET S |-> g[s]]
                                    /\ \A s \in SUBSET S : Cardinality(s) <= n => Right(g, s)}
<1>1. \A s \in SUBSET S : IsFiniteSet(s) /\ Cardinality(s) \in Nat
  BY FS_Subset, FS_CardinalityType
<1>2. 0 \in Q
  <2> DEFINE g == [s \in SUBSET S |-> 0]
  <2>1. ASSUME NEW s \in SUBSET S, Cardinality(s) <= 0 PROVE Right(g, s)
    <3>1. IsFiniteSet(s) /\ Cardinality(s) = 0
      BY <1>1, <2>1
    <3>2. s = {}
      BY <3>1, FS_EmptySet
    <3> QED
      BY <3>2
  <2>2. g = [s \in SUBSET S |-> g[s]]
    OBVIOUS
  <2> HIDE DEF g, Right
  <2> QED
    BY <2>1, <2>2
<1>3. ASSUME NEW n \in Nat, n \in Q PROVE n + 1 \in Q
  <2>1. PICK h : \A s \in SUBSET S : Cardinality(s) <= n => Right(h, s)
    BY <1>3
  <2> DEFINE v(s) == IF s = {} THEN 0 ELSE w[Pick(s)] + h[s \ {Pick(s)}]
             g == [s \in SUBSET S |-> IF Cardinality(s) <= n THEN h[s] ELSE v(s)]
  <2>2. ASSUME NEW s \in SUBSET S, Cardinality(s) <= n + 1 PROVE Right(g, s)
    <3>1. CASE s = {}
      <4>1. Cardinality({}) = 0 /\ 0 <= n
        BY FS_EmptySet
      <4> QED
        BY <2>1, <3>1, <4>1
    <3>2. CASE s # {}
      <4> DEFINE t == s \ {Pick(s)}
      <4>1. t \in SUBSET S /\ Cardinality(t) <= n
        BY <1>1, <2>2, <3>2, PickOne
      <4>2. g[t] = h[t]
        BY <4>1
      <4>3. g[s] = w[Pick(s)] + h[t]
        <5>1. CASE Cardinality(s) <= n
          BY <2>1, <3>2, <5>1
        <5>2. CASE ~(Cardinality(s) <= n)
          BY <3>2, <5>2
        <5> QED
          BY <5>1, <5>2
      <4> QED
        BY <3>2, <4>2, <4>3
    <3> QED
      BY <3>1, <3>2
  <2>3. g = [s \in SUBSET S |-> g[s]]
    OBVIOUS
  <2>4. n + 1 \in Nat
    OBVIOUS
  <2> HIDE DEF g, Right
  <2> QED
    BY <2>2, <2>3, <2>4, Zenon
<1>4. Cardinality(S) \in Q
  <2> HIDE DEF Q
  <2>1. Nat \subseteq Q
    BY <1>2, <1>3, NatSetInduction
  <2> QED
    BY <1>1, <2>1
<1>5. PICK g : /\ g = [s \in SUBSET S |-> g[s]]
               /\ \A s \in SUBSET S : Cardinality(s) <= Cardinality(S) => Right(g, s)
  BY <1>4
<1>6. \A s \in SUBSET S : Cardinality(s) <= Cardinality(S)
  BY FS_Subset
<1> QED
  BY <1>5, <1>6, SumsEquation

\* The sum over the empty set, and over any other one by picking an element.
LEMMA SumUnfolds ==
  ASSUME NEW w, NEW S, IsFiniteSet(S)
  PROVE  \E g : /\ IsSums(g, w, S)
                /\ SumFunctionOnSet(w, S) = g[S]
BY SumsExist, SumDefinition

\* Functions of that form agree on the subsets they share.
LEMMA SumsAgree ==
  ASSUME NEW w, NEW S, IsFiniteSet(S), NEW T \in SUBSET S, NEW g, NEW h,
         IsSums(g, w, S), IsSums(h, w, T)
  PROVE  g[T] = h[T]
<1> DEFINE N == {n \in Nat : \A s \in SUBSET T : Cardinality(s) = n => g[s] = h[s]}
<1>1. \A s \in SUBSET T : IsFiniteSet(s) /\ Cardinality(s) \in Nat
  BY FS_Subset, FS_CardinalityType
<1>2. \A s \in SUBSET T :
        /\ g[s] = IF s = {} THEN 0 ELSE w[Pick(s)] + g[s \ {Pick(s)}]
        /\ h[s] = IF s = {} THEN 0 ELSE w[Pick(s)] + h[s \ {Pick(s)}]
  BY SumsEquation
<1>3. 0 \in N
  <2> SUFFICES ASSUME NEW s \in SUBSET T, Cardinality(s) = 0 PROVE g[s] = h[s]
    OBVIOUS
  <2>1. s = {}
    <3>1. IsFiniteSet(s)
      BY <1>1
    <3> QED
      BY <3>1, PickOne
  <2> QED
    BY <1>2, <2>1
<1>4. ASSUME NEW n \in Nat, n \in N PROVE n + 1 \in N
  <2> SUFFICES ASSUME NEW s \in SUBSET T, Cardinality(s) = n + 1 PROVE g[s] = h[s]
    OBVIOUS
  <2>1. s # {}
    <3>1. Cardinality({}) = 0 /\ n + 1 # 0
      BY FS_EmptySet
    <3> QED
      BY <3>1
  <2>2. Cardinality(s \ {Pick(s)}) = n /\ s \ {Pick(s)} \in SUBSET T
    BY <1>1, <2>1, PickOne
  <2>3. g[s \ {Pick(s)}] = h[s \ {Pick(s)}]
    BY <1>4, <2>2
  <2> QED
    BY <1>2, <2>1, <2>3
<1> HIDE DEF N
<1>5. Nat \subseteq N
  BY <1>3, <1>4, NatSetInduction
<1> QED
  BY <1>1, <1>5 DEF N

\* The sum over no element.
LEMMA SumEmpty == ASSUME NEW w PROVE SumFunctionOnSet(w, {}) = 0
<1>1. PICK g : IsSums(g, w, {}) /\ SumFunctionOnSet(w, {}) = g[{}]
  BY FS_EmptySet, SumUnfolds
<1> QED
  BY <1>1, SumsEquation

\* The sum over a set, from the one without the element that is picked from it.
LEMMA SumPick ==
  ASSUME NEW w, NEW S, IsFiniteSet(S), S # {}
  PROVE  SumFunctionOnSet(w, S) = w[Pick(S)] + SumFunctionOnSet(w, S \ {Pick(S)})
<1> DEFINE T == S \ {Pick(S)}
<1>1. IsFiniteSet(T) /\ T \in SUBSET S
  BY FS_Subset
<1>2. PICK g : IsSums(g, w, S) /\ SumFunctionOnSet(w, S) = g[S]
  BY SumUnfolds
<1>3. PICK h : IsSums(h, w, T) /\ SumFunctionOnSet(w, T) = h[T]
  BY <1>1, SumUnfolds
<1>4. g[T] = h[T]
  <2> HIDE DEF T
  <2> QED
    BY <1>1, <1>2, <1>3, SumsAgree
<1>5. g[S] = w[Pick(S)] + g[T]
  BY <1>2, SumsEquation
<1> QED
  BY <1>2, <1>3, <1>4, <1>5

\* A sum of numbers is a number.
LEMMA SumType ==
  ASSUME NEW w, NEW S, IsFiniteSet(S), \A x \in S : w[x] \in Nat
  PROVE  SumFunctionOnSet(w, S) \in Nat
<1> DEFINE N == {n \in Nat : \A T \in SUBSET S : Cardinality(T) = n => SumFunctionOnSet(w, T) \in Nat}
<1>1. \A T \in SUBSET S : IsFiniteSet(T) /\ Cardinality(T) \in Nat
  BY FS_Subset, FS_CardinalityType
<1>2. 0 \in N
  <2> SUFFICES ASSUME NEW T \in SUBSET S, Cardinality(T) = 0 PROVE SumFunctionOnSet(w, T) \in Nat
    OBVIOUS
  <2>1. T = {}
    BY <1>1, FS_EmptySet
  <2> QED
    BY <2>1, SumEmpty
<1>3. ASSUME NEW n \in Nat, n \in N PROVE n + 1 \in N
  <2> SUFFICES ASSUME NEW T \in SUBSET S, Cardinality(T) = n + 1
               PROVE  SumFunctionOnSet(w, T) \in Nat
    OBVIOUS
  <2>1. IsFiniteSet(T) /\ T # {}
    <3>1. Cardinality({}) = 0 /\ n + 1 # 0
      BY FS_EmptySet
    <3> QED
      BY <1>1, <3>1
  <2> DEFINE U == T \ {Pick(T)}
  <2>2. U \in SUBSET S /\ Cardinality(U) = n /\ Pick(T) \in S
    <3>1. Pick(T) \in T /\ Cardinality(U) = Cardinality(T) - 1
      BY <2>1, PickOne
    <3> QED
      BY <3>1
  <2>3. SumFunctionOnSet(w, U) \in Nat /\ w[Pick(T)] \in Nat
    BY <1>3, <2>2
  <2>4. SumFunctionOnSet(w, T) = w[Pick(T)] + SumFunctionOnSet(w, U)
    BY <2>1, SumPick
  <2> QED
    BY <2>3, <2>4
<1> HIDE DEF N
<1>4. Nat \subseteq N
  BY <1>2, <1>3, NatSetInduction
<1> QED
  BY <1>1, <1>4 DEF N

\* The order in which elements are picked does not matter.
LEMMA SumAdd ==
  ASSUME NEW w, NEW S, IsFiniteSet(S), \A x \in S : w[x] \in Nat,
         NEW y, y \notin S, w[y] \in Nat
  PROVE  SumFunctionOnSet(w, S \cup {y}) = w[y] + SumFunctionOnSet(w, S)
<1> DEFINE U == S \cup {y}
           Adds(T, x) == SumFunctionOnSet(w, T \cup {x}) = w[x] + SumFunctionOnSet(w, T)
           N == {n \in Nat : \A T \in SUBSET U : \A x \in U \ T : Cardinality(T) = n => Adds(T, x)}
<1>1. IsFiniteSet(U) /\ \A x \in U : w[x] \in Nat
  BY FS_AddElement
<1>2. \A T \in SUBSET U : IsFiniteSet(T) /\ Cardinality(T) \in Nat /\ SumFunctionOnSet(w, T) \in Nat
  <2> SUFFICES ASSUME NEW T \in SUBSET U
               PROVE  IsFiniteSet(T) /\ Cardinality(T) \in Nat /\ SumFunctionOnSet(w, T) \in Nat
    OBVIOUS
  <2>1. IsFiniteSet(T) /\ \A x \in T : w[x] \in Nat
    BY <1>1, FS_Subset
  <2> QED
    BY <2>1, FS_CardinalityType, SumType
<1>3. ASSUME NEW T \in SUBSET U, NEW x \in U \ T, Pick(T \cup {x}) = x
      PROVE  Adds(T, x)
  <2>1. IsFiniteSet(T \cup {x}) /\ T \cup {x} # {} /\ (T \cup {x}) \ {x} = T
    BY <1>2, FS_AddElement
  <2> QED
    BY <1>3, <2>1, SumPick
<1>4. 0 \in N
  <2> SUFFICES ASSUME NEW T \in SUBSET U, NEW x \in U \ T, Cardinality(T) = 0 PROVE Adds(T, x)
    OBVIOUS
  <2>1. T = {}
    BY <1>2, FS_EmptySet
  <2>2. Pick(T \cup {x}) = x
    BY <2>1 DEF Pick
  <2> QED
    BY <1>3, <2>2
<1>5. ASSUME NEW n \in Nat, n \in N PROVE n + 1 \in N
  <2> SUFFICES ASSUME NEW T \in SUBSET U, NEW x \in U \ T, Cardinality(T) = n + 1 PROVE Adds(T, x)
    OBVIOUS
  <2> DEFINE z == Pick(T \cup {x})
             R == T \ {z}
  <2>1. z \in T \cup {x}
    BY DEF Pick
  <2>2. CASE z # x
    <3>1. z \in T /\ z \in U \ R /\ x \in U \ R /\ R \in SUBSET U /\ R \cup {z} = T
          /\ (T \cup {x}) \ {z} = R \cup {x}
      BY <2>1, <2>2
    <3>2. Cardinality(R) = n
      <4>1. IsFiniteSet(T)
        BY <1>2
      <4> HIDE DEF z, U, N
      <4>2. Cardinality(R) = Cardinality(T) - 1
        BY <3>1, <4>1, FS_RemoveElement
      <4> HIDE DEF R
      <4> QED
        BY <4>2
    <3>3. Adds(R, x) /\ Adds(R, z)
      BY <1>5, <3>1, <3>2
    <3>4. SumFunctionOnSet(w, T \cup {x}) = w[z] + SumFunctionOnSet(w, R \cup {x})
      <4>1. IsFiniteSet(T)
        BY <1>2
      <4>2. IsFiniteSet(T \cup {x}) /\ T \cup {x} # {}
        BY <4>1, FS_AddElement
      <4> QED
        BY <3>1, <4>2, SumPick
    <3>5. SumFunctionOnSet(w, R) \in Nat /\ w[x] \in Nat /\ w[z] \in Nat
      BY <1>1, <1>2, <3>1
    <3>6. SumFunctionOnSet(w, R \cup {x}) = w[x] + SumFunctionOnSet(w, R)
          /\ SumFunctionOnSet(w, T) = w[z] + SumFunctionOnSet(w, R)
      BY <3>1, <3>3
    <3> HIDE DEF R, z
    <3> QED
      BY <3>4, <3>5, <3>6
  <2>3. CASE z = x
    BY <1>3, <2>3
  <2> QED
    BY <2>2, <2>3
<1>6. Cardinality(S) \in N
  <2> HIDE DEF N
  <2>1. Nat \subseteq N
    BY <1>4, <1>5, NatSetInduction
  <2> QED
    BY <2>1, FS_CardinalityType
<1> QED
  BY <1>6

\* The same with the element taken away.
LEMMA SumRemove ==
  ASSUME NEW w, NEW S, IsFiniteSet(S), \A x \in S : w[x] \in Nat, NEW y \in S
  PROVE  SumFunctionOnSet(w, S) = w[y] + SumFunctionOnSet(w, S \ {y})
<1> DEFINE T == S \ {y}
<1>1. IsFiniteSet(T) /\ y \notin T /\ (\A x \in T : w[x] \in Nat) /\ w[y] \in Nat /\ T \cup {y} = S
  BY FS_RemoveElement
<1> HIDE DEF T
<1>2. SumFunctionOnSet(w, T \cup {y}) = w[y] + SumFunctionOnSet(w, T)
  BY <1>1, SumAdd
<1> QED
  BY <1>1, <1>2 DEF T

\* A function that is nowhere larger has no larger sum.
LEMMA SumMonotonic ==
  ASSUME NEW v, NEW w, NEW S, IsFiniteSet(S),
         \A x \in S : v[x] \in Nat /\ w[x] \in Nat /\ v[x] <= w[x]
  PROVE  SumFunctionOnSet(v, S) <= SumFunctionOnSet(w, S)
<1> DEFINE P == {T \in SUBSET S : SumFunctionOnSet(v, T) <= SumFunctionOnSet(w, T)}
<1>1. {} \in P
  BY SumEmpty
<1>2. ASSUME NEW T \in SUBSET S, NEW x \in S \ T, T \in P
      PROVE  T \cup {x} \in P
  <2>1. IsFiniteSet(T) /\ x \notin T /\ v[x] \in Nat /\ w[x] \in Nat /\ v[x] <= w[x]
        /\ (\A t \in T : v[t] \in Nat) /\ (\A t \in T : w[t] \in Nat)
    BY FS_Subset
  <2>2. /\ SumFunctionOnSet(v, T \cup {x}) = v[x] + SumFunctionOnSet(v, T)
        /\ SumFunctionOnSet(w, T \cup {x}) = w[x] + SumFunctionOnSet(w, T)
    BY <2>1, SumAdd
  <2>3. SumFunctionOnSet(v, T) \in Nat /\ SumFunctionOnSet(w, T) \in Nat
    BY <2>1, SumType
  <2>4. SumFunctionOnSet(v, T) <= SumFunctionOnSet(w, T)
    BY <1>2
  <2> QED
    BY <2>1, <2>2, <2>3, <2>4
<1> HIDE DEF P
<1>3. S \in P
  BY <1>1, <1>2, FiniteSetInduction
<1> QED
  BY <1>3 DEF P

\* Functions that agree on a set have the same sum over it.
LEMMA SumSame ==
  ASSUME NEW v, NEW w, NEW S, IsFiniteSet(S), \A x \in S : w[x] \in Nat /\ v[x] = w[x]
  PROVE  SumFunctionOnSet(v, S) = SumFunctionOnSet(w, S)
<1>1. SumFunctionOnSet(v, S) \in Nat /\ SumFunctionOnSet(w, S) \in Nat
  BY SumType
<1>2. (\A x \in S : v[x] <= w[x]) /\ (\A x \in S : w[x] <= v[x])
  OBVIOUS
<1> QED
  BY <1>1, <1>2, SumMonotonic

\* The sum over a subset is not larger.
LEMMA SumSubset ==
  ASSUME NEW w, NEW S, IsFiniteSet(S), \A x \in S : w[x] \in Nat, NEW R \in SUBSET S
  PROVE  SumFunctionOnSet(w, R) <= SumFunctionOnSet(w, S)
<1> DEFINE P == {T \in SUBSET S : SumFunctionOnSet(w, T \cap R) <= SumFunctionOnSet(w, T)}
<1>1. {} \in P
  <2>1. {} \cap R = {}
    OBVIOUS
  <2> QED
    BY <2>1, SumEmpty
<1>2. ASSUME NEW T \in SUBSET S, NEW x \in S \ T, T \in P
      PROVE  T \cup {x} \in P
  <2> DEFINE U == T \cap R
  <2>1. IsFiniteSet(T) /\ x \notin T /\ w[x] \in Nat /\ (\A t \in T : w[t] \in Nat)
    BY FS_Subset
  <2>2. IsFiniteSet(U) /\ x \notin U /\ (\A t \in U : w[t] \in Nat)
    BY <2>1, FS_Subset
  <2>3. SumFunctionOnSet(w, T) \in Nat /\ SumFunctionOnSet(w, U) \in Nat
    BY <2>1, <2>2, SumType
  <2>4. SumFunctionOnSet(w, U) <= SumFunctionOnSet(w, T)
    BY <1>2
  <2>5. SumFunctionOnSet(w, T \cup {x}) = w[x] + SumFunctionOnSet(w, T)
    BY <2>1, SumAdd
  <2>6. CASE x \in R
    <3>1. (T \cup {x}) \cap R = U \cup {x}
      BY <2>6
    <3> HIDE DEF U
    <3>2. SumFunctionOnSet(w, U \cup {x}) = w[x] + SumFunctionOnSet(w, U)
      BY <2>1, <2>2, SumAdd
    <3> QED
      BY <2>1, <2>3, <2>4, <2>5, <3>1, <3>2
  <2>7. CASE x \notin R
    <3>1. (T \cup {x}) \cap R = U
      BY <2>7
    <3> HIDE DEF U
    <3>2. SumFunctionOnSet(w, U) <= w[x] + SumFunctionOnSet(w, T)
      BY <2>1, <2>3, <2>4
    <3> QED
      BY <2>5, <3>1, <3>2, Zenon
  <2> QED
    BY <2>6, <2>7
<1>3. S \in P
  <2> HIDE DEF P
  <2> QED
    BY <1>1, <1>2, FiniteSetInduction
<1>4. S \cap R = R
  OBVIOUS
<1> QED
  BY <1>3, <1>4

\* A function that grows by d at one element of the set has a sum that grows by d.
LEMMA SumGrows ==
  ASSUME NEW v, NEW w, NEW S, IsFiniteSet(S), \A x \in S : w[x] \in Nat,
         NEW y \in S, NEW d \in Nat, v[y] = w[y] + d, \A x \in S \ {y} : v[x] = w[x]
  PROVE  SumFunctionOnSet(v, S) = SumFunctionOnSet(w, S) + d
<1> DEFINE T == S \ {y}
<1>1. IsFiniteSet(T) /\ (\A x \in T : w[x] \in Nat /\ v[x] = w[x]) /\ \A x \in S : v[x] \in Nat
  BY FS_RemoveElement
<1>2. SumFunctionOnSet(v, T) = SumFunctionOnSet(w, T) /\ SumFunctionOnSet(w, T) \in Nat
  <2> HIDE DEF T
  <2> QED
    BY <1>1, SumSame, SumType
<1>3. /\ SumFunctionOnSet(v, S) = v[y] + SumFunctionOnSet(v, T)
      /\ SumFunctionOnSet(w, S) = w[y] + SumFunctionOnSet(w, T)
  BY <1>1, SumRemove
<1> HIDE DEF T
<1> QED
  BY <1>2, <1>3

\* The sum of two functions.
LEMMA SumPlus ==
  ASSUME NEW u, NEW v, NEW w, NEW S, IsFiniteSet(S),
         \A x \in S : v[x] \in Nat /\ w[x] \in Nat /\ u[x] = v[x] + w[x]
  PROVE  SumFunctionOnSet(u, S) = SumFunctionOnSet(v, S) + SumFunctionOnSet(w, S)
<1> DEFINE P == {T \in SUBSET S :
                   SumFunctionOnSet(u, T) = SumFunctionOnSet(v, T) + SumFunctionOnSet(w, T)}
<1>1. {} \in P
  BY SumEmpty
<1>2. ASSUME NEW T \in SUBSET S, NEW x \in S \ T, T \in P
      PROVE  T \cup {x} \in P
  <2>1. IsFiniteSet(T) /\ x \notin T /\ v[x] \in Nat /\ w[x] \in Nat /\ u[x] \in Nat /\ u[x] = v[x] + w[x]
        /\ (\A t \in T : u[t] \in Nat) /\ (\A t \in T : v[t] \in Nat) /\ (\A t \in T : w[t] \in Nat)
    BY FS_Subset
  <2>2. /\ SumFunctionOnSet(u, T \cup {x}) = u[x] + SumFunctionOnSet(u, T)
        /\ SumFunctionOnSet(v, T \cup {x}) = v[x] + SumFunctionOnSet(v, T)
        /\ SumFunctionOnSet(w, T \cup {x}) = w[x] + SumFunctionOnSet(w, T)
    BY <2>1, SumAdd
  <2>3. SumFunctionOnSet(v, T) \in Nat /\ SumFunctionOnSet(w, T) \in Nat
    BY <2>1, SumType
  <2>4. SumFunctionOnSet(u, T) = SumFunctionOnSet(v, T) + SumFunctionOnSet(w, T)
    BY <1>2
  <2> QED
    BY <2>1, <2>2, <2>3, <2>4
<1> HIDE DEF P
<1>3. S \in P
  BY <1>1, <1>2, FiniteSetInduction
<1> QED
  BY <1>3 DEF P

\* Elements that count for nothing can be left out.
LEMMA SumWithoutZeros ==
  ASSUME NEW w, NEW S, IsFiniteSet(S), NEW R \in SUBSET S,
         \A x \in S : w[x] \in Nat, \A x \in S \ R : w[x] = 0
  PROVE  SumFunctionOnSet(w, S) = SumFunctionOnSet(w, R)
<1> DEFINE P == {T \in SUBSET S : SumFunctionOnSet(w, T) = SumFunctionOnSet(w, T \cap R)}
<1>1. {} \in P
  <2>1. {} \cap R = {}
    OBVIOUS
  <2> QED
    BY <2>1
<1>2. ASSUME NEW T \in SUBSET S, NEW x \in S \ T, T \in P
      PROVE  T \cup {x} \in P
  <2> DEFINE U == T \cap R
  <2>1. IsFiniteSet(T) /\ x \notin T /\ w[x] \in Nat /\ (\A t \in T : w[t] \in Nat)
    BY FS_Subset
  <2>2. IsFiniteSet(U) /\ x \notin U /\ (\A t \in U : w[t] \in Nat)
    BY <2>1, FS_Subset
  <2>3. SumFunctionOnSet(w, T) = SumFunctionOnSet(w, U) /\ SumFunctionOnSet(w, U) \in Nat
    BY <1>2, <2>2, SumType
  <2>4. SumFunctionOnSet(w, T \cup {x}) = w[x] + SumFunctionOnSet(w, T)
    BY <2>1, SumAdd
  <2>5. CASE x \in R
    <3>1. (T \cup {x}) \cap R = U \cup {x}
      BY <2>5
    <3> HIDE DEF U
    <3>2. SumFunctionOnSet(w, U \cup {x}) = w[x] + SumFunctionOnSet(w, U)
      BY <2>1, <2>2, SumAdd
    <3> QED
      BY <2>3, <2>4, <3>1, <3>2
  <2>6. CASE x \notin R
    <3>1. (T \cup {x}) \cap R = U /\ w[x] = 0
      BY <2>6
    <3> HIDE DEF U
    <3>2. w[x] + SumFunctionOnSet(w, T) = SumFunctionOnSet(w, U)
      BY <2>3, <3>1
    <3> QED
      BY <2>4, <3>1, <3>2
  <2> QED
    BY <2>5, <2>6
<1>3. S \in P
  <2> HIDE DEF P
  <2> QED
    BY <1>1, <1>2, FiniteSetInduction
<1>4. S \cap R = R
  OBVIOUS
<1> QED
  BY <1>3, <1>4

\* Counting is summing ones.
LEMMA SumOfOnes ==
  ASSUME NEW w, NEW S, IsFiniteSet(S), NEW R \in SUBSET S,
         \A x \in S : w[x] = IF x \in R THEN 1 ELSE 0
  PROVE  SumFunctionOnSet(w, S) = Cardinality(R)
<1> DEFINE P == {T \in SUBSET R : SumFunctionOnSet(w, T) = Cardinality(T)}
<1>0. IsFiniteSet(R)
  BY FS_Subset
<1>1. {} \in P
  BY SumEmpty, FS_EmptySet
<1>2. ASSUME NEW T \in SUBSET R, NEW x \in R \ T, T \in P
      PROVE  T \cup {x} \in P
  <2>1. IsFiniteSet(T) /\ x \notin T /\ w[x] = 1 /\ (\A t \in T : w[t] \in Nat)
    BY <1>0, FS_Subset
  <2>2. SumFunctionOnSet(w, T \cup {x}) = w[x] + SumFunctionOnSet(w, T)
    BY <2>1, SumAdd
  <2>3. Cardinality(T \cup {x}) = Cardinality(T) + 1 /\ Cardinality(T) \in Nat
    BY <2>1, FS_AddElement, FS_CardinalityType
  <2>4. SumFunctionOnSet(w, T) = Cardinality(T)
    BY <1>2
  <2> QED
    BY <2>1, <2>2, <2>3, <2>4
<1> HIDE DEF P
<1>3. R \in P
  BY <1>0, <1>1, <1>2, FiniteSetInduction
<1>4. SumFunctionOnSet(w, S) = SumFunctionOnSet(w, R)
  BY SumWithoutZeros
<1> QED
  BY <1>3, <1>4 DEF P
==============================================================================
