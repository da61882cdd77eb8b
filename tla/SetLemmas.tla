------------------------------ MODULE SetLemmas ------------------------------
(***************************************************************************)
(* What the proofs of several components need about numbers, sums and      *)
(* sorted sequences: a set of numbers has a least one, a bounded one a     *)
(* greatest; the sum that a fold computes over a finite set does not depend*)
(* on the order in which it takes the elements; and a finite set of numbers*)
(* has a sorted sequence.  Induction is over the numbers: a set with 0 and *)
(* with the successor of each of its members is Nat.                       *)
(***************************************************************************)
EXTENDS Sorting, FiniteSetsExt, FiniteSetTheorems, WellFoundedInduction, TLAPS

\* A set of natural numbers that is not empty has a least element.
LEMMA LeastExists ==
    ASSUME NEW D \in SUBSET Nat, D # {}
    PROVE  \E m \in D : \A d \in D : m <= d
<1>1. PICK m \in D : \A d \in D : <<d, m>> \notin OpToRel(<, Nat)
  BY NatLessThanWellFounded, WFMin, Zenon
<1>2. \A d \in D : ~(d < m)
  BY <1>1, Zenon DEF OpToRel
<1> QED BY <1>2

\* A set of natural numbers with a bound has a greatest element.
LEMMA GreatestExists ==
    ASSUME NEW D, NEW n \in Nat, D \subseteq 0..n, D # {}
    PROVE  \E m \in D : \A d \in D : d <= m
<1> DEFINE E == {n - d : d \in D}
<1>1. E \in SUBSET Nat /\ E # {}
  <2>1. \A d \in D : n - d \in Nat
    OBVIOUS
  <2> QED BY <2>1, Zenon
<1>2. PICK e \in E : \A x \in E : e <= x
  <2> HIDE DEF E
  <2> QED BY <1>1, LeastExists
<1>3. PICK m \in D : e = n - m
  BY <1>2
<1>4. \A d \in D : n - m <= n - d
  BY <1>2, <1>3
<1>5. \A d \in D : d <= m
  BY <1>4
<1> QED BY <1>5

\* Max and Min of a set that has them.
LEMMA MaxIsGreatest ==
    ASSUME NEW D, NEW n \in Nat, D \subseteq 0..n, D # {}
    PROVE  Max(D) \in D /\ \A d \in D : d <= Max(D)
<1>1. PICK m \in D : \A d \in D : m >= d
  BY GreatestExists
<1>2. Max(D) \in D /\ \A d \in D : Max(D) >= d
  BY <1>1 DEF Max
<1> QED BY <1>2

LEMMA MinIsLeast ==
    ASSUME NEW D \in SUBSET Nat, D # {}
    PROVE  Min(D) \in D /\ \A d \in D : Min(D) <= d
<1>1. PICK m \in D : \A d \in D : m <= d
  BY LeastExists
<1> QED BY <1>1 DEF Min

LEMMA MaxIs ==
    ASSUME NEW D \in SUBSET Nat, NEW m \in D, \A d \in D : d <= m
    PROVE  Max(D) = m
<1>1. \E x \in D : \A d \in D : x >= d
  OBVIOUS
<1>2. Max(D) \in D /\ \A d \in D : Max(D) >= d
  BY <1>1 DEF Max
<1>3. Max(D) \in Nat /\ m \in Nat /\ Max(D) >= m
  BY <1>2
<1>4. Max(D) <= m
  BY <1>2
<1> QED BY <1>3, <1>4

LEMMA MaxOfTwo ==
    ASSUME NEW x \in Int, NEW y \in Int
    PROVE  Max({x, y}) = IF x >= y THEN x ELSE y
<1>1. \E m \in {x, y} : \A d \in {x, y} : m >= d
  <2>1. CASE x >= y
    BY <2>1
  <2>2. CASE ~(x >= y)
    BY <2>2
  <2> QED BY <2>1, <2>2
<1>2. Max({x, y}) \in {x, y} /\ \A d \in {x, y} : Max({x, y}) >= d
  BY <1>1 DEF Max
<1> QED BY <1>2

\* Induction over the natural numbers, about sets.
LEMMA AllNumbers ==
    ASSUME NEW D \in SUBSET Nat, 0 \in D, \A n \in D : n + 1 \in D
    PROVE  D = Nat
<1> SUFFICES ASSUME D # Nat PROVE FALSE
  OBVIOUS
<1>1. Nat \ D \in SUBSET Nat /\ Nat \ D # {}
  OBVIOUS
<1>2. PICK m \in Nat \ D : \A d \in Nat \ D : m <= d
  BY <1>1, LeastExists
<1>3. m # 0 /\ m - 1 \in Nat
  BY <1>2
<1>4. m - 1 \in D
  BY <1>2, <1>3
<1> QED BY <1>2, <1>4

-----------------------------------------------------------------------------
(* Sums as the folds of the community modules compute them: g[s] is the sum *)
(* of v over the subset s of S, one chosen element after the other.        *)

First(s) == CHOOSE x \in s : TRUE

Adds(g, S, v) ==
    g = [s \in SUBSET S |-> IF s = {} THEN 0 ELSE v[First(s)] + g[s \ {First(s)}]]

SumOver(S, v) == (CHOOSE g : Adds(g, S, v))[S]

LEMMA FirstIsIn ==
    ASSUME NEW s, s # {}
    PROVE  First(s) \in s
BY DEF First

\* A set without one of its elements is smaller.
LEMMA OneLess ==
    ASSUME NEW S, IsFiniteSet(S), NEW s \in SUBSET S, NEW x \in s,
           NEW n \in Nat, Cardinality(s) <= n + 1
    PROVE  s \ {x} \in SUBSET S /\ Cardinality(s \ {x}) <= n
<1>1. IsFiniteSet(s)
  BY FS_Subset
<1>2. Cardinality(s) \in Nat /\ Cardinality(s \ {x}) = Cardinality(s) - 1
  BY <1>1, FS_CardinalityType, FS_RemoveElement
<1> QED BY <1>2

LEMMA SizeOfSubset ==
    ASSUME NEW S, IsFiniteSet(S), NEW s \in SUBSET S
    PROVE  /\ IsFiniteSet(s) /\ Cardinality(s) \in Nat /\ Cardinality(s) <= Cardinality(S)
           /\ Cardinality(s) = 0 <=> s = {}
<1>1. IsFiniteSet(s) /\ Cardinality(s) <= Cardinality(S)
  BY FS_Subset
<1> QED BY <1>1, FS_CardinalityType, FS_EmptySet

\* The recursion has a solution, and its values are integers.
LEMMA AddsExists ==
    ASSUME NEW S, IsFiniteSet(S), NEW v \in [S -> Int]
    PROVE  \E g \in [SUBSET S -> Int] : Adds(g, S, v)
<1> DEFINE Body(g, s) == IF s = {} THEN 0 ELSE v[First(s)] + g[s \ {First(s)}]
           Upto(g, n) == \A s \in SUBSET S : Cardinality(s) <= n => g[s] = Body(g, s)
           D == {n \in Nat : \E g \in [SUBSET S -> Int] : Upto(g, n)}
<1>1. \A s \in SUBSET S : s # {} =>
          First(s) \in s /\ v[First(s)] \in Int /\ s \ {First(s)} \in SUBSET S
  BY FirstIsIn
<1>2. 0 \in D
  <2>1. [s \in SUBSET S |-> 0] \in [SUBSET S -> Int]
    OBVIOUS
  <2>2. Upto([s \in SUBSET S |-> 0], 0)
    BY SizeOfSubset
  <2> HIDE DEF Upto
  <2> QED BY <2>1, <2>2
<1>3. \A n \in D : n + 1 \in D
  <2> TAKE n \in D
  <2>1. PICK g \in [SUBSET S -> Int] : Upto(g, n)
    OBVIOUS
  <2> DEFINE h == [s \in SUBSET S |-> Body(g, s)]
  <2>2. h \in [SUBSET S -> Int]
    BY <1>1
  <2>3. Upto(h, n + 1)
    <3> TAKE s \in SUBSET S
    <3> HAVE Cardinality(s) <= n + 1
    <3>1. CASE s = {}
      BY <3>1
    <3>2. CASE s # {}
      <4>1. s \ {First(s)} \in SUBSET S /\ Cardinality(s \ {First(s)}) <= n
        BY <1>1, <3>2, OneLess
      <4>2. g[s \ {First(s)}] = h[s \ {First(s)}]
        BY <2>1, <4>1
      <4> QED BY <3>2, <4>2
    <3> QED BY <3>1, <3>2
  <2> HIDE DEF Upto, h
  <2> QED BY <2>2, <2>3
<1>4. Cardinality(S) \in D
  <2> HIDE DEF D
  <2>1. D \in SUBSET Nat
    BY DEF D
  <2> QED BY <2>1, <1>2, <1>3, AllNumbers, FS_CardinalityType
<1>5. PICK g \in [SUBSET S -> Int] : Upto(g, Cardinality(S))
  BY <1>4
<1>6. \A s \in SUBSET S : g[s] = Body(g, s)
  BY <1>5, SizeOfSubset
<1>7. Adds(g, S, v)
  BY <1>6 DEF Adds
<1> QED BY <1>7

\* Two sums agree where what they add agrees.
LEMMA AddsAgree ==
    ASSUME NEW S, NEW T, NEW U, U \subseteq S, U \subseteq T, IsFiniteSet(U),
           NEW v, NEW w, \A x \in U : v[x] = w[x],
           NEW g, Adds(g, S, v), NEW h, Adds(h, T, w)
    PROVE  g[U] = h[U]
<1> DEFINE D == {n \in Nat : \A s \in SUBSET U : Cardinality(s) <= n => g[s] = h[s]}
<1>1. \A s \in SUBSET U :
         /\ g[s] = IF s = {} THEN 0 ELSE v[First(s)] + g[s \ {First(s)}]
         /\ h[s] = IF s = {} THEN 0 ELSE w[First(s)] + h[s \ {First(s)}]
  <2> TAKE s \in SUBSET U
  <2>1. s \in SUBSET S /\ s \in SUBSET T
    OBVIOUS
  <2> QED BY <2>1 DEF Adds
<1>2. 0 \in D
  BY <1>1, SizeOfSubset
<1>3. \A n \in D : n + 1 \in D
  <2> TAKE n \in D
  <2> SUFFICES ASSUME NEW s \in SUBSET U, Cardinality(s) <= n + 1 PROVE g[s] = h[s]
    OBVIOUS
  <2>1. CASE s = {}
    BY <1>1, <2>1
  <2>2. CASE s # {}
    <3>1. First(s) \in s /\ v[First(s)] = w[First(s)]
      BY <2>2, FirstIsIn
    <3>2. s \ {First(s)} \in SUBSET U /\ Cardinality(s \ {First(s)}) <= n
      BY <3>1, OneLess
    <3>3. g[s \ {First(s)}] = h[s \ {First(s)}]
      BY <3>2
    <3> QED BY <1>1, <2>2, <3>1, <3>3
  <2> QED BY <2>1, <2>2
<1>4. Cardinality(U) \in D
  <2>1. D \in SUBSET Nat
    OBVIOUS
  <2> HIDE DEF D
  <2> QED BY <2>1, <1>2, <1>3, AllNumbers, FS_CardinalityType
<1> QED BY <1>4, SizeOfSubset

TakesOut(g, v, s, x) == g[s] = v[x] + g[s \ {x}]

\* Any element of a set may be the first one that is added.
LEMMA AddsAny ==
    ASSUME NEW S, IsFiniteSet(S), NEW v \in [S -> Int],
           NEW g \in [SUBSET S -> Int], Adds(g, S, v),
           NEW t \in SUBSET S, NEW e \in t
    PROVE  TakesOut(g, v, t, e)
<1> DEFINE D == {n \in Nat : \A s \in SUBSET S : Cardinality(s) <= n =>
                               \A x \in s : g[s] = v[x] + g[s \ {x}]}
<1>1. \A s \in SUBSET S : s # {} => g[s] = v[First(s)] + g[s \ {First(s)}]
  BY DEF Adds
<1>2. 0 \in D
  BY SizeOfSubset
<1>3. \A n \in D : n + 1 \in D
  <2> TAKE n \in D
  <2> SUFFICES ASSUME NEW s \in SUBSET S, Cardinality(s) <= n + 1, NEW x \in s
               PROVE  g[s] = v[x] + g[s \ {x}]
    OBVIOUS
  <2> DEFINE y == First(s)
  <2>1. y \in s
    BY FirstIsIn
  <2>2. g[s] = v[y] + g[s \ {y}]
    BY <1>1
  <2> HIDE DEF y
  <2>3. CASE x = y
    BY <2>2, <2>3
  <2>4. CASE x # y
    <3>1. x \in s \ {y} /\ y \in s \ {x} /\ (s \ {y}) \ {x} = (s \ {x}) \ {y}
      BY <2>1, <2>4
    <3>2. /\ s \ {y} \in SUBSET S /\ Cardinality(s \ {y}) <= n
          /\ s \ {x} \in SUBSET S /\ Cardinality(s \ {x}) <= n
      BY <2>1, OneLess
    <3>3. g[s \ {y}] = v[x] + g[(s \ {y}) \ {x}]
      BY <3>1, <3>2
    <3>4. g[s \ {x}] = v[y] + g[(s \ {x}) \ {y}]
      BY <3>1, <3>2
    <3>5. v[x] \in Int /\ v[y] \in Int /\ g[(s \ {x}) \ {y}] \in Int
      BY <2>1
    <3>6. g[s \ {y}] = v[x] + g[(s \ {x}) \ {y}]
      BY <3>1, <3>3
    <3>7. \A i, j, k \in Int : i + (j + k) = j + (i + k)
      OBVIOUS
    <3> QED BY <2>2, <3>4, <3>5, <3>6, <3>7
  <2> QED BY <2>3, <2>4
<1>4. Cardinality(t) \in D
  <2>1. D \in SUBSET Nat
    OBVIOUS
  <2> HIDE DEF D
  <2> QED BY <2>1, <1>2, <1>3, AllNumbers, SizeOfSubset
<1> QED BY <1>4, SizeOfSubset DEF TakesOut

-----------------------------------------------------------------------------
(* The sum of v over S.                                                    *)

\* Any solution of the recursion gives the sum.
LEMMA SumIs ==
    ASSUME NEW S, IsFiniteSet(S), NEW v, NEW g, Adds(g, S, v)
    PROVE  SumOver(S, v) = g[S]
<1> DEFINE h == CHOOSE f : Adds(f, S, v)
<1>1. Adds(h, S, v)
  OBVIOUS
<1> HIDE DEF h
<1>2. h[S] = g[S]
  BY <1>1, AddsAgree
<1> QED BY <1>2 DEF SumOver, h

LEMMA SumType ==
    ASSUME NEW S, IsFiniteSet(S), NEW v \in [S -> Int]
    PROVE  SumOver(S, v) \in Int
<1>1. PICK g \in [SUBSET S -> Int] : Adds(g, S, v)
  BY AddsExists
<1> QED BY <1>1, SumIs

LEMMA SumEmpty ==
    ASSUME NEW v
    PROVE  SumOver({}, v) = 0
<1> DEFINE g == [s \in SUBSET {} |-> 0]
<1>1. Adds(g, {}, v)
  BY DEF Adds
<1> HIDE DEF g
<1>2. SumOver({}, v) = g[{}]
  BY <1>1, SumIs, FS_EmptySet
<1> QED BY <1>2 DEF g

\* An element can be taken out of the sum.
LEMMA SumSplit ==
    ASSUME NEW S, IsFiniteSet(S), NEW v \in [S -> Int], NEW x \in S,
           NEW w, \A y \in S \ {x} : w[y] = v[y]
    PROVE  SumOver(S, v) = v[x] + SumOver(S \ {x}, w)
<1>1. PICK g \in [SUBSET S -> Int] : Adds(g, S, v)
  BY AddsExists
<1>2. IsFiniteSet(S \ {x}) /\ S \ {x} \in SUBSET S
  BY FS_RemoveElement
<1> DEFINE u == [y \in S \ {x} |-> v[y]]
<1>3. u \in [S \ {x} -> Int]
  OBVIOUS
<1>4. PICK h \in [SUBSET (S \ {x}) -> Int] : Adds(h, S \ {x}, u)
  <2> HIDE DEF u
  <2> QED BY <1>2, <1>3, AddsExists
<1>5. Adds(h, S \ {x}, w)
  <2>1. \A s \in SUBSET (S \ {x}) : s # {} => u[First(s)] = w[First(s)]
    BY FirstIsIn
  <2> HIDE DEF u
  <2> QED BY <1>4, <2>1 DEF Adds
<1>6. g[S \ {x}] = h[S \ {x}]
  BY <1>1, <1>2, <1>5, AddsAgree
<1>7. g[S] = v[x] + g[S \ {x}]
  <2>1. S \in SUBSET S
    OBVIOUS
  <2>2. TakesOut(g, v, S, x)
    BY <1>1, <2>1, AddsAny
  <2> QED BY <2>2 DEF TakesOut
<1>8. SumOver(S, v) = g[S] /\ SumOver(S \ {x}, w) = h[S \ {x}]
  BY <1>1, <1>2, <1>5, SumIs
<1> QED BY <1>6, <1>7, <1>8

\* The sum depends on what is added only.
LEMMA SumSame ==
    ASSUME NEW S, IsFiniteSet(S), NEW v \in [S -> Int], NEW w, \A x \in S : w[x] = v[x]
    PROVE  SumOver(S, w) = SumOver(S, v)
<1>1. PICK g \in [SUBSET S -> Int] : Adds(g, S, v)
  BY AddsExists
<1>2. Adds(g, S, w)
  <2>1. \A s \in SUBSET S : s # {} => v[First(s)] = w[First(s)]
    BY FirstIsIn
  <2> QED BY <1>1, <2>1 DEF Adds
<1> QED BY <1>1, <1>2, SumIs

-----------------------------------------------------------------------------
(* Sorted sequences.                                                       *)

\* The greater a number is, the more numbers there are up to it.
LEMMA UpToGrows ==
    ASSUME NEW D \in SUBSET Int, IsFiniteSet(D), NEW d \in D
    PROVE  /\ Cardinality(UpTo(D, d)) \in 1..Cardinality(D)
           /\ \A e \in D : d < e => Cardinality(UpTo(D, d)) < Cardinality(UpTo(D, e))
<1>1. /\ IsFiniteSet(UpTo(D, d)) /\ Cardinality(UpTo(D, d)) \in Nat
      /\ Cardinality(UpTo(D, d)) <= Cardinality(D)
  BY FS_Subset, FS_CardinalityType DEF UpTo
<1>2. Cardinality(UpTo(D, d)) # 0
  <2>1. d \in UpTo(D, d)
    BY DEF UpTo
  <2> QED BY <1>1, <2>1, FS_EmptySet
<1>3. ASSUME NEW e \in D, d < e
      PROVE  Cardinality(UpTo(D, d)) < Cardinality(UpTo(D, e))
  <2>1. UpTo(D, d) \subseteq UpTo(D, e)
    <3>1. \A x \in D : x \in Int
      OBVIOUS
    <3>2. \A x \in D : x <= d => x <= e
      BY <1>3, <3>1
    <3> QED BY <3>2 DEF UpTo
  <2>2. e \in UpTo(D, e) /\ e \notin UpTo(D, d)
    BY <1>3 DEF UpTo
  <2>3. IsFiniteSet(UpTo(D, e)) /\ Cardinality(UpTo(D, e)) \in Nat
    BY FS_Subset, FS_CardinalityType DEF UpTo
  <2>4. /\ Cardinality(UpTo(D, d)) <= Cardinality(UpTo(D, e))
        /\ Cardinality(UpTo(D, d)) = Cardinality(UpTo(D, e)) => UpTo(D, d) = UpTo(D, e)
    BY <2>1, <2>3, FS_Subset
  <2> QED BY <1>1, <2>2, <2>3, <2>4
<1>4. Cardinality(D) \in Nat
  BY FS_CardinalityType
<1> QED BY <1>1, <1>2, <1>3, <1>4

\* Each place has its number.
LEMMA PlaceTaken ==
    ASSUME NEW D \in SUBSET Int, IsFiniteSet(D), NEW k \in 1..Cardinality(D)
    PROVE  \E d \in D : Cardinality(UpTo(D, d)) = k
<1> DEFINE n == Cardinality(D)
           f == [d \in D |-> Cardinality(UpTo(D, d))]
<1>1. n \in Nat /\ IsFiniteSet(1..n) /\ Cardinality(1..n) = n
  BY FS_CardinalityType, FS_Interval
<1>2. \A d \in D : f[d] \in 1..n
  BY UpToGrows
<1>3. \A d, e \in D : f[d] = f[e] => d = e
  <2> SUFFICES ASSUME NEW d \in D, NEW e \in D, d < e PROVE f[d] # f[e]
    OBVIOUS
  <2> QED BY UpToGrows
<1>4. f \in Injection(D, 1..n)
  BY <1>2, <1>3 DEF Injection, IsInjective
<1>5. f \in Surjection(D, 1..n)
  <2> HIDE DEF f
  <2> QED BY <1>1, <1>4, FS_Injection DEF n
<1>6. \E d \in D : f[d] = k
  BY <1>5 DEF Surjection
<1> QED BY <1>6

\* A sorted set: each of its numbers once, in ascending order.
LEMMA SortedIs ==
    ASSUME NEW D \in SUBSET Int, IsFiniteSet(D)
    PROVE  /\ Sorted(D) \in [1..Cardinality(D) -> D]
           /\ \A i, j \in 1..Cardinality(D) : i < j => Sorted(D)[i] < Sorted(D)[j]
           /\ \A d \in D : \E i \in 1..Cardinality(D) : Sorted(D)[i] = d
<1> DEFINE n == Cardinality(D)
<1>1. ASSUME NEW k \in 1..n
      PROVE  Sorted(D)[k] \in D /\ Cardinality(UpTo(D, Sorted(D)[k])) = k
  <2>1. Sorted(D)[k] = CHOOSE d \in D : Cardinality(UpTo(D, d)) = k
    BY DEF Sorted
  <2> QED BY <2>1, PlaceTaken
<1>2. Sorted(D) \in [1..n -> D]
  BY <1>1 DEF Sorted
<1>3. ASSUME NEW i \in 1..n, NEW j \in 1..n, i < j
      PROVE  Sorted(D)[i] < Sorted(D)[j]
  <2> DEFINE x == Sorted(D)[i]
             y == Sorted(D)[j]
  <2>1. x \in D /\ y \in D /\ Cardinality(UpTo(D, x)) = i /\ Cardinality(UpTo(D, y)) = j
    BY <1>1
  <2> HIDE DEF x, y
  <2>2. x # y /\ ~(y < x)
    <3>1. y < x => Cardinality(UpTo(D, y)) < Cardinality(UpTo(D, x))
      BY <2>1, UpToGrows
    <3>2. i \in Int /\ j \in Int /\ n \in Nat
      BY FS_CardinalityType
    <3> QED BY <1>3, <2>1, <3>1, <3>2
  <2>3. x < y
    BY <2>1, <2>2
  <2> QED BY <2>3 DEF x, y
<1>4. ASSUME NEW d \in D
      PROVE  \E i \in 1..n : Sorted(D)[i] = d
  <2> DEFINE k == Cardinality(UpTo(D, d))
  <2>1. k \in 1..n
    BY UpToGrows
  <2> HIDE DEF k
  <2>2. Sorted(D)[k] \in D /\ Cardinality(UpTo(D, Sorted(D)[k])) = k
    BY <1>1, <2>1
  <2>3. Sorted(D)[k] = d
    <3> DEFINE x == Sorted(D)[k]
    <3>1. x < d => Cardinality(UpTo(D, x)) < Cardinality(UpTo(D, d))
      BY <2>2, UpToGrows
    <3>2. d < x => Cardinality(UpTo(D, d)) < Cardinality(UpTo(D, x))
      BY <2>2, UpToGrows
    <3>3. Cardinality(UpTo(D, x)) = k /\ x \in Int /\ d \in Int
      BY <2>2
    <3>4. Cardinality(UpTo(D, d)) = k /\ k \in Int
      BY <2>1 DEF k
    <3> HIDE DEF x
    <3>5. x = d
      BY <3>1, <3>2, <3>3, <3>4
    <3> QED BY <3>5 DEF x
  <2> QED BY <2>1, <2>3
<1> QED BY <1>2, <1>3, <1>4

\* Of an interval, the k-th number.
LEMMA SortedInterval ==
    ASSUME NEW a \in Int, NEW b \in Int, a <= b + 1
    PROVE  /\ IsFiniteSet(a..b) /\ Cardinality(a..b) = b + 1 - a
           /\ Sorted(a..b) = [k \in 1..(b + 1 - a) |-> a + k - 1]
<1>1. \A x \in Int : IsFiniteSet(a..x) /\ Cardinality(a..x) = IF a > x THEN 0 ELSE x - a + 1
  BY FS_Interval
<1>2. IsFiniteSet(a..b) /\ Cardinality(a..b) = b + 1 - a
  BY <1>1
<1>3. ASSUME NEW d \in a..b
      PROVE  Cardinality(UpTo(a..b, d)) = d - a + 1
  <2>1. UpTo(a..b, d) = a..d
    BY DEF UpTo
  <2> QED BY <1>1, <2>1
<1>4. ASSUME NEW k \in 1..(b + 1 - a)
      PROVE  (CHOOSE d \in a..b : Cardinality(UpTo(a..b, d)) = k) = a + k - 1
  <2>1. a + k - 1 \in a..b /\ Cardinality(UpTo(a..b, a + k - 1)) = k
    <3>1. a + k - 1 \in a..b
      OBVIOUS
    <3>2. Cardinality(UpTo(a..b, a + k - 1)) = (a + k - 1) - a + 1
      BY <1>3, <3>1
    <3> QED BY <3>1, <3>2
  <2>2. \A d \in a..b : Cardinality(UpTo(a..b, d)) = k => d = a + k - 1
    BY <1>3
  <2> QED BY <2>1, <2>2
<1>5. Sorted(a..b) = [k \in 1..(b + 1 - a) |-> a + k - 1]
  BY <1>2, <1>4 DEF Sorted
<1> QED BY <1>2, <1>5

\* The k-th number has k numbers up to it, and a number is where these end.
LEMMA SortedPlace ==
    ASSUME NEW D \in SUBSET Int, IsFiniteSet(D), NEW k \in 1..Cardinality(D)
    PROVE  Sorted(D)[k] \in D /\ Cardinality(UpTo(D, Sorted(D)[k])) = k
<1>1. Sorted(D)[k] = CHOOSE d \in D : Cardinality(UpTo(D, d)) = k
  BY DEF Sorted
<1> QED BY <1>1, PlaceTaken

LEMMA SortedAt ==
    ASSUME NEW D \in SUBSET Int, IsFiniteSet(D), NEW d \in D
    PROVE  Cardinality(UpTo(D, d)) \in 1..Cardinality(D) /\ Sorted(D)[Cardinality(UpTo(D, d))] = d
<1> DEFINE k == Cardinality(UpTo(D, d))
<1>1. k \in 1..Cardinality(D)
  BY UpToGrows
<1>2. PICK i \in 1..Cardinality(D) : Sorted(D)[i] = d
  BY SortedIs
<1>3. k = i
  BY <1>2, SortedPlace
<1> HIDE DEF k
<1>4. Sorted(D)[k] = d
  BY <1>2, <1>3
<1> QED BY <1>1, <1>4 DEF k

\* The numbers up to a bound come first.
LEMMA SortedUpTo ==
    ASSUME NEW D \in SUBSET Int, IsFiniteSet(D), NEW x \in Int, NEW i \in 1..Cardinality(D)
    PROVE  /\ Cardinality(UpTo(D, x)) \in 0..Cardinality(D)
           /\ Sorted(D)[i] <= x <=> i <= Cardinality(UpTo(D, x))
<1> DEFINE d == Sorted(D)[i]
           c == Cardinality(UpTo(D, x))
<1>1. d \in D /\ Cardinality(UpTo(D, d)) = i
  BY SortedPlace
<1>2. IsFiniteSet(UpTo(D, x)) /\ c \in Nat /\ c <= Cardinality(D)
  BY FS_Subset, FS_CardinalityType DEF UpTo
<1>3. Cardinality(D) \in Nat
  BY FS_CardinalityType
<1> HIDE DEF d, c
<1>4. d <= x => i <= c
  <2> SUFFICES ASSUME d <= x PROVE i <= c
    OBVIOUS
  <2>1. d \in Int
    BY <1>1
  <2>2. UpTo(D, d) \subseteq UpTo(D, x)
    <3>1. \A e \in D : e <= d => e <= x
      BY <2>1
    <3> QED BY <3>1 DEF UpTo
  <2>3. Cardinality(UpTo(D, d)) <= Cardinality(UpTo(D, x))
    BY <1>2, <2>2, FS_Subset
  <2> QED BY <1>1, <2>3 DEF c
<1>5. ~(d <= x) => ~(i <= c)
  <2> SUFFICES ASSUME ~(d <= x) PROVE ~(i <= c)
    OBVIOUS
  <2>1. d \in Int
    BY <1>1
  <2>2. UpTo(D, x) \subseteq UpTo(D, d) /\ d \in UpTo(D, d) /\ d \notin UpTo(D, x)
    <3>1. \A e \in D : e <= x => e <= d
      BY <2>1
    <3>2. d <= d
      BY <2>1
    <3> QED BY <1>1, <3>1, <3>2 DEF UpTo
  <2>3. IsFiniteSet(UpTo(D, d)) /\ Cardinality(UpTo(D, d)) \in Nat
    BY FS_Subset, FS_CardinalityType DEF UpTo
  <2>4. Cardinality(UpTo(D, x)) <= Cardinality(UpTo(D, d))
        /\ (Cardinality(UpTo(D, x)) = Cardinality(UpTo(D, d)) => UpTo(D, x) = UpTo(D, d))
    BY <2>2, <2>3, FS_Subset
  <2>5. c <= i /\ c # i
    BY <1>1, <2>2, <2>4 DEF c
  <2> QED BY <1>2, <2>5
<1> QED BY <1>2, <1>3, <1>4, <1>5 DEF c, d

\* How many places there are up to a bound.
LEMMA PlacesUpTo ==
    ASSUME NEW D \in SUBSET Int, IsFiniteSet(D), NEW x \in Int
    PROVE  Cardinality({i \in DOMAIN Sorted(D) : Sorted(D)[i] <= x}) = Cardinality(UpTo(D, x))
<1> DEFINE c == Cardinality(UpTo(D, x))
           S == {i \in DOMAIN Sorted(D) : Sorted(D)[i] <= x}
<1>1. DOMAIN Sorted(D) = 1..Cardinality(D) /\ Cardinality(D) \in Nat
  BY FS_CardinalityType DEF Sorted
<1>2. IsFiniteSet(UpTo(D, x)) /\ c \in Nat /\ c <= Cardinality(D)
  BY FS_Subset, FS_CardinalityType DEF UpTo
<1>3. \A i \in 1..Cardinality(D) : Sorted(D)[i] <= x <=> i <= c
  BY SortedUpTo
<1> HIDE DEF c
<1>4. S = 1..c
  BY <1>1, <1>2, <1>3
<1> HIDE DEF S
<1>5. Cardinality(1..c) = c
  BY <1>2, FS_Interval
<1> QED BY <1>4, <1>5 DEF c, S

\* A set whose numbers are those of E and, all greater, those of C.
LEMMA SortedSplit ==
    ASSUME NEW E \in SUBSET Int, IsFiniteSet(E), NEW C \in SUBSET Int, IsFiniteSet(C),
           \A e \in E, c \in C : e < c
    PROVE  /\ IsFiniteSet(E \union C) /\ Cardinality(E \union C) = Cardinality(E) + Cardinality(C)
           /\ \A k \in 1..Cardinality(E) : Sorted(E \union C)[k] = Sorted(E)[k]
           /\ \A k \in 1..Cardinality(C) : Sorted(E \union C)[Cardinality(E) + k] = Sorted(C)[k]
<1> DEFINE D == E \union C
           m == Cardinality(E)
<1>1. E \intersect C = {} /\ D \in SUBSET Int
  BY SMT
<1>2. IsFiniteSet(D) /\ Cardinality(D) = m + Cardinality(C) /\ m \in Nat /\ Cardinality(C) \in Nat
  <2>1. IsFiniteSet(D) /\ Cardinality(D) = m + Cardinality(C) - Cardinality(E \intersect C)
    BY FS_Union
  <2>2. Cardinality(E \intersect C) = 0
    BY <1>1, FS_EmptySet
  <2>3. m \in Nat /\ Cardinality(C) \in Nat
    BY FS_CardinalityType
  <2> HIDE DEF D, m
  <2> QED BY <2>1, <2>2, <2>3
<1>3. ASSUME NEW k \in 1..m PROVE Sorted(D)[k] = Sorted(E)[k]
  <2> DEFINE d == Sorted(E)[k]
  <2>1. d \in E /\ Cardinality(UpTo(E, d)) = k
    BY SortedPlace
  <2> HIDE DEF d
  <2>2. UpTo(D, d) = UpTo(E, d)
    <3>1. \A c \in C : ~(c <= d)
      <4>1. \A c \in C : d < c /\ c \in Int /\ d \in Int
        BY <2>1
      <4> QED BY <4>1
    <3> QED BY <3>1 DEF UpTo
  <2>3. d \in D
    BY <2>1
  <2> HIDE DEF D
  <2>4. Sorted(D)[Cardinality(UpTo(D, d))] = d
    BY <1>1, <1>2, <2>3, SortedAt
  <2> QED BY <2>1, <2>2, <2>4 DEF d
<1>4. ASSUME NEW k \in 1..Cardinality(C) PROVE Sorted(D)[m + k] = Sorted(C)[k]
  <2> DEFINE d == Sorted(C)[k]
  <2>1. d \in C /\ Cardinality(UpTo(C, d)) = k
    BY SortedPlace
  <2> HIDE DEF d
  <2>2. UpTo(D, d) = E \union UpTo(C, d)
    <3>1. \A e \in E : e <= d
      <4>1. \A e \in E : e < d /\ e \in Int /\ d \in Int
        BY <2>1
      <4> QED BY <4>1
    <3> QED BY <3>1 DEF UpTo
  <2>3. Cardinality(UpTo(D, d)) = m + k
    <3>1. UpTo(C, d) \subseteq C
      BY DEF UpTo
    <3>2. IsFiniteSet(UpTo(C, d)) /\ E \intersect UpTo(C, d) = {}
      BY <1>1, <3>1, FS_Subset
    <3>3. Cardinality(E \union UpTo(C, d)) = m + k - Cardinality(E \intersect UpTo(C, d))
      BY <2>1, <3>2, FS_Union
    <3>4. Cardinality(E \intersect UpTo(C, d)) = 0
      BY <3>2, FS_EmptySet
    <3> HIDE DEF m
    <3> QED BY <1>2, <2>2, <3>3, <3>4
  <2>4. d \in D
    BY <2>1
  <2> HIDE DEF D
  <2>5. Sorted(D)[Cardinality(UpTo(D, d))] = d
    BY <1>1, <1>2, <2>4, SortedAt
  <2> QED BY <2>3, <2>5 DEF d
<1> QED BY <1>2, <1>3, <1>4

=============================================================================
