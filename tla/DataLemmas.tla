----------------------------- MODULE DataLemmas -----------------------------
(***************************************************************************)
(* Facts about data that the proofs of several components rest on: induction   *)
(* over the natural numbers, with a set in the place of the predicate, the sums  *)
(* over finite sets that offsets, sizes and budgets are made of, and the block   *)
(* and the place in it of a byte of a file.                                     *)
(***************************************************************************)
EXTENDS Integers, Sequences, FiniteSetsExt, Functions, FiniteSetTheorems,
        WellFoundedInduction, TLAPS

\* A non-empty set of natural numbers has a least element.
LEMMA NatLeast ==
  ASSUME NEW T \in SUBSET Nat, T # {}
  PROVE  \E m \in T : \A k \in T : m <= k
<1> DEFINE R == OpToRel(<, Nat)
<1>1. IsWellFoundedOn(R, Nat)
  BY NatLessThanWellFounded
<1>2. \A a, b \in Nat : a < b => <<a, b>> \in R
  BY DEF OpToRel
<1> HIDE DEF R
<1>3. PICK m \in T : \A y \in T : ~ (<<y, m>> \in R)
  BY <1>1, WFMin
<1>4. ASSUME NEW k \in T PROVE m <= k
  <2>1. ~(<<k, m>> \in R)
    BY <1>3
  <2>2. ~(k < m)
    BY <1>2, <2>1
  <2> QED
    BY <2>2
<1> QED
  BY <1>4

\* Induction: a set that holds 0, and with a number its successor, holds them all.
LEMMA SetInduction ==
  ASSUME NEW S, 0 \in S, \A n \in Nat : n \in S => n + 1 \in S
  PROVE  Nat \subseteq S
<1> SUFFICES ASSUME NEW x \in Nat, x \notin S PROVE FALSE
  OBVIOUS
<1> DEFINE T == {n \in Nat : n \notin S}
<1>1. PICK m \in T : \A k \in T : m <= k
  BY NatLeast
<1> QED
  BY <1>1

-----------------------------------------------------------------------------
Pick(s) == CHOOSE x \in s : TRUE

\* One step of the fold behind SumFunctionOnSet.
SumStep(f, s, g) == IF s = {} THEN 0 ELSE f[Pick(s)] + g[s \ {Pick(s)}]

IsSum(f, S, g) == g = [s \in SUBSET S |-> SumStep(f, s, g)]

\* CHOOSE picks an element of a set that has one.
LEMMA PickIn == \A s : s # {} => Pick(s) \in s
BY DEF Pick

\* The fold is well defined on finite sets.
LEMMA SumExists ==
  ASSUME NEW f, NEW S, IsFiniteSet(S)
  PROVE  \E g : IsSum(f, S, g)
<1> DEFINE Small(n) == {s \in SUBSET S : Cardinality(s) <= n}
           Sums(g, n) == g = [s \in Small(n) |-> SumStep(f, s, g)]
           P == {n \in Nat : \E g : Sums(g, n)}
<1>0. \A s \in SUBSET S : IsFiniteSet(s) /\ Cardinality(s) \in Nat
  BY FS_Subset, FS_CardinalityType
<1>1. 0 \in P
  <2> DEFINE g == [s \in Small(0) |-> 0]
  <2>1. \A s \in Small(0) : s = {}
    BY <1>0, FS_EmptySet
  <2>2. Sums(g, 0)
    BY <2>1 DEF SumStep
  <2> QED
    BY <2>2
<1>2. ASSUME NEW n \in Nat, n \in P PROVE n + 1 \in P
  <2>1. PICK g : Sums(g, n)
    BY <1>2
  <2> DEFINE h == [s \in Small(n + 1) |-> SumStep(f, s, g)]
  <2>2. \A s \in Small(n) : s \in Small(n + 1) /\ h[s] = g[s]
    BY <1>0, <2>1
  <2>3. ASSUME NEW s \in Small(n + 1) PROVE SumStep(f, s, g) = SumStep(f, s, h)
    <3>1. CASE s = {}
      BY <3>1 DEF SumStep
    <3>2. CASE s # {}
      <4>1. s \ {Pick(s)} \in Small(n)
        BY <1>0, <3>2, PickIn, FS_RemoveElement
      <4> HIDE DEF h, Small
      <4> QED
        BY <2>2, <3>2, <4>1 DEF SumStep
    <3> QED
      BY <3>1, <3>2
  <2>4. Sums(h, n + 1)
    BY <2>3
  <2>5. n + 1 \in Nat
    OBVIOUS
  <2> HIDE DEF Sums, h
  <2> QED
    BY <2>4, <2>5
<1> HIDE DEF P
<1>3. Cardinality(S) \in P
  BY <1>0, <1>1, <1>2, SetInduction
<1>4. Small(Cardinality(S)) = SUBSET S
  BY FS_Subset
<1> QED
  BY <1>3, <1>4 DEF IsSum, P

\* The folds over two sets agree where both are defined.
LEMMA SumUnique ==
  ASSUME NEW f, NEW S, NEW T, IsFiniteSet(S), T \subseteq S,
         NEW g, IsSum(f, S, g), NEW h, IsSum(f, T, h)
  PROVE  g[T] = h[T]
<1> DEFINE P == {n \in Nat : \A s \in SUBSET T : Cardinality(s) <= n => g[s] = h[s]}
<1>0. \A s \in SUBSET T : IsFiniteSet(s) /\ Cardinality(s) \in Nat /\ s \in SUBSET S
  BY FS_Subset, FS_CardinalityType
<1>1. \A s \in SUBSET T : g[s] = SumStep(f, s, g) /\ h[s] = SumStep(f, s, h)
  BY <1>0 DEF IsSum
<1>2. 0 \in P
  BY <1>0, <1>1, FS_EmptySet DEF SumStep
<1>3. ASSUME NEW n \in Nat, n \in P PROVE n + 1 \in P
  <2> SUFFICES ASSUME NEW s \in SUBSET T, Cardinality(s) <= n + 1 PROVE g[s] = h[s]
    OBVIOUS
  <2>1. CASE s = {}
    BY <1>1, <2>1 DEF SumStep
  <2>2. CASE s # {}
    <3>1. s \ {Pick(s)} \in SUBSET T /\ Cardinality(s \ {Pick(s)}) <= n
      <4>1. Cardinality(s \ {Pick(s)}) = Cardinality(s) - 1
        BY <1>0, <2>2, PickIn, FS_RemoveElement
      <4> QED
        BY <1>0, <4>1
    <3>2. g[s \ {Pick(s)}] = h[s \ {Pick(s)}]
      BY <1>3, <3>1
    <3> QED
      BY <1>1, <2>2, <3>2 DEF SumStep
  <2> QED
    BY <2>1, <2>2
<1> HIDE DEF P
<1>4. Cardinality(T) \in P
  BY <1>0, <1>2, <1>3, SetInduction
<1> QED
  BY <1>0, <1>4 DEF P

\* The library's sum over a finite set is the value at that set of a function defined by
\* recursion over its subsets.
LEMMA SumIsFold ==
  ASSUME NEW f, NEW S, IsFiniteSet(S)
  PROVE  \E g : IsSum(f, S, g) /\ SumFunctionOnSet(f, S) = g[S]
<1> DEFINE g == CHOOSE g : IsSum(f, S, g)
<1>1. IsSum(f, S, g)
  BY SumExists
<1>2. SumFunctionOnSet(f, S) = g[S]
  BY DEF SumFunctionOnSet, FoldFunctionOnSet, MapThenFoldSet, IsSum, SumStep, Pick
<1> QED
  BY <1>1, <1>2

\* The defining equations of a sum.
LEMMA SumUnfold ==
  ASSUME NEW f, NEW S, IsFiniteSet(S)
  PROVE  SumFunctionOnSet(f, S) =
           IF S = {} THEN 0 ELSE f[Pick(S)] + SumFunctionOnSet(f, S \ {Pick(S)})
<1>1. PICK g : IsSum(f, S, g) /\ SumFunctionOnSet(f, S) = g[S]
  BY SumIsFold
<1>2. g[S] = SumStep(f, S, g)
  BY <1>1 DEF IsSum
<1>3. CASE S = {}
  BY <1>1, <1>2, <1>3 DEF SumStep
<1>4. CASE S # {}
  <2> DEFINE T == S \ {Pick(S)}
  <2>1. IsFiniteSet(T) /\ T \subseteq S
    BY FS_Subset
  <2>2. PICK h : IsSum(f, T, h) /\ SumFunctionOnSet(f, T) = h[T]
    BY <2>1, SumIsFold
  <2>3. g[T] = h[T]
    BY <1>1, <2>1, <2>2, SumUnique
  <2> HIDE DEF T
  <2> QED
    BY <1>1, <1>2, <1>4, <2>2, <2>3 DEF SumStep, T
<1> QED
  BY <1>3, <1>4

\* A sum is the value at any one element and the sum over the others.
LEMMA SumRemove ==
  ASSUME NEW f, NEW S, IsFiniteSet(S), \A y \in S : f[y] \in Int, NEW x \in S
  PROVE  /\ SumFunctionOnSet(f, S) = f[x] + SumFunctionOnSet(f, S \ {x})
         /\ SumFunctionOnSet(f, S) \in Int
<1> DEFINE Sum(s) == SumFunctionOnSet(f, s)
           P == {n \in Nat : \A s \in SUBSET S : Cardinality(s) <= n =>
                   /\ Sum(s) \in Int
                   /\ \A y \in s : Sum(s) = f[y] + Sum(s \ {y})}
<1>0. \A s \in SUBSET S : IsFiniteSet(s) /\ Cardinality(s) \in Nat
  BY FS_Subset, FS_CardinalityType
<1>1. \A s \in SUBSET S : Sum(s) = IF s = {} THEN 0 ELSE f[Pick(s)] + Sum(s \ {Pick(s)})
  BY <1>0, SumUnfold
<1>2. \A s \in SUBSET S : \A y \in s : Cardinality(s \ {y}) = Cardinality(s) - 1
  BY <1>0, FS_RemoveElement
<1> HIDE DEF Sum
<1>3. 0 \in P
  BY <1>0, <1>1, FS_EmptySet
<1>4. ASSUME NEW n \in Nat, n \in P PROVE n + 1 \in P
  <2> SUFFICES ASSUME NEW s \in SUBSET S, Cardinality(s) <= n + 1
               PROVE  Sum(s) \in Int /\ \A y \in s : Sum(s) = f[y] + Sum(s \ {y})
    OBVIOUS
  <2>1. CASE s = {}
    BY <1>1, <2>1
  <2>2. CASE s # {}
    <3> DEFINE c == Pick(s)
    <3>1. c \in s /\ Sum(s) = f[c] + Sum(s \ {c})
      BY <1>1, <2>2, PickIn
    <3> HIDE DEF c
    <3>2. \A y \in s : /\ s \ {y} \in SUBSET S
                       /\ Cardinality(s \ {y}) <= n
      BY <1>0, <1>2
    <3>3. \A y \in s : /\ Sum(s \ {y}) \in Int
                       /\ \A z \in s \ {y} : Sum(s \ {y}) = f[z] + Sum((s \ {y}) \ {z})
      BY <1>4, <3>2
    <3>4. Sum(s) \in Int
      BY <3>1, <3>3
    <3>5. ASSUME NEW y \in s, y # c PROVE Sum(s) = f[y] + Sum(s \ {y})
      <4>1. (s \ {c}) \ {y} = (s \ {y}) \ {c}
        OBVIOUS
      <4> DEFINE r == Sum((s \ {y}) \ {c})
      <4>2. Sum(s \ {c}) = f[y] + r /\ Sum(s \ {y}) = f[c] + r
        BY <3>1, <3>3, <3>5, <4>1
      <4>3. f[c] \in Int /\ f[y] \in Int
        BY <3>1
      <4>4. r \in Int
        <5>1. (s \ {y}) \ {c} \in SUBSET S /\ Cardinality((s \ {y}) \ {c}) <= n
          <6>1. Cardinality((s \ {y}) \ {c}) = Cardinality(s \ {y}) - 1
            BY <1>2, <3>1, <3>2, <3>5
          <6> QED
            BY <1>0, <3>2, <6>1
        <5> QED
          BY <1>4, <5>1
      <4> HIDE DEF r
      <4> QED
        BY <3>1, <4>2, <4>3, <4>4
    <3> QED
      BY <3>1, <3>4, <3>5
  <2> QED
    BY <2>1, <2>2
<1> HIDE DEF P
<1>5. Cardinality(S) \in P
  BY <1>0, <1>3, <1>4, SetInduction
<1> QED
  BY <1>0, <1>5 DEF P, Sum

\* Sums of natural numbers are natural numbers, and functions that agree on a set
\* have the same sum over it.
LEMMA SumNat ==
  ASSUME NEW f, NEW S, IsFiniteSet(S), \A y \in S : f[y] \in Nat
  PROVE  SumFunctionOnSet(f, S) \in Nat
<1> DEFINE Sum(s) == SumFunctionOnSet(f, s)
           P == {n \in Nat : \A s \in SUBSET S : Cardinality(s) <= n => Sum(s) \in Nat}
<1>0. \A s \in SUBSET S : IsFiniteSet(s) /\ Cardinality(s) \in Nat
  BY FS_Subset, FS_CardinalityType
<1>1. \A s \in SUBSET S : Sum(s) = IF s = {} THEN 0 ELSE f[Pick(s)] + Sum(s \ {Pick(s)})
  BY <1>0, SumUnfold
<1> HIDE DEF Sum
<1>2. 0 \in P
  <2> SUFFICES ASSUME NEW s \in SUBSET S, Cardinality(s) <= 0 PROVE Sum(s) \in Nat
    OBVIOUS
  <2>1. s = {}
    BY <1>0, FS_EmptySet
  <2>2. Sum(s) = 0
    BY <1>1, <2>1
  <2> QED
    BY <2>2
<1>3. ASSUME NEW n \in Nat, n \in P PROVE n + 1 \in P
  <2> SUFFICES ASSUME NEW s \in SUBSET S, Cardinality(s) <= n + 1, s # {}
               PROVE  Sum(s) \in Nat
    BY <1>1
  <2>1. Pick(s) \in s /\ Cardinality(s \ {Pick(s)}) = Cardinality(s) - 1
    BY <1>0, PickIn, FS_RemoveElement
  <2>2. Sum(s \ {Pick(s)}) \in Nat
    <3>1. s \ {Pick(s)} \in SUBSET S /\ Cardinality(s \ {Pick(s)}) <= n
      BY <1>0, <2>1
    <3> QED
      BY <1>3, <3>1
  <2>3. f[Pick(s)] \in Nat
    BY <2>1
  <2> QED
    BY <1>1, <2>2, <2>3
<1> HIDE DEF P
<1>4. Cardinality(S) \in P
  BY <1>0, <1>2, <1>3, SetInduction
<1> QED
  BY <1>0, <1>4 DEF P, Sum

\* A sum depends on the values at the elements summed only.
LEMMA SumAgree ==
  ASSUME NEW f, NEW g, NEW S, IsFiniteSet(S), \A y \in S : f[y] = g[y]
  PROVE  SumFunctionOnSet(f, S) = SumFunctionOnSet(g, S)
<1> DEFINE F(s) == SumFunctionOnSet(f, s)
           G(s) == SumFunctionOnSet(g, s)
           P == {n \in Nat : \A s \in SUBSET S : Cardinality(s) <= n => F(s) = G(s)}
<1>0. \A s \in SUBSET S : IsFiniteSet(s) /\ Cardinality(s) \in Nat
  BY FS_Subset, FS_CardinalityType
<1>1. \A s \in SUBSET S : /\ F(s) = IF s = {} THEN 0 ELSE f[Pick(s)] + F(s \ {Pick(s)})
                          /\ G(s) = IF s = {} THEN 0 ELSE g[Pick(s)] + G(s \ {Pick(s)})
  BY <1>0, SumUnfold
<1> HIDE DEF F, G
<1>2. 0 \in P
  <2> SUFFICES ASSUME NEW s \in SUBSET S, Cardinality(s) <= 0 PROVE F(s) = G(s)
    OBVIOUS
  <2>1. s = {}
    BY <1>0, FS_EmptySet
  <2> QED
    BY <1>1, <2>1
<1>3. ASSUME NEW n \in Nat, n \in P PROVE n + 1 \in P
  <2> SUFFICES ASSUME NEW s \in SUBSET S, Cardinality(s) <= n + 1, s # {}
               PROVE  F(s) = G(s)
    BY <1>1
  <2>1. Pick(s) \in s /\ Cardinality(s \ {Pick(s)}) = Cardinality(s) - 1
    BY <1>0, PickIn, FS_RemoveElement
  <2>2. F(s \ {Pick(s)}) = G(s \ {Pick(s)})
    <3>1. s \ {Pick(s)} \in SUBSET S /\ Cardinality(s \ {Pick(s)}) <= n
      BY <1>0, <2>1
    <3> QED
      BY <1>3, <3>1
  <2>3. f[Pick(s)] = g[Pick(s)]
    BY <2>1
  <2> QED
    BY <1>1, <2>2, <2>3
<1> HIDE DEF P
<1>4. Cardinality(S) \in P
  BY <1>0, <1>2, <1>3, SetInduction
<1> QED
  BY <1>0, <1>4 DEF P, F, G

\* Summing over nothing gives 0.
LEMMA SumEmpty == \A f : SumFunctionOnSet(f, {}) = 0
<1> SUFFICES ASSUME NEW f PROVE SumFunctionOnSet(f, {}) = 0
  OBVIOUS
<1> DEFINE S == {}
<1>1. IsFiniteSet(S) /\ S = {}
  BY FS_EmptySet
<1> HIDE DEF S
<1>2. SumFunctionOnSet(f, S) = 0
  BY <1>1, SumUnfold
<1> QED
  BY <1>1, <1>2

\* A sum grows by the value of an element that is added.
LEMMA SumAdd ==
  ASSUME NEW f, NEW S, IsFiniteSet(S), NEW x, x \notin S,
         \A y \in S \cup {x} : f[y] \in Int
  PROVE  /\ SumFunctionOnSet(f, S \cup {x}) = SumFunctionOnSet(f, S) + f[x]
         /\ SumFunctionOnSet(f, S) \in Int
<1> DEFINE T == S \cup {x}
<1>1. IsFiniteSet(T) /\ x \in T /\ T \ {x} = S
  BY FS_AddElement
<1>2. SumFunctionOnSet(f, T) = f[x] + SumFunctionOnSet(f, S)
  BY <1>1, SumRemove
<1>3. SumFunctionOnSet(f, S) \in Int
  <2>1. CASE S = {}
    <3>1. SumFunctionOnSet(f, {}) = 0
      BY SumEmpty
    <3> QED
      BY <2>1, <3>1
  <2>2. CASE S # {}
    <3>1. PICK y \in S : TRUE
      BY <2>2
    <3> QED
      BY <3>1, SumRemove
  <2> QED
    BY <2>1, <2>2
<1> QED
  BY <1>2, <1>3

\* The sum over a range that is one longer.
LEMMA SumNext ==
  ASSUME NEW f, NEW a \in Int, NEW b \in Int, a <= b + 1, \A y \in a..(b + 1) : f[y] \in Int
  PROVE  /\ SumFunctionOnSet(f, a..(b + 1)) = SumFunctionOnSet(f, a..b) + f[b + 1]
         /\ SumFunctionOnSet(f, a..b) \in Int
<1> DEFINE S == a..b
           x == b + 1
<1>1. a..(b + 1) = S \cup {x} /\ x \notin S
  OBVIOUS
<1>2. IsFiniteSet(S)
  BY FS_Interval
<1>3. \A y \in S \cup {x} : f[y] \in Int
  BY <1>1
<1> HIDE DEF S, x
<1>4. /\ SumFunctionOnSet(f, S \cup {x}) = SumFunctionOnSet(f, S) + f[x]
      /\ SumFunctionOnSet(f, S) \in Int
  BY <1>1, <1>2, <1>3, SumAdd
<1> QED
  BY <1>1, <1>4 DEF S, x

\* A sum of natural numbers is at least the sum over a part of the set.
LEMMA SumMono ==
  ASSUME NEW f, NEW S, IsFiniteSet(S), \A y \in S : f[y] \in Nat, NEW T \in SUBSET S
  PROVE  SumFunctionOnSet(f, T) <= SumFunctionOnSet(f, S)
<1> DEFINE Sum(s) == SumFunctionOnSet(f, s)
           P == {n \in Nat : \A s \in SUBSET S : T \subseteq s /\ Cardinality(s \ T) <= n =>
                                                   Sum(T) <= Sum(s)}
<1>0. \A s \in SUBSET S : IsFiniteSet(s) /\ Cardinality(s) \in Nat /\ s \ T \in SUBSET S
  BY FS_Subset, FS_CardinalityType
<1>1. \A s \in SUBSET S : /\ Sum(s) \in Nat
                          /\ \A y \in s : Sum(s) = f[y] + Sum(s \ {y})
  BY <1>0, SumNat, SumRemove
<1> HIDE DEF Sum
<1>2. 0 \in P
  <2> SUFFICES ASSUME NEW s \in SUBSET S, T \subseteq s, Cardinality(s \ T) <= 0
               PROVE  Sum(T) <= Sum(s)
    OBVIOUS
  <2>1. IsFiniteSet(s \ T) /\ Cardinality(s \ T) = 0
    BY <1>0
  <2>2. s \ T = {}
    BY <2>1, FS_EmptySet
  <2>3. s = T
    BY <2>2
  <2> QED
    BY <1>1, <2>3
<1>3. ASSUME NEW n \in Nat, n \in P PROVE n + 1 \in P
  <2> SUFFICES ASSUME NEW s \in SUBSET S, T \subseteq s, Cardinality(s \ T) <= n + 1, s # T
               PROVE  Sum(T) <= Sum(s)
    BY <1>1
  <2>1. PICK y \in s \ T : TRUE
    OBVIOUS
  <2> DEFINE r == s \ {y}
  <2>2. r \in SUBSET S /\ T \subseteq r /\ r \ T = (s \ T) \ {y}
    BY <2>1
  <2>3. Cardinality(r \ T) <= n
    <3>0. IsFiniteSet(s \ T)
      BY <1>0
    <3>1. Cardinality((s \ T) \ {y}) = Cardinality(s \ T) - 1
      BY <2>1, <3>0, FS_RemoveElement
    <3>2. Cardinality(s \ T) \in Nat /\ Cardinality(r \ T) = Cardinality(s \ T) - 1
      BY <1>0, <2>2, <3>1
    <3> QED
      BY <3>1, <3>2
  <2>4. Sum(T) <= Sum(r)
    BY <1>3, <2>2, <2>3
  <2>5. Sum(s) = f[y] + Sum(r) /\ f[y] \in Nat /\ Sum(r) \in Nat /\ Sum(T) \in Nat
    BY <1>1, <2>1, <2>2
  <2> HIDE DEF r
  <2> QED
    BY <2>4, <2>5
<1> HIDE DEF P
<1>4. Cardinality(S \ T) \in P
  BY <1>0, <1>2, <1>3, SetInduction
<1> QED
  BY <1>0, <1>4 DEF P, Sum

-----------------------------------------------------------------------------
\* The empty sequence is one of any type.
LEMMA EmptyIsSeq == \A S : <<>> \in Seq(S)
OBVIOUS

\* The smaller of two integers.
LEMMA MinOf ==
  ASSUME NEW a \in Int, NEW b \in Int
  PROVE  Min({a, b}) = IF a <= b THEN a ELSE b
<1> DEFINE m == IF a <= b THEN a ELSE b
<1>1. m \in {a, b} /\ \A y \in {a, b} : m <= y
  OBVIOUS
<1>2. \A x \in {a, b} : (\A y \in {a, b} : x <= y) => x = m
  OBVIOUS
<1> HIDE DEF m
<1>3. Min({a, b}) = m
  BY <1>1, <1>2, Zenon DEF Min
<1> QED
  BY <1>3 DEF m

\* The block an offset falls into.
LEMMA DivMod ==
  ASSUME NEW b \in Nat \ {0}, NEW q \in Nat, NEW r \in 0..(b - 1)
  PROVE  /\ q * b + r \in Nat
         /\ (q * b + r) \div b = q
         /\ (q * b + r) % b = r
<1> DEFINE x == q * b + r
           e == x \div b
           f == x % b
<1>0. x \in Nat /\ q * b \in Nat
  OBVIOUS
<1>1. x = e * b + f /\ f \in 0..(b - 1) /\ e \in Int
  BY <1>0
<1>2. (e - q) * b = r - f
  BY <1>1
<1>3. e - q \in Int /\ r - f < b /\ r - f > 0 - b
  BY <1>1
<1>4. ASSUME NEW t \in Int, t * b < b, t * b > 0 - b PROVE t = 0
  <2>1. CASE t >= 1
    <3>1. t * b >= b
      BY <2>1
    <3> QED
      BY <1>4, <3>1
  <2>2. CASE t <= -1
    <3>1. t * b <= 0 - b
      BY <2>2
    <3> QED
      BY <1>4, <3>1
  <2> QED
    BY <2>1, <2>2
<1>5. e - q = 0
  BY <1>2, <1>3, <1>4
<1> HIDE DEF e, f
<1>6. e = q /\ f = r
  BY <1>1, <1>2, <1>5
<1> QED
  BY <1>0, <1>6 DEF e, f

\* Quotient and remainder.
LEMMA DivOf ==
  ASSUME NEW b \in Nat \ {0}, NEW p \in Nat
  PROVE  /\ p \div b \in Nat /\ p % b \in 0..(b - 1)
         /\ p = (p \div b) * b + (p % b)
         /\ (p \div b) * b \in Nat
OBVIOUS

\* The offsets from block l on.
LEMMA PastBlocks ==
  ASSUME NEW b \in Nat \ {0}, NEW l \in Nat, NEW p \in Nat
  PROVE  l * b \in Nat /\ (p \div b >= l <=> p >= l * b)
<1>1. PICK q \in Nat, m \in 0..(b - 1) : q = p \div b /\ p = q * b + m /\ q * b \in Nat
  BY DivOf
<1>2. q < l => q * b + b <= l * b
  <2>1. q < l => (q + 1) * b <= l * b
    OBVIOUS
  <2> QED
    BY <2>1
<1>3. q >= l => q * b >= l * b
  OBVIOUS
<1>4. l * b \in Nat
  OBVIOUS
<1> QED
  BY <1>1, <1>2, <1>3, <1>4
=============================================================================
