------------------------- MODULE RandomPrimitivesProofs -------------------------
(***************************************************************************)
(* Proofs about RandomPrimitives: the probabilities that the primitives    *)
(* give for a value are those of their draws, for all of their parameters. *)
(***************************************************************************)
EXTENDS RandomPrimitives, FiniteSetTheorems, WellFoundedInduction, TLAPS

(***************************************************************************)
(* Numbers.                                                                *)
(***************************************************************************)

\* A set of numbers has a least one: the form in which induction is used here.
LEMMA Least ==
  ASSUME NEW T \in SUBSET Nat, T # {}
  PROVE  \E x \in T : \A y \in T : x <= y
<1> DEFINE R == OpToRel(<, Nat)
<1>1. IsWellFoundedOn(R, Nat)
  BY NatLessThanWellFounded
<1>2. \A x, y \in Nat : x < y => <<x, y>> \in R
  BY DEF OpToRel
<1> HIDE DEF R
<1>3. \E x \in T : \A y \in T : <<y, x>> \notin R
  BY <1>1, WFMin, Zenon
<1>4. ASSUME NEW x \in T, \A y \in T : <<y, x>> \notin R, NEW y \in T
      PROVE  x <= y
  <2>1. x \in Nat /\ y \in Nat
    OBVIOUS
  <2>2. ~(y < x)
    BY <2>1, <1>2, <1>4, Zenon
  <2> QED
    BY <2>1, <2>2
<1> QED
  BY <1>3, <1>4

\* Induction: a set of numbers with 0 and every successor up to m.
LEMMA Induction ==
  ASSUME NEW m \in Nat, NEW T, 0 \in T, \A i \in 0..m : i # 0 /\ i - 1 \in T => i \in T
  PROVE  0..m \subseteq T
<1> SUFFICES ASSUME (0..m) \ T # {}
             PROVE  FALSE
  OBVIOUS
<1>1. PICK i \in (0..m) \ T : \A a \in (0..m) \ T : i <= a
  <2>1. (0..m) \ T \in SUBSET Nat
    OBVIOUS
  <2> QED
    BY <2>1, Least
<1> QED
  BY <1>1

LEMMA MinProperties ==
  ASSUME NEW S \in SUBSET Nat, S # {}
  PROVE  Min(S) \in S /\ \A y \in S : Min(S) <= y
BY Least DEF Min

(***************************************************************************)
(* Sums. A sum over a finite set does not depend on the order: any element *)
(* can be taken out first.                                                 *)
(***************************************************************************)

\* g sums f over the subsets of S, the smaller ones only.
Summed(f, g, s) == IF s = {} THEN 0 ELSE LET x == CHOOSE x \in s : TRUE IN f[x] + g[s \ {x}]
SumsUpTo(g, f, S, k) == g = [s \in {s \in SUBSET S : Cardinality(s) <= k} |-> Summed(f, g, s)]
SumsAll(g, f, S) == g = [s \in SUBSET S |-> Summed(f, g, s)]

LEMMA Smaller ==
  ASSUME NEW S, IsFiniteSet(S), NEW s \in SUBSET S
  PROVE  /\ Cardinality(s) \in Nat /\ Cardinality(s) <= Cardinality(S)
         /\ \A x \in s : /\ s \ {x} \in SUBSET S
                         /\ Cardinality(s \ {x}) = Cardinality(s) - 1
         /\ s # {} => (CHOOSE x \in s : TRUE) \in s /\ Cardinality(s) > 0
<1>1. IsFiniteSet(s) /\ Cardinality(s) <= Cardinality(S)
  BY FS_Subset
<1>2. Cardinality(s) \in Nat
  BY <1>1, FS_CardinalityType
<1>3. \A x \in s : Cardinality(s \ {x}) = Cardinality(s) - 1
  BY <1>1, FS_RemoveElement
<1>4. s # {} => Cardinality(s) # 0
  BY <1>1, FS_EmptySet
<1> QED
  BY <1>1, <1>2, <1>3, <1>4

LEMMA SumsExist ==
  ASSUME NEW f, NEW S, IsFiniteSet(S)
  PROVE  \E g : SumsAll(g, f, S)
<1> DEFINE n == Cardinality(S)
           Dom(k) == {s \in SUBSET S : Cardinality(s) <= k}
           T == {k \in 0..n : \E g : SumsUpTo(g, f, S, k)}
<1>1. n \in Nat
  BY FS_CardinalityType
<1>2. 0 \in T
  <2> DEFINE g == [s \in Dom(0) |-> 0]
  <2>1. \A s \in Dom(0) : s = {}
    <3> SUFFICES ASSUME NEW s \in Dom(0)
                 PROVE  s = {}
      OBVIOUS
    <3>1. s \in SUBSET S /\ Cardinality(s) <= 0
      OBVIOUS
    <3> QED
      BY <3>1, Smaller
  <2>2. \A s \in Dom(0) : Summed(f, g, s) = 0
    BY <2>1 DEF Summed
  <2>3. g = [s \in Dom(0) |-> Summed(f, g, s)]
    <3> HIDE DEF Dom
    <3> QED
      BY <2>2
  <2> HIDE DEF g
  <2>4. SumsUpTo(g, f, S, 0)
    BY <2>3, Zenon DEF SumsUpTo
  <2> QED
    BY <1>1, <2>4
<1>3. ASSUME NEW k \in 0..n, k # 0, k - 1 \in T
      PROVE  k \in T
  <2>1. PICK g : SumsUpTo(g, f, S, k - 1)
    BY <1>3
  <2>2. g = [s \in Dom(k - 1) |-> Summed(f, g, s)]
    BY <2>1, Zenon DEF SumsUpTo
  <2> DEFINE h == [s \in Dom(k) |-> Summed(f, g, s)]
  <2>3. ASSUME NEW s \in Dom(k)
        PROVE  Summed(f, g, s) = Summed(f, h, s)
    <3>1. CASE s = {}
      BY <3>1 DEF Summed
    <3>2. CASE s # {}
      <4> DEFINE x == CHOOSE x \in s : TRUE
                 r == s \ {x}
      <4>1. x \in s /\ s \in SUBSET S /\ Cardinality(s) \in Nat /\ Cardinality(s) <= k
        BY <3>2, Smaller
      <4>2. r \in SUBSET S /\ Cardinality(r) = Cardinality(s) - 1
        BY <4>1, Smaller
      <4>3. r \in Dom(k - 1) /\ r \in Dom(k)
        BY <1>1, <4>1, <4>2
      <4>4. g[r] = Summed(f, g, r)
        <5> HIDE DEF Dom, r
        <5> QED
          BY <2>2, <4>3
      <4>5. h[r] = Summed(f, g, r)
        <5> HIDE DEF Dom, r
        <5> QED
          BY <4>3
      <4>6. g[r] = h[r]
        BY <4>4, <4>5
      <4> HIDE DEF h
      <4>7. Summed(f, g, s) = f[x] + g[r] /\ Summed(f, h, s) = f[x] + h[r]
        BY <3>2, Zenon DEF Summed
      <4> QED
        BY <4>6, <4>7
    <3> QED
      BY <3>1, <3>2
  <2>4. h = [s \in Dom(k) |-> Summed(f, h, s)]
    <3> HIDE DEF Dom
    <3>1. \A s \in Dom(k) : Summed(f, g, s) = Summed(f, h, s)
      BY <2>3
    <3> QED
      BY <3>1
  <2> HIDE DEF h
  <2>5. SumsUpTo(h, f, S, k)
    BY <2>4, Zenon DEF SumsUpTo
  <2> QED
    BY <2>5
<1> HIDE DEF T
<1>4. 0..n \subseteq T
  BY <1>1, <1>2, <1>3, Induction
<1>5. PICK g : SumsUpTo(g, f, S, n)
  BY <1>1, <1>4 DEF T
<1>6. g = [s \in Dom(n) |-> Summed(f, g, s)]
  BY <1>5, Zenon DEF SumsUpTo
<1>7. Dom(n) = SUBSET S
  BY Smaller
<1> HIDE DEF Dom
<1>8. g = [s \in SUBSET S |-> Summed(f, g, s)]
  BY <1>6, <1>7
<1>9. SumsAll(g, f, S)
  BY <1>8, Zenon DEF SumsAll
<1> QED
  BY <1>9

LEMMA SumIs ==
  ASSUME NEW f, NEW S, IsFiniteSet(S)
  PROVE  \E g : SumsAll(g, f, S) /\ SumFunctionOnSet(f, S) = g[S]
<1> DEFINE Is(g) == g = [s \in SUBSET S |->
                           IF s = {} THEN 0
                           ELSE LET x == CHOOSE x \in s : TRUE IN f[x] + g[s \ {x}]]
           c == CHOOSE g : Is(g)
<1>1. SumFunctionOnSet(f, S) = c[S]
  BY Zenon DEF SumFunctionOnSet, FoldFunctionOnSet, MapThenFoldSet
<1>2. PICK g : SumsAll(g, f, S)
  BY SumsExist
<1>3. Is(g)
  BY <1>2, Zenon DEF SumsAll, Summed
<1>4. Is(c)
  <2> HIDE DEF Is
  <2> QED
    BY <1>3
<1>5. SumsAll(c, f, S)
  BY <1>4, Zenon DEF SumsAll, Summed
<1> HIDE DEF c
<1> QED
  BY <1>1, <1>5

\* Two sums agree on what both are of.
Agree(g, h, R) == \A s \in SUBSET R : g[s] = h[s]

LEMMA SumsAgree ==
  ASSUME NEW f, NEW S, NEW R, NEW g, NEW h,
         IsFiniteSet(S), R \in SUBSET S, SumsAll(g, f, S), SumsAll(h, f, R)
  PROVE  Agree(g, h, R)
<1> DEFINE n == Cardinality(S)
           T == {k \in 0..n : \A s \in SUBSET R : Cardinality(s) = k => g[s] = h[s]}
<1>1. n \in Nat
  BY FS_CardinalityType
<1>2. \A s \in SUBSET R : g[s] = Summed(f, g, s) /\ h[s] = Summed(f, h, s)
  BY DEF SumsAll
<1>3. 0 \in T
  <2> SUFFICES ASSUME NEW s \in SUBSET R, Cardinality(s) = 0
               PROVE  g[s] = h[s]
    BY <1>1
  <2>1. s = {}
    BY Smaller
  <2>2. Summed(f, g, s) = Summed(f, h, s)
    BY <2>1 DEF Summed
  <2> QED
    BY <1>2, <2>2
<1>4. ASSUME NEW k \in 0..n, k # 0, k - 1 \in T
      PROVE  k \in T
  <2> SUFFICES ASSUME NEW s \in SUBSET R, Cardinality(s) = k
               PROVE  g[s] = h[s]
    OBVIOUS
  <2> DEFINE x == CHOOSE x \in s : TRUE
             r == s \ {x}
  <2>1. s # {}
    BY <1>4, FS_EmptySet
  <2>2. r \in SUBSET R /\ Cardinality(r) = k - 1
    <3>1. s \in SUBSET S
      OBVIOUS
    <3> QED
      BY <2>1, <3>1, Smaller
  <2>3. g[r] = h[r]
    <3> HIDE DEF r
    <3> QED
      BY <1>4, <2>2
  <2>4. Summed(f, g, s) = f[x] + g[r] /\ Summed(f, h, s) = f[x] + h[r]
    BY <2>1, Zenon DEF Summed
  <2> QED
    BY <1>2, <2>3, <2>4
<1> HIDE DEF T
<1>5. 0..n \subseteq T
  BY <1>1, <1>3, <1>4, Induction
<1> SUFFICES ASSUME NEW s \in SUBSET R
             PROVE  g[s] = h[s]
  BY DEF Agree
<1>6. Cardinality(s) \in 0..n
  <2>1. s \in SUBSET S
    OBVIOUS
  <2> QED
    BY <1>1, <2>1, Smaller
<1> QED
  BY <1>5, <1>6 DEF T

TakesOut(g, f, S) == \A s \in SUBSET S : g[s] \in Nat /\ \A x \in s : g[s] = f[x] + g[s \ {x}]

LEMMA SumsTakeOut ==
  ASSUME NEW f, NEW S, NEW g, IsFiniteSet(S), \A x \in S : f[x] \in Nat, SumsAll(g, f, S)
  PROVE  TakesOut(g, f, S)
<1> DEFINE n == Cardinality(S)
           OK(s) == g[s] \in Nat /\ \A x \in s : g[s] = f[x] + g[s \ {x}]
           T == {k \in 0..n : \A s \in SUBSET S : Cardinality(s) <= k => OK(s)}
<1>1. n \in Nat
  BY FS_CardinalityType
<1>2. \A s \in SUBSET S : g[s] = Summed(f, g, s)
  BY DEF SumsAll
<1>3. 0 \in T
  <2> SUFFICES ASSUME NEW s \in SUBSET S, Cardinality(s) <= 0
               PROVE  OK(s)
    BY <1>1
  <2>1. s = {}
    BY Smaller
  <2>2. g[s] = 0
    BY <1>2, <2>1 DEF Summed
  <2> QED
    BY <2>1, <2>2
<1>4. ASSUME NEW k \in 0..n, k # 0, k - 1 \in T
      PROVE  k \in T
  <2> SUFFICES ASSUME NEW s \in SUBSET S, Cardinality(s) <= k, s # {}
               PROVE  OK(s)
    <3>1. OK({})
      BY <1>2 DEF Summed
    <3> QED
      BY <3>1
  <2> DEFINE c == CHOOSE x \in s : TRUE
  <2>1. k \in Nat /\ Cardinality(s) \in Nat
    BY <1>1, Smaller
  <2>2. c \in s
    OBVIOUS
  <2>3. g[s] = f[c] + g[s \ {c}]
    BY <1>2 DEF Summed
  <2> HIDE DEF c
  <2>4. ASSUME NEW x \in s
        PROVE  OK(s \ {x})
    <3> DEFINE r == s \ {x}
    <3>1. r \in SUBSET S /\ Cardinality(r) <= k - 1
      BY <2>1, Smaller
    <3> HIDE DEF r, OK
    <3>2. OK(r)
      BY <1>4, <3>1
    <3> QED
      BY <3>2 DEF r
  <2>5. ASSUME NEW x \in s
        PROVE  g[s] = f[x] + g[s \ {x}]
    <3>1. CASE x = c
      BY <2>3, <3>1
    <3>2. CASE x # c
      <4>1. x \in s \ {c} /\ c \in s \ {x} /\ (s \ {c}) \ {x} = (s \ {x}) \ {c}
        BY <2>2, <3>2
      <4>2. g[s \ {c}] = f[x] + g[(s \ {c}) \ {x}] /\ g[s \ {x}] = f[c] + g[(s \ {x}) \ {c}]
        BY <2>2, <2>4, <4>1
      <4>3. g[(s \ {x}) \ {c}] \in Nat
        <5> DEFINE q == (s \ {x}) \ {c}
        <5>1. s \ {x} \in SUBSET S /\ Cardinality(s \ {x}) = Cardinality(s) - 1
          BY Smaller
        <5>2. q \in SUBSET S /\ Cardinality(q) = Cardinality(s \ {x}) - 1
          <6> DEFINE r == s \ {x}
          <6>1. c \in r /\ r \in SUBSET S
            BY <4>1, <5>1
          <6> HIDE DEF r
          <6>2. r \ {c} \in SUBSET S /\ Cardinality(r \ {c}) = Cardinality(r) - 1
            BY <6>1, Smaller
          <6> QED
            BY <6>2 DEF r
        <5>3. Cardinality(q) <= k - 1
          BY <2>1, <5>1, <5>2
        <5> HIDE DEF q, OK
        <5>4. OK(q)
          BY <1>4, <5>2, <5>3
        <5> QED
          BY <5>4 DEF OK, q
      <4>4. f[x] \in Nat /\ f[c] \in Nat
        BY <2>2
      <4> QED
        <5> DEFINE a == g[s \ {c}]
                   b == g[s \ {x}]
                   d == g[(s \ {x}) \ {c}]
        <5>1. a = f[x] + d
          BY <4>1, <4>2, Zenon
        <5>2. b = f[c] + d /\ d \in Nat /\ g[s] = f[c] + a
          BY <2>3, <4>2, <4>3
        <5> HIDE DEF a, b, d
        <5>3. g[s] = f[x] + b
          BY <4>4, <5>1, <5>2
        <5> QED
          BY <5>3 DEF b
    <3> QED
      BY <3>1, <3>2
  <2>6. g[s] \in Nat
    <3>1. f[c] \in Nat
      BY <2>2
    <3>2. g[s \ {c}] \in Nat
      BY <2>2, <2>4
    <3> QED
      BY <2>3, <3>1, <3>2
  <2> QED
    BY <2>5, <2>6
<1> HIDE DEF T, OK
<1>5. 0..n \subseteq T
  BY <1>1, <1>3, <1>4, Induction
<1>6. \A s \in SUBSET S : OK(s)
  BY <1>1, <1>5, Smaller DEF T
<1> QED
  BY <1>6 DEF OK, TakesOut

\* The sum of the first k.
Prefix(theta, k) == SumFunctionOnSet(theta, 1..k)

LEMMA PrefixSums ==
  ASSUME NEW theta \in Seq(Nat)
  PROVE  /\ SumFunction(theta) = Prefix(theta, Len(theta))
         /\ Prefix(theta, 0) = 0
         /\ \A k \in 0..Len(theta) : Prefix(theta, k) \in Nat
         /\ \A k \in 1..Len(theta) : Prefix(theta, k) = Prefix(theta, k - 1) + theta[k]
<1> DEFINE n == Len(theta)
<1>1. n \in Nat /\ DOMAIN theta = 1..n /\ \A k \in 1..n : theta[k] \in Nat
  OBVIOUS
<1>2. SumFunction(theta) = Prefix(theta, n)
  BY <1>1 DEF SumFunction, Prefix
<1>3. IsFiniteSet(1..n)
  BY <1>1, FS_Interval
<1>4. PICK g : SumsAll(g, theta, 1..n)
  BY <1>3, SumsExist
<1>5. \A k \in 0..n : Prefix(theta, k) = g[1..k]
  <2> SUFFICES ASSUME NEW k \in 0..n
               PROVE  Prefix(theta, k) = g[1..k]
    OBVIOUS
  <2>1. 1..k \in SUBSET (1..n) /\ k \in Nat
    BY <1>1
  <2>2. IsFiniteSet(1..k)
    BY <2>1, FS_Interval
  <2>3. PICK h : SumsAll(h, theta, 1..k) /\ Prefix(theta, k) = h[1..k]
    BY <2>2, SumIs DEF Prefix
  <2>4. \A s \in SUBSET (1..k) : g[s] = h[s]
    <3> DEFINE S == 1..n
               R == 1..k
    <3>1. IsFiniteSet(S) /\ R \in SUBSET S /\ SumsAll(g, theta, S) /\ SumsAll(h, theta, R)
      BY <1>3, <1>4, <2>1, <2>3
    <3> HIDE DEF S, R
    <3>2. Agree(g, h, R)
      BY <3>1, SumsAgree
    <3> QED
      BY <3>2 DEF R, Agree
  <2> QED
    BY <2>3, <2>4
<1>6. \A s \in SUBSET (1..n) : g[s] \in Nat /\ \A x \in s : g[s] = theta[x] + g[s \ {x}]
  <2> DEFINE S == 1..n
  <2>1. IsFiniteSet(S) /\ SumsAll(g, theta, S) /\ \A x \in S : theta[x] \in Nat
    BY <1>1, <1>3, <1>4
  <2> HIDE DEF S
  <2>2. TakesOut(g, theta, S)
    BY <2>1, SumsTakeOut
  <2> QED
    BY <2>2 DEF S, TakesOut
<1>7. \A k \in 0..n : 1..k \in SUBSET (1..n)
  BY <1>1
<1>8. \A k \in 0..n : Prefix(theta, k) \in Nat
  BY <1>5, <1>6, <1>7
<1>9. Prefix(theta, 0) = 0
  <2>1. 1..0 = {} /\ 0 \in 0..n
    BY <1>1
  <2>2. Prefix(theta, 0) = g[{}]
    BY <1>5, <2>1
  <2>3. g[{}] = 0
    BY <1>4 DEF SumsAll, Summed
  <2> QED
    BY <2>2, <2>3
<1>10. \A k \in 1..n : Prefix(theta, k) = Prefix(theta, k - 1) + theta[k]
  <2> SUFFICES ASSUME NEW k \in 1..n
               PROVE  Prefix(theta, k) = Prefix(theta, k - 1) + theta[k]
    OBVIOUS
  <2>1. k \in 0..n /\ k - 1 \in 0..n /\ k \in 1..k /\ (1..k) \ {k} = 1..(k - 1)
    BY <1>1
  <2>2. g[1..k] = theta[k] + g[(1..k) \ {k}]
    BY <1>6, <1>7, <2>1
  <2>3. g[(1..k) \ {k}] = g[1..(k - 1)]
    BY <2>1
  <2>4. Prefix(theta, k) = g[1..k] /\ Prefix(theta, k - 1) = g[1..(k - 1)]
    BY <1>5, <2>1
  <2>5. Prefix(theta, k - 1) \in Nat /\ theta[k] \in Nat
    BY <1>1, <1>8, <2>1
  <2> QED
    BY <2>2, <2>3, <2>4, <2>5
<1> QED
  BY <1>2, <1>8, <1>9, <1>10

LEMMA PrefixGrows ==
  ASSUME NEW theta \in Seq(Nat), NEW l \in 0..Len(theta)
  PROVE  \A k \in 0..l : Prefix(theta, k) <= Prefix(theta, l)
<1> DEFINE P(k) == Prefix(theta, k)
           T == {m \in 0..Len(theta) : \A k \in 0..m : P(k) <= P(m)}
<1>1. Len(theta) \in Nat /\ \A k \in 1..Len(theta) : theta[k] \in Nat
  OBVIOUS
<1>2. \A k \in 0..Len(theta) : P(k) \in Nat
  BY PrefixSums
<1>3. \A k \in 1..Len(theta) : P(k) = P(k - 1) + theta[k]
  BY PrefixSums
<1> HIDE DEF P
<1>4. 0 \in T
  BY <1>1, <1>2
<1>5. ASSUME NEW m \in 0..Len(theta), m # 0, m - 1 \in T
      PROVE  m \in T
  <2> SUFFICES ASSUME NEW k \in 0..m
               PROVE  P(k) <= P(m)
    OBVIOUS
  <2>1. m \in 1..Len(theta) /\ m - 1 \in 0..Len(theta) /\ k \in 0..Len(theta)
    BY <1>1, <1>5
  <2>2. P(m) = P(m - 1) + theta[m] /\ P(m - 1) \in Nat /\ theta[m] \in Nat /\ P(k) \in Nat
    BY <1>1, <1>2, <1>3, <2>1
  <2>3. CASE k = m
    BY <2>2, <2>3
  <2>4. CASE k # m
    <3>1. k \in 0..(m - 1)
      BY <1>1, <2>4
    <3>2. P(k) <= P(m - 1)
      BY <1>5, <3>1
    <3> QED
      BY <2>2, <3>2
  <2> QED
    BY <2>3, <2>4
<1> HIDE DEF T
<1>6. 0..Len(theta) \subseteq T
  BY <1>1, <1>4, <1>5, Induction
<1> QED
  BY <1>6 DEF T, P

(***************************************************************************)
(* multinomial_sample.                                                     *)
(***************************************************************************)

LEMMA LoopEndsIs ==
  ASSUME NEW theta \in Seq(Nat), NEW x
  PROVE  LoopEnds(theta, x) =
           Min({r \in 1..Len(theta) + 1 : r > Len(theta) \/ x <= Epsilon + Unit * Prefix(theta, r - 1)})
<1> DEFINE n == Len(theta)
           On(g, r) == IF r = 1 THEN Epsilon ELSE g[r - 1] + Unit * theta[r - 1]
           Is(g) == g = [result \in 1..n + 1 |->
                           IF result = 1 THEN Epsilon ELSE g[result - 1] + Unit * theta[result - 1]]
           acc == CHOOSE g : Is(g)
           p == [r \in 1..n + 1 |-> Epsilon + Unit * Prefix(theta, r - 1)]
<1>1. n \in Nat /\ \A k \in 1..n : theta[k] \in Nat
  OBVIOUS
<1>2. /\ Prefix(theta, 0) = 0
      /\ \A k \in 0..n : Prefix(theta, k) \in Nat
      /\ \A k \in 1..n : Prefix(theta, k) = Prefix(theta, k - 1) + theta[k]
  BY PrefixSums
<1>3. LoopEnds(theta, x) = Min({result \in 1..n + 1 : result > n \/ x <= acc[result]})
  BY Zenon DEF LoopEnds
<1>4. \A r \in 1..n + 1 : p[r] = On(p, r)
  <2> SUFFICES ASSUME NEW r \in 1..n + 1
               PROVE  p[r] = On(p, r)
    OBVIOUS
  <2>1. CASE r = 1
    BY <1>1, <1>2, <2>1 DEF Unit, Epsilon
  <2>2. CASE r # 1
    <3>1. r - 1 \in 1..n /\ r - 1 \in 0..n /\ (r - 1) - 1 \in 0..n /\ r - 1 \in 1..n + 1
      BY <1>1, <2>2
    <3>2. Prefix(theta, r - 1) = Prefix(theta, (r - 1) - 1) + theta[r - 1]
      BY <1>2, <3>1
    <3>3. p[r - 1] = Epsilon + Unit * Prefix(theta, (r - 1) - 1) /\ p[r] = Epsilon + Unit * Prefix(theta, r - 1)
      BY <3>1
    <3>4. Prefix(theta, (r - 1) - 1) \in Nat /\ theta[r - 1] \in Nat
      BY <1>1, <1>2, <3>1
    <3> HIDE DEF p
    <3>5. p[r] = p[r - 1] + Unit * theta[r - 1]
      <4> DEFINE a == Prefix(theta, (r - 1) - 1)
                 b == theta[r - 1]
      <4>1. a \in Nat /\ b \in Nat
        BY <3>4
      <4>2. p[r - 1] = Epsilon + Unit * a /\ p[r] = Epsilon + Unit * (a + b)
        BY <3>2, <3>3, Zenon
      <4> HIDE DEF a, b
      <4>3. Epsilon + Unit * (a + b) = (Epsilon + Unit * a) + Unit * b
        BY <4>1 DEF Unit, Epsilon
      <4>4. p[r] = p[r - 1] + Unit * b
        BY <4>2, <4>3, Zenon
      <4> QED
        BY <4>4 DEF b
    <3> QED
      BY <2>2, <3>5
  <2> QED
    BY <2>1, <2>2
<1>5. Is(p)
  <2>1. p = [r \in 1..n + 1 |-> p[r]]
    OBVIOUS
  <2> HIDE DEF p
  <2> QED
    BY <1>4, <2>1
<1>6. Is(acc)
  <2> HIDE DEF Is, p
  <2> QED
    BY <1>5
<1>7. \A r \in 1..n + 1 : acc[r] = On(acc, r)
  <2> HIDE DEF acc
  <2> QED
    BY <1>6
<1> HIDE DEF acc, p, Is
<1> DEFINE T == {m \in 0..n : acc[m + 1] = p[m + 1]}
<1>8. 0 \in T
  <2>1. 1 \in 1..n + 1 /\ 0 \in 0..n
    BY <1>1
  <2> QED
    BY <1>4, <1>7, <2>1
<1>9. ASSUME NEW m \in 0..n, m # 0, m - 1 \in T
      PROVE  m \in T
  <2>1. m + 1 \in 1..n + 1 /\ m + 1 # 1 /\ (m + 1) - 1 = m /\ (m - 1) + 1 = m
    BY <1>1, <1>9
  <2>2. acc[m] = p[m]
    BY <1>9, <2>1
  <2>3. acc[m + 1] = acc[m] + Unit * theta[m] /\ p[m + 1] = p[m] + Unit * theta[m]
    BY <1>4, <1>7, <2>1
  <2> QED
    BY <1>9, <2>2, <2>3
<1> HIDE DEF T
<1>10. 0..n \subseteq T
  BY <1>1, <1>8, <1>9, Induction
<1>11. \A r \in 1..n + 1 : acc[r] = Epsilon + Unit * Prefix(theta, r - 1)
  <2> SUFFICES ASSUME NEW r \in 1..n + 1
               PROVE  acc[r] = Epsilon + Unit * Prefix(theta, r - 1)
    OBVIOUS
  <2>1. r - 1 \in T /\ (r - 1) + 1 = r
    BY <1>1, <1>10
  <2> QED
    BY <2>1 DEF T, p
<1>12. {r \in 1..n + 1 : r > n \/ x <= acc[r]}
         = {r \in 1..n + 1 : r > n \/ x <= Epsilon + Unit * Prefix(theta, r - 1)}
  BY <1>11
<1> QED
  BY <1>3, <1>12

\* A draw of quarters that is the middle of weight j: the outcome is the one whose
\* weights reach beyond j.
LEMMA SampleIs ==
  ASSUME NEW theta \in Seq(Nat), NEW j \in 0..SumFunction(theta) - 1
  PROVE  LET v == MultinomialSample(theta, Unit * j + 2)
         IN  v \in 1..Len(theta) /\ Prefix(theta, v - 1) <= j /\ j < Prefix(theta, v)
<1> DEFINE n == Len(theta)
           x == Unit * j + 2
           S == {r \in 1..n + 1 : r > n \/ x <= Epsilon + Unit * Prefix(theta, r - 1)}
<1>1. n \in Nat
  OBVIOUS
<1>2. /\ SumFunction(theta) = Prefix(theta, n) /\ Prefix(theta, 0) = 0
      /\ \A k \in 0..n : Prefix(theta, k) \in Nat
  BY PrefixSums
<1>3. j \in Nat /\ j < Prefix(theta, n)
  <2>1. Prefix(theta, n) \in Nat
    BY <1>1, <1>2
  <2> QED
    BY <1>2, <2>1
<1>4. LoopEnds(theta, x) = Min(S)
  BY LoopEndsIs
<1>5. S \in SUBSET Nat /\ n + 1 \in S
  BY <1>1
<1> DEFINE m == Min(S)
<1>6. m \in S /\ \A y \in S : m <= y
  <2> HIDE DEF S
  <2> QED
    BY <1>5, MinProperties
<1>7. \A r \in 1..n + 1 : r \in S <=> r > n \/ j < Prefix(theta, r - 1)
  <2> SUFFICES ASSUME NEW r \in 1..n + 1
               PROVE  r \in S <=> r > n \/ j < Prefix(theta, r - 1)
    OBVIOUS
  <2>1. r - 1 \in 0..n
    BY <1>1
  <2>2. Prefix(theta, r - 1) \in Nat
    BY <1>2, <2>1
  <2>3. x <= Epsilon + Unit * Prefix(theta, r - 1) <=> j < Prefix(theta, r - 1)
    BY <1>3, <2>2 DEF Unit, Epsilon
  <2> QED
    BY <2>3
<1>8. m \in 1..n + 1
  BY <1>6
<1> HIDE DEF S, m
<1> DEFINE v == m - 1
<1>9. v = MultinomialSample(theta, x)
  BY <1>4 DEF MultinomialSample, m
<1>10. v \in 0..n /\ v + 1 = m
  BY <1>1, <1>8
<1> HIDE DEF v
<1>11. j < Prefix(theta, v)
  <2>1. m > n \/ j < Prefix(theta, m - 1)
    BY <1>6, <1>7, <1>8
  <2>2. m > n => v = n
    BY <1>1, <1>10
  <2>3. m - 1 = v
    BY <1>10
  <2> QED
    BY <1>3, <2>1, <2>2, <2>3
<1>12. v # 0
  BY <1>2, <1>3, <1>11
<1>13. v \in 1..n
  BY <1>1, <1>10, <1>12
<1>14. Prefix(theta, v - 1) <= j
  <2>1. v \in 1..n + 1 /\ v - 1 \in 0..n /\ v < m /\ v <= n
    BY <1>1, <1>10, <1>13
  <2>2. v \notin S
    <3>1. v \in S => m <= v
      BY <1>6
    <3>2. m \in Nat /\ v \in Nat
      BY <1>1, <1>8, <1>10
    <3> QED
      BY <2>1, <3>1, <3>2
  <2>3. ~(j < Prefix(theta, v - 1))
    BY <1>7, <2>1, <2>2
  <2>4. Prefix(theta, v - 1) \in Nat
    BY <1>2, <2>1
  <2> QED
    BY <1>3, <2>3, <2>4
<1> QED
  BY <1>9, <1>11, <1>13, <1>14

\* A draw below the initial probAccum gives no outcome.
LEMMA SampleOfNothing == ASSUME NEW theta \in Seq(Nat) PROVE MultinomialSample(theta, 0) = 0
<1> DEFINE n == Len(theta)
           S == {r \in 1..n + 1 : r > n \/ 0 <= Epsilon + Unit * Prefix(theta, r - 1)}
<1>1. n \in Nat /\ Prefix(theta, 0) = 0
  BY PrefixSums
<1>2. S \in SUBSET Nat /\ 1 \in S
  BY <1>1 DEF Epsilon, Unit
<1>3. LoopEnds(theta, 0) = Min(S)
  BY LoopEndsIs
<1>4. \A y \in S : 1 <= y
  BY <1>1
<1> DEFINE m == Min(S)
<1> HIDE DEF S
<1>5. m \in S /\ m <= 1
  BY <1>2, MinProperties
<1>6. m \in Nat /\ 1 <= m
  BY <1>2, <1>4, <1>5
<1> HIDE DEF m
<1>7. m = 1
  BY <1>5, <1>6
<1> QED
  BY <1>3, <1>7 DEF MultinomialSample, m

\* A set that is in one-to-one correspondence with an interval.
LEMMA Corresponds ==
  ASSUME NEW S, NEW T, NEW f, IsFiniteSet(S), f \in [S -> T],
         \A a, b \in S : f[a] = f[b] => a = b,
         \A y \in T : \E x \in S : f[x] = y
  PROVE  IsFiniteSet(T) /\ Cardinality(T) = Cardinality(S)
<1>1. f \in Bijection(S, T)
  BY DEF Bijection, Injection, IsInjective, Surjection
<1>2. ExistsBijection(S, T)
  BY <1>1 DEF ExistsBijection
<1> QED
  BY <1>2, FS_Bijection

Middles(a, b) == {Unit * j + 2 : j \in a..b - 1}

LEMMA MiddlesCount ==
  ASSUME NEW a \in Nat, NEW b \in Nat, a <= b
  PROVE  IsFiniteSet(Middles(a, b)) /\ Cardinality(Middles(a, b)) = b - a
<1> DEFINE S == a..b - 1
           T == {Unit * j + 2 : j \in S}
           f == [j \in S |-> Unit * j + 2]
<1>1. IsFiniteSet(S) /\ Cardinality(S) = b - a
  <2>1. a \in Int /\ b - 1 \in Int
    OBVIOUS
  <2>2. IsFiniteSet(S) /\ Cardinality(S) = IF a > b - 1 THEN 0 ELSE (b - 1) - a + 1
    BY <2>1, FS_Interval
  <2> QED
    BY <2>2
<1>2. f \in [S -> T]
  OBVIOUS
<1>3. \A c, d \in S : f[c] = f[d] => c = d
  BY DEF Unit
<1>4. \A y \in T : \E x \in S : f[x] = y
  OBVIOUS
<1> HIDE DEF S, T, f
<1>5. IsFiniteSet(T) /\ Cardinality(T) = Cardinality(S)
  BY <1>1, <1>2, <1>3, <1>4, Corresponds
<1> QED
  BY <1>1, <1>5 DEF S, T, Middles

LEMMA PartsCount ==
  ASSUME NEW theta \in Seq(Nat)
  PROVE  /\ SumFunction(theta) \in Nat
         /\ IsFiniteSet(Parts(theta)) /\ Cardinality(Parts(theta)) = SumFunction(theta)
<1>1. Len(theta) \in 0..Len(theta)
  OBVIOUS
<1>2. SumFunction(theta) \in Nat
  BY <1>1, PrefixSums
<1>3. Parts(theta) = Middles(0, SumFunction(theta))
  BY DEF Parts, Middles
<1> DEFINE s == SumFunction(theta)
<1>4. s \in Nat /\ 0 <= s
  BY <1>2
<1> HIDE DEF s
<1>5. IsFiniteSet(Middles(0, s)) /\ Cardinality(Middles(0, s)) = s - 0
  BY <1>4, MiddlesCount
<1> QED
  BY <1>2, <1>3, <1>4, <1>5 DEF s

\* As many draws give an outcome as it has weight.
LEMMA MultinomialCounts ==
  ASSUME NEW theta \in Seq(Nat), NEW v
  PROVE  Cardinality({d \in Parts(theta) : MultinomialSample(theta, d) = v})
           = IF v \in DOMAIN theta THEN theta[v] ELSE 0
<1> DEFINE n == Len(theta)
           P(k) == Prefix(theta, k)
           D == {d \in Parts(theta) : MultinomialSample(theta, d) = v}
<1>1. n \in Nat /\ DOMAIN theta = 1..n /\ \A k \in 1..n : theta[k] \in Nat
  OBVIOUS
<1>2. /\ SumFunction(theta) = P(n) /\ P(0) = 0
      /\ \A k \in 0..n : P(k) \in Nat
      /\ \A k \in 1..n : P(k) = P(k - 1) + theta[k]
  BY PrefixSums
<1>3. \A l \in 0..n : \A k \in 0..l : P(k) <= P(l)
  BY PrefixGrows
<1>4. Parts(theta) = {Unit * j + 2 : j \in 0..P(n) - 1}
  BY <1>2 DEF Parts
<1>5. \A j \in 0..P(n) - 1 : LET u == MultinomialSample(theta, Unit * j + 2)
                             IN  u \in 1..n /\ P(u - 1) <= j /\ j < P(u)
  BY <1>2, SampleIs
<1> HIDE DEF P
<1>6. CASE v \in 1..n
  <2> DEFINE T == {Unit * j + 2 : j \in P(v - 1)..P(v) - 1}
  <2>1. /\ v \in 0..n /\ v - 1 \in 0..n /\ v \in Nat
        /\ P(v - 1) \in Nat /\ P(v) \in Nat /\ P(v) = P(v - 1) + theta[v] /\ P(v) <= P(n)
        /\ P(n) \in Nat /\ theta[v] \in Nat
    BY <1>1, <1>2, <1>3, <1>6
  <2>2. ASSUME NEW j \in 0..P(n) - 1
        PROVE  MultinomialSample(theta, Unit * j + 2) = v <=> P(v - 1) <= j /\ j < P(v)
    <3> DEFINE u == MultinomialSample(theta, Unit * j + 2)
    <3>1. u \in 1..n /\ P(u - 1) <= j /\ j < P(u)
      BY <1>5
    <3> HIDE DEF u
    <3>2. u \in 0..n /\ u - 1 \in 0..n /\ P(u) \in Nat /\ P(u - 1) \in Nat /\ j \in Nat
      <4>1. u \in 0..n /\ u - 1 \in 0..n
        BY <1>1, <3>1
      <4>2. P(u) \in Nat /\ P(u - 1) \in Nat
        BY <1>2, <4>1
      <4>3. j \in Nat
        BY <2>1
      <4> QED
        BY <4>1, <4>2, <4>3
    <3>3. ASSUME P(v - 1) <= j, j < P(v)
          PROVE  u = v
      <4>1. CASE u < v
        <5>1. u \in 0..(v - 1)
          BY <1>1, <2>1, <3>1, <4>1
        <5>2. P(u) <= P(v - 1)
          BY <1>3, <2>1, <5>1
        <5> QED
          BY <2>1, <3>1, <3>2, <3>3, <5>2
      <4>2. CASE v < u
        <5>1. v \in 0..(u - 1)
          BY <1>1, <2>1, <3>1, <4>2
        <5>2. P(v) <= P(u - 1)
          BY <1>3, <3>2, <5>1
        <5> QED
          BY <2>1, <3>1, <3>2, <3>3, <5>2
      <4> QED
        BY <1>1, <2>1, <3>1, <4>1, <4>2
    <3> QED
      BY <3>1, <3>3 DEF u
  <2>3. D = T
    <3>1. ASSUME NEW d \in D
          PROVE  d \in T
      <4>1. PICK j \in 0..P(n) - 1 : d = Unit * j + 2
        BY <1>4
      <4>2. P(v - 1) <= j /\ j < P(v) /\ j \in Int
        BY <2>1, <2>2, <4>1
      <4>3. j \in P(v - 1)..P(v) - 1
        BY <2>1, <4>2
      <4> QED
        BY <4>1, <4>3
    <3>2. ASSUME NEW d \in T
          PROVE  d \in D
      <4>1. PICK j \in P(v - 1)..P(v) - 1 : d = Unit * j + 2
        OBVIOUS
      <4>2. j \in 0..P(n) - 1 /\ P(v - 1) <= j /\ j < P(v)
        BY <2>1
      <4>3. MultinomialSample(theta, d) = v
        BY <2>2, <4>1, <4>2
      <4>4. d \in Parts(theta)
        BY <1>4, <4>1, <4>2
      <4> QED
        BY <4>3, <4>4
    <3> QED
      BY <3>1, <3>2
  <2> DEFINE a == P(v - 1)
             b == P(v)
  <2>4. a \in Nat /\ b \in Nat /\ a <= b
    BY <2>1
  <2> HIDE DEF a, b
  <2>5. Cardinality(Middles(a, b)) = b - a
    BY <2>4, MiddlesCount
  <2>6. Cardinality(D) = P(v) - P(v - 1)
    BY <2>3, <2>5 DEF a, b, Middles
  <2>7. Cardinality(D) = theta[v]
    BY <2>1, <2>6
  <2> QED
    BY <1>1, <1>6, <2>7
<1>7. CASE v \notin 1..n
  <2>1. D = {}
    BY <1>4, <1>5, <1>7
  <2> QED
    BY <1>1, <1>7, <2>1, FS_EmptySet
<1> QED
  BY <1>6, <1>7

(***************************************************************************)
(* The primitives. Parameters are of their types in every state.           *)
(***************************************************************************)

TypeInv == erp \in Erp /\ params \in ParamsOf(erp)

LEMMA TypeInvAlways == Spec => []TypeInv
<1>1. Init => TypeInv
  BY DEF Init, TypeInv
<1>2. TypeInv /\ [Next]_vars => TypeInv'
  BY DEF TypeInv, Next, Sample, Propose, ChangeParams, vars
<1> QED
  BY <1>1, <1>2, PTL DEF Spec

LEMMA IntervalCount ==
  ASSUME NEW a \in Int, NEW b \in Int, a <= b
  PROVE  IsFiniteSet(a..b - 1) /\ Cardinality(a..b - 1) = b - a
<1>1. b - 1 \in Int
  OBVIOUS
<1>2. IsFiniteSet(a..b - 1) /\ Cardinality(a..b - 1) = IF a > b - 1 THEN 0 ELSE (b - 1) - a + 1
  BY <1>1, FS_Interval
<1> QED
  BY <1>2

\* As many draws of a sample give v as its weight says, out of the total.
CountsOf(e, p, v) ==
  Cardinality({d \in Draws(e, p) : SampleImpl(e, p, d) = v}) * Total(e, p)
    = Weight(e, v, p) * Cardinality(Draws(e, p))

LEMMA FlipCounts ==
  ASSUME NEW p \in 0..Grain, NEW v \in {0, 1}
  PROVE  CountsOf("flip", p, v) /\ Cardinality(Draws("flip", p)) = Grain
<1> DEFINE D == {d \in 0..Grain - 1 : (IF d < p THEN 1 ELSE 0) = v}
<1>1. Grain \in Nat /\ p \in Nat /\ p <= Grain
  BY PrimitivesAssumption
<1>2. Draws("flip", p) = 0..Grain - 1 /\ Total("flip", p) = Grain
  BY DEF Draws, Total
<1>3. \A d : SampleImpl("flip", p, d) = IF d < p THEN 1 ELSE 0
  BY DEF SampleImpl
<1>4. Cardinality(0..Grain - 1) = Grain
  <2>1. Cardinality(0..Grain - 1) = Grain - 0
    BY <1>1, IntervalCount
  <2> QED
    BY <1>1, <2>1
<1>5. {d \in Draws("flip", p) : SampleImpl("flip", p, d) = v} = D
  BY <1>2, <1>3
<1>6. CASE v = 1
  <2>1. D = 0..p - 1
    BY <1>1, <1>6
  <2>2. Cardinality(0..p - 1) = p - 0 /\ p - 0 = p
    BY <1>1, IntervalCount
  <2>3. Cardinality(D) = p
    BY <2>1, <2>2, Zenon
  <2>4. Weight("flip", v, p) = p
    BY <1>6 DEF Weight
  <2> HIDE DEF D
  <2> QED
    BY <1>2, <1>4, <1>5, <2>3, <2>4, Zenon DEF CountsOf
<1>7. CASE v = 0
  <2>1. D = p..Grain - 1
    BY <1>1, <1>7
  <2>2. Cardinality(p..Grain - 1) = Grain - p
    BY <1>1, IntervalCount
  <2>3. Weight("flip", v, p) = Grain - p
    BY <1>7 DEF Weight
  <2>4. Cardinality(D) = Grain - p
    BY <2>1, <2>2
  <2> HIDE DEF D
  <2> QED
    BY <1>2, <1>4, <1>5, <2>3, <2>4, Zenon DEF CountsOf
<1> QED
  BY <1>6, <1>7

LEMMA MultinomialIsCounted ==
  ASSUME NEW p \in Seq(Nat), NEW v
  PROVE  CountsOf("multinomial", p, v)
<1>1. Draws("multinomial", p) = Parts(p) /\ Total("multinomial", p) = SumFunction(p)
  BY DEF Draws, Total
<1>2. \A d : SampleImpl("multinomial", p, d) = MultinomialSample(p, d)
  BY DEF SampleImpl
<1>3. Weight("multinomial", v, p) = IF v \in DOMAIN p THEN p[v] ELSE 0
  BY DEF Weight
<1>4. Cardinality({d \in Draws("multinomial", p) : SampleImpl("multinomial", p, d) = v})
        = Weight("multinomial", v, p)
  BY <1>1, <1>2, <1>3, MultinomialCounts
<1> QED
  BY <1>1, <1>4, PartsCount DEF CountsOf

LEMMA UniformCounts ==
  ASSUME NEW p \in Points \X Points, p[1] < p[2], NEW v \in Int
  PROVE  CountsOf("uniform", p, v)
<1> DEFINE D == {d \in p[1]..p[2] : d = v}
<1>1. p[1] \in Int /\ p[2] \in Int /\ v \in Int
  BY PrimitivesAssumption
<1>2. Draws("uniform", p) = p[1]..p[2] /\ Total("uniform", p) = p[2] - p[1] + 1
  BY DEF Draws, Total
<1>3. \A d : SampleImpl("uniform", p, d) = d
  BY DEF SampleImpl
<1>4. Cardinality(p[1]..p[2]) = p[2] - p[1] + 1
  BY <1>1, FS_Interval
<1>5. {d \in Draws("uniform", p) : SampleImpl("uniform", p, d) = v} = D
  BY <1>2, <1>3
<1>6. Weight("uniform", v, p) = IF v < p[1] \/ v > p[2] THEN 0 ELSE 1
  BY DEF Weight
<1>7. CASE v < p[1] \/ v > p[2]
  <2>1. D = {}
    BY <1>1, <1>7
  <2>2. Cardinality(D) = 0
    BY <2>1, FS_EmptySet
  <2> HIDE DEF D
  <2> QED
    BY <1>1, <1>2, <1>4, <1>5, <1>6, <1>7, <2>2 DEF CountsOf
<1>8. CASE ~(v < p[1] \/ v > p[2])
  <2>1. D = {v}
    BY <1>1, <1>8
  <2>2. Cardinality(D) = 1
    BY <2>1, FS_Singleton
  <2> HIDE DEF D
  <2> QED
    BY <1>1, <1>2, <1>4, <1>5, <1>6, <1>8, <2>2 DEF CountsOf
<1> QED
  BY <1>7, <1>8

LEMMA GaussianCounts ==
  ASSUME NEW p \in Points, NEW v \in Points
  PROVE  CountsOf("gaussian", p, v)
<1> DEFINE w == AtDistance(Distance(v, p))
           D == {d \in Draws("gaussian", p) : SampleImpl("gaussian", p, d) = v}
<1>1. p \in Int /\ v \in Int /\ Len(Bell) \in Nat /\ \A k \in DOMAIN Bell : Bell[k] \in Nat
  BY PrimitivesAssumption
<1>2. w \in Nat
  BY <1>1 DEF AtDistance
<1>3. Total("gaussian", p) = Cardinality(Draws("gaussian", p)) /\ Weight("gaussian", v, p) = w
  BY DEF Total, Weight
<1>4. Draws("gaussian", p) = UNION {{x} \X (1..AtDistance(Distance(x, p))) : x \in Around(p)}
  BY DEF Draws
<1>5. \A d : SampleImpl("gaussian", p, d) = d[1]
  BY DEF SampleImpl
<1>6. v \in Around(p) <=> w > 0
  <2>1. w > 0 => Distance(v, p) + 1 \in DOMAIN Bell
    BY DEF AtDistance
  <2>2. DOMAIN Bell = 1..Len(Bell)
    BY PrimitivesAssumption
  <2>3. w > 0 => v \in p - Len(Bell)..p + Len(Bell)
    BY <1>1, <2>1, <2>2 DEF Distance
  <2> QED
    BY <2>3 DEF Around
<1>7. D = {v} \X (1..w)
  <2>1. ASSUME NEW d \in D
        PROVE  d \in {v} \X (1..w)
    <3>1. PICK x \in Around(p) : d \in {x} \X (1..AtDistance(Distance(x, p)))
      BY <1>4
    <3>2. x = v
      BY <1>5, <3>1
    <3> QED
      BY <3>1, <3>2
  <2>2. ASSUME NEW d \in {v} \X (1..w)
        PROVE  d \in D
    <3>1. w > 0
      BY <1>2
    <3>2. d \in Draws("gaussian", p)
      BY <1>4, <1>6, <3>1
    <3> QED
      BY <1>5, <3>2
  <2> QED
    BY <2>1, <2>2
<1> HIDE DEF w
<1>8. Cardinality(D) = w
  <2>1. IsFiniteSet(1..w) /\ Cardinality(1..w) = w
    BY <1>2, FS_Interval
  <2>2. IsFiniteSet({v}) /\ Cardinality({v}) = 1
    BY FS_Singleton
  <2> DEFINE A == {v}
             B == 1..w
  <2>3. IsFiniteSet(A) /\ IsFiniteSet(B) /\ Cardinality(A) = 1 /\ Cardinality(B) = w
    BY <2>1, <2>2
  <2> HIDE DEF A, B
  <2>4. Cardinality(A \X B) = Cardinality(A) * Cardinality(B)
    BY <2>3, FS_Product
  <2>5. Cardinality(D) = Cardinality(A \X B)
    BY <1>7 DEF A, B
  <2> QED
    BY <1>2, <2>3, <2>4, <2>5
<1> QED
  BY <1>3, <1>8, Zenon DEF CountsOf

LEMMA ParamsAre ==
  ASSUME TypeInv
  PROVE  /\ erp \in {"flip", "multinomial", "uniform", "gaussian"}
         /\ erp = "flip" => params \in 0..Grain
         /\ erp = "multinomial" => params \in Seq(Nat)
         /\ erp = "uniform" => params \in Points \X Points /\ params[1] < params[2]
         /\ erp = "gaussian" => params \in Points
<1>1. erp \in {"flip", "multinomial", "uniform", "gaussian"}
  BY PrimitivesAssumption DEF TypeInv
<1>2. params \in ParamsOf(erp)
  BY DEF TypeInv
<1>3. erp = "flip" => params \in 0..Grain
  BY <1>2 DEF ParamsOf
<1>4. erp = "multinomial" => params \in Seq(Nat)
  BY <1>2, PrimitivesAssumption DEF ParamsOf
<1>5. erp = "uniform" => params \in Points \X Points /\ params[1] < params[2]
  BY <1>2 DEF ParamsOf
<1>6. erp = "gaussian" => params \in Points
  BY <1>2 DEF ParamsOf
<1> QED
  BY <1>1, <1>3, <1>4, <1>5, <1>6

(***************************************************************************)
(* The log probability of a value is that of sampling it, for all weights, *)
(* bounds, means and bells and for any number of outcomes: sample_impl and *)
(* logprob of flip, multinomial, uniform and gaussian.                     *)
(***************************************************************************)
THEOREM SamplesWeighted == Spec => []SamplesAsWeighted
<1>1. TypeInv => SamplesAsWeighted
  <2> SUFFICES ASSUME TypeInv, NEW v \in (IF erp = "flip" THEN {0, 1} ELSE Points)
               PROVE  CountsOf(erp, params, v)
    BY Zenon DEF SamplesAsWeighted, Drawn, CountsOf
  <2>1. CASE erp = "flip"
    BY <2>1, ParamsAre, FlipCounts
  <2>2. CASE erp = "multinomial"
    BY <2>2, ParamsAre, MultinomialIsCounted
  <2>3. CASE erp = "uniform"
    <3>1. v \in Int
      BY <2>3, PrimitivesAssumption
    <3> QED
      BY <2>3, <3>1, ParamsAre, UniformCounts
  <2>4. CASE erp = "gaussian"
    BY <2>4, ParamsAre, GaussianCounts
  <2> QED
    BY <2>1, <2>2, <2>3, <2>4, ParamsAre
<1> QED
  BY <1>1, TypeInvAlways, PTL

LEMMA ProjectedOutType ==
  ASSUME NEW p \in Seq(Nat), NEW v
  PROVE  ProjectedOut(p, v) \in Seq(Nat)
<1>1. CASE v \in DOMAIN p
  BY <1>1 DEF ProjectedOut
<1>2. CASE v \notin DOMAIN p
  BY <1>2 DEF ProjectedOut
<1> QED
  BY <1>1, <1>2

\* As many draws of a proposal give v as is declared.
DeclaresOf(p, v) ==
  Cardinality({d \in Draws(erp, p) : Proposal(erp, val, params, d) = v})
      * ProposalTotal(erp, val, params)
    = ProposalWeight(erp, val, v, params) * Cardinality(Draws(erp, p))

(***************************************************************************)
(* The log proposal probability of a value is that of proposing it, from   *)
(* any current value: proposal and logProposalProb of flip and             *)
(* multinomial, and those that uniform inherits. Gaussian is left out: its *)
(* logProposalProb is that of a drift kernel, which its proposal is not.   *)
(***************************************************************************)
THEOREM ProposalsDeclared ==
  ASSUME "gaussian" \notin Erp
  PROVE  Spec => []ProposesAsDeclared
<1>1. TypeInv => ProposesAsDeclared
  <2> SUFFICES ASSUME TypeInv,
                      NEW p, p = IF erp = "multinomial" THEN ProjectedOut(params, val) ELSE params,
                      NEW draw \in ProposalDraws(erp, val, params),
                      NEW v, v = Proposal(erp, val, params, draw)
               PROVE  DeclaresOf(p, v)
    BY Zenon DEF ProposesAsDeclared, Drawn, DeclaresOf
  <2>1. CASE erp = "flip"
    <3>1. \A d : Proposal(erp, val, params, d) = v
      BY <2>1 DEF Proposal
    <3>2. {d \in Draws(erp, p) : Proposal(erp, val, params, d) = v} = Draws(erp, p)
      BY <3>1
    <3>3. ProposalTotal(erp, val, params) = 1 /\ ProposalWeight(erp, val, v, params) = 1
      BY <2>1 DEF ProposalTotal, ProposalWeight
    <3>4. Cardinality(Draws(erp, p)) \in Nat
      <4>1. params \in 0..Grain /\ p = params
        BY <2>1, ParamsAre
      <4>2. Cardinality(Draws("flip", p)) = Grain
        BY <4>1, FlipCounts
      <4> QED
        BY <2>1, <4>2, PrimitivesAssumption
    <3> DEFINE c == Cardinality(Draws(erp, p))
    <3>5. c * 1 = 1 * c
      BY <3>4
    <3> QED
      BY <3>2, <3>3, <3>5, Zenon DEF DeclaresOf
  <2>2. CASE erp = "multinomial"
    <3>1. p = ProjectedOut(params, val) /\ p \in Seq(Nat)
      <4>1. params \in Seq(Nat)
        BY <2>2, ParamsAre
      <4>2. ProjectedOut(params, val) \in Seq(Nat)
        BY <4>1, ProjectedOutType
      <4> QED
        BY <2>2, <4>2
    <3>2. CountsOf("multinomial", p, v)
      BY <3>1, MultinomialIsCounted
    <3>3. \A d : Proposal(erp, val, params, d) = SampleImpl("multinomial", p, d)
      <4> SUFFICES ASSUME NEW d
                   PROVE  Proposal(erp, val, params, d) = SampleImpl("multinomial", p, d)
        OBVIOUS
      <4>1. Proposal(erp, val, params, d) = MultinomialSample(p, d)
        BY <2>2, <3>1 DEF Proposal
      <4>2. SampleImpl("multinomial", p, d) = MultinomialSample(p, d)
        BY DEF SampleImpl
      <4> QED
        BY <4>1, <4>2
    <3>4. {d \in Draws(erp, p) : Proposal(erp, val, params, d) = v}
            = {d \in Draws("multinomial", p) : SampleImpl("multinomial", p, d) = v}
      BY <2>2, <3>3
    <3>5. /\ ProposalTotal(erp, val, params) = Total("multinomial", p)
          /\ ProposalWeight(erp, val, v, params) = Weight("multinomial", v, p)
      BY <2>2, <3>1 DEF ProposalTotal, ProposalWeight
    <3> QED
      BY <2>2, <3>2, <3>4, <3>5, Zenon DEF DeclaresOf, CountsOf
  <2>3. CASE erp = "uniform"
    <3>1. p = params /\ params \in Points \X Points /\ params[1] < params[2]
      BY <2>3, ParamsAre
    <3>2. /\ \A d : Proposal(erp, val, params, d) = SampleImpl("uniform", p, d)
          /\ ProposalTotal(erp, val, params) = Total("uniform", p)
          /\ ProposalWeight(erp, val, v, params) = Weight("uniform", v, p)
      BY <2>3, <3>1 DEF Proposal, ProposalTotal, ProposalWeight
    <3>3. CountsOf("uniform", p, v)
      <4>1. draw \in params[1]..params[2] /\ v = draw
        BY <2>3 DEF ProposalDraws, AllDraws, Draws, Proposal, SampleImpl
      <4>2. v \in Int
        BY <3>1, <4>1, PrimitivesAssumption
      <4> QED
        BY <3>1, <4>2, UniformCounts
    <3>4. {d \in Draws(erp, p) : Proposal(erp, val, params, d) = v}
            = {d \in Draws("uniform", p) : SampleImpl("uniform", p, d) = v}
      BY <2>3, <3>2
    <3> QED
      BY <2>3, <3>2, <3>3, <3>4, Zenon DEF DeclaresOf, CountsOf
  <2>4. erp # "gaussian"
    BY DEF TypeInv
  <2> QED
    BY <2>1, <2>2, <2>3, <2>4, ParamsAre
<1> QED
  BY <1>1, TypeInvAlways, PTL

===============================================================================
