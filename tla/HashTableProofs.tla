---------------------------- MODULE HashTableProofs ----------------------------
(***************************************************************************)
(* Proofs about HashTable: its types; that the length operator returns a   *)
(* border; and that, as long as no address of a removed string is used     *)
(* again, every entry is in the chain of its key, chains have an end, and  *)
(* the table is a dictionary.                                              *)
(***************************************************************************)
EXTENDS HashTable, FiniteSetTheorems, TLAPS

(***************************************************************************)
(* Numbers.                                                                *)
(***************************************************************************)

\* A set of numbers has a least one: the form in which induction is used here.
LEMMA Least ==
  ASSUME NEW T \in SUBSET Nat, T # {}
  PROVE  \E x \in T : \A y \in T : x <= y
<1> DEFINE R == OpToRel(<, Nat)
<1>1. IsWellFoundedOn(R, Nat)
  BY NatLessThanWellFounded
<1>2. \A x, y \in Nat : x < y => <<x, y>> \in R
  BY DEF OpToRel
<1> HIDE DEF R
<1>3. \E x \in T : \A y \in T : <<y, x>> \notin R
  BY <1>1, WFMin, Zenon
<1>4. ASSUME NEW x \in T, \A y \in T : <<y, x>> \notin R, NEW y \in T
      PROVE  x <= y
  <2>1. x \in Nat /\ y \in Nat
    OBVIOUS
  <2>2. ~(y < x)
    BY <2>1, <1>2, <1>4, Zenon
  <2> QED
    BY <2>1, <2>2
<1> QED
  BY <1>3, <1>4

\* Induction: a set of numbers with 0 and every successor up to m.
LEMMA Induction ==
  ASSUME NEW m \in Nat, NEW T, 0 \in T, \A i \in 0..m : i # 0 /\ i - 1 \in T => i \in T
  PROVE  0..m \subseteq T
<1> SUFFICES ASSUME (0..m) \ T # {}
             PROVE  FALSE
  OBVIOUS
<1>1. PICK i \in (0..m) \ T : \A a \in (0..m) \ T : i <= a
  <2>1. (0..m) \ T \in SUBSET Nat
    OBVIOUS
  <2> QED
    BY <2>1, Least
<1> QED
  BY <1>1

LEMMA MinProperties ==
  ASSUME NEW S \in SUBSET Nat, S # {}
  PROVE  Min(S) \in S /\ \A y \in S : Min(S) <= y
BY Least DEF Min

LEMMA MaxProperties ==
  ASSUME NEW S \in SUBSET Nat, S # {}, NEW b \in Nat, \A x \in S : x <= b
  PROVE  Max(S) \in S /\ \A y \in S : y <= Max(S)
<1> DEFINE T == {b - x : x \in S}
<1>1. T \in SUBSET Nat /\ T # {}
  OBVIOUS
<1> HIDE DEF T
<1>2. PICK d \in T : \A e \in T : d <= e
  BY <1>1, Least
<1>3. PICK x \in S : d = b - x
  BY DEF T
<1>4. ASSUME NEW y \in S
      PROVE  x >= y
  <2>1. b - y \in T
    BY DEF T
  <2> QED
    BY <1>2, <1>3, <2>1
<1>5. Max(S) \in S /\ \A y \in S : Max(S) >= y
  BY <1>4 DEF Max
<1> QED
  BY <1>5

LEMMA Pow2Steps == Pow2 = [n \in Nat |-> IF n = 0 THEN 1 ELSE 2 * Pow2[n - 1]]
<1> DEFINE Is(g, k) == g = [n \in 0..k |-> IF n = 0 THEN 1 ELSE 2 * g[n - 1]]
           T(m) == {k \in 0..m : \E g : Is(g, k)}
<1>1. \A m \in Nat : \E g : Is(g, m)
  <2> SUFFICES ASSUME NEW m \in Nat
               PROVE  \E g : Is(g, m)
    OBVIOUS
  <2>1. 0 \in T(m)
    <3>1. Is([n \in 0..0 |-> 1], 0) /\ 0 \in 0..m
      OBVIOUS
    <3> HIDE DEF Is
    <3> QED
      BY <3>1
  <2>2. ASSUME NEW k \in 0..m, k # 0, k - 1 \in T(m)
        PROVE  k \in T(m)
    <3>1. PICK g : Is(g, k - 1)
      BY <2>2
    <3> DEFINE h == [n \in 0..k |-> IF n = k THEN 2 * g[k - 1] ELSE g[n]]
    <3>2. k \in Nat /\ k - 1 \in Nat
      BY <2>2
    <3>3. ASSUME NEW n \in 0..k
          PROVE  h[n] = IF n = 0 THEN 1 ELSE 2 * h[n - 1]
      <4>1. CASE n = k
        BY <2>2, <3>2, <4>1
      <4>2. CASE n # k
        <5>1. n \in 0..k - 1
          BY <3>2, <4>2
        <5>2. g[n] = IF n = 0 THEN 1 ELSE 2 * g[n - 1]
          BY <3>1, <5>1
        <5>3. n # 0 => n - 1 \in 0..k /\ n - 1 # k
          BY <3>2, <5>1
        <5> QED
          BY <4>2, <5>2, <5>3
      <4> QED
        BY <4>1, <4>2
    <3>4. h = [n \in 0..k |-> h[n]]
      OBVIOUS
    <3> HIDE DEF h
    <3>5. Is(h, k)
      BY <3>3, <3>4
    <3> QED
      BY <3>5
  <2> HIDE DEF T
  <2>3. 0..m \subseteq T(m)
    BY <2>1, <2>2, Induction
  <2>4. m \in T(m)
    BY <2>3
  <2> QED
    BY <2>4 DEF T
\* Two of them agree where both are defined.
<1>2. ASSUME NEW m \in Nat, NEW g, Is(g, m), NEW k \in Nat, NEW h, Is(h, k), m <= k
      PROVE  \A n \in 0..m : g[n] = h[n]
  <2> DEFINE S == {n \in 0..m : g[n] = h[n]}
  <2>1. /\ \A n \in 0..m : g[n] = IF n = 0 THEN 1 ELSE 2 * g[n - 1]
        /\ \A n \in 0..k : h[n] = IF n = 0 THEN 1 ELSE 2 * h[n - 1]
    BY <1>2
  <2>2. \A n \in 0..m : n \in 0..k
    BY <1>2
  <2> HIDE DEF Is
  <2>3. 0 \in S
    BY <2>1, <2>2
  <2>4. \A n \in 0..m : n # 0 /\ n - 1 \in S => n \in S
    BY <2>1, <2>2
  <2> HIDE DEF S
  <2>5. 0..m \subseteq S
    BY <2>3, <2>4, Induction
  <2> QED
    BY <2>5 DEF S
<1> DEFINE run == [m \in Nat |-> CHOOSE g : Is(g, m)]
           f == [n \in Nat |-> run[n][n]]
<1>3. \A m \in Nat : Is(run[m], m)
  BY <1>1
<1>4. f[0] = 1
  <2>1. run[0] = [n \in 0..0 |-> IF n = 0 THEN 1 ELSE 2 * run[0][n - 1]]
    BY <1>3
  <2> HIDE DEF run
  <2>2. 0 \in 0..0 /\ 0 \in Nat
    OBVIOUS
  <2>3. run[0][0] = 1
    BY <2>1, <2>2
  <2> QED
    BY <2>2, <2>3
<1>5. \A n \in Nat : n # 0 => f[n] = 2 * f[n - 1]
  <2> SUFFICES ASSUME NEW n \in Nat, n # 0
               PROVE  f[n] = 2 * f[n - 1]
    OBVIOUS
  <2>1. n - 1 \in Nat /\ n - 1 <= n /\ n - 1 \in 0..n - 1 /\ n \in 0..n
    OBVIOUS
  <2>2. run[n][n] = 2 * run[n][n - 1]
    <3>1. run[n] = [l \in 0..n |-> IF l = 0 THEN 1 ELSE 2 * run[n][l - 1]]
      BY <1>3
    <3> HIDE DEF run
    <3> QED
      BY <2>1, <3>1
  <2>3. run[n - 1][n - 1] = run[n][n - 1]
    <3> HIDE DEF run, Is
    <3> QED
      BY <1>2, <1>3, <2>1
  <2> HIDE DEF run
  <2> QED
    BY <2>1, <2>2, <2>3
<1>6. f = [n \in Nat |-> IF n = 0 THEN 1 ELSE 2 * f[n - 1]]
  <2>1. f = [n \in Nat |-> f[n]]
    OBVIOUS
  <2> HIDE DEF f
  <2> QED
    BY <1>4, <1>5, <2>1
<1> HIDE DEF f
<1>7. Pow2 = CHOOSE g : g = [n \in Nat |-> IF n = 0 THEN 1 ELSE 2 * g[n - 1]]
  BY DEF Pow2
<1> QED
  BY <1>6, <1>7

LEMMA Pow2Type == \A n \in Nat : Pow2[n] \in Nat /\ Pow2[n] > n
<1> SUFFICES ASSUME NEW m \in Nat
             PROVE  Pow2[m] \in Nat /\ Pow2[m] > m
  OBVIOUS
<1> DEFINE T == {n \in 0..m : Pow2[n] \in Nat /\ Pow2[n] > n}
<1>1. \A n \in Nat : Pow2[n] = IF n = 0 THEN 1 ELSE 2 * Pow2[n - 1]
  BY Pow2Steps
<1>2. 0 \in T
  BY <1>1
<1>3. \A n \in 0..m : n # 0 /\ n - 1 \in T => n \in T
  BY <1>1
<1> HIDE DEF T
<1>4. 0..m \subseteq T
  BY <1>2, <1>3, Induction
<1>5. m \in T
  BY <1>4
<1> QED
  BY <1>5 DEF T

LEMMA Hsize2HbitsType ==
  ASSUME NEW s \in Nat
  PROVE  /\ Hsize2Hbits(s) \in Nat
         /\ s = 0 => Hsize2Hbits(s) = 0
         /\ s # 0 => Hsize2Hbits(s) # 0 /\ s <= Pow2[Hsize2Hbits(s)]
<1> DEFINE B == {b \in 1..s : Pow2[b] >= s}
<1>1. CASE s # 0
  <2>1. s \in B
    BY <1>1, Pow2Type
  <2>2. B \in SUBSET Nat
    OBVIOUS
  <2>3. Min(B) \in B
    <3> HIDE DEF B
    <3> QED
      BY <2>1, <2>2, MinProperties
  <2>4. Hsize2Hbits(s) = Min(B)
    BY <1>1 DEF Hsize2Hbits
  <2>5. Min(B) \in 1..s /\ Pow2[Min(B)] >= s /\ Pow2[Min(B)] \in Nat
    <3>1. Min(B) \in 1..s /\ Pow2[Min(B)] >= s
      BY <2>3
    <3> HIDE DEF B
    <3> QED
      BY <3>1, Pow2Type
  <2> HIDE DEF B
  <2> QED
    BY <1>1, <2>4, <2>5
<1> QED
  BY <1>1 DEF Hsize2Hbits

(***************************************************************************)
(* Chains.                                                                 *)
(***************************************************************************)

\* The links of a table.
Linked(t) ==
  /\ Hmask(t) \in Nat /\ DOMAIN t.node = 0..Hmask(t)
  /\ \A n \in DOMAIN t.node : t.node[n].next \in DOMAIN t.node \cup {Nil}

Closed(t, S) == \A n \in S : t.node[n].next # Nil => t.node[n].next \in S

\* The chain from m on comes to x.
Reach(t, m, x) == \A S \in SUBSET DOMAIN t.node : m \in S /\ Closed(t, S) => x \in S

\* No chain runs in a circle.
Ends(t) ==
  \A S \in SUBSET DOMAIN t.node :
    S # {} => \E n \in S : t.node[n].next = Nil \/ t.node[n].next \notin S

LEMMA NilNoNode == ASSUME NEW t, Linked(t) PROVE Nil \notin DOMAIN t.node
BY TableAssumption DEF Linked

LEMMA HmaskIs ==
  ASSUME NEW h \in Nat, NEW t, DOMAIN t.node = 0..h
  PROVE  Hmask(t) = h
<1>1. Cardinality(0..h) = h + 1
  BY FS_Interval
<1>2. Hmask(t) = Cardinality(0..h) - 1
  BY DEF Hmask
<1> QED
  BY <1>1, <1>2

LEMMA ReachSelf == ASSUME NEW t, NEW m PROVE Reach(t, m, m)
BY DEF Reach

LEMMA ReachNode ==
  ASSUME NEW t, Linked(t), NEW m \in DOMAIN t.node, NEW x, Reach(t, m, x)
  PROVE  x \in DOMAIN t.node
<1>1. Closed(t, DOMAIN t.node)
  BY DEF Closed, Linked
<1> QED
  BY <1>1 DEF Reach

LEMMA ReachOn ==
  ASSUME NEW t, Linked(t), NEW m \in DOMAIN t.node, NEW x, Reach(t, m, x), t.node[x].next # Nil
  PROVE  Reach(t, m, t.node[x].next)
BY DEF Reach, Closed

LEMMA ReachThrough ==
  ASSUME NEW t, NEW m, NEW x, Reach(t, m, x), NEW y, Reach(t, x, y)
  PROVE  Reach(t, m, y)
BY DEF Reach

\* The nodes that a chain comes to are closed.
LEMMA ReachedClosed ==
  ASSUME NEW t, Linked(t), NEW m \in DOMAIN t.node
  PROVE  Closed(t, {x \in DOMAIN t.node : Reach(t, m, x)})
<1>1. ASSUME NEW x \in DOMAIN t.node, Reach(t, m, x), t.node[x].next # Nil
      PROVE  Reach(t, m, t.node[x].next) /\ t.node[x].next \in DOMAIN t.node
  BY <1>1, ReachOn DEF Linked
<1> QED
  BY <1>1 DEF Closed

LEMMA ReachFrom ==
  ASSUME NEW t, Linked(t), NEW m \in DOMAIN t.node, NEW x, Reach(t, m, x), x # m
  PROVE  t.node[m].next # Nil /\ Reach(t, t.node[m].next, x)
<1>1. t.node[m].next # Nil
  <2>1. SUFFICES ASSUME t.node[m].next = Nil
                 PROVE  FALSE
    OBVIOUS
  <2>2. Closed(t, {m})
    BY <2>1 DEF Closed
  <2> QED
    BY <2>2 DEF Reach
<1> DEFINE m2 == t.node[m].next
           S == {y \in DOMAIN t.node : Reach(t, m2, y)}
<1>2. m2 \in DOMAIN t.node
  BY <1>1 DEF Linked
<1>3. Closed(t, S)
  BY <1>2, ReachedClosed
<1>4. m2 \in S
  BY <1>2, ReachSelf
<1>5. Closed(t, S \cup {m}) /\ S \cup {m} \in SUBSET DOMAIN t.node
  BY <1>3, <1>4 DEF Closed
<1>6. x \in S \cup {m}
  BY <1>5 DEF Reach
<1> QED
  BY <1>1, <1>6

LEMMA ReachLast ==
  ASSUME NEW t, Linked(t), NEW m \in DOMAIN t.node, NEW x, Reach(t, m, x), x # m
  PROVE  \E p \in DOMAIN t.node : Reach(t, m, p) /\ t.node[p].next = x
<1>1. SUFFICES ASSUME \A p \in DOMAIN t.node : Reach(t, m, p) => t.node[p].next # x
               PROVE  FALSE
  OBVIOUS
<1> DEFINE S == {y \in DOMAIN t.node : Reach(t, m, y)}
<1>2. Closed(t, S)
  BY ReachedClosed
<1>3. Closed(t, S \ {x}) /\ S \ {x} \in SUBSET DOMAIN t.node
  BY <1>1, <1>2 DEF Closed
<1>4. m \in S \ {x}
  BY ReachSelf
<1> QED
  BY <1>3, <1>4 DEF Reach

\* A chain does not come back.
LEMMA NoReturn ==
  ASSUME NEW t, Linked(t), Ends(t), NEW m \in DOMAIN t.node, t.node[m].next # Nil
  PROVE  ~Reach(t, t.node[m].next, m)
<1> DEFINE m2 == t.node[m].next
           C == {y \in DOMAIN t.node : Reach(t, m2, y) /\ Reach(t, y, m)}
<1>1. SUFFICES ASSUME Reach(t, m2, m)
               PROVE  FALSE
  OBVIOUS
<1>2. m2 \in C /\ m \in C
  BY <1>1, ReachSelf DEF Linked
<1>3. PICK y \in C : t.node[y].next = Nil \/ t.node[y].next \notin C
  BY <1>2 DEF Ends
<1>4. CASE y = m
  BY <1>2, <1>3, <1>4
<1>5. CASE y # m
  <2>1. t.node[y].next # Nil /\ Reach(t, t.node[y].next, m)
    BY <1>5, ReachFrom
  <2>2. Reach(t, m2, t.node[y].next) /\ t.node[y].next \in DOMAIN t.node
    BY <1>2, <2>1, ReachOn DEF Linked
  <2> QED
    BY <1>3, <2>1, <2>2
<1> QED
  BY <1>4, <1>5

\* A chain has an end.
LEMMA EndReached ==
  ASSUME NEW t, Linked(t), Ends(t), NEW m \in DOMAIN t.node
  PROVE  \E x \in DOMAIN t.node : Reach(t, m, x) /\ t.node[x].next = Nil
<1> DEFINE S == {x \in DOMAIN t.node : Reach(t, m, x)}
<1>1. Closed(t, S) /\ m \in S /\ S \in SUBSET DOMAIN t.node
  BY ReachSelf, ReachedClosed
<1>2. PICK x \in S : t.node[x].next = Nil \/ t.node[x].next \notin S
  BY <1>1 DEF Ends
<1> QED
  BY <1>1, <1>2 DEF Closed

(***************************************************************************)
(* What InChain finds.                                                     *)
(***************************************************************************)

\* The functions by which InChain is computed, up to k.
IsSearch(g, t, nodes, k) ==
  g = [i \in 0..k |->
         [m \in DOMAIN t.node |->
            IF m \in nodes THEN m
            ELSE IF t.node[m].next = Nil \/ i = 0 THEN Nil ELSE g[i - 1][t.node[m].next]]]

LEMMA SearchExists ==
  ASSUME NEW t, NEW nodes, NEW h \in Nat
  PROVE  \E g : IsSearch(g, t, nodes, h)
<1> DEFINE T == {k \in 0..h : \E g : IsSearch(g, t, nodes, k)}
           Row(g, i) ==
             [m \in DOMAIN t.node |->
                IF m \in nodes THEN m
                ELSE IF t.node[m].next = Nil \/ i = 0 THEN Nil ELSE g[i - 1][t.node[m].next]]
<1>1. 0 \in T
  <2> DEFINE g == [i \in 0..0 |-> [m \in DOMAIN t.node |-> IF m \in nodes THEN m ELSE Nil]]
  <2>1. g[0] = Row(g, 0)
    OBVIOUS
  <2>2. g = [i \in 0..0 |-> g[i]]
    OBVIOUS
  <2>3. \A i \in 0..0 : i = 0
    OBVIOUS
  <2> HIDE DEF g
  <2>4. IsSearch(g, t, nodes, 0)
    BY <2>1, <2>2, <2>3 DEF IsSearch
  <2> HIDE DEF Row
  <2> QED
    BY <2>4
<1>2. ASSUME NEW k \in 0..h, k # 0, k - 1 \in T
      PROVE  k \in T
  <2>1. PICK g : IsSearch(g, t, nodes, k - 1)
    BY <1>2
  <2> DEFINE f == [i \in 0..k |-> IF i = k THEN Row(g, k) ELSE g[i]]
  <2>2. k \in Nat /\ k - 1 \in Nat
    BY <1>2
  <2>3. ASSUME NEW i \in 0..k
        PROVE  f[i] = Row(f, i)
    <3>1. i # 0 => f[i - 1] = g[i - 1]
      BY <2>2
    <3>2. Row(f, i) = Row(g, i)
      BY <3>1
    <3>3. CASE i = k
      BY <3>2, <3>3
    <3>4. CASE i # k
      <4>1. i \in 0..k - 1
        BY <2>2, <3>4
      <4>2. g[i] = Row(g, i)
        BY <2>1, <4>1 DEF IsSearch
      <4> QED
        BY <3>2, <3>4, <4>2
    <3> QED
      BY <3>3, <3>4
  <2>4. f = [i \in 0..k |-> f[i]]
    OBVIOUS
  <2> HIDE DEF f
  <2>5. IsSearch(f, t, nodes, k)
    BY <2>3, <2>4 DEF IsSearch
  <2> HIDE DEF Row
  <2> QED
    BY <2>5
<1> HIDE DEF T
<1>3. 0..h \subseteq T
  BY <1>1, <1>2, Induction
<1>4. h \in T
  BY <1>3
<1> QED
  BY <1>4 DEF T

Searched(g, t, nodes, i, m) ==
  g[i][m] = IF m \in nodes THEN m
            ELSE IF t.node[m].next = Nil \/ i = 0 THEN Nil ELSE g[i - 1][t.node[m].next]

LEMMA SearchSteps ==
  ASSUME NEW t, NEW nodes, NEW h \in Nat, NEW g, IsSearch(g, t, nodes, h)
  PROVE  \A i \in 0..h : \A m \in DOMAIN t.node : Searched(g, t, nodes, i, m)
<1> SUFFICES ASSUME NEW i \in 0..h, NEW m \in DOMAIN t.node
             PROVE  Searched(g, t, nodes, i, m)
  OBVIOUS
<1>1. g[i] = [l \in DOMAIN t.node |->
                IF l \in nodes THEN l
                ELSE IF t.node[l].next = Nil \/ i = 0 THEN Nil ELSE g[i - 1][t.node[l].next]]
  BY DEF IsSearch
<1> QED
  BY <1>1 DEF Searched

LEMMA InChainIs ==
  ASSUME NEW t, Linked(t), NEW nodes, NEW n
  PROVE  \E g : IsSearch(g, t, nodes, Hmask(t)) /\ InChain(t, n, nodes) = g[Hmask(t)][n]
<1> DEFINE h == Hmask(t)
           g == CHOOSE g : IsSearch(g, t, nodes, h)
<1>1. IsSearch(g, t, nodes, h)
  BY SearchExists, Zenon DEF Linked
<1>2. DOMAIN t.node = 0..h
  BY DEF Linked
<1>3. InChain(t, n, nodes) = g[h][n]
  BY <1>2, Zenon DEF InChain, IsSearch
<1> QED
  BY <1>1, <1>3

LEMMA InChainType ==
  ASSUME NEW t, Linked(t), NEW nodes, NEW n \in DOMAIN t.node
  PROVE  InChain(t, n, nodes) \in (nodes \cap DOMAIN t.node) \cup {Nil}
<1> DEFINE h == Hmask(t)
<1>1. h \in Nat
  BY DEF Linked
<1>2. PICK g : IsSearch(g, t, nodes, h) /\ InChain(t, n, nodes) = g[h][n]
  BY InChainIs
<1> DEFINE T == {i \in 0..h : \A m \in DOMAIN t.node : g[i][m] \in (nodes \cap DOMAIN t.node) \cup {Nil}}
<1>3. \A i \in 0..h : \A m \in DOMAIN t.node : Searched(g, t, nodes, i, m)
  BY <1>1, <1>2, SearchSteps
<1> HIDE DEF h
<1>4. 0 \in T
  BY <1>1, <1>3 DEF Searched
<1>5. \A i \in 0..h : i # 0 /\ i - 1 \in T => i \in T
  BY <1>1, <1>3 DEF Linked, Searched
<1> HIDE DEF T
<1>6. 0..h \subseteq T
  BY <1>1, <1>4, <1>5, Induction
<1>7. h \in T
  BY <1>1, <1>6
<1> QED
  BY <1>2, <1>7 DEF T

\* In a chain with an end, InChain finds a node if there is one.
LEMMA InChainFinds ==
  ASSUME NEW t, Linked(t), Ends(t), NEW nodes, NEW n \in DOMAIN t.node,
         NEW x \in nodes, Reach(t, n, x)
  PROVE  InChain(t, n, nodes) # Nil
<1> DEFINE h == Hmask(t)
           N == DOMAIN t.node
<1>1. h \in Nat /\ N = 0..h
  BY DEF Linked
<1>2. PICK g : IsSearch(g, t, nodes, h) /\ InChain(t, n, nodes) = g[h][n]
  BY InChainIs
<1>3. \A i \in 0..h : \A m \in N : Searched(g, t, nodes, i, m)
  BY <1>1, <1>2, SearchSteps
\* A search of i + 1 nodes misses nothing in a chain of at most i + 1 nodes.
<1> DEFINE Complete(i) ==
             \A m \in N : \A S \in SUBSET N :
               m \in S /\ Closed(t, S) /\ Cardinality(S) <= i + 1 /\ g[i][m] = Nil =>
                 ~Reach(t, m, x)
           T == {i \in 0..h : Complete(i)}
<1>4. IsFiniteSet(N) /\ Cardinality(N) = h + 1
  <2> HIDE DEF N, h
  <2>1. IsFiniteSet(0..h) /\ Cardinality(0..h) = h + 1
    BY <1>1, FS_Interval
  <2> QED
    BY <1>1, <2>1
<1>5. ASSUME NEW i \in 0..h, i # 0 => Complete(i - 1)
      PROVE  Complete(i)
  <2> SUFFICES ASSUME NEW m \in N, NEW S \in SUBSET N, m \in S, Closed(t, S),
                      Cardinality(S) <= i + 1, g[i][m] = Nil, Reach(t, m, x)
               PROVE  FALSE
    OBVIOUS
  <2> HIDE DEF Complete, T
  <2>1. m \notin nodes /\ m # x
    BY <1>3, NilNoNode DEF Searched
  <2> DEFINE m2 == t.node[m].next
  <2>2. m2 # Nil /\ Reach(t, m2, x)
    BY <2>1, ReachFrom
  <2>3. m2 \in S /\ m2 \in N
    BY <2>2 DEF Closed
  <2>4. ~Reach(t, m2, m)
    BY <2>2, NoReturn
  <2> DEFINE R == {y \in S : Reach(t, m2, y)}
  <2>5. Closed(t, R) /\ m2 \in R /\ R \in SUBSET N
    <3>1. Closed(t, {y \in N : Reach(t, m2, y)})
      BY <2>3, ReachedClosed
    <3>2. Closed(t, R)
      BY <3>1 DEF Closed
    <3> QED
      BY <2>3, <3>2, ReachSelf
  <2>6. IsFiniteSet(S) /\ Cardinality(S) \in Nat
    BY <1>4, FS_Subset, FS_CardinalityType
  <2>7. R \in SUBSET (S \ {m})
    BY <2>4
  <2>8. /\ IsFiniteSet(S \ {m}) /\ Cardinality(S \ {m}) = Cardinality(S) - 1
        /\ IsFiniteSet(R) /\ Cardinality(R) <= Cardinality(S \ {m})
    <3> HIDE DEF R
    <3> QED
      BY <2>6, <2>7, FS_RemoveElement, FS_Subset
  <2>9. Cardinality(R) \in Nat /\ Cardinality(R) # 0
    <3> HIDE DEF R
    <3> QED
      BY <2>5, <2>8, FS_CardinalityType, FS_EmptySet
  <2> HIDE DEF R, N, h
  <2>10. i # 0 /\ Cardinality(R) <= (i - 1) + 1
    BY <1>1, <2>6, <2>8, <2>9
  <2>11. g[i - 1][m2] = Nil
    BY <1>3, <2>1, <2>2, <2>10 DEF Searched
  <2>12. Complete(i - 1)
    BY <1>5, <2>10
  <2> QED
    BY <2>2, <2>3, <2>5, <2>10, <2>11, <2>12 DEF Complete
<1>6. 0 \in T
  <2>1. 0 \in 0..h
    BY <1>1
  <2>2. Complete(0)
    <3> HIDE DEF Complete, h
    <3> QED
      BY <1>5, <2>1
  <2> HIDE DEF Complete, h
  <2> QED
    BY <2>1, <2>2
<1>7. \A i \in 0..h : i # 0 /\ i - 1 \in T => i \in T
  <2> HIDE DEF Complete, h
  <2> QED
    BY <1>5
<1> HIDE DEF T
<1>8. 0..h \subseteq T
  <2> HIDE DEF h
  <2> QED
    BY <1>1, <1>6, <1>7, Induction
<1>9. Complete(h)
  <2> HIDE DEF Complete, h
  <2>1. h \in T
    BY <1>1, <1>8
  <2> QED
    BY <2>1 DEF T
<1>10. Closed(t, N)
  BY DEF Closed, Linked
<1>11. Cardinality(N) <= h + 1
  BY <1>1, <1>4
<1> HIDE DEF N, h
<1> QED
  BY <1>2, <1>9, <1>10, <1>11 DEF N

(***************************************************************************)
(* Tables, their types.                                                    *)
(***************************************************************************)

HasFields(r, fields) == DOMAIN r = fields /\ r = [f \in fields |-> r[f]]
TableFields == {"array", "node", "freetop", "fits"}

NodeRec(N) == [key : Key \cup {Nil}, val : Key \cup {Nil}, next : N \cup {Nil}]

TableOK(t) ==
  /\ HasFields(t, TableFields)
  /\ t.array \in Seq(Key \cup {Nil})
  /\ Hmask(t) \in Nat
  /\ t.node \in [0..Hmask(t) -> NodeRec(0..Hmask(t))]
  /\ t.freetop \in 0..(IF Hmask(t) = 0 THEN 0 ELSE Hmask(t) + 1)
  /\ t.fits \in BOOLEAN
  /\ \A n \in DOMAIN t.node : t.node[n].val # Nil => t.node[n].key # Nil
  /\ \A j \in DOMAIN t.array : t.array[j] # Nil => j - 1 \in Num

HashOK == strhash \in [Str -> Hashes]

LEMMA TableLinked == ASSUME NEW t, TableOK(t) PROVE Linked(t)
BY DEF TableOK, Linked, NodeRec

LEMMA MainNodeType ==
  ASSUME HashOK, NEW t, TableOK(t), NEW k \in Key
  PROVE  MainNode(t, k) \in DOMAIN t.node
<1> DEFINE hash == IF k \in Str THEN strhash[k] ELSE NumHash[k]
           h == Hmask(t)
<1>1. hash \in Nat
  BY TableAssumption DEF HashOK, Key
<1>2. h \in Nat /\ DOMAIN t.node = 0..h
  BY DEF TableOK
<1>3. MainNode(t, k) = hash % (h + 1)
  BY DEF MainNode
<1> HIDE DEF hash, h
<1>4. hash % (h + 1) \in 0..h
  BY <1>1, <1>2
<1> QED
  BY <1>2, <1>3, <1>4

\* Where a key of another record with the same number of nodes belongs.
LEMMA SameMainNode ==
  ASSUME NEW t, NEW u, Hmask(u) = Hmask(t)
  PROVE  \A k : MainNode(u, k) = MainNode(t, k)
BY DEF MainNode

LEMMA FindNodeType ==
  ASSUME HashOK, NEW t, TableOK(t), NEW k \in Key
  PROVE  /\ FindNode(t, k) \in DOMAIN t.node \cup {Nil}
         /\ FindNode(t, k) # Nil => t.node[FindNode(t, k)].key = k
<1> DEFINE S == {n \in DOMAIN t.node : t.node[n].key = k}
<1>1. FindNode(t, k) = InChain(t, MainNode(t, k), S)
  BY DEF FindNode
<1>2. InChain(t, MainNode(t, k), S) \in (S \cap DOMAIN t.node) \cup {Nil}
  BY InChainType, TableLinked, MainNodeType
<1> QED
  BY <1>1, <1>2

LEMMA HighestFree ==
  ASSUME NEW t, TableOK(t), FreeNodes(t) # {}
  PROVE  /\ Max(FreeNodes(t)) \in FreeNodes(t) /\ Max(FreeNodes(t)) \in Nat
         /\ \A n \in FreeNodes(t) : n <= Max(FreeNodes(t))
         /\ Hmask(t) > 0 /\ t.freetop \in Nat
<1> DEFINE F == FreeNodes(t)
<1>1. F \in SUBSET Nat /\ Hmask(t) \in Nat /\ \A n \in F : n <= Hmask(t)
  BY DEF FreeNodes, TableOK
<1>2. Hmask(t) > 0 /\ t.freetop \in Nat
  BY <1>1 DEF FreeNodes, TableOK
<1> HIDE DEF F
<1>3. Max(F) \in F /\ \A n \in F : n <= Max(F)
  BY <1>1, MaxProperties DEF F
<1> QED
  BY <1>1, <1>2, <1>3 DEF F

(* The walk along a chain, and Rechain. *)

IsWalk(g, t, n, k) ==
  g = [i \in 0..k |-> IF i = 0 THEN n ELSE IF g[i - 1] = Nil THEN Nil ELSE t.node[g[i - 1]].next]

LEMMA WalkExists ==
  ASSUME NEW t, NEW n, NEW h \in Nat
  PROVE  \E g : IsWalk(g, t, n, h)
<1> DEFINE T == {k \in 0..h : \E g : IsWalk(g, t, n, k)}
           On(g, i) == IF i = 0 THEN n ELSE IF g[i - 1] = Nil THEN Nil ELSE t.node[g[i - 1]].next
<1>1. 0 \in T
  <2> DEFINE g == [i \in 0..0 |-> n]
  <2>1. g[0] = On(g, 0) /\ g = [i \in 0..0 |-> g[i]] /\ \A i \in 0..0 : i = 0
    OBVIOUS
  <2> HIDE DEF g
  <2>2. IsWalk(g, t, n, 0)
    BY <2>1 DEF IsWalk
  <2> HIDE DEF On
  <2> QED
    BY <2>2
<1>2. ASSUME NEW k \in 0..h, k # 0, k - 1 \in T
      PROVE  k \in T
  <2>1. PICK g : IsWalk(g, t, n, k - 1)
    BY <1>2
  <2> DEFINE f == [i \in 0..k |-> IF i = k THEN On(g, k) ELSE g[i]]
  <2>2. k \in Nat /\ k - 1 \in Nat
    BY <1>2
  <2>3. ASSUME NEW i \in 0..k
        PROVE  f[i] = On(f, i)
    <3>1. i # 0 => f[i - 1] = g[i - 1]
      BY <2>2
    <3>2. On(f, i) = On(g, i)
      BY <3>1
    <3>3. CASE i = k
      <4> HIDE DEF On
      <4> QED
        BY <3>2, <3>3
    <3>4. CASE i # k
      <4>1. i \in 0..k - 1
        BY <2>2, <3>4
      <4>2. g[i] = On(g, i)
        BY <2>1, <4>1 DEF IsWalk
      <4> QED
        BY <3>2, <3>4, <4>2
    <3> QED
      BY <3>3, <3>4
  <2>4. f = [i \in 0..k |-> f[i]]
    OBVIOUS
  <2> HIDE DEF f
  <2>5. IsWalk(f, t, n, k)
    BY <2>3, <2>4 DEF IsWalk
  <2> HIDE DEF On
  <2> QED
    BY <2>5
<1> HIDE DEF T
<1>3. 0..h \subseteq T
  BY <1>1, <1>2, Induction
<1>4. h \in T
  BY <1>3
<1> QED
  BY <1>4 DEF T

LEMMA WalkType ==
  ASSUME NEW t, Linked(t), NEW n \in DOMAIN t.node
  PROVE  \A i \in DOMAIN t.node : Walk(t, n)[i] \in DOMAIN t.node \cup {Nil}
<1> DEFINE h == Hmask(t)
           g == Walk(t, n)
<1>1. h \in Nat /\ DOMAIN t.node = 0..h
  BY DEF Linked
<1>2. IsWalk(g, t, n, h)
  <2> DEFINE f == CHOOSE f : IsWalk(f, t, n, h)
  <2>1. IsWalk(f, t, n, h)
    BY <1>1, WalkExists, Zenon
  <2>2. g = f
    BY <1>1, Zenon DEF Walk, IsWalk
  <2> QED
    BY <2>1, <2>2
<1> HIDE DEF h, g
<1>3. \A i \in 0..h : g[i] = IF i = 0 THEN n ELSE IF g[i - 1] = Nil THEN Nil ELSE t.node[g[i - 1]].next
  BY <1>2 DEF IsWalk
<1> DEFINE T == {i \in 0..h : g[i] \in DOMAIN t.node \cup {Nil}}
<1>4. 0 \in T
  BY <1>1, <1>3
<1>5. \A i \in 0..h : i # 0 /\ i - 1 \in T => i \in T
  BY <1>1, <1>3 DEF Linked
<1> HIDE DEF T
<1>6. 0..h \subseteq T
  BY <1>1, <1>4, <1>5, Induction
<1> QED
  BY <1>1, <1>6 DEF T, g

\* What Rechain does at one node.
RechainStep(t, n, s, m) ==
  IF m = Nil THEN s
  ELSE IF IsResurrected(t, m, n)
  THEN [s EXCEPT !.node = [@ EXCEPT ![s.at].next = t.node[m].next,
                                    ![m].next = s.node[n].next, ![n].next = m]]
  ELSE [s EXCEPT !.at = m]

IsRechain(g, t, prev, n, k) ==
  g = [i \in 0..k |-> IF i = 0 THEN [node |-> t.node, at |-> prev]
                      ELSE RechainStep(t, n, g[i - 1], Walk(t, prev)[i])]

LEMMA RechainExists ==
  ASSUME NEW t, NEW prev, NEW n, NEW h \in Nat
  PROVE  \E g : IsRechain(g, t, prev, n, h)
<1> DEFINE T == {k \in 0..h : \E g : IsRechain(g, t, prev, n, k)}
           On(g, i) == IF i = 0 THEN [node |-> t.node, at |-> prev]
                       ELSE RechainStep(t, n, g[i - 1], Walk(t, prev)[i])
<1>1. 0 \in T
  <2> DEFINE g == [i \in 0..0 |-> [node |-> t.node, at |-> prev]]
  <2>1. g[0] = On(g, 0) /\ g = [i \in 0..0 |-> g[i]] /\ \A i \in 0..0 : i = 0
    OBVIOUS
  <2> HIDE DEF g
  <2>2. IsRechain(g, t, prev, n, 0)
    BY <2>1 DEF IsRechain
  <2> HIDE DEF On
  <2> QED
    BY <2>2
<1>2. ASSUME NEW k \in 0..h, k # 0, k - 1 \in T
      PROVE  k \in T
  <2>1. PICK g : IsRechain(g, t, prev, n, k - 1)
    BY <1>2
  <2> DEFINE f == [i \in 0..k |-> IF i = k THEN On(g, k) ELSE g[i]]
  <2>2. k \in Nat /\ k - 1 \in Nat
    BY <1>2
  <2>3. ASSUME NEW i \in 0..k
        PROVE  f[i] = On(f, i)
    <3>1. i # 0 => f[i - 1] = g[i - 1]
      BY <2>2
    <3>2. On(f, i) = On(g, i)
      BY <3>1
    <3>3. CASE i = k
      <4> HIDE DEF On
      <4> QED
        BY <3>2, <3>3
    <3>4. CASE i # k
      <4>1. i \in 0..k - 1
        BY <2>2, <3>4
      <4>2. g[i] = On(g, i)
        BY <2>1, <4>1 DEF IsRechain
      <4> QED
        BY <3>2, <3>4, <4>2
    <3> QED
      BY <3>3, <3>4
  <2>4. f = [i \in 0..k |-> f[i]]
    OBVIOUS
  <2> HIDE DEF f
  <2>5. IsRechain(f, t, prev, n, k)
    BY <2>3, <2>4 DEF IsRechain
  <2> HIDE DEF On
  <2> QED
    BY <2>5
<1> HIDE DEF T
<1>3. 0..h \subseteq T
  BY <1>1, <1>2, Induction
<1>4. h \in T
  BY <1>3
<1> QED
  BY <1>4 DEF T

LEMMA RechainIs ==
  ASSUME NEW t, Linked(t), NEW prev, NEW n
  PROVE  \E g : /\ IsRechain(g, t, prev, n, Hmask(t))
                /\ Rechain(t, prev, n) = [t EXCEPT !.node = g[Hmask(t)].node]
<1> DEFINE h == Hmask(t)
           g == CHOOSE g : IsRechain(g, t, prev, n, h)
<1>1. IsRechain(g, t, prev, n, h)
  BY RechainExists, Zenon DEF Linked
<1>2. DOMAIN t.node = 0..h
  BY DEF Linked
<1>3. Rechain(t, prev, n) = [t EXCEPT !.node = g[h].node]
  BY <1>2, Zenon DEF Rechain, IsRechain, RechainStep
<1> QED
  BY <1>1, <1>3

\* Nodes that differ from those of t in their links only.
Relinked(t, s) ==
  /\ HasFields(s, {"node", "at"}) /\ s.at \in DOMAIN t.node
  /\ s.node \in [DOMAIN t.node -> NodeRec(DOMAIN t.node)]
  /\ \A m \in DOMAIN t.node : s.node[m].key = t.node[m].key /\ s.node[m].val = t.node[m].val

LEMMA RechainStepKeeps ==
  ASSUME NEW t, TableOK(t), NEW n \in DOMAIN t.node, NEW s, Relinked(t, s),
         NEW m \in DOMAIN t.node \cup {Nil}
  PROVE  Relinked(t, RechainStep(t, n, s, m))
<1> DEFINE N == DOMAIN t.node
           s1 == [s.node EXCEPT ![s.at].next = t.node[m].next]
           s2 == [s1 EXCEPT ![m].next = s.node[n].next]
           s3 == [s2 EXCEPT ![n].next = m]
           Good(f) == /\ f \in [N -> NodeRec(N)]
                      /\ \A x \in N : f[x].key = t.node[x].key /\ f[x].val = t.node[x].val
<1>1. ASSUME NEW f, Good(f), NEW x \in N, NEW y \in N \cup {Nil}
      PROVE  Good([f EXCEPT ![x].next = y])
  <2> DEFINE d == [f EXCEPT ![x].next = y]
  <2>1. \A z \in N : f[z] \in NodeRec(N)
    BY <1>1
  <2>2. \A z \in N : d[z] = IF z = x THEN [f[x] EXCEPT !.next = y] ELSE f[z]
    BY <1>1
  <2>3. [f[x] EXCEPT !.next = y] \in NodeRec(N)
    BY <1>1, <2>1 DEF NodeRec
  <2>4. [f[x] EXCEPT !.next = y].key = f[x].key /\ [f[x] EXCEPT !.next = y].val = f[x].val
    BY <2>1 DEF NodeRec
  <2>5. d \in [N -> NodeRec(N)]
    BY <1>1, <2>3
  <2> HIDE DEF d
  <2> QED
    BY <1>1, <2>2, <2>4, <2>5
<1>2. Good(s.node) /\ s.at \in N
  BY DEF Relinked
<1>3. \A x \in N : t.node[x].next \in N \cup {Nil}
  BY TableLinked DEF Linked
<1>4. \A x \in N : s.node[x].next \in N \cup {Nil}
  BY <1>2 DEF NodeRec
<1>5. CASE m # Nil /\ IsResurrected(t, m, n)
  <2>1. m \in N
    BY <1>5
  <2> HIDE DEF Good, N
  <2>2. Good(s1)
    BY <1>1, <1>2, <1>3, <2>1
  <2>3. n \in N
    BY DEF N
  <2> HIDE DEF s1
  <2>4. Good(s2)
    BY <1>1, <1>4, <2>1, <2>2, <2>3
  <2> HIDE DEF s2
  <2>5. Good(s3)
    BY <1>1, <2>1, <2>3, <2>4
  <2>6. RechainStep(t, n, s, m) = [s EXCEPT !.node = s3]
    BY <1>5 DEF RechainStep, s1, s2
  <2> HIDE DEF s3
  <2> QED
    BY <2>5, <2>6 DEF Relinked, HasFields, Good, N
<1>6. CASE m = Nil \/ ~IsResurrected(t, m, n)
  <2>1. RechainStep(t, n, s, m) = s \/ (m \in N /\ RechainStep(t, n, s, m) = [s EXCEPT !.at = m])
    BY <1>6 DEF RechainStep
  <2> QED
    BY <2>1 DEF Relinked, HasFields
<1> QED
  BY <1>5, <1>6

IsRelink(t, prev, n, node) ==
  /\ node \in [DOMAIN t.node -> NodeRec(DOMAIN t.node)]
  /\ \A m \in DOMAIN t.node : node[m].key = t.node[m].key /\ node[m].val = t.node[m].val
  /\ Rechain(t, prev, n) = [t EXCEPT !.node = node]

LEMMA RechainType ==
  ASSUME NEW t, TableOK(t), NEW prev \in DOMAIN t.node, NEW n \in DOMAIN t.node
  PROVE  \E node : IsRelink(t, prev, n, node)
<1> DEFINE h == Hmask(t)
<1>1. h \in Nat /\ DOMAIN t.node = 0..h
  BY TableLinked DEF Linked
<1>2. PICK g : IsRechain(g, t, prev, n, h) /\ Rechain(t, prev, n) = [t EXCEPT !.node = g[h].node]
  BY RechainIs, TableLinked
<1> HIDE DEF h
<1>3. \A i \in 0..h : g[i] = IF i = 0 THEN [node |-> t.node, at |-> prev]
                             ELSE RechainStep(t, n, g[i - 1], Walk(t, prev)[i])
  BY <1>2 DEF IsRechain
<1>4. \A i \in 0..h : Walk(t, prev)[i] \in DOMAIN t.node \cup {Nil}
  BY <1>1, WalkType, TableLinked
<1> DEFINE T == {i \in 0..h : Relinked(t, g[i])}
<1>5. 0 \in T
  <2>1. g[0] = [node |-> t.node, at |-> prev]
    BY <1>1, <1>3
  <2>2. t.node \in [DOMAIN t.node -> NodeRec(DOMAIN t.node)]
    BY <1>1 DEF TableOK, h
  <2>3. HasFields(g[0], {"node", "at"}) /\ g[0].node = t.node /\ g[0].at = prev
    BY <2>1 DEF HasFields
  <2> HIDE DEF h
  <2> QED
    BY <1>1, <2>2, <2>3 DEF Relinked
<1>6. \A i \in 0..h : i # 0 /\ i - 1 \in T => i \in T
  BY <1>3, <1>4, RechainStepKeeps
<1> HIDE DEF T
<1>7. 0..h \subseteq T
  BY <1>1, <1>5, <1>6, Induction
<1>8. Relinked(t, g[h])
  BY <1>1, <1>7 DEF T
<1>9. IsRelink(t, prev, n, g[h].node)
  <2> HIDE DEF h
  <2> QED
    BY <1>2, <1>8, Zenon DEF Relinked, IsRelink
<1> QED
  BY <1>9

\* With no string of another chain, Rechain changes nothing.
LEMMA RechainNothing ==
  ASSUME NEW t, TableOK(t), NEW prev \in DOMAIN t.node, NEW n \in DOMAIN t.node,
         \A m \in DOMAIN t.node : ~IsResurrected(t, m, n)
  PROVE  Rechain(t, prev, n) = t
<1> DEFINE h == Hmask(t)
<1>1. h \in Nat /\ DOMAIN t.node = 0..h
  BY TableLinked DEF Linked
<1>2. PICK g : IsRechain(g, t, prev, n, h) /\ Rechain(t, prev, n) = [t EXCEPT !.node = g[h].node]
  BY RechainIs, TableLinked
<1> HIDE DEF h
<1>3. \A i \in 0..h : g[i] = IF i = 0 THEN [node |-> t.node, at |-> prev]
                             ELSE RechainStep(t, n, g[i - 1], Walk(t, prev)[i])
  BY <1>2 DEF IsRechain
<1>4. \A i \in 0..h : Walk(t, prev)[i] \in DOMAIN t.node \cup {Nil}
  BY <1>1, WalkType, TableLinked
<1> DEFINE T == {i \in 0..h : g[i].node = t.node /\ HasFields(g[i], {"node", "at"})}
<1>5. 0 \in T
  <2>1. g[0] = [node |-> t.node, at |-> prev]
    BY <1>1, <1>3
  <2> QED
    BY <1>1, <2>1 DEF HasFields
<1>6. ASSUME NEW i \in 0..h, i # 0, i - 1 \in T
      PROVE  i \in T
  <2> DEFINE s == g[i - 1]
             m == Walk(t, prev)[i]
  <2>1. g[i] = RechainStep(t, n, s, m)
    BY <1>3, <1>6
  <2>2. g[i] = s \/ g[i] = [s EXCEPT !.at = m]
    BY <1>4, <2>1 DEF RechainStep
  <2>3. s.node = t.node /\ HasFields(s, {"node", "at"})
    BY <1>6
  <2> HIDE DEF s, m
  <2> QED
    BY <1>6, <2>2, <2>3 DEF HasFields
<1> HIDE DEF T
<1>7. 0..h \subseteq T
  BY <1>1, <1>5, <1>6, Induction
<1>8. g[h].node = t.node
  BY <1>1, <1>7 DEF T
<1>9. [t EXCEPT !.node = t.node] = t
  BY DEF TableOK, HasFields, TableFields
<1> QED
  BY <1>2, <1>8, <1>9

(***************************************************************************)
(* New keys and stores, their types.                                       *)
(***************************************************************************)

\* A table with other nodes.
With(t, node, freetop) == [t EXCEPT !.node = node, !.freetop = freetop]

LEMMA WithFields ==
  ASSUME NEW t, HasFields(t, TableFields), NEW node, NEW freetop
  PROVE  /\ HasFields(With(t, node, freetop), TableFields)
         /\ With(t, node, freetop).array = t.array /\ With(t, node, freetop).fits = t.fits
         /\ With(t, node, freetop).node = node /\ With(t, node, freetop).freetop = freetop
BY DEF HasFields, TableFields, With

LEMMA TableKept ==
  ASSUME NEW t, TableOK(t), NEW u, HasFields(u, TableFields), u.array = t.array,
         u.node \in [DOMAIN t.node -> NodeRec(DOMAIN t.node)],
         \A n \in DOMAIN t.node : u.node[n].val # Nil => u.node[n].key # Nil,
         u.freetop \in Nat, u.freetop <= t.freetop, u.fits \in BOOLEAN
  PROVE  TableOK(u) /\ Hmask(u) = Hmask(t) /\ DOMAIN u.node = DOMAIN t.node
<1> DEFINE h == Hmask(t)
<1>1. h \in Nat /\ DOMAIN t.node = 0..h
  BY DEF TableOK
<1>2. DOMAIN u.node = 0..h
  BY <1>1
<1> HIDE DEF h
<1>3. Hmask(u) = h
  BY <1>1, <1>2, HmaskIs
<1>4. u.freetop \in 0..(IF h = 0 THEN 0 ELSE h + 1)
  BY <1>1 DEF TableOK, h
<1>5. u.node \in [0..h -> NodeRec(0..h)] /\ u.array \in Seq(Key \cup {Nil})
  BY <1>1 DEF TableOK
<1>6. \A n \in DOMAIN u.node : u.node[n].val # Nil => u.node[n].key # Nil
  BY <1>1, <1>2
<1>7. \A j \in DOMAIN u.array : u.array[j] # Nil => j - 1 \in Num
  BY DEF TableOK
<1>8. TableOK(u)
  BY <1>1, <1>3, <1>4, <1>5, <1>6, <1>7 DEF TableOK
<1> QED
  BY <1>1, <1>2, <1>3, <1>8 DEF h

\* The fields of a node that is changed.
LEMMA NodeFields ==
  ASSUME NEW N, NEW f \in [N -> NodeRec(N)], NEW x \in N
  PROVE  /\ \A k : LET g == [f EXCEPT ![x].key = k]
                   IN  /\ DOMAIN g = N /\ \A y \in N : y # x => g[y] = f[y]
                       /\ g[x] = [key |-> k, val |-> f[x].val, next |-> f[x].next]
         /\ \A v : LET g == [f EXCEPT ![x].val = v]
                   IN  /\ DOMAIN g = N /\ \A y \in N : y # x => g[y] = f[y]
                       /\ g[x] = [key |-> f[x].key, val |-> v, next |-> f[x].next]
         /\ \A m : LET g == [f EXCEPT ![x].next = m]
                   IN  /\ DOMAIN g = N /\ \A y \in N : y # x => g[y] = f[y]
                       /\ g[x] = [key |-> f[x].key, val |-> f[x].val, next |-> m]
<1>1. f[x] = [key |-> f[x].key, val |-> f[x].val, next |-> f[x].next]
  BY DEF NodeRec
<1> QED
  BY <1>1

LEMMA NodesTyped ==
  ASSUME NEW N, NEW f, f = [y \in N |-> f[y]],
         \A y \in N : /\ f[y] = [key |-> f[y].key, val |-> f[y].val, next |-> f[y].next]
                      /\ f[y].key \in Key \cup {Nil} /\ f[y].val \in Key \cup {Nil}
                      /\ f[y].next \in N \cup {Nil}
  PROVE  f \in [N -> NodeRec(N)]
<1>1. ASSUME NEW y \in N
      PROVE  f[y] \in NodeRec(N)
  <2>1. [key |-> f[y].key, val |-> f[y].val, next |-> f[y].next] \in NodeRec(N)
    BY DEF NodeRec
  <2> QED
    BY <2>1
<1> QED
  BY <1>1

ValuesHaveKeys(node) == \A n \in DOMAIN node : node[n].val # Nil => node[n].key # Nil

LEMMA MovedType ==
  ASSUME NEW N, NEW f \in [N -> NodeRec(N)], ValuesHaveKeys(f),
         NEW n \in N, NEW free \in N, NEW pred \in N
  PROVE  Moved(f, n, free, pred) \in [N -> NodeRec(N)] /\ ValuesHaveKeys(Moved(f, n, free, pred))
<1> DEFINE f1 == [f EXCEPT ![pred].next = free]
           f2 == [f1 EXCEPT ![free] = f[n]]
           f3 == [f2 EXCEPT ![n] = [f[n] EXCEPT !.val = Nil, !.next = Nil]]
           Good(g) == g \in [N -> NodeRec(N)] /\ ValuesHaveKeys(g)
<1>1. Good(f1)
  <2>1. [f[pred] EXCEPT !.next = free] \in NodeRec(N)
    BY DEF NodeRec
  <2>2. [f[pred] EXCEPT !.next = free].key = f[pred].key /\ [f[pred] EXCEPT !.next = free].val = f[pred].val
    BY DEF NodeRec
  <2>3. \A y \in N : f1[y] = IF y = pred THEN [f[pred] EXCEPT !.next = free] ELSE f[y]
    OBVIOUS
  <2>4. f1 \in [N -> NodeRec(N)]
    BY <2>1
  <2> HIDE DEF f1
  <2> QED
    BY <2>2, <2>3, <2>4 DEF ValuesHaveKeys
<1> HIDE DEF f1
<1>2. Good(f2)
  BY <1>1 DEF ValuesHaveKeys
<1> HIDE DEF f2
<1>3. Good(f3)
  <2> DEFINE r == [f[n] EXCEPT !.val = Nil, !.next = Nil]
  <2>1. f[n] \in NodeRec(N)
    OBVIOUS
  <2>2. r \in NodeRec(N) /\ r.val = Nil
    BY <2>1 DEF NodeRec
  <2>3. \A y \in N : f3[y] = IF y = n THEN r ELSE f2[y]
    BY <1>2
  <2>4. f3 \in [N -> NodeRec(N)]
    BY <1>2, <2>2
  <2> HIDE DEF f3, r
  <2> QED
    BY <1>2, <2>2, <2>3, <2>4 DEF ValuesHaveKeys
<1>4. Moved(f, n, free, pred) = f3
  BY DEF Moved, f1, f2
<1> QED
  BY <1>3, <1>4

\* The free node that is taken, and the table without it among the free ones.
LEMMA Taken ==
  ASSUME NEW t, TableOK(t), FreeNodes(t) # {}, NEW free, free = Max(FreeNodes(t))
  PROVE  /\ TableOK([t EXCEPT !.freetop = free]) /\ Hmask([t EXCEPT !.freetop = free]) = Hmask(t)
         /\ [t EXCEPT !.freetop = free].node = t.node /\ [t EXCEPT !.freetop = free].array = t.array
         /\ [t EXCEPT !.freetop = free].fits = t.fits
         /\ free \in DOMAIN t.node /\ free \in Nat /\ free < t.freetop /\ t.node[free].key = Nil
         /\ \A n \in DOMAIN t.node : n < t.freetop /\ t.node[n].key = Nil => n <= free
         /\ Hmask(t) > 0
<1> DEFINE u == [t EXCEPT !.freetop = free]
<1>1. HasFields(t, TableFields)
  BY DEF TableOK
<1>2. HasFields(u, TableFields) /\ u.array = t.array /\ u.node = t.node /\ u.fits = t.fits /\ u.freetop = free
  BY <1>1 DEF HasFields, TableFields
<1>3. /\ free \in FreeNodes(t) /\ free \in Nat /\ t.freetop \in Nat /\ Hmask(t) > 0
      /\ \A n \in FreeNodes(t) : n <= free
  BY HighestFree
<1> HIDE DEF u
<1>4. DOMAIN t.node = 0..Hmask(t) /\ t.node \in [DOMAIN t.node -> NodeRec(DOMAIN t.node)]
      /\ t.fits \in BOOLEAN /\ \A n \in DOMAIN t.node : t.node[n].val # Nil => t.node[n].key # Nil
  BY DEF TableOK
<1>5. free \in DOMAIN t.node /\ free < t.freetop /\ t.node[free].key = Nil
  BY <1>3 DEF FreeNodes
<1>6. TableOK(u) /\ Hmask(u) = Hmask(t)
  <2>1. u.node \in [DOMAIN t.node -> NodeRec(DOMAIN t.node)] /\ u.fits \in BOOLEAN
    BY <1>2, <1>4
  <2>2. \A n \in DOMAIN t.node : u.node[n].val # Nil => u.node[n].key # Nil
    BY <1>2, <1>4
  <2>3. u.freetop \in Nat /\ u.freetop <= t.freetop
    BY <1>2, <1>3, <1>5
  <2> QED
    BY <1>2, <2>1, <2>2, <2>3, TableKept
<1>7. \A n \in DOMAIN t.node : n < t.freetop /\ t.node[n].key = Nil => n <= free
  BY <1>3 DEF FreeNodes
<1> QED
  BY <1>2, <1>3, <1>5, <1>6, <1>7 DEF u

\* The colliding node is moved, or its chain does not come to it.
LEMMA MoveIs ==
  ASSUME HashOK, NEW t, TableOK(t), NEW n \in DOMAIN t.node, t.node[n].val # Nil,
         NEW free \in DOMAIN t.node
  PROVE  LET u == With(t, Moved(t.node, n, free, Pred(t, n)), t.freetop)
         IN  /\ Pred(t, n) \in DOMAIN t.node \cup {Nil}
             /\ Pred(t, n) = Nil => MoveColliding(t, n, free) = [t EXCEPT !.fits = FALSE]
             /\ Pred(t, n) # Nil => /\ MoveColliding(t, n, free) = Rechain(u, free, n)
                                    /\ TableOK(u) /\ Hmask(u) = Hmask(t)
<1> DEFINE u == With(t, Moved(t.node, n, free, Pred(t, n)), t.freetop)
           S == {m \in DOMAIN t.node : t.node[m].next = n}
<1>1. HasFields(t, TableFields) /\ t.node \in [DOMAIN t.node -> NodeRec(DOMAIN t.node)]
      /\ ValuesHaveKeys(t.node) /\ t.fits \in BOOLEAN
  BY DEF TableOK, ValuesHaveKeys
<1>2. t.node[n].key \in Key
  BY <1>1 DEF NodeRec, ValuesHaveKeys
<1>3. InChain(t, MainNode(t, t.node[n].key), S) \in (S \cap DOMAIN t.node) \cup {Nil}
  BY <1>2, MainNodeType, TableLinked, InChainType
<1>4. Pred(t, n) \in DOMAIN t.node \cup {Nil}
  BY <1>3 DEF Pred
<1>5. Pred(t, n) = Nil => MoveColliding(t, n, free) = [t EXCEPT !.fits = FALSE]
  BY DEF MoveColliding
<1>6. ASSUME Pred(t, n) # Nil
      PROVE  MoveColliding(t, n, free) = Rechain(u, free, n) /\ TableOK(u) /\ Hmask(u) = Hmask(t)
  <2> DEFINE v == [t EXCEPT !.node = Moved(t.node, n, free, Pred(t, n))]
  <2>1. MoveColliding(t, n, free) = Rechain(v, free, n)
    <3> HIDE DEF u, S
    <3> QED
      BY <1>6, Zenon DEF MoveColliding
  <2>2. u = v
    BY <1>1 DEF With, HasFields, TableFields
  <2> HIDE DEF v, u
  <2>3. /\ Moved(t.node, n, free, Pred(t, n)) \in [DOMAIN t.node -> NodeRec(DOMAIN t.node)]
        /\ ValuesHaveKeys(Moved(t.node, n, free, Pred(t, n)))
    BY <1>1, <1>4, <1>6, MovedType
  <2>4. /\ HasFields(u, TableFields) /\ u.array = t.array /\ u.fits = t.fits /\ u.freetop = t.freetop
        /\ u.node = Moved(t.node, n, free, Pred(t, n))
    BY <1>1, WithFields DEF u
  <2>5. \A m \in DOMAIN t.node : u.node[m].val # Nil => u.node[m].key # Nil
    BY <2>3, <2>4 DEF ValuesHaveKeys
  <2>6. t.freetop \in Nat /\ t.freetop <= t.freetop
    BY DEF TableOK
  <2>7. TableOK(u) /\ Hmask(u) = Hmask(t)
    BY <1>1, <2>3, <2>4, <2>5, <2>6, TableKept
  <2> QED
    BY <2>1, <2>2, <2>7
<1> QED
  BY <1>4, <1>5, <1>6

LEMMA KeySet ==
  ASSUME NEW t, TableOK(t), NEW m \in DOMAIN t.node, NEW k \in Key
  PROVE  LET u == [t EXCEPT !.node[m].key = k]
         IN  /\ TableOK(u) /\ Hmask(u) = Hmask(t) /\ DOMAIN u.node = DOMAIN t.node
             /\ u.array = t.array /\ u.freetop = t.freetop /\ u.fits = t.fits
             /\ u.node[m].key = k /\ u.node[m].val = t.node[m].val /\ u.node[m].next = t.node[m].next
             /\ \A y \in DOMAIN t.node : y # m => u.node[y] = t.node[y]
<1> DEFINE u == [t EXCEPT !.node[m].key = k]
           N == DOMAIN t.node
<1>1. HasFields(t, TableFields) /\ t.node \in [N -> NodeRec(N)] /\ t.fits \in BOOLEAN
      /\ t.freetop \in Nat /\ ValuesHaveKeys(t.node)
  BY DEF TableOK, ValuesHaveKeys
<1>2. k # Nil
  BY TableAssumption DEF Key
<1>3. /\ HasFields(u, TableFields) /\ u.array = t.array /\ u.freetop = t.freetop /\ u.fits = t.fits
      /\ u.node = [t.node EXCEPT ![m].key = k]
  BY <1>1 DEF HasFields, TableFields
<1> HIDE DEF u
<1>4. /\ DOMAIN u.node = N /\ \A y \in N : y # m => u.node[y] = t.node[y]
      /\ u.node[m] = [key |-> k, val |-> t.node[m].val, next |-> t.node[m].next]
  BY <1>1, <1>3, NodeFields
<1>5. u.node \in [N -> NodeRec(N)]
  <2>1. t.node[m].val \in Key \cup {Nil} /\ t.node[m].next \in N \cup {Nil}
    BY <1>1 DEF NodeRec
  <2>2. [key |-> k, val |-> t.node[m].val, next |-> t.node[m].next] \in NodeRec(N)
    BY <2>1 DEF NodeRec
  <2> QED
    BY <1>1, <1>3, <1>4, <2>2
<1>6. \A y \in N : u.node[y].val # Nil => u.node[y].key # Nil
  BY <1>1, <1>2, <1>4 DEF ValuesHaveKeys
<1>7. u.freetop \in Nat /\ u.freetop <= t.freetop /\ u.fits \in BOOLEAN
  BY <1>1, <1>3
<1>8. TableOK(u) /\ Hmask(u) = Hmask(t)
  BY <1>3, <1>5, <1>6, <1>7, TableKept
<1> QED
  BY <1>3, <1>4, <1>8 DEF u

LEMMA ValueSet ==
  ASSUME NEW t, TableOK(t), NEW m \in DOMAIN t.node, t.node[m].key # Nil, NEW v \in Key \cup {Nil}
  PROVE  LET u == [t EXCEPT !.node[m].val = v]
         IN  /\ TableOK(u) /\ Hmask(u) = Hmask(t) /\ DOMAIN u.node = DOMAIN t.node
             /\ u.array = t.array /\ u.freetop = t.freetop /\ u.fits = t.fits
             /\ u.node[m].key = t.node[m].key /\ u.node[m].val = v /\ u.node[m].next = t.node[m].next
             /\ \A y \in DOMAIN t.node : y # m => u.node[y] = t.node[y]
<1> DEFINE u == [t EXCEPT !.node[m].val = v]
           N == DOMAIN t.node
<1>1. HasFields(t, TableFields) /\ t.node \in [N -> NodeRec(N)] /\ t.fits \in BOOLEAN
      /\ t.freetop \in Nat /\ ValuesHaveKeys(t.node)
  BY DEF TableOK, ValuesHaveKeys
<1>3. /\ HasFields(u, TableFields) /\ u.array = t.array /\ u.freetop = t.freetop /\ u.fits = t.fits
      /\ u.node = [t.node EXCEPT ![m].val = v]
  BY <1>1 DEF HasFields, TableFields
<1> HIDE DEF u
<1>4. /\ DOMAIN u.node = N /\ \A y \in N : y # m => u.node[y] = t.node[y]
      /\ u.node[m] = [key |-> t.node[m].key, val |-> v, next |-> t.node[m].next]
  BY <1>1, <1>3, NodeFields
<1>5. u.node \in [N -> NodeRec(N)]
  <2>1. t.node[m].key \in Key \cup {Nil} /\ t.node[m].next \in N \cup {Nil}
    BY <1>1 DEF NodeRec
  <2>2. [key |-> t.node[m].key, val |-> v, next |-> t.node[m].next] \in NodeRec(N)
    BY <2>1 DEF NodeRec
  <2> QED
    BY <1>1, <1>3, <1>4, <2>2
<1>6. \A y \in N : u.node[y].val # Nil => u.node[y].key # Nil
  BY <1>1, <1>4 DEF ValuesHaveKeys
<1>7. u.freetop \in Nat /\ u.freetop <= t.freetop /\ u.fits \in BOOLEAN
  BY <1>1, <1>3
<1>8. TableOK(u) /\ Hmask(u) = Hmask(t)
  BY <1>3, <1>5, <1>6, <1>7, TableKept
<1> QED
  BY <1>3, <1>4, <1>8 DEF u

\* A new key that is put behind its main node.
Inserted(node, n, free) == [node EXCEPT ![free].next = node[n].next, ![n].next = free]

LEMMA InsertedFields ==
  ASSUME NEW N, NEW f \in [N -> NodeRec(N)], NEW n \in N, NEW free \in N, n # free
  PROVE  LET g == Inserted(f, n, free)
         IN  /\ g \in [N -> NodeRec(N)]
             /\ \A y \in N : g[y].key = f[y].key /\ g[y].val = f[y].val
             /\ g[n].next = free /\ g[free].next = f[n].next
             /\ \A y \in N : y \notin {n, free} => g[y] = f[y]
<1> DEFINE f1 == [f EXCEPT ![free].next = f[n].next]
           g == [f1 EXCEPT ![n].next = free]
<1>1. /\ DOMAIN f1 = N /\ \A y \in N : y # free => f1[y] = f[y]
      /\ f1[free] = [key |-> f[free].key, val |-> f[free].val, next |-> f[n].next]
  BY NodeFields
<1>2. f1 \in [N -> NodeRec(N)]
  <2>1. f[n].next \in N \cup {Nil} /\ f[free].key \in Key \cup {Nil} /\ f[free].val \in Key \cup {Nil}
    BY DEF NodeRec
  <2>2. [key |-> f[free].key, val |-> f[free].val, next |-> f[n].next] \in NodeRec(N)
    BY <2>1 DEF NodeRec
  <2> QED
    BY <1>1, <2>2
<1> HIDE DEF f1
<1>3. /\ DOMAIN g = N /\ \A y \in N : y # n => g[y] = f1[y]
      /\ g[n] = [key |-> f1[n].key, val |-> f1[n].val, next |-> free]
  BY <1>2, NodeFields
<1>4. g \in [N -> NodeRec(N)]
  <2>1. f1[n].key \in Key \cup {Nil} /\ f1[n].val \in Key \cup {Nil}
    BY <1>2 DEF NodeRec
  <2>2. [key |-> f1[n].key, val |-> f1[n].val, next |-> free] \in NodeRec(N)
    BY <2>1 DEF NodeRec
  <2> QED
    BY <1>2, <1>3, <2>2
<1>5. Inserted(f, n, free) = g
  BY DEF Inserted, f1
<1> HIDE DEF g
<1> QED
  BY <1>1, <1>3, <1>4, <1>5

\* What Rechain and a move without a predecessor leave alone.
SameValues(u, t) ==
  /\ TableOK(u) /\ Hmask(u) = Hmask(t) /\ DOMAIN u.node = DOMAIN t.node
  /\ u.array = t.array /\ u.freetop = t.freetop

LEMMA RechainKeeps ==
  ASSUME NEW t, TableOK(t), NEW prev \in DOMAIN t.node, NEW n \in DOMAIN t.node
  PROVE  SameValues(Rechain(t, prev, n), t)
<1>1. PICK node : IsRelink(t, prev, n, node)
  BY RechainType
<1>2. /\ node \in [DOMAIN t.node -> NodeRec(DOMAIN t.node)]
      /\ \A m \in DOMAIN t.node : node[m].key = t.node[m].key /\ node[m].val = t.node[m].val
      /\ Rechain(t, prev, n) = [t EXCEPT !.node = node]
  BY <1>1, Zenon DEF IsRelink
<1> DEFINE u == [t EXCEPT !.node = node]
<1>3. HasFields(t, TableFields) /\ t.fits \in BOOLEAN /\ t.freetop \in Nat
      /\ \A m \in DOMAIN t.node : t.node[m].val # Nil => t.node[m].key # Nil
  BY DEF TableOK
<1>4. HasFields(u, TableFields) /\ u.array = t.array /\ u.node = node /\ u.fits = t.fits /\ u.freetop = t.freetop
  BY <1>3 DEF HasFields, TableFields
<1> HIDE DEF u
<1>5. TableOK(u) /\ Hmask(u) = Hmask(t) /\ DOMAIN u.node = DOMAIN t.node
  <2>1. \A m \in DOMAIN t.node : u.node[m].val # Nil => u.node[m].key # Nil
    BY <1>2, <1>3, <1>4
  <2>2. u.node \in [DOMAIN t.node -> NodeRec(DOMAIN t.node)] /\ u.freetop \in Nat /\ u.freetop <= t.freetop
    BY <1>2, <1>3, <1>4
  <2>3. u.fits \in BOOLEAN
    BY <1>3, <1>4
  <2> QED
    BY <1>4, <2>1, <2>2, <2>3, TableKept
<1> QED
  BY <1>2, <1>4, <1>5 DEF SameValues, u

LEMMA FitsLost ==
  ASSUME NEW t, TableOK(t)
  PROVE  SameValues([t EXCEPT !.fits = FALSE], t)
<1> DEFINE u == [t EXCEPT !.fits = FALSE]
<1>1. HasFields(t, TableFields) /\ t.freetop \in Nat
      /\ t.node \in [DOMAIN t.node -> NodeRec(DOMAIN t.node)]
      /\ \A m \in DOMAIN t.node : t.node[m].val # Nil => t.node[m].key # Nil
  BY DEF TableOK
<1>2. HasFields(u, TableFields) /\ u.array = t.array /\ u.node = t.node /\ u.fits = FALSE /\ u.freetop = t.freetop
  BY <1>1 DEF HasFields, TableFields
<1> HIDE DEF u
<1>3. TableOK(u) /\ Hmask(u) = Hmask(t) /\ DOMAIN u.node = DOMAIN t.node
  <2>1. \A m \in DOMAIN t.node : u.node[m].val # Nil => u.node[m].key # Nil
    BY <1>1, <1>2
  <2>2. u.node \in [DOMAIN t.node -> NodeRec(DOMAIN t.node)] /\ u.freetop \in Nat /\ u.freetop <= t.freetop
    BY <1>1, <1>2
  <2>3. u.fits \in BOOLEAN
    BY <1>2
  <2> QED
    BY <1>2, <2>1, <2>2, <2>3, TableKept
<1> QED
  BY <1>2, <1>3 DEF SameValues, u

LEMMA InsertKeeps ==
  ASSUME NEW t, TableOK(t), NEW n \in DOMAIN t.node, NEW free \in DOMAIN t.node, n # free
  PROVE  LET u == [t EXCEPT !.node = Inserted(t.node, n, free)]
         IN  SameValues(u, t) /\ u.node = Inserted(t.node, n, free) /\ u.fits = t.fits
<1> DEFINE u == [t EXCEPT !.node = Inserted(t.node, n, free)]
<1>1. HasFields(t, TableFields) /\ t.freetop \in Nat /\ t.fits \in BOOLEAN
      /\ t.node \in [DOMAIN t.node -> NodeRec(DOMAIN t.node)]
      /\ \A m \in DOMAIN t.node : t.node[m].val # Nil => t.node[m].key # Nil
  BY DEF TableOK
<1>2. /\ HasFields(u, TableFields) /\ u.array = t.array /\ u.node = Inserted(t.node, n, free)
      /\ u.fits = t.fits /\ u.freetop = t.freetop
  BY <1>1 DEF HasFields, TableFields
<1> HIDE DEF u
<1>3. /\ u.node \in [DOMAIN t.node -> NodeRec(DOMAIN t.node)]
      /\ \A y \in DOMAIN t.node : u.node[y].key = t.node[y].key /\ u.node[y].val = t.node[y].val
  BY <1>1, <1>2, InsertedFields
<1>4. TableOK(u) /\ Hmask(u) = Hmask(t) /\ DOMAIN u.node = DOMAIN t.node
  <2>1. \A m \in DOMAIN t.node : u.node[m].val # Nil => u.node[m].key # Nil
    BY <1>1, <1>3
  <2>2. u.freetop \in Nat /\ u.freetop <= t.freetop /\ u.fits \in BOOLEAN
    BY <1>1, <1>2
  <2> QED
    BY <1>2, <1>3, <2>1, <2>2, TableKept
<1> QED
  BY <1>2, <1>4 DEF SameValues, u

\* The three ways to take in a new key.
LEMMA NewKeyIs ==
  ASSUME HashOK, NEW t, TableOK(t), NEW k \in Key, HasRoom(t, k)
  PROVE  LET n == MainNode(t, k)
             free == Max(FreeNodes(t))
             u == [t EXCEPT !.freetop = free]
         IN  /\ n \in DOMAIN t.node
             /\ t.node[n].val = Nil /\ Hmask(t) > 0 =>
                  NewKey(t, k) = [tab |-> [t EXCEPT !.node[n].key = k], node |-> n]
             /\ ~(t.node[n].val = Nil /\ Hmask(t) > 0) =>
                  /\ TableOK(u) /\ Hmask(u) = Hmask(t) /\ u.node = t.node /\ u.array = t.array
                  /\ u.fits = t.fits /\ u.freetop = free
                  /\ free \in DOMAIN t.node /\ free \in Nat /\ free < t.freetop
                  /\ t.node[free].key = Nil /\ n # free /\ Hmask(t) > 0 /\ t.node[n].val # Nil
                  /\ t.node[n].key \in Key
                  /\ \A m \in DOMAIN t.node : m < t.freetop /\ t.node[m].key = Nil => m <= free
                  /\ IF MainNode(t, t.node[n].key) # n
                     THEN NewKey(t, k) = [tab |-> [MoveColliding(u, n, free) EXCEPT !.node[n].key = k],
                                          node |-> n]
                     ELSE NewKey(t, k) = [tab |-> [[u EXCEPT !.node = Inserted(u.node, n, free)]
                                                   EXCEPT !.node[free].key = k],
                                          node |-> free]
<1> DEFINE n == MainNode(t, k)
           free == Max(FreeNodes(t))
           u == [t EXCEPT !.freetop = free]
<1>1. n \in DOMAIN t.node
  BY MainNodeType
<1>2. t.node[n].val = Nil /\ Hmask(t) > 0 =>
        NewKey(t, k) = [tab |-> [t EXCEPT !.node[n].key = k], node |-> n]
  BY Zenon DEF NewKey
<1>3. ASSUME ~(t.node[n].val = Nil /\ Hmask(t) > 0)
      PROVE  /\ TableOK(u) /\ Hmask(u) = Hmask(t) /\ u.node = t.node /\ u.array = t.array
             /\ u.fits = t.fits /\ u.freetop = free
             /\ free \in DOMAIN t.node /\ free \in Nat /\ free < t.freetop
             /\ t.node[free].key = Nil /\ n # free /\ Hmask(t) > 0 /\ t.node[n].val # Nil
             /\ t.node[n].key \in Key
             /\ \A m \in DOMAIN t.node : m < t.freetop /\ t.node[m].key = Nil => m <= free
  <2>1. FreeNodes(t) # {}
    BY <1>3 DEF HasRoom
  <2>2. /\ TableOK(u) /\ Hmask(u) = Hmask(t) /\ u.node = t.node /\ u.array = t.array /\ u.fits = t.fits
        /\ free \in DOMAIN t.node /\ free \in Nat /\ free < t.freetop /\ t.node[free].key = Nil
        /\ \A m \in DOMAIN t.node : m < t.freetop /\ t.node[m].key = Nil => m <= free
        /\ Hmask(t) > 0
    BY <2>1, Taken
  <2>3. HasFields(t, TableFields)
    BY DEF TableOK
  <2>4. u.freetop = free
    BY <2>3 DEF HasFields, TableFields
  <2>5. t.node[n].val # Nil
    BY <1>3, <2>2
  <2>6. t.node[n].key \in Key \cup {Nil} /\ t.node[n].key # Nil
    BY <1>1, <2>5 DEF TableOK, NodeRec
  <2> HIDE DEF u, free, n
  <2> QED
    BY <2>2, <2>4, <2>5, <2>6
<1>4. ASSUME ~(t.node[n].val = Nil /\ Hmask(t) > 0), MainNode(t, t.node[n].key) # n
      PROVE  NewKey(t, k) = [tab |-> [MoveColliding(u, n, free) EXCEPT !.node[n].key = k], node |-> n]
  BY <1>4, Zenon DEF NewKey
<1>5. ASSUME ~(t.node[n].val = Nil /\ Hmask(t) > 0), MainNode(t, t.node[n].key) = n
      PROVE  NewKey(t, k) = [tab |-> [[u EXCEPT !.node = Inserted(u.node, n, free)]
                                      EXCEPT !.node[free].key = k],
                             node |-> free]
  <2>1. u.node = t.node
    BY <1>3, <1>5
  <2>2. NewKey(t, k) = [tab |-> [[u EXCEPT !.node = [u.node EXCEPT ![free].next = t.node[n].next, ![n].next = free]]
                                 EXCEPT !.node[free].key = k],
                        node |-> free]
    BY <1>5, Zenon DEF NewKey
  <2> HIDE DEF u, free, n
  <2> QED
    BY <2>1, <2>2, Zenon DEF Inserted
<1> HIDE DEF u, free, n
<1>6. ASSUME ~(t.node[n].val = Nil /\ Hmask(t) > 0)
      PROVE  IF MainNode(t, t.node[n].key) # n
             THEN NewKey(t, k) = [tab |-> [MoveColliding(u, n, free) EXCEPT !.node[n].key = k], node |-> n]
             ELSE NewKey(t, k) = [tab |-> [[u EXCEPT !.node = Inserted(u.node, n, free)]
                                           EXCEPT !.node[free].key = k],
                                  node |-> free]
  BY <1>4, <1>5, <1>6, Zenon
<1> QED
  BY <1>1, <1>2, <1>3, <1>6 DEF u, free, n

LEMMA NewKeyType ==
  ASSUME HashOK, NEW t, TableOK(t), NEW k \in Key, HasRoom(t, k)
  PROVE  LET new == NewKey(t, k)
         IN  /\ TableOK(new.tab) /\ Hmask(new.tab) = Hmask(t) /\ new.tab.array = t.array
             /\ new.node \in DOMAIN new.tab.node /\ new.tab.node[new.node].key = k
<1> DEFINE n == MainNode(t, k)
           free == Max(FreeNodes(t))
           u == [t EXCEPT !.freetop = free]
           w == NewKey(t, k)
           Good(x, m) == /\ TableOK(x) /\ Hmask(x) = Hmask(t) /\ x.array = t.array
                         /\ m \in DOMAIN x.node /\ x.node[m].key = k
<1>1. n \in DOMAIN t.node
  BY MainNodeType
<1>2. CASE t.node[n].val = Nil /\ Hmask(t) > 0
  <2>1. w = [tab |-> [t EXCEPT !.node[n].key = k], node |-> n]
    BY <1>2, NewKeyIs
  <2>2. Good([t EXCEPT !.node[n].key = k], n)
    BY <1>1, KeySet
  <2>3. w.tab = [t EXCEPT !.node[n].key = k] /\ w.node = n
    BY <2>1
  <2>4. Good(w.tab, w.node)
    <3> HIDE DEF Good, w, n
    <3> QED
      BY <2>2, <2>3
  <2> QED
    BY <2>4
<1>3. CASE ~(t.node[n].val = Nil /\ Hmask(t) > 0)
  <2>1. /\ TableOK(u) /\ Hmask(u) = Hmask(t) /\ u.node = t.node /\ u.array = t.array
        /\ free \in DOMAIN t.node /\ n # free /\ t.node[n].val # Nil
        /\ IF MainNode(t, t.node[n].key) # n
           THEN w = [tab |-> [MoveColliding(u, n, free) EXCEPT !.node[n].key = k], node |-> n]
           ELSE w = [tab |-> [[u EXCEPT !.node = Inserted(u.node, n, free)] EXCEPT !.node[free].key = k],
                     node |-> free]
    BY <1>3, NewKeyIs
  <2> HIDE DEF w, u, n, free
  <2>2. CASE MainNode(t, t.node[n].key) # n
    <3> DEFINE x == MoveColliding(u, n, free)
               m == With(u, Moved(u.node, n, free, Pred(u, n)), u.freetop)
    <3>1. /\ Pred(u, n) = Nil => x = [u EXCEPT !.fits = FALSE]
          /\ Pred(u, n) # Nil => x = Rechain(m, free, n) /\ TableOK(m) /\ Hmask(m) = Hmask(u)
      BY <1>1, <2>1, MoveIs
    <3>2. Pred(u, n) # Nil => DOMAIN m.node = DOMAIN u.node /\ m.array = u.array
      <4>1. TableOK(m) /\ Hmask(m) = Hmask(u) => DOMAIN m.node = DOMAIN u.node
        BY <2>1 DEF TableOK
      <4>2. m.array = u.array
        BY <2>1, WithFields DEF TableOK
      <4> QED
        BY <3>1, <4>1, <4>2
    <3> HIDE DEF x, m
    <3>3. TableOK(x) /\ Hmask(x) = Hmask(t) /\ x.array = t.array /\ DOMAIN x.node = DOMAIN t.node
      <4>1. CASE Pred(u, n) = Nil
        BY <2>1, <3>1, <4>1, FitsLost DEF SameValues
      <4>2. CASE Pred(u, n) # Nil
        BY <1>1, <2>1, <3>1, <3>2, <4>2, RechainKeeps DEF SameValues
      <4> QED
        BY <4>1, <4>2
    <3>4. Good([x EXCEPT !.node[n].key = k], n)
      BY <1>1, <3>3, KeySet
    <3>5. w = [tab |-> [x EXCEPT !.node[n].key = k], node |-> n]
      BY <2>1, <2>2 DEF x
    <3>6. w.tab = [x EXCEPT !.node[n].key = k] /\ w.node = n
      BY <3>5
    <3>7. Good(w.tab, w.node)
      <4> HIDE DEF Good
      <4> QED
        BY <3>4, <3>6
    <3> QED
      BY <3>7 DEF w
  <2>3. CASE MainNode(t, t.node[n].key) = n
    <3> DEFINE x == [u EXCEPT !.node = Inserted(u.node, n, free)]
    <3>1. SameValues(x, u)
      BY <1>1, <2>1, InsertKeeps
    <3>2. w = [tab |-> [x EXCEPT !.node[free].key = k], node |-> free]
      BY <2>1, <2>3
    <3> HIDE DEF x
    <3>3. TableOK(x) /\ Hmask(x) = Hmask(t) /\ x.array = t.array /\ DOMAIN x.node = DOMAIN t.node
      BY <2>1, <3>1 DEF SameValues
    <3>4. free \in DOMAIN x.node
      BY <2>1, <3>3
    <3>5. Good([x EXCEPT !.node[free].key = k], free)
      BY <3>3, <3>4, KeySet
    <3>6. w.tab = [x EXCEPT !.node[free].key = k] /\ w.node = free
      BY <3>2
    <3>7. Good(w.tab, w.node)
      <4> HIDE DEF Good
      <4> QED
        BY <3>5, <3>6
    <3> QED
      BY <3>7 DEF w
  <2> QED
    BY <2>2, <2>3
<1> QED
  BY <1>2, <1>3

\* A store to the array part.
LEMMA ArraySet ==
  ASSUME NEW t, TableOK(t), NEW k, InArray(t, k), NEW v \in Key \cup {Nil}
  PROVE  LET u == [t EXCEPT !.array[k + 1] = v]
         IN  /\ TableOK(u) /\ Hmask(u) = Hmask(t) /\ u.node = t.node /\ Asize(u) = Asize(t)
             /\ u.freetop = t.freetop /\ u.fits = t.fits
             /\ u.array = [t.array EXCEPT ![k + 1] = v]
<1> DEFINE u == [t EXCEPT !.array[k + 1] = v]
<1>1. HasFields(t, TableFields) /\ t.array \in Seq(Key \cup {Nil})
  BY DEF TableOK
<1>2. /\ HasFields(u, TableFields) /\ u.array = [t.array EXCEPT ![k + 1] = v] /\ u.node = t.node
      /\ u.freetop = t.freetop /\ u.fits = t.fits
  BY <1>1 DEF HasFields, TableFields
<1> HIDE DEF u
<1>3. k \in Nat /\ k \in Num /\ k + 1 \in DOMAIN t.array /\ Len(t.array) \in Nat
  BY <1>1, TableAssumption DEF InArray, Asize
<1>4. u.array \in Seq(Key \cup {Nil}) /\ Len(u.array) = Len(t.array) /\ DOMAIN u.array = DOMAIN t.array
  BY <1>1, <1>2, <1>3
<1>5. \A j \in DOMAIN u.array : u.array[j] # Nil => j - 1 \in Num
  <2>1. \A j \in DOMAIN u.array : j # k + 1 => u.array[j] = t.array[j]
    BY <1>2, <1>4
  <2>2. \A j \in DOMAIN t.array : t.array[j] # Nil => j - 1 \in Num
    BY DEF TableOK
  <2>3. (k + 1) - 1 = k
    BY <1>3
  <2> QED
    BY <1>3, <1>4, <2>1, <2>2, <2>3
<1>6. Hmask(u) = Hmask(t)
  BY <1>2 DEF Hmask
<1>7. TableOK(u)
  BY <1>2, <1>4, <1>5, <1>6, Zenon DEF TableOK
<1> QED
  BY <1>2, <1>4, <1>6, <1>7 DEF u, Asize

LEMMA PutType ==
  ASSUME HashOK, NEW t, TableOK(t), NEW k \in Key, NEW v \in Key \cup {Nil}
  PROVE  TableOK(Put(t, k, v)) /\ Hmask(Put(t, k, v)) = Hmask(t) /\ Asize(Put(t, k, v)) = Asize(t)
<1>1. CASE InArray(t, k)
  <2>1. Put(t, k, v) = [t EXCEPT !.array[k + 1] = v]
    BY <1>1 DEF Put
  <2> QED
    BY <1>1, <2>1, ArraySet
<1>2. CASE ~InArray(t, k) /\ FindNode(t, k) # Nil
  <2> DEFINE m == FindNode(t, k)
  <2>1. Put(t, k, v) = [t EXCEPT !.node[m].val = v]
    BY <1>2 DEF Put
  <2>2. m \in DOMAIN t.node /\ t.node[m].key = k /\ k # Nil
    BY <1>2, FindNodeType, TableAssumption DEF Key
  <2> HIDE DEF m
  <2> QED
    BY <2>1, <2>2, ValueSet DEF Asize
<1>3. CASE ~InArray(t, k) /\ FindNode(t, k) = Nil /\ ~HasRoom(t, k)
  <2>1. Put(t, k, v) = [t EXCEPT !.fits = FALSE]
    BY <1>3 DEF Put
  <2> QED
    BY <2>1, FitsLost DEF SameValues, Asize
<1>4. CASE ~InArray(t, k) /\ FindNode(t, k) = Nil /\ HasRoom(t, k)
  <2> DEFINE w == NewKey(t, k)
  <2>1. Put(t, k, v) = [w.tab EXCEPT !.node[w.node].val = v]
    BY <1>4 DEF Put
  <2>2. /\ TableOK(w.tab) /\ Hmask(w.tab) = Hmask(t) /\ w.tab.array = t.array
        /\ w.node \in DOMAIN w.tab.node /\ w.tab.node[w.node].key = k /\ k # Nil
    BY <1>4, NewKeyType, TableAssumption DEF Key
  <2> DEFINE y == [w.tab EXCEPT !.node[w.node].val = v]
  <2> HIDE DEF w
  <2>3. TableOK(y) /\ Hmask(y) = Hmask(w.tab) /\ y.array = w.tab.array
    BY <2>2, ValueSet
  <2> HIDE DEF y
  <2>4. Put(t, k, v) = y
    BY <2>1 DEF y, w
  <2> QED
    BY <2>2, <2>3, <2>4 DEF Asize
<1> QED
  BY <1>1, <1>2, <1>3, <1>4

(***************************************************************************)
(* The chains, as long as every string keeps its hash: every key is in the *)
(* chain of its main node, no chain runs in a circle, and what is free is  *)
(* in no chain.                                                            *)
(***************************************************************************)

UniqueKeys(t) ==
  \A m, n \in DOMAIN t.node : t.node[m].key = t.node[n].key /\ t.node[n].key # Nil => m = n

UniquePreds(t) ==
  \A m, n \in DOMAIN t.node : t.node[m].next = t.node[n].next /\ t.node[n].next # Nil => m = n

FreeUnlinked(t) ==
  \A n \in DOMAIN t.node :
    t.node[n].key = Nil => t.node[n].next = Nil /\ \A m \in DOMAIN t.node : t.node[m].next # n

\* A chain begins with a key that belongs there.
Rooted(t) ==
  \A n \in DOMAIN t.node :
    t.node[n].key # Nil =>
      LET main == MainNode(t, t.node[n].key)
      IN  t.node[main].key # Nil /\ MainNode(t, t.node[main].key) = main

Reached(t) ==
  \A n \in DOMAIN t.node : t.node[n].key # Nil => Reach(t, MainNode(t, t.node[n].key), n)

\* What is not below freetop is in use.
FilledAbove(t) == \A n \in DOMAIN t.node : n >= t.freetop /\ Hmask(t) > 0 => t.node[n].key # Nil

NotInArray(t) == \A n \in DOMAIN t.node : t.node[n].key # Nil => ~InArray(t, t.node[n].key)

NilnodeEmpty(t) == Hmask(t) = 0 => t.node[0].key = Nil

Chains(t) ==
  /\ Ends(t) /\ UniqueKeys(t) /\ UniquePreds(t) /\ FreeUnlinked(t) /\ Rooted(t) /\ Reached(t)
  /\ FilledAbove(t) /\ NotInArray(t) /\ NilnodeEmpty(t)

LEMMA SameReach ==
  ASSUME NEW t, NEW u, DOMAIN u.node = DOMAIN t.node,
         \A n \in DOMAIN t.node : u.node[n].next = t.node[n].next
  PROVE  (\A m, x : Reach(u, m, x) <=> Reach(t, m, x)) /\ (Ends(u) <=> Ends(t))
<1>1. \A S \in SUBSET DOMAIN t.node : Closed(u, S) <=> Closed(t, S)
  BY DEF Closed
<1>2. \A m, x : Reach(u, m, x) <=> Reach(t, m, x)
  BY <1>1 DEF Reach
<1>3. Ends(u) <=> Ends(t)
  BY DEF Ends
<1> QED
  BY <1>2, <1>3

\* Two tables of one shape.
SameShape(u, t) == DOMAIN u.node = DOMAIN t.node /\ Hmask(u) = Hmask(t) /\ Asize(u) = Asize(t)

\* Values do not matter to the chains.
LEMMA ChainsKept ==
  ASSUME NEW t, Chains(t), NEW u, SameShape(u, t), u.freetop = t.freetop,
         \A n \in DOMAIN t.node : u.node[n].key = t.node[n].key /\ u.node[n].next = t.node[n].next,
         HashOK, TableOK(t)
  PROVE  Chains(u)
<1>1. \A k : MainNode(u, k) = MainNode(t, k)
  BY SameMainNode DEF SameShape
<1>2. (\A m, x : Reach(u, m, x) <=> Reach(t, m, x)) /\ (Ends(u) <=> Ends(t))
  BY SameReach DEF SameShape
<1>3. Ends(u) /\ UniqueKeys(u) /\ UniquePreds(u) /\ FreeUnlinked(u)
  BY <1>2 DEF Chains, UniqueKeys, UniquePreds, FreeUnlinked, SameShape
<1>4. \A n \in DOMAIN t.node : t.node[n].key # Nil => MainNode(t, t.node[n].key) \in DOMAIN t.node
  BY MainNodeType DEF TableOK, NodeRec
<1>5. Rooted(u)
  BY <1>1, <1>4 DEF Chains, Rooted, SameShape
<1>6. Reached(u)
  BY <1>1, <1>2 DEF Chains, Reached, SameShape
<1>7. FilledAbove(u) /\ NotInArray(u)
  BY DEF Chains, FilledAbove, NotInArray, SameShape, InArray
<1>8. NilnodeEmpty(u)
  BY DEF Chains, NilnodeEmpty, SameShape, TableOK
<1> QED
  BY <1>3, <1>5, <1>6, <1>7, <1>8 DEF Chains

\* A key that is put into its main node, which no entry uses.
LEMMA ChainsReused ==
  ASSUME HashOK, NEW t, TableOK(t), Chains(t), NEW u, SameShape(u, t), u.freetop = t.freetop,
         NEW k \in Key, NEW n \in DOMAIN t.node, n = MainNode(t, k), Hmask(t) > 0, ~InArray(t, k),
         \A y \in DOMAIN t.node : t.node[y].key # k,
         u.node[n].key = k, u.node[n].next = t.node[n].next,
         \A y \in DOMAIN t.node : y # n => u.node[y] = t.node[y]
  PROVE  Chains(u)
<1> DEFINE N == DOMAIN t.node
<1>0. k # Nil /\ DOMAIN u.node = N
  BY TableAssumption DEF Key, SameShape
<1>1. \A y : MainNode(u, y) = MainNode(t, y)
  BY SameMainNode DEF SameShape
<1>2. \A y \in N : u.node[y].next = t.node[y].next
  OBVIOUS
<1>3. (\A m, x : Reach(u, m, x) <=> Reach(t, m, x)) /\ (Ends(u) <=> Ends(t))
  BY <1>0, <1>2, SameReach
<1>4. \A y \in N : t.node[y].key # Nil => MainNode(t, t.node[y].key) \in N
  BY MainNodeType DEF TableOK, NodeRec
<1> DEFINE key(y) == u.node[y].key
<1>5. \A y \in N : key(y) = IF y = n THEN k ELSE t.node[y].key
  OBVIOUS
<1>6. Ends(u) /\ UniquePreds(u)
  BY <1>0, <1>2, <1>3 DEF Chains, UniquePreds
<1>7. UniqueKeys(u)
  BY <1>0, <1>5 DEF Chains, UniqueKeys
<1>8. FreeUnlinked(u)
  BY <1>0, <1>2, <1>5 DEF Chains, FreeUnlinked
<1>9. Rooted(u)
  <2> SUFFICES ASSUME NEW y \in N, key(y) # Nil
               PROVE  LET main == MainNode(t, key(y)) IN key(main) # Nil /\ MainNode(t, key(main)) = main
    BY <1>0, <1>1 DEF Rooted
  <2>1. CASE y = n
    BY <1>0, <1>5, <2>1
  <2>2. CASE y # n
    <3> DEFINE main == MainNode(t, t.node[y].key)
    <3>1. key(y) = t.node[y].key /\ main \in N /\ t.node[main].key # Nil /\ MainNode(t, t.node[main].key) = main
      BY <1>4, <1>5, <2>2 DEF Chains, Rooted
    <3> HIDE DEF key
    <3> QED
      BY <1>0, <1>5, <3>1
  <2> QED
    BY <2>1, <2>2
<1>10. Reached(u)
  <2> SUFFICES ASSUME NEW y \in N, key(y) # Nil
               PROVE  Reach(t, MainNode(t, key(y)), y)
    BY <1>0, <1>1, <1>3 DEF Reached
  <2> QED
    BY <1>5, ReachSelf DEF Chains, Reached
<1>11. FilledAbove(u) /\ NotInArray(u) /\ NilnodeEmpty(u)
  BY <1>0, <1>5 DEF Chains, FilledAbove, NotInArray, NilnodeEmpty, InArray, SameShape
<1> QED
  BY <1>6, <1>7, <1>8, <1>9, <1>10, <1>11 DEF Chains

\* A key that is put into a free node, behind its main node.
LEMMA ChainsInserted ==
  ASSUME HashOK, NEW t, TableOK(t), Chains(t), NEW u, SameShape(u, t),
         NEW k \in Key, NEW n \in DOMAIN t.node, n = MainNode(t, k), Hmask(t) > 0, ~InArray(t, k),
         \A y \in DOMAIN t.node : t.node[y].key # k,
         t.node[n].key # Nil, MainNode(t, t.node[n].key) = n,
         NEW free \in DOMAIN t.node, free # n, t.node[free].key = Nil, u.freetop = free,
         \A y \in DOMAIN t.node : y < t.freetop /\ t.node[y].key = Nil => y <= free,
         u.node[n].key = t.node[n].key, u.node[n].next = free,
         u.node[free].key = k, u.node[free].next = t.node[n].next,
         \A y \in DOMAIN t.node : y \notin {n, free} => u.node[y] = t.node[y]
  PROVE  Chains(u)
<1> DEFINE N == DOMAIN t.node
           key(y) == u.node[y].key
           next(y) == u.node[y].next
<1>1. /\ k # Nil /\ DOMAIN u.node = N /\ Linked(t) /\ Nil \notin N /\ N = 0..Hmask(t) /\ t.freetop \in Nat
      /\ Hmask(t) \in Nat
  BY TableAssumption, TableLinked, NilNoNode DEF Key, SameShape, TableOK
<1>2. \A y : MainNode(u, y) = MainNode(t, y)
  BY SameMainNode DEF SameShape
<1>3. \A y \in N : t.node[y].key # Nil => MainNode(t, t.node[y].key) \in N
  BY MainNodeType DEF TableOK, NodeRec
<1>4. \A y \in N : key(y) = IF y = free THEN k ELSE t.node[y].key
  OBVIOUS
<1>5. \A y \in N : next(y) = IF y = n THEN free ELSE IF y = free THEN t.node[n].next ELSE t.node[y].next
  OBVIOUS
<1>6. t.node[free].next = Nil /\ \A y \in N : t.node[y].next # free
  BY DEF Chains, FreeUnlinked
<1>7. \A y \in N : t.node[y].next \in N \cup {Nil}
  BY <1>1 DEF Linked
<1>8. Linked(u)
  BY <1>1, <1>5, <1>7 DEF Linked, SameShape
<1>9. ASSUME NEW S \in SUBSET N, Closed(u, S)
      PROVE  Closed(t, S \ {free})
  <2> SUFFICES ASSUME NEW y \in S \ {free}, t.node[y].next # Nil
               PROVE  t.node[y].next \in S \ {free}
    BY DEF Closed
  <2>1. t.node[y].next # free
    BY <1>6
  <2>2. CASE y # n
    BY <1>5, <1>9, <2>1, <2>2 DEF Closed
  <2>3. CASE y = n
    <3>1. free \in S
      BY <1>1, <1>5, <1>9, <2>3 DEF Closed
    <3> QED
      BY <1>5, <1>9, <2>1, <2>3, <3>1 DEF Closed
  <2> QED
    BY <2>2, <2>3
<1>10. ASSUME NEW m \in N, m # free, NEW x, x # free, Reach(t, m, x)
       PROVE  Reach(u, m, x)
  <2> SUFFICES ASSUME NEW S \in SUBSET N, m \in S, Closed(u, S)
               PROVE  x \in S
    BY <1>1 DEF Reach
  <2>1. Closed(t, S \ {free}) /\ m \in S \ {free} /\ S \ {free} \in SUBSET N
    BY <1>9, <1>10
  <2> QED
    BY <1>10, <2>1 DEF Reach
<1>11. Ends(u)
  <2> SUFFICES ASSUME NEW S \in SUBSET N, S # {}
               PROVE  \E y \in S : next(y) = Nil \/ next(y) \notin S
    BY <1>1 DEF Ends
  <2>1. CASE S = {free}
    BY <1>5, <1>6, <2>1
  <2>2. CASE S # {free}
    <3> DEFINE R == S \ {free}
    <3>01. R \in SUBSET DOMAIN t.node /\ R # {} /\ Ends(t)
      BY <2>2 DEF Chains
    <3> HIDE DEF R
    <3>02. PICK y \in R : t.node[y].next = Nil \/ t.node[y].next \notin R
      BY <3>01 DEF Ends
    <3>1. y \in S \ {free} /\ (t.node[y].next = Nil \/ t.node[y].next \notin S \ {free})
      BY <3>02 DEF R
    <3>2. t.node[y].next = Nil \/ t.node[y].next \notin S
      BY <1>6, <3>1
    <3>3. CASE y = n /\ free \in S
      BY <1>5, <3>2, <3>3
    <3>4. CASE ~(y = n /\ free \in S)
      BY <1>5, <3>1, <3>2, <3>4
    <3> QED
      BY <3>3, <3>4
  <2> QED
    BY <2>1, <2>2
<1>12. UniqueKeys(u)
  BY <1>1, <1>4 DEF Chains, UniqueKeys
<1>13. UniquePreds(u)
  BY <1>1, <1>5, <1>6 DEF Chains, UniquePreds
<1>14. FreeUnlinked(u)
  <2>1. \A y \in N : key(y) = Nil => y # free /\ y # n /\ t.node[y].key = Nil
    BY <1>1, <1>4
  <2>2. \A y \in N : t.node[y].key = Nil => t.node[y].next = Nil /\ \A m \in N : t.node[m].next # y
    BY DEF Chains, FreeUnlinked
  <2> QED
    BY <1>1, <1>5, <2>1, <2>2 DEF FreeUnlinked
<1>15. Rooted(u)
  <2> SUFFICES ASSUME NEW y \in N, key(y) # Nil
               PROVE  LET main == MainNode(t, key(y)) IN key(main) # Nil /\ MainNode(t, key(main)) = main
    BY <1>1, <1>2 DEF Rooted
  <2>1. CASE y = free
    BY <1>4, <2>1
  <2>2. CASE y # free
    <3> DEFINE main == MainNode(t, t.node[y].key)
    <3>1. key(y) = t.node[y].key /\ main \in N /\ t.node[main].key # Nil /\ MainNode(t, t.node[main].key) = main
      BY <1>3, <1>4, <2>2 DEF Chains, Rooted
    <3> HIDE DEF key
    <3> QED
      BY <1>4, <3>1
  <2> QED
    BY <2>1, <2>2
<1>16. Reached(u)
  <2> SUFFICES ASSUME NEW y \in N, key(y) # Nil
               PROVE  Reach(u, MainNode(t, key(y)), y)
    BY <1>1, <1>2 DEF Reached
  <2>1. CASE y = free
    <3>1. Reach(u, n, n) /\ u.node[n].next = free /\ free # Nil
      BY <1>1, ReachSelf
    <3>2. Reach(u, n, free)
      BY <1>1, <1>8, <3>1, ReachOn
    <3> QED
      BY <1>4, <2>1, <3>2
  <2>2. CASE y # free
    <3> DEFINE main == MainNode(t, t.node[y].key)
    <3>1. key(y) = t.node[y].key /\ main \in N /\ t.node[main].key # Nil /\ Reach(t, main, y)
      BY <1>3, <1>4, <2>2 DEF Chains, Rooted, Reached
    <3>2. main # free
      BY <3>1
    <3> HIDE DEF key
    <3> QED
      BY <1>10, <2>2, <3>1, <3>2
  <2> QED
    BY <2>1, <2>2
<1>17. FilledAbove(u)
  <2> SUFFICES ASSUME NEW y \in N, y >= free
               PROVE  key(y) # Nil
    BY <1>1 DEF FilledAbove
  <2>1. y \in Nat /\ free \in Nat
    BY <1>1
  <2>2. CASE y = free
    BY <1>1, <1>4, <2>2
  <2>3. CASE y > free
    <3>1. y < t.freetop => t.node[y].key # Nil
      BY <2>1, <2>3
    <3>2. y >= t.freetop => t.node[y].key # Nil
      BY DEF Chains, FilledAbove
    <3>3. t.node[y].key # Nil
      BY <1>1, <2>1, <3>1, <3>2
    <3> QED
      BY <1>4, <2>1, <2>3, <3>3
  <2> QED
    BY <2>1, <2>2, <2>3
<1>18. NotInArray(u)
  BY <1>1, <1>4 DEF Chains, NotInArray, InArray, SameShape
<1>19. NilnodeEmpty(u)
  BY DEF NilnodeEmpty, SameShape
<1> QED
  BY <1>11, <1>12, <1>13, <1>14, <1>15, <1>16, <1>17, <1>18, <1>19 DEF Chains

\* A colliding node that is moved to a free node, and a key that takes its place.
LEMMA ChainsMoved ==
  ASSUME HashOK, NEW t, TableOK(t), Chains(t), NEW u, SameShape(u, t),
         NEW k \in Key, NEW n \in DOMAIN t.node, n = MainNode(t, k), Hmask(t) > 0, ~InArray(t, k),
         \A y \in DOMAIN t.node : t.node[y].key # k,
         t.node[n].key # Nil, MainNode(t, t.node[n].key) # n,
         NEW free \in DOMAIN t.node, free # n, t.node[free].key = Nil, u.freetop = free,
         \A y \in DOMAIN t.node : y < t.freetop /\ t.node[y].key = Nil => y <= free,
         NEW pred \in DOMAIN t.node, t.node[pred].next = n,
         u.node[n].key = k, u.node[n].next = Nil,
         u.node[free].key = t.node[n].key, u.node[free].next = t.node[n].next,
         u.node[pred].key = t.node[pred].key, u.node[pred].next = free,
         \A y \in DOMAIN t.node : y \notin {n, free, pred} => u.node[y] = t.node[y]
  PROVE  Chains(u)
<1> DEFINE N == DOMAIN t.node
           key(y) == u.node[y].key
           next(y) == u.node[y].next
<1>1. /\ k # Nil /\ DOMAIN u.node = N /\ Linked(t) /\ Nil \notin N /\ N = 0..Hmask(t) /\ t.freetop \in Nat
      /\ Hmask(t) \in Nat
  BY TableAssumption, TableLinked, NilNoNode DEF Key, SameShape, TableOK
<1>2. \A y : MainNode(u, y) = MainNode(t, y)
  BY SameMainNode DEF SameShape
<1>3. \A y \in N : t.node[y].key # Nil => MainNode(t, t.node[y].key) \in N
  BY MainNodeType DEF TableOK, NodeRec
<1>4. t.node[free].next = Nil /\ \A y \in N : t.node[y].next # free
  BY DEF Chains, FreeUnlinked
<1>5. t.node[n].next # n /\ pred # n /\ pred # free
  <2>1. t.node[n].next # n
    <3>1. {n} \in SUBSET DOMAIN t.node /\ {n} # {} /\ Ends(t)
      BY DEF Chains
    <3>2. \E y \in {n} : t.node[y].next = Nil \/ t.node[y].next \notin {n}
      BY <3>1 DEF Ends
    <3> QED
      BY <1>1, <3>2
  <2> QED
    BY <1>1, <1>4, <2>1
<1>6. \A y \in N : y # pred => t.node[y].next # n
  BY <1>1 DEF Chains, UniquePreds
<1>7. \A y \in N : key(y) = IF y = n THEN k ELSE IF y = free THEN t.node[n].key ELSE t.node[y].key
  BY <1>5
<1>8. \A y \in N : next(y) = IF y = n THEN Nil ELSE IF y = free THEN t.node[n].next
                             ELSE IF y = pred THEN free ELSE t.node[y].next
  BY <1>5
<1>9. \A y \in N : t.node[y].next \in N \cup {Nil}
  BY <1>1 DEF Linked
<1> HIDE DEF key, next
<1>10. \A y \in N : next(y) \in N \cup {Nil}
  BY <1>8, <1>9
\* A set of nodes before the move.
<1> DEFINE Before(S) == (S \ {free, n}) \cup (IF free \in S THEN {n} ELSE {})
<1>11. ASSUME NEW S \in SUBSET N, \A y \in S : next(y) # Nil => next(y) \in S
       PROVE  Closed(t, Before(S)) /\ Before(S) \in SUBSET N
  <2> SUFFICES ASSUME NEW y \in Before(S), t.node[y].next # Nil
               PROVE  t.node[y].next \in Before(S)
    BY DEF Closed
  <2>1. CASE y = n
    <3>1. free \in S
      BY <2>1
    <3>2. next(free) = t.node[n].next /\ t.node[n].next \in S
      BY <1>8, <1>11, <2>1, <3>1
    <3> QED
      BY <1>4, <1>5, <2>1, <3>2
  <2>2. CASE y = pred
    <3>1. y \in S /\ next(y) = free
      BY <1>5, <1>8, <2>2
    <3>2. free \in S
      BY <1>1, <1>11, <3>1
    <3> QED
      BY <2>2, <3>2
  <2>3. CASE y # n /\ y # pred
    <3>1. y \in S /\ y # free
      BY <2>3
    <3>2. next(y) = t.node[y].next
      BY <1>8, <2>3, <3>1
    <3>3. t.node[y].next \in S
      BY <1>11, <3>1, <3>2
    <3> QED
      BY <1>4, <1>6, <2>3, <3>3
  <2> QED
    BY <2>1, <2>2, <2>3
<1>12. ASSUME NEW m \in N, m # free, m # n, NEW x \in N, Reach(t, m, x)
       PROVE  /\ x \notin {free, n} => Reach(u, m, x)
              /\ x = n => Reach(u, m, free)
  <2>1. ASSUME NEW S \in SUBSET N, m \in S, Closed(u, S)
        PROVE  (x \notin {free, n} => x \in S) /\ (x = n => free \in S)
    <3>1. \A y \in S : next(y) # Nil => next(y) \in S
      BY <2>1 DEF Closed, next
    <3>2. Closed(t, Before(S)) /\ Before(S) \in SUBSET N
      BY <1>11, <3>1
    <3>3. m \in Before(S)
      BY <1>12, <2>1
    <3>4. x \in Before(S)
      BY <1>12, <3>2, <3>3 DEF Reach
    <3> QED
      BY <3>4
  <2> QED
    BY <1>1, <2>1 DEF Reach
<1>13. Ends(u)
  <2> SUFFICES ASSUME NEW S \in SUBSET N, S # {}
               PROVE  \E y \in S : next(y) = Nil \/ next(y) \notin S
    BY <1>1 DEF Ends, next
  <2>1. CASE n \in S
    BY <1>8, <2>1
  <2>2. CASE n \notin S
    <3> DEFINE B == Before(S)
    <3>1. B \in SUBSET DOMAIN t.node /\ B # {} /\ Ends(t)
      BY <2>2 DEF Chains
    <3> HIDE DEF B
    <3>2. PICK y \in B : t.node[y].next = Nil \/ t.node[y].next \notin B
      BY <3>1 DEF Ends
    <3>3. y \in (S \ {free, n}) \cup (IF free \in S THEN {n} ELSE {})
      BY <3>2 DEF B
    <3>4. CASE y = n
      <4>1. free \in S /\ next(free) = t.node[n].next
        BY <1>8, <3>3, <3>4
      <4>2. t.node[n].next = Nil \/ t.node[n].next \notin S
        BY <1>4, <1>5, <3>2, <3>4 DEF B
      <4> QED
        BY <4>1, <4>2
    <3>5. CASE y = pred
      <4>1. y \in S /\ next(y) = free
        BY <1>5, <1>8, <3>3, <3>5
      <4>2. free \notin S
        BY <1>1, <3>2, <3>5 DEF B
      <4> QED
        BY <4>1, <4>2
    <3>6. CASE y # n /\ y # pred
      <4>1. y \in S /\ y # free
        BY <3>3, <3>6
      <4>2. next(y) = t.node[y].next
        BY <1>8, <3>6, <4>1
      <4>3. t.node[y].next = Nil \/ t.node[y].next \notin S
        BY <1>4, <1>6, <3>2, <3>6, <4>1 DEF B
      <4> QED
        BY <4>1, <4>2, <4>3
    <3> QED
      BY <3>4, <3>5, <3>6
  <2> QED
    BY <2>1, <2>2
<1>14. UniqueKeys(u)
  BY <1>1, <1>7 DEF Chains, UniqueKeys, key
<1>15. UniquePreds(u)
  <2>1. \A y, z \in N : t.node[y].next = t.node[z].next /\ t.node[z].next # Nil => y = z
    BY DEF Chains, UniquePreds
  <2>2. \A y, z \in N : next(y) = next(z) /\ next(z) # Nil => y = z
    BY <1>1, <1>4, <1>8, <2>1
  <2> QED
    BY <1>1, <2>2 DEF UniquePreds, next
<1>16. FreeUnlinked(u)
  <2>1. \A y \in N : key(y) = Nil => y # free /\ y # n /\ t.node[y].key = Nil
    BY <1>1, <1>7
  <2>2. \A y \in N : t.node[y].key = Nil => t.node[y].next = Nil /\ \A m \in N : t.node[m].next # y
    BY DEF Chains, FreeUnlinked
  <2>3. \A y \in N : key(y) = Nil => next(y) = Nil /\ \A m \in N : next(m) # y
    BY <1>1, <1>8, <2>1, <2>2
  <2> QED
    BY <1>1, <2>3 DEF FreeUnlinked, key, next
\* The nodes at which chains begin stay.
<1>17. ASSUME NEW y \in N, t.node[y].key # Nil
       PROVE  LET main == MainNode(t, t.node[y].key)
              IN  /\ main \in N /\ main # n /\ main # free /\ key(main) # Nil
                  /\ MainNode(t, key(main)) = main /\ Reach(t, main, y)
  <2> DEFINE main == MainNode(t, t.node[y].key)
  <2>1. main \in N /\ t.node[main].key # Nil /\ MainNode(t, t.node[main].key) = main /\ Reach(t, main, y)
    BY <1>3, <1>17 DEF Chains, Rooted, Reached
  <2> HIDE DEF main
  <2>2. main # n /\ main # free
    BY <2>1
  <2> QED
    BY <1>7, <2>1, <2>2 DEF main
<1>18. ASSUME NEW y \in N, key(y) # Nil
       PROVE  LET main == MainNode(t, key(y))
              IN  key(main) # Nil /\ MainNode(t, key(main)) = main /\ Reach(u, main, y)
  <2>1. CASE y = n
    <3>1. key(n) = k /\ MainNode(t, k) = n /\ Reach(u, n, n)
      BY <1>7, ReachSelf
    <3> QED
      BY <1>1, <2>1, <3>1
  <2>2. CASE y = free
    <3>1. key(y) = t.node[n].key
      BY <1>7, <2>2
    <3> QED
      BY <1>12, <1>17, <2>2, <3>1
  <2>3. CASE y # n /\ y # free
    <3>1. key(y) = t.node[y].key
      BY <1>7, <2>3
    <3> QED
      BY <1>12, <1>17, <1>18, <2>3, <3>1
  <2> QED
    BY <2>1, <2>2, <2>3
<1>19. Rooted(u) /\ Reached(u)
  BY <1>1, <1>2, <1>18 DEF Rooted, Reached, key
<1>20. FilledAbove(u)
  <2> SUFFICES ASSUME NEW y \in N, y >= free
               PROVE  key(y) # Nil
    BY <1>1 DEF FilledAbove, key
  <2>1. y \in Nat /\ free \in Nat
    BY <1>1
  <2>2. CASE y = free \/ y = n
    BY <1>1, <1>7, <2>2
  <2>3. CASE y > free /\ y # n
    <3>1. y < t.freetop => t.node[y].key # Nil
      BY <2>1, <2>3
    <3>2. y >= t.freetop => t.node[y].key # Nil
      BY DEF Chains, FilledAbove
    <3>3. t.node[y].key # Nil
      BY <1>1, <2>1, <3>1, <3>2
    <3> QED
      BY <1>7, <2>1, <2>3, <3>3
  <2> QED
    BY <2>1, <2>2, <2>3
<1>21. NotInArray(u)
  <2>1. \A y \in N : key(y) # Nil => ~InArray(t, key(y))
    BY <1>7 DEF Chains, NotInArray
  <2> QED
    BY <1>1, <2>1 DEF NotInArray, InArray, SameShape, key
<1>22. NilnodeEmpty(u)
  BY DEF NilnodeEmpty, SameShape
<1> QED
  BY <1>13, <1>14, <1>15, <1>16, <1>19, <1>20, <1>21, <1>22 DEF Chains

(***************************************************************************)
(* Lookups and stores in a table with chains.                              *)
(***************************************************************************)

LEMMA FoundIs ==
  ASSUME HashOK, NEW t, TableOK(t), Chains(t), NEW k \in Key
  PROVE  /\ \A n \in DOMAIN t.node : t.node[n].key = k => FindNode(t, k) = n
         /\ FindNode(t, k) = Nil <=> \A n \in DOMAIN t.node : t.node[n].key # k
<1> DEFINE f == FindNode(t, k)
           S == {n \in DOMAIN t.node : t.node[n].key = k}
<1>1. k # Nil /\ Linked(t) /\ Nil \notin DOMAIN t.node
  BY TableAssumption, TableLinked, NilNoNode DEF Key
<1>2. f \in DOMAIN t.node \cup {Nil} /\ (f # Nil => t.node[f].key = k)
  BY FindNodeType
<1>3. ASSUME NEW n \in DOMAIN t.node, t.node[n].key = k
      PROVE  f = n
  <2>1. Reach(t, MainNode(t, k), n) /\ n \in S /\ Ends(t) /\ MainNode(t, k) \in DOMAIN t.node
    BY <1>1, <1>3, MainNodeType DEF Chains, Reached
  <2>2. InChain(t, MainNode(t, k), S) # Nil
    BY <1>1, <2>1, InChainFinds
  <2>3. f # Nil
    BY <2>2 DEF FindNode
  <2> HIDE DEF f, S
  <2> QED
    BY <1>1, <1>2, <1>3, <2>3 DEF Chains, UniqueKeys
<1> HIDE DEF f
<1>4. f = Nil <=> \A n \in DOMAIN t.node : t.node[n].key # k
  BY <1>1, <1>2, <1>3
<1> QED
  BY <1>3, <1>4 DEF f

\* A node of the key k has the value x.
Holds(t, k, x) == \E n \in DOMAIN t.node : t.node[n].key = k /\ t.node[n].val = x

LEMMA GetIs ==
  ASSUME HashOK, NEW t, TableOK(t), Chains(t), NEW k \in Key
  PROVE  /\ InArray(t, k) => Get(t, k) = t.array[k + 1]
         /\ ~InArray(t, k) => \A x : x # Nil => (Get(t, k) = x <=> Holds(t, k, x))
         /\ Get(t, k) \in Key \cup {Nil}
<1>1. CASE InArray(t, k)
  <2>1. Get(t, k) = t.array[k + 1]
    BY <1>1 DEF Get
  <2>2. t.array[k + 1] \in Key \cup {Nil}
    <3>1. t.array \in Seq(Key \cup {Nil}) /\ k \in Nat /\ k + 1 \in 1..Len(t.array)
      BY <1>1, TableAssumption DEF InArray, Asize, TableOK
    <3> QED
      BY <3>1
  <2> QED
    BY <1>1, <2>1, <2>2
<1>2. CASE ~InArray(t, k)
  <2> DEFINE f == FindNode(t, k)
  <2>1. Get(t, k) = IF f = Nil THEN Nil ELSE t.node[f].val
    BY <1>2 DEF Get
  <2>2. /\ \A n \in DOMAIN t.node : t.node[n].key = k => f = n
        /\ f = Nil <=> \A n \in DOMAIN t.node : t.node[n].key # k
    BY FoundIs
  <2>3. f \in DOMAIN t.node \cup {Nil} /\ (f # Nil => t.node[f].key = k)
    BY FindNodeType
  <2>4. \A n \in DOMAIN t.node : t.node[n].val \in Key \cup {Nil}
    BY DEF TableOK, NodeRec
  <2> HIDE DEF f
  <2>5. \A x : x # Nil => (Get(t, k) = x <=> Holds(t, k, x))
    BY <2>1, <2>2, <2>3 DEF Holds
  <2> QED
    BY <1>2, <2>1, <2>3, <2>4, <2>5
<1> QED
  BY <1>1, <1>2

LEMMA SameGet ==
  ASSUME HashOK, NEW t, TableOK(t), Chains(t), NEW u, TableOK(u), Chains(u), NEW k \in Key,
         InArray(u, k) <=> InArray(t, k), InArray(t, k) => u.array[k + 1] = t.array[k + 1],
         ~InArray(t, k) => \A x : x # Nil => (Holds(u, k, x) <=> Holds(t, k, x))
  PROVE  Get(u, k) = Get(t, k)
<1>1. CASE InArray(t, k)
  BY <1>1, GetIs
<1>2. CASE ~InArray(t, k)
  <2>1. \A x : x # Nil => (Get(t, k) = x <=> Holds(t, k, x))
    BY <1>2, GetIs
  <2>2. \A x : x # Nil => (Get(u, k) = x <=> Holds(u, k, x))
    BY <1>2, GetIs
  <2>3. \A x : x # Nil => (Get(u, k) = x <=> Get(t, k) = x)
    BY <1>2, <2>1, <2>2
  <2> QED
    BY <2>3
<1> QED
  BY <1>1, <1>2

\* The nodes that have keys.
Used(t) == {n \in DOMAIN t.node : t.node[n].key # Nil}

\* A store of another key, with at most one node more.
StoresOnly(u, t, k) ==
  /\ Chains(u) /\ SameShape(u, t) /\ u.fits = t.fits
  /\ \A k2 \in Key : k2 # k => \A x : x # Nil => (Holds(u, k2, x) <=> Holds(t, k2, x))
  /\ \E y : Used(u) \subseteq Used(t) \cup {y}

\* The fields of the nodes after a move.
LEMMA MovedFields ==
  ASSUME NEW N, NEW f \in [N -> NodeRec(N)],
         NEW n \in N, NEW free \in N, NEW pred \in N, n # free, n # pred, free # pred
  PROVE  LET g == Moved(f, n, free, pred)
         IN  /\ g[n].key = f[n].key /\ g[n].val = Nil /\ g[n].next = Nil
             /\ g[free] = f[n]
             /\ g[pred].key = f[pred].key /\ g[pred].val = f[pred].val /\ g[pred].next = free
             /\ \A y \in N : y \notin {n, free, pred} => g[y] = f[y]
<1>1. f[n] = [key |-> f[n].key, val |-> f[n].val, next |-> f[n].next]
      /\ f[pred] = [key |-> f[pred].key, val |-> f[pred].val, next |-> f[pred].next]
  BY DEF NodeRec
<1>2. /\ Moved(f, n, free, pred)[n] = [key |-> f[n].key, val |-> Nil, next |-> Nil]
      /\ Moved(f, n, free, pred)[free] = f[n]
      /\ Moved(f, n, free, pred)[pred] = [key |-> f[pred].key, val |-> f[pred].val, next |-> free]
      /\ \A y \in N : y \notin {n, free, pred} => Moved(f, n, free, pred)[y] = f[y]
  BY <1>1 DEF Moved
<1> QED
  BY <1>2

\* A new key in a table that has room: the chains stay, and so do the other entries.
LEMMA NewKeyStores ==
  ASSUME HashOK, NEW t, TableOK(t), Chains(t), NEW k \in Key, HasRoom(t, k), ~InArray(t, k),
         \A y \in DOMAIN t.node : t.node[y].key # k
  PROVE  StoresOnly(NewKey(t, k).tab, t, k)
<1> DEFINE n == MainNode(t, k)
           free == Max(FreeNodes(t))
           u == [t EXCEPT !.freetop = free]
           N == DOMAIN t.node
           new == NewKey(t, k)
<1>1. n \in N
  BY MainNodeType
<1>2. /\ t.node \in [N -> NodeRec(N)] /\ ValuesHaveKeys(t.node) /\ HasFields(t, TableFields)
      /\ Linked(t) /\ Nil \notin N /\ k # Nil
  BY TableLinked, NilNoNode, TableAssumption DEF TableOK, ValuesHaveKeys, Key
<1>3. CASE t.node[n].val = Nil /\ Hmask(t) > 0
  <2> DEFINE w == [t EXCEPT !.node[n].key = k]
  <2>0. new = [tab |-> w, node |-> n]
    BY <1>3, NewKeyIs
  <2>1. new.tab = w
    <3> HIDE DEF new, w, n
    <3> QED
      BY <2>0
  <2>2. /\ TableOK(w) /\ Hmask(w) = Hmask(t) /\ DOMAIN w.node = N
        /\ w.array = t.array /\ w.freetop = t.freetop /\ w.fits = t.fits
        /\ w.node[n].key = k /\ w.node[n].val = t.node[n].val /\ w.node[n].next = t.node[n].next
        /\ \A y \in N : y # n => w.node[y] = t.node[y]
    BY <1>1, KeySet
  <2> HIDE DEF w, new
  <2>3. SameShape(w, t)
    BY <2>2 DEF SameShape, Asize
  <2> HIDE DEF n
  <2>4. Chains(w)
    BY <1>1, <1>3, <2>2, <2>3, ChainsReused DEF n
  <2>5. ASSUME NEW k2 \in Key, k2 # k, NEW x, x # Nil
        PROVE  Holds(w, k2, x) <=> Holds(t, k2, x)
    BY <1>1, <1>3, <2>2, <2>5 DEF Holds
  <2>6. Used(w) \subseteq Used(t) \cup {n}
    BY <2>2 DEF Used
  <2>7. \E y : Used(w) \subseteq Used(t) \cup {y}
    BY <2>6
  <2> QED
    BY <2>1, <2>2, <2>3, <2>4, <2>5, <2>7 DEF StoresOnly, new
<1>4. CASE ~(t.node[n].val = Nil /\ Hmask(t) > 0)
  <2>1. /\ TableOK(u) /\ Hmask(u) = Hmask(t) /\ u.node = t.node /\ u.array = t.array
        /\ u.fits = t.fits /\ u.freetop = free
        /\ free \in N /\ free \in Nat /\ free < t.freetop
        /\ t.node[free].key = Nil /\ n # free /\ Hmask(t) > 0 /\ t.node[n].val # Nil
        /\ t.node[n].key \in Key
        /\ \A m \in N : m < t.freetop /\ t.node[m].key = Nil => m <= free
        /\ IF MainNode(t, t.node[n].key) # n
           THEN new = [tab |-> [MoveColliding(u, n, free) EXCEPT !.node[n].key = k], node |-> n]
           ELSE new = [tab |-> [[u EXCEPT !.node = Inserted(u.node, n, free)] EXCEPT !.node[free].key = k],
                       node |-> free]
    BY <1>4, NewKeyIs
  <2>2. t.node[n].key # Nil /\ t.node[free].val = Nil
    BY <1>2, <2>1, TableAssumption DEF Key, ValuesHaveKeys
  <2> HIDE DEF u, free, n, new
  <2>3. CASE MainNode(t, t.node[n].key) = n
    <3> DEFINE x == [u EXCEPT !.node = Inserted(u.node, n, free)]
               w == [x EXCEPT !.node[free].key = k]
    <3>1. SameValues(x, u) /\ x.node = Inserted(u.node, n, free) /\ x.fits = u.fits
      BY <1>1, <2>1, InsertKeeps
    <3>2. new = [tab |-> w, node |-> free]
      BY <2>1, <2>3
    <3> HIDE DEF x
    <3>3. TableOK(x) /\ Hmask(x) = Hmask(t) /\ x.array = t.array /\ DOMAIN x.node = N /\ x.freetop = free
          /\ x.fits = t.fits
      BY <2>1, <3>1 DEF SameValues
    <3>4. /\ \A y \in N : x.node[y].key = t.node[y].key /\ x.node[y].val = t.node[y].val
          /\ x.node[n].next = free /\ x.node[free].next = t.node[n].next
          /\ \A y \in N : y \notin {n, free} => x.node[y] = t.node[y]
      BY <1>1, <1>2, <2>1, <3>1, InsertedFields
    <3>5. free \in DOMAIN x.node
      BY <2>1, <3>3
    <3>6. /\ Hmask(w) = Hmask(x) /\ DOMAIN w.node = DOMAIN x.node
          /\ w.array = x.array /\ w.freetop = x.freetop /\ w.fits = x.fits
          /\ w.node[free].key = k /\ w.node[free].val = x.node[free].val
          /\ w.node[free].next = x.node[free].next
          /\ \A y \in DOMAIN x.node : y # free => w.node[y] = x.node[y]
      <4>1. TableOK(x)
        BY <3>3
      <4> QED
        BY <3>5, <4>1, KeySet
    <3> HIDE DEF w
    <3>7. SameShape(w, t) /\ w.freetop = free /\ w.fits = t.fits
      BY <3>3, <3>6 DEF SameShape, Asize
    <3>8. /\ w.node[n].key = t.node[n].key /\ w.node[n].next = free /\ w.node[n].val = t.node[n].val
          /\ w.node[free].key = k /\ w.node[free].next = t.node[n].next /\ w.node[free].val = Nil
          /\ \A y \in N : y \notin {n, free} => w.node[y] = t.node[y]
      BY <1>1, <2>1, <2>2, <3>3, <3>4, <3>6
    <3>9. Chains(w)
      BY <1>1, <2>1, <2>2, <2>3, <3>7, <3>8, ChainsInserted DEF n
    <3>10. ASSUME NEW k2 \in Key, k2 # k, NEW v, v # Nil
           PROVE  Holds(w, k2, v) <=> Holds(t, k2, v)
      <4>1. \A y \in N : w.node[y].key = k2 /\ w.node[y].val = v <=> t.node[y].key = k2 /\ t.node[y].val = v
        BY <2>2, <3>8, <3>10
      <4> QED
        BY <3>7, <4>1 DEF Holds, SameShape
    <3>11. Used(w) \subseteq Used(t) \cup {free}
      BY <3>7, <3>8 DEF Used, SameShape
    <3>12. \E y : Used(w) \subseteq Used(t) \cup {y}
      BY <3>11
    <3>13. new.tab = w
      BY <3>2
    <3> QED
      BY <3>7, <3>9, <3>10, <3>12, <3>13 DEF StoresOnly, new
  <2>4. CASE MainNode(t, t.node[n].key) # n
    <3> DEFINE pred == Pred(u, n)
               m == With(u, Moved(u.node, n, free, pred), u.freetop)
               S == {y \in DOMAIN u.node : u.node[y].next = n}
    <3>1. \A y : MainNode(u, y) = MainNode(t, y)
      BY <2>1, SameMainNode
    <3>2. PICK p \in N : t.node[p].next = n /\ Reach(t, MainNode(t, t.node[n].key), p)
      <4>1. Reach(t, MainNode(t, t.node[n].key), n) /\ MainNode(t, t.node[n].key) \in N
        BY <1>1, <2>1, <2>2, MainNodeType DEF Chains, Reached
      <4> QED
        BY <1>1, <1>2, <2>4, <4>1, ReachLast
    <3>3. pred \in S /\ pred \in N
      <4>1. (\A y, z : Reach(u, y, z) <=> Reach(t, y, z)) /\ (Ends(u) <=> Ends(t))
        BY <2>1, SameReach
      <4>2. MainNode(u, u.node[n].key) \in DOMAIN u.node
        BY <2>1, <3>1, MainNodeType
      <4>3. Reach(u, MainNode(u, u.node[n].key), p) /\ p \in S /\ Ends(u) /\ Linked(u)
        BY <2>1, <3>1, <3>2, <4>1, TableLinked DEF Chains
      <4>4. InChain(u, MainNode(u, u.node[n].key), S) # Nil
        BY <4>2, <4>3, InChainFinds
      <4>5. InChain(u, MainNode(u, u.node[n].key), S) \in (S \cap DOMAIN u.node) \cup {Nil}
        BY <4>2, <4>3, InChainType
      <4>6. pred = InChain(u, MainNode(u, u.node[n].key), S)
        BY DEF Pred
      <4> HIDE DEF pred, S
      <4>7. pred \in S \cap DOMAIN u.node
        BY <4>4, <4>5, <4>6
      <4> QED
        BY <2>1, <4>7
    <3>4. pred # Nil /\ t.node[pred].next = n
      BY <1>2, <2>1, <3>3
    <3>5. pred # n /\ pred # free
      <4>1. {n} \in SUBSET DOMAIN t.node /\ {n} # {} /\ Ends(t)
        BY <1>1 DEF Chains
      <4>2. \E y \in {n} : t.node[y].next = Nil \/ t.node[y].next \notin {n}
        BY <4>1 DEF Ends
      <4>3. t.node[n].next # n
        BY <1>1, <1>2, <4>2
      <4>4. t.node[free].next = Nil
        BY <2>1 DEF Chains, FreeUnlinked
      <4> HIDE DEF pred
      <4> QED
        BY <1>1, <1>2, <3>4, <4>3, <4>4
    <3> HIDE DEF S
    <3>6. MoveColliding(u, n, free) = Rechain(m, free, n) /\ TableOK(m) /\ Hmask(m) = Hmask(u)
      BY <1>1, <2>1, <3>4, MoveIs
    <3> HIDE DEF pred
    <3>7. /\ m.node = Moved(t.node, n, free, pred) /\ m.freetop = free /\ m.array = t.array /\ m.fits = t.fits
      BY <2>1, WithFields DEF TableOK
    <3>8. DOMAIN m.node = N
      BY <3>7 DEF Moved
    <3>9. /\ m.node[n].key = t.node[n].key /\ m.node[n].val = Nil /\ m.node[n].next = Nil
          /\ m.node[free] = t.node[n]
          /\ m.node[pred].key = t.node[pred].key /\ m.node[pred].val = t.node[pred].val
          /\ m.node[pred].next = free
          /\ \A y \in N : y \notin {n, free, pred} => m.node[y] = t.node[y]
      BY <1>1, <1>2, <2>1, <3>3, <3>5, <3>7, MovedFields
    <3> HIDE DEF m
    <3>10. Rechain(m, free, n) = m
      <4>1. \A y : MainNode(m, y) = MainNode(t, y)
        BY <2>1, <3>6, SameMainNode
      <4>2. \A y \in N : t.node[y].key # Nil => MainNode(t, t.node[y].key) # n
        BY <1>1, <2>4 DEF Chains, Rooted
      <4>3. \A y \in N : m.node[y].key # Nil => MainNode(t, m.node[y].key) # n \/ m.node[y].val = Nil
        BY <1>1, <3>3, <3>9, <4>2
      <4>4. \A y \in N : ~IsResurrected(m, y, n)
        BY <4>1, <4>3, TableAssumption DEF IsResurrected
      <4> QED
        BY <1>1, <2>1, <3>6, <3>8, <4>4, RechainNothing
    <3> DEFINE w == [m EXCEPT !.node[n].key = k]
    <3>11. new = [tab |-> w, node |-> n]
      BY <2>1, <2>4, <3>6, <3>10
    <3>12. /\ Hmask(w) = Hmask(m) /\ DOMAIN w.node = DOMAIN m.node
           /\ w.array = m.array /\ w.freetop = m.freetop /\ w.fits = m.fits
           /\ w.node[n].key = k /\ w.node[n].val = m.node[n].val
           /\ w.node[n].next = m.node[n].next
           /\ \A y \in DOMAIN m.node : y # n => w.node[y] = m.node[y]
      BY <1>1, <3>6, <3>8, KeySet
    <3> HIDE DEF w
    <3>13. SameShape(w, t) /\ w.freetop = free /\ w.fits = t.fits
      BY <2>1, <3>6, <3>7, <3>8, <3>12 DEF SameShape, Asize
    <3>14. /\ w.node[n].key = k /\ w.node[n].next = Nil /\ w.node[n].val = Nil
           /\ w.node[free] = t.node[n]
           /\ w.node[pred].key = t.node[pred].key /\ w.node[pred].next = free
           /\ w.node[pred].val = t.node[pred].val
           /\ \A y \in N : y \notin {n, free, pred} => w.node[y] = t.node[y]
      BY <1>1, <2>1, <3>3, <3>5, <3>8, <3>9, <3>12
    <3>15. Chains(w)
      BY <1>1, <2>1, <2>2, <2>4, <3>3, <3>4, <3>13, <3>14, ChainsMoved DEF n
    <3>16. ASSUME NEW k2 \in Key, k2 # k, NEW v, v # Nil
           PROVE  Holds(w, k2, v) <=> Holds(t, k2, v)
      <4>1. ASSUME NEW y \in N, w.node[y].key = k2, w.node[y].val = v
            PROVE  Holds(t, k2, v)
        <5>1. y # n
          BY <3>14, <3>16, <4>1
        <5>2. (y = free /\ t.node[n].key = k2 /\ t.node[n].val = v)
              \/ (t.node[y].key = k2 /\ t.node[y].val = v)
          BY <3>14, <4>1, <5>1
        <5> QED
          BY <1>1, <5>2 DEF Holds
      <4>2. ASSUME NEW y \in N, t.node[y].key = k2, t.node[y].val = v
            PROVE  Holds(w, k2, v)
        <5>1. y # free
          BY <2>2, <3>16, <4>2
        <5>2. (y = n /\ w.node[free].key = k2 /\ w.node[free].val = v)
              \/ (w.node[y].key = k2 /\ w.node[y].val = v)
          BY <3>14, <4>2, <5>1
        <5> QED
          BY <2>1, <3>13, <5>2 DEF Holds, SameShape
      <4> QED
        BY <3>13, <4>1, <4>2 DEF Holds, SameShape
    <3>17. Used(w) \subseteq Used(t) \cup {free}
      BY <1>1, <2>2, <3>13, <3>14 DEF Used, SameShape
    <3>18. \E y : Used(w) \subseteq Used(t) \cup {y}
      BY <3>17
    <3>19. new.tab = w
      BY <3>11
    <3> QED
      BY <3>13, <3>15, <3>16, <3>18, <3>19 DEF StoresOnly, new
  <2> QED
    BY <2>3, <2>4
<1> QED
  BY <1>3, <1>4

\* A store: what every lookup gives afterwards.
Stored(u, t, k, v) ==
  /\ Chains(u) /\ SameShape(u, t) /\ u.fits = t.fits
  /\ \A k2 \in Key : Get(u, k2) = IF k2 = k THEN v ELSE Get(t, k2)
  /\ \E y : Used(u) \subseteq Used(t) \cup {y}
  /\ InArray(t, k) => Used(u) = Used(t)

\* A store to a node that has the key.
LEMMA NodeStored ==
  ASSUME HashOK, NEW t, TableOK(t), Chains(t), NEW k \in Key, NEW v \in Key \cup {Nil},
         ~InArray(t, k), NEW m \in DOMAIN t.node, t.node[m].key = k
  PROVE  LET u == [t EXCEPT !.node[m].val = v]
         IN  /\ TableOK(u) /\ Chains(u) /\ SameShape(u, t) /\ u.fits = t.fits /\ Used(u) = Used(t)
             /\ Get(u, k) = v
             /\ \A k2 \in Key : k2 # k => Get(u, k2) = Get(t, k2)
             /\ \A n \in DOMAIN t.node : u.node[n].key = t.node[n].key
<1> DEFINE u == [t EXCEPT !.node[m].val = v]
<1>0. k # Nil
  BY TableAssumption DEF Key
<1>1. /\ TableOK(u) /\ Hmask(u) = Hmask(t) /\ DOMAIN u.node = DOMAIN t.node
      /\ u.array = t.array /\ u.freetop = t.freetop /\ u.fits = t.fits
      /\ u.node[m].key = t.node[m].key /\ u.node[m].val = v /\ u.node[m].next = t.node[m].next
      /\ \A y \in DOMAIN t.node : y # m => u.node[y] = t.node[y]
  BY <1>0, ValueSet
<1> HIDE DEF u
<1>2. SameShape(u, t) /\ Used(u) = Used(t) /\ \A k2 : InArray(u, k2) <=> InArray(t, k2)
  BY <1>1 DEF SameShape, Asize, Used, InArray
<1>3. Chains(u)
  <2>1. \A n \in DOMAIN t.node : u.node[n].key = t.node[n].key /\ u.node[n].next = t.node[n].next
    BY <1>1
  <2> QED
    BY <1>1, <1>2, <2>1, ChainsKept
<1>4. Get(u, k) = v
  <2>1. FindNode(u, k) = m
    BY <1>1, <1>3, FoundIs
  <2>2. m # Nil
    BY NilNoNode, TableLinked
  <2> QED
    BY <1>1, <1>2, <2>1, <2>2 DEF Get
<1>5. ASSUME NEW k2 \in Key, k2 # k
      PROVE  Get(u, k2) = Get(t, k2)
  <2>1. \A x : x # Nil => (Holds(u, k2, x) <=> Holds(t, k2, x))
    BY <1>1, <1>5 DEF Holds
  <2> QED
    BY <1>1, <1>2, <1>3, <2>1, SameGet
<1>6. \A n \in DOMAIN t.node : u.node[n].key = t.node[n].key
  BY <1>1
<1> QED
  BY <1>1, <1>2, <1>3, <1>4, <1>5, <1>6 DEF u

LEMMA ArrayStored ==
  ASSUME HashOK, NEW t, TableOK(t), Chains(t), NEW k \in Key, NEW v \in Key \cup {Nil}, InArray(t, k)
  PROVE  LET u == [t EXCEPT !.array[k + 1] = v]
         IN  /\ TableOK(u) /\ Chains(u) /\ SameShape(u, t) /\ u.fits = t.fits /\ Used(u) = Used(t)
             /\ Get(u, k) = v
             /\ \A k2 \in Key : k2 # k => Get(u, k2) = Get(t, k2)
             /\ u.node = t.node
<1> DEFINE u == [t EXCEPT !.array[k + 1] = v]
<1>1. /\ TableOK(u) /\ Hmask(u) = Hmask(t) /\ u.node = t.node /\ Asize(u) = Asize(t)
      /\ u.freetop = t.freetop /\ u.fits = t.fits
      /\ u.array = [t.array EXCEPT ![k + 1] = v]
  BY ArraySet
<1> HIDE DEF u
<1>2. SameShape(u, t) /\ Used(u) = Used(t) /\ \A k2 : InArray(u, k2) <=> InArray(t, k2)
  BY <1>1 DEF SameShape, Used, InArray
<1>3. Chains(u)
  BY <1>1, <1>2, ChainsKept
<1>4. k \in Nat /\ k + 1 \in DOMAIN t.array
  BY TableAssumption DEF InArray, Asize, TableOK
<1>5. Get(u, k) = v
  BY <1>1, <1>2, <1>4 DEF Get
<1>6. ASSUME NEW k2 \in Key, k2 # k
      PROVE  Get(u, k2) = Get(t, k2)
  <2>1. \A x : Holds(u, k2, x) <=> Holds(t, k2, x)
    BY <1>1 DEF Holds
  <2>2. InArray(t, k2) => u.array[k2 + 1] = t.array[k2 + 1]
    <3>1. SUFFICES ASSUME InArray(t, k2)
                   PROVE  u.array[k2 + 1] = t.array[k2 + 1]
      OBVIOUS
    <3>2. k2 \in Nat /\ k2 + 1 # k + 1
      <4>1. k2 \in Nat
        BY <3>1, TableAssumption DEF InArray
      <4>2. k \in Nat /\ k2 # k
        BY <1>4, <1>6
      <4> QED
        BY <4>1, <4>2
    <3>3. t.array = [i \in DOMAIN t.array |-> t.array[i]] /\ k2 + 1 \in DOMAIN t.array
      BY <3>1, <3>2 DEF TableOK, InArray, Asize
    <3> QED
      BY <1>1, <3>2, <3>3
  <2> QED
    BY <1>1, <1>2, <1>3, <2>1, <2>2, SameGet
<1> QED
  BY <1>1, <1>2, <1>3, <1>5, <1>6 DEF u

LEMMA PutStores ==
  ASSUME HashOK, NEW t, TableOK(t), Chains(t), NEW k \in Key, NEW v \in Key \cup {Nil},
         InArray(t, k) \/ FindNode(t, k) # Nil \/ HasRoom(t, k)
  PROVE  Stored(Put(t, k, v), t, k, v)
<1>0. k # Nil
  BY TableAssumption DEF Key
<1>1. CASE InArray(t, k)
  <2> DEFINE u == [t EXCEPT !.array[k + 1] = v]
  <2>1. Put(t, k, v) = u
    BY <1>1 DEF Put
  <2>2. /\ Chains(u) /\ SameShape(u, t) /\ u.fits = t.fits /\ Used(u) = Used(t)
        /\ Get(u, k) = v /\ \A k2 \in Key : k2 # k => Get(u, k2) = Get(t, k2)
    BY <1>1, ArrayStored
  <2> HIDE DEF u
  <2> QED
    BY <2>1, <2>2 DEF Stored
<1>2. CASE ~InArray(t, k) /\ FindNode(t, k) # Nil
  <2> DEFINE m == FindNode(t, k)
             u == [t EXCEPT !.node[m].val = v]
  <2>1. Put(t, k, v) = u
    BY <1>2 DEF Put
  <2>2. m \in DOMAIN t.node /\ t.node[m].key = k
    BY <1>2, FindNodeType
  <2> HIDE DEF m
  <2>3. /\ Chains(u) /\ SameShape(u, t) /\ u.fits = t.fits /\ Used(u) = Used(t)
        /\ Get(u, k) = v /\ \A k2 \in Key : k2 # k => Get(u, k2) = Get(t, k2)
    BY <1>2, <2>2, NodeStored
  <2> HIDE DEF u
  <2> QED
    BY <1>2, <2>1, <2>3 DEF Stored
<1>3. CASE ~InArray(t, k) /\ FindNode(t, k) = Nil /\ HasRoom(t, k)
  <2> DEFINE new == NewKey(t, k)
             w == new.tab
             m == new.node
             u == [w EXCEPT !.node[m].val = v]
  <2>1. Put(t, k, v) = u
    BY <1>3 DEF Put
  <2>2. \A n \in DOMAIN t.node : t.node[n].key # k
    BY <1>3, FoundIs
  <2>3. TableOK(w) /\ Hmask(w) = Hmask(t) /\ w.array = t.array /\ m \in DOMAIN w.node /\ w.node[m].key = k
    BY <1>3, NewKeyType
  <2>4. /\ Chains(w) /\ SameShape(w, t) /\ w.fits = t.fits
        /\ \A k2 \in Key : k2 # k => \A x : x # Nil => (Holds(w, k2, x) <=> Holds(t, k2, x))
        /\ \E y : Used(w) \subseteq Used(t) \cup {y}
    BY <1>3, <2>2, NewKeyStores DEF StoresOnly
  <2> HIDE DEF w, m
  <2>5. \A k2 : InArray(w, k2) <=> InArray(t, k2)
    BY <2>4 DEF SameShape, InArray
  <2>6. \A k2 \in Key : k2 # k => Get(w, k2) = Get(t, k2)
    BY <2>3, <2>4, <2>5, SameGet
  <2>7. /\ TableOK(u) /\ Chains(u) /\ SameShape(u, w) /\ u.fits = w.fits /\ Used(u) = Used(w)
        /\ Get(u, k) = v /\ \A k2 \in Key : k2 # k => Get(u, k2) = Get(w, k2)
    BY <1>3, <2>3, <2>4, <2>5, NodeStored
  <2> HIDE DEF u
  <2>8. SameShape(u, t) /\ u.fits = t.fits /\ \E y : Used(u) \subseteq Used(t) \cup {y}
    BY <2>4, <2>7 DEF SameShape
  <2>9. \A k2 \in Key : Get(u, k2) = IF k2 = k THEN v ELSE Get(t, k2)
    BY <2>6, <2>7
  <2> QED
    BY <1>3, <2>1, <2>7, <2>8, <2>9 DEF Stored
<1> QED
  BY <1>1, <1>2, <1>3

\* A store to an entry changes no key of a node.
LEMMA PutOver ==
  ASSUME HashOK, NEW t, TableOK(t), Chains(t), NEW k \in Key, NEW v \in Key \cup {Nil}, Get(t, k) # Nil
  PROVE  LET u == Put(t, k, v)
         IN  /\ InArray(t, k) \/ FindNode(t, k) # Nil
             /\ \A n \in DOMAIN t.node : u.node[n].key = t.node[n].key
<1>1. CASE InArray(t, k)
  <2> DEFINE u == [t EXCEPT !.array[k + 1] = v]
  <2>1. Put(t, k, v) = u
    BY <1>1 DEF Put
  <2>2. u.node = t.node
    BY <1>1, ArrayStored
  <2> HIDE DEF u
  <2> QED
    BY <1>1, <2>1, <2>2
<1>2. CASE ~InArray(t, k)
  <2> DEFINE m == FindNode(t, k)
             u == [t EXCEPT !.node[m].val = v]
  <2>1. m # Nil
    BY <1>2 DEF Get
  <2>2. Put(t, k, v) = u
    BY <1>2, <2>1 DEF Put
  <2>3. m \in DOMAIN t.node /\ t.node[m].key = k
    BY <2>1, FindNodeType
  <2>4. \A n \in DOMAIN t.node : u.node[n].key = t.node[n].key
    <3> HIDE DEF m
    <3> QED
      BY <1>2, <2>3, NodeStored
  <2> HIDE DEF u
  <2> QED
    BY <2>1, <2>2, <2>4
<1> QED
  BY <1>1, <1>2

(***************************************************************************)
(* Resizing.                                                               *)
(***************************************************************************)

LEMMA RoomLeft ==
  ASSUME HashOK, NEW t, TableOK(t), Chains(t), Hmask(t) > 0, Cardinality(Used(t)) <= Hmask(t), NEW k \in Key
  PROVE  HasRoom(t, k)
<1>1. SUFFICES ASSUME FreeNodes(t) = {}
               PROVE  FALSE
  BY DEF HasRoom
<1>2. Hmask(t) \in Nat /\ DOMAIN t.node = 0..Hmask(t) /\ t.freetop \in Nat
  BY DEF TableOK
<1>3. \A n \in DOMAIN t.node : t.node[n].key # Nil
  <2> SUFFICES ASSUME NEW n \in DOMAIN t.node
               PROVE  t.node[n].key # Nil
    OBVIOUS
  <2>1. n < t.freetop => t.node[n].key # Nil
    BY <1>1 DEF FreeNodes
  <2>2. n >= t.freetop => t.node[n].key # Nil
    BY DEF Chains, FilledAbove
  <2> QED
    BY <1>2, <2>1, <2>2
<1>4. Used(t) = 0..Hmask(t)
  BY <1>2, <1>3 DEF Used
<1>5. Cardinality(0..Hmask(t)) = Hmask(t) + 1
  BY <1>2, FS_Interval
<1> QED
  BY <1>2, <1>4, <1>5

\* The nodes that resizing makes.
HashSize(hbits) == IF hbits = 0 THEN 0 ELSE Pow2[hbits]

AllEmpty(t) == \A n \in DOMAIN t.node : t.node[n].key = Nil /\ t.node[n].val = Nil

LEMMA ResizedIs ==
  ASSUME NEW t, TableOK(t), NEW asize \in Nat, NEW hbits \in Nat
  PROVE  LET r == Resized(t, asize, hbits)
         IN  /\ TableOK(r) /\ Chains(r) /\ r.fits = t.fits /\ Asize(r) = asize /\ Used(r) = {}
             /\ hbits = 0 => Hmask(r) = 0
             /\ hbits # 0 => Hmask(r) > 0 /\ Hmask(r) + 1 = HashSize(hbits)
             /\ \A k \in Key : InArray(r, k) <=> k \in Num /\ k < asize
             /\ \A k \in Key : InArray(r, k) =>
                  r.array[k + 1] = IF InArray(t, k) THEN t.array[k + 1] ELSE Nil
             /\ AllEmpty(r)
<1> DEFINE r == Resized(t, asize, hbits)
           h == IF hbits = 0 THEN 0 ELSE Pow2[hbits] - 1
           array == [j \in 1..asize |-> IF j <= Asize(t) THEN t.array[j] ELSE Nil]
<1>1. /\ HasFields(t, TableFields) /\ t.array \in Seq(Key \cup {Nil}) /\ t.fits \in BOOLEAN
      /\ Asize(t) \in Nat /\ Asize(t) = Len(t.array) /\ \A j \in DOMAIN t.array : t.array[j] # Nil => j - 1 \in Num
  BY DEF TableOK, Asize
<1>2. /\ HasFields(r, TableFields) /\ r.array = array /\ r.fits = t.fits
      /\ r.node = IF hbits = 0 THEN NilNodes ELSE [n \in 0..Pow2[hbits] - 1 |-> EmptyNode]
      /\ r.freetop = HashSize(hbits)
  BY <1>1 DEF HasFields, TableFields, Resized, HashSize
<1> HIDE DEF r
<1>3. Pow2[hbits] \in Nat /\ Pow2[hbits] > hbits
  BY Pow2Type
<1>4. h \in Nat /\ (hbits # 0 => h > 0 /\ h + 1 = HashSize(hbits)) /\ (hbits = 0 => h = 0 /\ HashSize(hbits) = 0)
  BY <1>3 DEF HashSize
<1>5. r.node = [n \in 0..h |-> EmptyNode]
  <2>1. hbits = 0 => 0..h = {0}
    OBVIOUS
  <2>2. hbits # 0 => h = Pow2[hbits] - 1
    OBVIOUS
  <2> HIDE DEF h
  <2> QED
    BY <1>2, <2>1, <2>2 DEF NilNodes
<1> HIDE DEF h
<1>6. DOMAIN r.node = 0..h /\ \A n \in 0..h : r.node[n] = EmptyNode
  BY <1>5
<1>7. Hmask(r) = h
  BY <1>4, <1>6, HmaskIs
<1>8. /\ r.array \in Seq(Key \cup {Nil}) /\ Len(r.array) = asize
      /\ \A j \in 1..asize : r.array[j] = IF j <= Asize(t) THEN t.array[j] ELSE Nil
  <2>1. \A j \in 1..asize : (IF j <= Asize(t) THEN t.array[j] ELSE Nil) \in Key \cup {Nil}
    BY <1>1
  <2>2. array \in [1..asize -> Key \cup {Nil}]
    BY <2>1
  <2>3. array \in Seq(Key \cup {Nil}) /\ Len(array) = asize
    BY <2>2
  <2> QED
    BY <1>2, <2>3
<1>9. Asize(r) = asize /\ \A k \in Key : InArray(r, k) <=> k \in Num /\ k < asize
  BY <1>8 DEF Asize, InArray
<1>10. ASSUME NEW k \in Key, InArray(r, k)
       PROVE  r.array[k + 1] = IF InArray(t, k) THEN t.array[k + 1] ELSE Nil
  <2>1. k \in Num /\ k \in Nat /\ k + 1 \in 1..asize
    <3>1. k \in Num /\ k < asize
      BY <1>9, <1>10
    <3>2. k \in Nat
      BY <3>1, TableAssumption
    <3> QED
      BY <3>1, <3>2
  <2>2. r.array[k + 1] = IF k + 1 <= Asize(t) THEN t.array[k + 1] ELSE Nil
    BY <1>8, <2>1
  <2>3. InArray(t, k) <=> k + 1 <= Asize(t)
    BY <1>1, <2>1 DEF InArray
  <2> QED
    BY <2>2, <2>3
<1>11. TableOK(r)
  <2>1. EmptyNode \in NodeRec(0..h)
    BY DEF EmptyNode, NodeRec
  <2>2. r.node \in [0..h -> NodeRec(0..h)]
    BY <1>5, <2>1
  <2>3. r.freetop \in 0..(IF h = 0 THEN 0 ELSE h + 1)
    BY <1>2, <1>4
  <2>4. \A n \in DOMAIN r.node : r.node[n].val # Nil => r.node[n].key # Nil
    BY <1>6 DEF EmptyNode
  <2>5. \A j \in DOMAIN r.array : r.array[j] # Nil => j - 1 \in Num
    <3> SUFFICES ASSUME NEW j \in 1..asize, r.array[j] # Nil
                 PROVE  j - 1 \in Num
      BY <1>8
    <3>1. j <= Asize(t) /\ t.array[j] # Nil
      BY <1>8
    <3>2. j \in DOMAIN t.array
      BY <1>1, <3>1
    <3> QED
      BY <1>1, <3>1, <3>2
  <2>6. r.fits \in BOOLEAN
    BY <1>1, <1>2
  <2> QED
    BY <1>2, <1>4, <1>7, <1>8, <2>2, <2>3, <2>4, <2>5, <2>6 DEF TableOK
<1>12. Used(r) = {}
  BY <1>6 DEF Used, EmptyNode
<1>13. Chains(r)
  <2>1. \A n \in DOMAIN r.node : r.node[n].key = Nil /\ r.node[n].next = Nil
    BY <1>6 DEF EmptyNode
  <2>2. Ends(r)
    BY <2>1 DEF Ends
  <2>3. Nil \notin DOMAIN r.node
    BY <1>11, TableLinked, NilNoNode
  <2>4. UniqueKeys(r) /\ UniquePreds(r) /\ FreeUnlinked(r) /\ Rooted(r) /\ Reached(r) /\ NotInArray(r)
    BY <2>1, <2>3 DEF UniqueKeys, UniquePreds, FreeUnlinked, Rooted, Reached, NotInArray
  <2>5. FilledAbove(r)
    <3> SUFFICES ASSUME NEW n \in 0..h, n >= HashSize(hbits), h > 0
                 PROVE  FALSE
      BY <1>2, <1>6, <1>7 DEF FilledAbove
    <3>1. HashSize(hbits) = h + 1
      BY <1>4
    <3> QED
      BY <1>4, <3>1
  <2>6. NilnodeEmpty(r)
    BY <1>4, <1>6, <2>1 DEF NilnodeEmpty
  <2> QED
    BY <2>2, <2>4, <2>5, <2>6 DEF Chains
<1>14. AllEmpty(r)
  BY <1>6 DEF EmptyNode, AllEmpty
<1> QED
  BY <1>2, <1>4, <1>7, <1>9, <1>10, <1>11, <1>12, <1>13, <1>14 DEF r

\* What Resize does with one slot.
Filled(t, asize, s, j) ==
  IF Slots(t)[j].val = Nil \/ (j <= Asize(t) /\ j <= asize) THEN s
  ELSE Put(s, Slots(t)[j].key, Slots(t)[j].val)

IsFilled(g, t, asize, hbits, k) ==
  g = [j \in 0..k |-> IF j = 0 THEN Resized(t, asize, hbits) ELSE Filled(t, asize, g[j - 1], j)]

LEMMA FilledExists ==
  ASSUME NEW t, NEW asize, NEW hbits, NEW h \in Nat
  PROVE  \E g : IsFilled(g, t, asize, hbits, h)
<1> DEFINE T == {k \in 0..h : \E g : IsFilled(g, t, asize, hbits, k)}
           On(g, i) == IF i = 0 THEN Resized(t, asize, hbits) ELSE Filled(t, asize, g[i - 1], i)
<1>1. 0 \in T
  <2> DEFINE g == [i \in 0..0 |-> Resized(t, asize, hbits)]
  <2>1. g[0] = On(g, 0) /\ g = [i \in 0..0 |-> g[i]] /\ \A i \in 0..0 : i = 0
    OBVIOUS
  <2> HIDE DEF g
  <2>2. IsFilled(g, t, asize, hbits, 0)
    BY <2>1 DEF IsFilled
  <2> HIDE DEF On
  <2> QED
    BY <2>2
<1>2. ASSUME NEW k \in 0..h, k # 0, k - 1 \in T
      PROVE  k \in T
  <2>1. PICK g : IsFilled(g, t, asize, hbits, k - 1)
    BY <1>2
  <2> DEFINE f == [i \in 0..k |-> IF i = k THEN On(g, k) ELSE g[i]]
  <2>2. k \in Nat /\ k - 1 \in Nat
    BY <1>2
  <2>3. ASSUME NEW i \in 0..k
        PROVE  f[i] = On(f, i)
    <3>1. i # 0 => f[i - 1] = g[i - 1]
      BY <2>2
    <3>2. On(f, i) = On(g, i)
      BY <3>1
    <3>3. CASE i = k
      <4> HIDE DEF On
      <4> QED
        BY <3>2, <3>3
    <3>4. CASE i # k
      <4>1. i \in 0..k - 1
        BY <2>2, <3>4
      <4>2. g[i] = On(g, i)
        BY <2>1, <4>1 DEF IsFilled
      <4> QED
        BY <3>2, <3>4, <4>2
    <3> QED
      BY <3>3, <3>4
  <2>4. f = [i \in 0..k |-> f[i]]
    OBVIOUS
  <2> HIDE DEF f
  <2>5. IsFilled(f, t, asize, hbits, k)
    BY <2>3, <2>4 DEF IsFilled
  <2> HIDE DEF On
  <2> QED
    BY <2>5
<1> HIDE DEF T
<1>3. 0..h \subseteq T
  BY <1>1, <1>2, Induction
<1>4. h \in T
  BY <1>3
<1> QED
  BY <1>4 DEF T

\* The table after j slots is found from the table before.
Filling(g, t, asize, hbits, j) ==
  g[j] = IF j = 0 THEN Resized(t, asize, hbits) ELSE Filled(t, asize, g[j - 1], j)

LEMMA SlotsLen ==
  ASSUME NEW t, TableOK(t)
  PROVE  /\ Len(Slots(t)) \in Nat /\ Len(Slots(t)) = Asize(t) + Hmask(t) + 1
         /\ DOMAIN Slots(t) = 1..Len(Slots(t)) /\ Asize(t) \in Nat /\ Hmask(t) \in Nat
<1>1. Asize(t) \in Nat /\ Hmask(t) \in Nat
  BY DEF TableOK, Asize
<1>2. DOMAIN Slots(t) = 1..Asize(t) + Hmask(t) + 1
  BY DEF Slots
<1>3. Len(Slots(t)) = Asize(t) + Hmask(t) + 1
  BY <1>1 DEF Slots
<1> QED
  BY <1>1, <1>2, <1>3

LEMMA ResizeIs ==
  ASSUME NEW t, TableOK(t), NEW asize, NEW hbits
  PROVE  \E g : /\ \A j \in 0..Len(Slots(t)) : Filling(g, t, asize, hbits, j)
                /\ Resize(t, asize, hbits) = g[Len(Slots(t))]
<1> DEFINE h == Len(Slots(t))
           g == CHOOSE g : IsFilled(g, t, asize, hbits, h)
<1>1. IsFilled(g, t, asize, hbits, h)
  BY FilledExists, SlotsLen, Zenon
<1>2. Resize(t, asize, hbits) = g[h]
  BY Zenon DEF Resize, IsFilled, Filled
<1> HIDE DEF g, h
<1>3. \A j \in 0..h : g[j] = IF j = 0 THEN Resized(t, asize, hbits) ELSE Filled(t, asize, g[j - 1], j)
  BY <1>1 DEF IsFilled
<1>4. \A j \in 0..h : Filling(g, t, asize, hbits, j)
  BY <1>3 DEF Filling
<1> QED
  BY <1>2, <1>4 DEF h

\* What is in the slots.
LEMMA SlotIs ==
  ASSUME NEW t, TableOK(t), NEW j \in 1..Len(Slots(t))
  PROVE  LET s == Slots(t)[j]
         IN  /\ s.val \in Key \cup {Nil} /\ (s.val # Nil => s.key \in Key)
             /\ j <= Asize(t) => s.key = j - 1 /\ s.val = t.array[j] /\ j \in DOMAIN t.array
             /\ j > Asize(t) =>
                  /\ j - Asize(t) - 1 \in DOMAIN t.node
                  /\ s.key = t.node[j - Asize(t) - 1].key /\ s.val = t.node[j - Asize(t) - 1].val
<1> DEFINE s == Slots(t)[j]
           n == j - Asize(t) - 1
<1>1. /\ j \in 1..Asize(t) + Hmask(t) + 1 /\ Asize(t) \in Nat /\ Hmask(t) \in Nat
      /\ DOMAIN t.array = 1..Asize(t) /\ DOMAIN t.node = 0..Hmask(t)
  BY SlotsLen DEF TableOK, Asize
<1>2. CASE j <= Asize(t)
  <2>1. s = [key |-> j - 1, val |-> t.array[j]]
    BY <1>1, <1>2 DEF Slots
  <2>2. j \in DOMAIN t.array
    BY <1>1, <1>2
  <2>3. t.array[j] \in Key \cup {Nil} /\ (t.array[j] # Nil => j - 1 \in Num)
    BY <2>2 DEF TableOK
  <2> HIDE DEF s
  <2>4. s.key = j - 1 /\ s.val = t.array[j]
    BY <2>1
  <2>5. j \in Int /\ Asize(t) \in Int /\ ~(j > Asize(t))
    BY <1>1, <1>2
  <2> QED
    BY <2>2, <2>3, <2>4, <2>5 DEF s, Key
<1>3. CASE j > Asize(t)
  <2>1. s = [key |-> t.node[n].key, val |-> t.node[n].val]
    BY <1>1, <1>3 DEF Slots
  <2>2. n \in DOMAIN t.node
    BY <1>1, <1>3
  <2>3. t.node[n].val \in Key \cup {Nil} /\ t.node[n].key \in Key \cup {Nil}
        /\ (t.node[n].val # Nil => t.node[n].key # Nil)
    BY <2>2 DEF TableOK, NodeRec
  <2>4. j \in Int /\ Asize(t) \in Int /\ ~(j <= Asize(t))
    BY <1>1, <1>3
  <2> HIDE DEF s, n
  <2>5. s.key = t.node[n].key /\ s.val = t.node[n].val
    BY <2>1
  <2> QED
    BY <2>2, <2>3, <2>4, <2>5 DEF s, n
<1>4. j \in Int /\ Asize(t) \in Int
  BY <1>1
<1> QED
  BY <1>2, <1>3, <1>4

LEMMA ResizeType ==
  ASSUME HashOK, NEW t, TableOK(t), NEW asize \in Nat, NEW hbits \in Nat
  PROVE  TableOK(Resize(t, asize, hbits))
<1> DEFINE h == Len(Slots(t))
<1>1. h \in Nat
  BY SlotsLen
<1>2. PICK g : /\ \A j \in 0..h : Filling(g, t, asize, hbits, j)
               /\ Resize(t, asize, hbits) = g[h]
  BY ResizeIs
<1>3. \A j \in 1..h : LET s == Slots(t)[j] IN s.val \in Key \cup {Nil} /\ (s.val # Nil => s.key \in Key)
  BY SlotIs
<1> HIDE DEF h
<1> DEFINE T == {j \in 0..h : TableOK(g[j])}
<1>4. 0 \in T
  BY <1>1, <1>2, ResizedIs DEF Filling
<1>5. ASSUME NEW j \in 0..h, j # 0, j - 1 \in T
      PROVE  j \in T
  <2>1. g[j] = Filled(t, asize, g[j - 1], j) /\ j \in 1..h
    BY <1>2, <1>5 DEF Filling
  <2>2. TableOK(g[j - 1])
    BY <1>5
  <2>3. TableOK(Filled(t, asize, g[j - 1], j))
    BY <1>3, <2>1, <2>2, PutType DEF Filled
  <2> QED
    BY <1>5, <2>1, <2>3
<1> HIDE DEF T
<1>6. 0..h \subseteq T
  BY <1>1, <1>4, <1>5, Induction
<1>7. TableOK(g[h])
  BY <1>1, <1>6 DEF T
<1> QED
  BY <1>2, <1>7

\* The slots are the entries.
LEMMA SlotsAreEntries ==
  ASSUME HashOK, NEW t, TableOK(t), Chains(t)
  PROVE  /\ \A j \in 1..Len(Slots(t)) : Slots(t)[j].val # Nil => Get(t, Slots(t)[j].key) = Slots(t)[j].val
         /\ \A k \in Key : Get(t, k) # Nil =>
              \E j \in 1..Len(Slots(t)) : Slots(t)[j].key = k /\ Slots(t)[j].val # Nil
<1>1. /\ Len(Slots(t)) = Asize(t) + Hmask(t) + 1 /\ Asize(t) \in Nat /\ Hmask(t) \in Nat
      /\ DOMAIN t.array = 1..Asize(t) /\ DOMAIN t.node = 0..Hmask(t)
  BY SlotsLen DEF TableOK, Asize
<1>2. ASSUME NEW j \in 1..Len(Slots(t)), Slots(t)[j].val # Nil
      PROVE  Get(t, Slots(t)[j].key) = Slots(t)[j].val
  <2> DEFINE s == Slots(t)[j]
             n == j - Asize(t) - 1
  <2>1. /\ s.key \in Key
        /\ j <= Asize(t) => s.key = j - 1 /\ s.val = t.array[j] /\ j \in DOMAIN t.array
        /\ j > Asize(t) => n \in DOMAIN t.node /\ s.key = t.node[n].key /\ s.val = t.node[n].val
    BY <1>2, SlotIs
  <2> HIDE DEF n, s
  <2>2. CASE j <= Asize(t)
    <3>1. j - 1 \in Num
      BY <1>2, <2>1, <2>2 DEF TableOK, s
    <3>2. InArray(t, s.key) /\ s.key + 1 = j
      BY <1>1, <2>1, <2>2, <3>1 DEF InArray
    <3> QED
      BY <2>1, <2>2, <3>2, GetIs DEF s
  <2>3. CASE j > Asize(t)
    <3>1. s.key # Nil
      BY <2>1, TableAssumption DEF Key
    <3>2. ~InArray(t, s.key)
      BY <2>1, <2>3, <3>1 DEF Chains, NotInArray
    <3>3. Holds(t, s.key, s.val)
      BY <2>1, <2>3 DEF Holds
    <3> QED
      BY <1>2, <2>1, <3>2, <3>3, GetIs DEF s
  <2> QED
    BY <1>1, <2>2, <2>3
<1>3. ASSUME NEW k \in Key, Get(t, k) # Nil
      PROVE  \E j \in 1..Len(Slots(t)) : Slots(t)[j].key = k /\ Slots(t)[j].val # Nil
  <2>1. CASE InArray(t, k)
    <3>1. k \in Num /\ k < Asize(t)
      BY <2>1 DEF InArray
    <3>2. k \in Nat
      BY <3>1, TableAssumption
    <3>3. k + 1 \in 1..Len(Slots(t)) /\ k + 1 <= Asize(t) /\ (k + 1) - 1 = k
      BY <1>1, <3>1, <3>2
    <3>4. Slots(t)[k + 1].key = k /\ Slots(t)[k + 1].val = t.array[k + 1]
      BY <3>3, SlotIs
    <3> QED
      BY <1>3, <2>1, <3>3, <3>4, GetIs
  <2>2. CASE ~InArray(t, k)
    <3>1. Holds(t, k, Get(t, k))
      BY <1>3, <2>2, GetIs
    <3>2. PICK n \in DOMAIN t.node : t.node[n].key = k /\ t.node[n].val = Get(t, k)
      BY <3>1 DEF Holds
    <3>3. /\ n + Asize(t) + 1 \in 1..Len(Slots(t)) /\ n + Asize(t) + 1 > Asize(t)
          /\ (n + Asize(t) + 1) - Asize(t) - 1 = n
      BY <1>1
    <3>4. Slots(t)[n + Asize(t) + 1].key = k /\ Slots(t)[n + Asize(t) + 1].val = Get(t, k)
      BY <3>2, <3>3, SlotIs
    <3> QED
      BY <1>3, <3>3, <3>4
  <2> QED
    BY <2>1, <2>2
<1> QED
  BY <1>2, <1>3

\* The slots whose values go to the hash part.
ToHash(t, asize) ==
  {j \in 1..Len(Slots(t)) : Slots(t)[j].val # Nil /\ ~(Slots(t)[j].key \in Num /\ Slots(t)[j].key < asize)}

LEMMA ToHashFinite ==
  ASSUME NEW t, TableOK(t), NEW asize
  PROVE  /\ IsFiniteSet(ToHash(t, asize)) /\ Cardinality(ToHash(t, asize)) \in Nat
         /\ \A j \in Nat : /\ Cardinality(ToHash(t, asize) \cap (1..j)) \in Nat
                           /\ Cardinality(ToHash(t, asize) \cap (1..j)) <= Cardinality(ToHash(t, asize))
         /\ \A j \in Nat \ {0} : j \in ToHash(t, asize) =>
              Cardinality(ToHash(t, asize) \cap (1..j)) = Cardinality(ToHash(t, asize) \cap (1..(j - 1))) + 1
         /\ \A j \in Nat \ {0} : j \notin ToHash(t, asize) =>
              Cardinality(ToHash(t, asize) \cap (1..j)) = Cardinality(ToHash(t, asize) \cap (1..(j - 1)))
<1> DEFINE H == ToHash(t, asize)
           h == Len(Slots(t))
<1>1. h \in Nat
  BY SlotsLen
<1>2. IsFiniteSet(1..h)
  BY <1>1, FS_Interval
<1>3. H \subseteq 1..h
  BY DEF ToHash
<1>4. IsFiniteSet(H)
  BY <1>2, <1>3, FS_Subset
<1> HIDE DEF H
<1>5. \A A \in SUBSET H : IsFiniteSet(A) /\ Cardinality(A) \in Nat /\ Cardinality(A) <= Cardinality(H)
  BY <1>4, FS_Subset, FS_CardinalityType
<1>6. ASSUME NEW j \in Nat \ {0}, j \in H
      PROVE  Cardinality(H \cap (1..j)) = Cardinality(H \cap (1..(j - 1))) + 1
  <2>1. H \cap (1..j) = (H \cap (1..(j - 1))) \cup {j} /\ j \notin H \cap (1..(j - 1))
    BY <1>6
  <2>2. IsFiniteSet(H \cap (1..(j - 1)))
    BY <1>5
  <2> QED
    BY <2>1, <2>2, FS_AddElement
<1>7. ASSUME NEW j \in Nat \ {0}, j \notin H
      PROVE  Cardinality(H \cap (1..j)) = Cardinality(H \cap (1..(j - 1)))
  <2>1. H \cap (1..j) = H \cap (1..(j - 1))
    BY <1>7
  <2> QED
    BY <2>1
<1>8. Cardinality(H) \in Nat /\ \A j \in Nat : /\ Cardinality(H \cap (1..j)) \in Nat
                                               /\ Cardinality(H \cap (1..j)) <= Cardinality(H)
  BY <1>5
<1> QED
  BY <1>4, <1>6, <1>7, <1>8 DEF H

LEMMA UsedFinite ==
  ASSUME NEW t, TableOK(t)
  PROVE  IsFiniteSet(Used(t)) /\ Cardinality(Used(t)) \in Nat /\ Cardinality(Used(t)) <= Hmask(t) + 1
<1>1. Hmask(t) \in Nat /\ Used(t) \subseteq 0..Hmask(t)
  BY DEF TableOK, Used
<1>2. IsFiniteSet(0..Hmask(t)) /\ Cardinality(0..Hmask(t)) = Hmask(t) + 1
  BY <1>1, FS_Interval
<1> QED
  BY <1>1, <1>2, FS_Subset, FS_CardinalityType

LEMMA OneMore ==
  ASSUME NEW A, IsFiniteSet(A), NEW B, \E y : B \subseteq A \cup {y}
  PROVE  IsFiniteSet(B) /\ Cardinality(B) <= Cardinality(A) + 1
<1>1. PICK y : B \subseteq A \cup {y}
  OBVIOUS
<1>2. IsFiniteSet(A \cup {y}) /\ Cardinality(A \cup {y}) <= Cardinality(A) + 1 /\ Cardinality(A) \in Nat
      /\ Cardinality(A \cup {y}) \in Nat
  <2>1. Cardinality(A) \in Nat
    BY FS_CardinalityType
  <2>2. IsFiniteSet(A \cup {y}) /\ (Cardinality(A \cup {y}) = Cardinality(A) \/ Cardinality(A \cup {y}) = Cardinality(A) + 1)
    BY FS_AddElement
  <2> QED
    BY <2>1, <2>2
<1>3. IsFiniteSet(B) /\ Cardinality(B) <= Cardinality(A \cup {y}) /\ Cardinality(B) \in Nat
  BY <1>1, <1>2, FS_Subset, FS_CardinalityType
<1> QED
  BY <1>2, <1>3

\* After j slots: the entries that are in the table again.
InSlots(t, k, j) == \E i \in 1..j : Slots(t)[i].key = k /\ Slots(t)[i].val # Nil

StaysInArray(t, asize, k) == InArray(t, k) /\ k < asize

\* The table s after j slots.
FilledUpTo(t, asize, hbits, s, j) ==
  /\ TableOK(s) /\ Chains(s) /\ s.fits = t.fits /\ Asize(s) = asize
  /\ hbits # 0 => Hmask(s) > 0 /\ Hmask(s) + 1 = HashSize(hbits)
  /\ Cardinality(Used(s)) <= Cardinality(ToHash(t, asize) \cap (1..j))
  /\ \A k \in Key : Get(s, k) = IF InSlots(t, k, j) \/ StaysInArray(t, asize, k) THEN Get(t, k) ELSE Nil

LEMMA FillingBegins ==
  ASSUME HashOK, NEW t, TableOK(t), Chains(t), NEW asize \in Nat, NEW hbits \in Nat
  PROVE  FilledUpTo(t, asize, hbits, Resized(t, asize, hbits), 0)
<1> DEFINE r == Resized(t, asize, hbits)
<1>1. /\ TableOK(r) /\ Chains(r) /\ r.fits = t.fits /\ Asize(r) = asize /\ Used(r) = {}
      /\ hbits # 0 => Hmask(r) > 0 /\ Hmask(r) + 1 = HashSize(hbits)
      /\ \A k \in Key : InArray(r, k) <=> k \in Num /\ k < asize
      /\ \A k \in Key : InArray(r, k) => r.array[k + 1] = IF InArray(t, k) THEN t.array[k + 1] ELSE Nil
      /\ AllEmpty(r)
  <2>1. TableOK(r) /\ Chains(r) /\ r.fits = t.fits /\ Asize(r) = asize /\ Used(r) = {}
    BY ResizedIs
  <2>2. hbits # 0 => Hmask(r) > 0 /\ Hmask(r) + 1 = HashSize(hbits)
    BY ResizedIs
  <2>3. /\ \A k \in Key : InArray(r, k) <=> k \in Num /\ k < asize
        /\ \A k \in Key : InArray(r, k) => r.array[k + 1] = IF InArray(t, k) THEN t.array[k + 1] ELSE Nil
    BY ResizedIs
  <2>4. AllEmpty(r)
    BY ResizedIs
  <2> HIDE DEF r
  <2> QED
    BY <2>1, <2>2, <2>3, <2>4
<1> HIDE DEF r
<1>2. Cardinality(Used(r)) <= Cardinality(ToHash(t, asize) \cap (1..0))
  <2>1. Cardinality(Used(r)) = 0
    BY <1>1, FS_EmptySet
  <2>2. Cardinality(ToHash(t, asize) \cap (1..0)) \in Nat
    BY ToHashFinite
  <2> QED
    BY <2>1, <2>2
<1>3. ASSUME NEW k \in Key
      PROVE  Get(r, k) = IF InSlots(t, k, 0) \/ StaysInArray(t, asize, k) THEN Get(t, k) ELSE Nil
  <2>1. ~InSlots(t, k, 0)
    BY DEF InSlots
  <2>2. CASE InArray(r, k)
    <3>1. Get(r, k) = IF InArray(t, k) THEN t.array[k + 1] ELSE Nil
      BY <1>1, <2>2, GetIs
    <3>2. StaysInArray(t, asize, k) <=> InArray(t, k)
      BY <1>1, <2>2 DEF StaysInArray
    <3>3. InArray(t, k) => Get(t, k) = t.array[k + 1]
      BY GetIs
    <3> QED
      BY <2>1, <3>1, <3>2, <3>3
  <2>3. CASE ~InArray(r, k)
    <3>1. Get(r, k) = Nil
      <4>1. \A x : x # Nil => ~Holds(r, k, x)
        BY <1>1 DEF Holds, AllEmpty
      <4> QED
        BY <1>1, <2>3, <4>1, GetIs
    <3>2. ~StaysInArray(t, asize, k)
      BY <1>1, <2>3 DEF StaysInArray, InArray
    <3> QED
      BY <2>1, <3>1, <3>2
  <2> QED
    BY <2>2, <2>3
<1> QED
  BY <1>1, <1>2, <1>3 DEF FilledUpTo, r

LEMMA FillingGoesOn ==
  ASSUME HashOK, NEW t, TableOK(t), Chains(t), NEW asize \in Nat, NEW hbits \in Nat,
         Cardinality(ToHash(t, asize)) <= HashSize(hbits),
         NEW j \in 1..Len(Slots(t)), NEW s, FilledUpTo(t, asize, hbits, s, j - 1)
  PROVE  FilledUpTo(t, asize, hbits, Filled(t, asize, s, j), j)
<1> DEFINE k == Slots(t)[j].key
           v == Slots(t)[j].val
           H == ToHash(t, asize)
           u == Filled(t, asize, s, j)
<1>1. /\ j \in Nat \ {0} /\ j - 1 \in Nat
      /\ v \in Key \cup {Nil} /\ (v # Nil => k \in Key)
      /\ j <= Asize(t) => k = j - 1 /\ v = t.array[j] /\ j \in DOMAIN t.array
      /\ Asize(t) \in Nat
  BY SlotIs, SlotsLen
<1>2. v # Nil => Get(t, k) = v
  BY SlotsAreEntries
<1>3. u = IF v = Nil \/ (j <= Asize(t) /\ j <= asize) THEN s ELSE Put(s, k, v)
  BY DEF Filled
<1>4. /\ TableOK(s) /\ Chains(s) /\ s.fits = t.fits /\ Asize(s) = asize
      /\ hbits # 0 => Hmask(s) > 0 /\ Hmask(s) + 1 = HashSize(hbits)
      /\ Cardinality(Used(s)) <= Cardinality(H \cap (1..(j - 1)))
      /\ \A k2 \in Key : Get(s, k2) =
           IF InSlots(t, k2, j - 1) \/ StaysInArray(t, asize, k2) THEN Get(t, k2) ELSE Nil
  BY DEF FilledUpTo
<1>5. \A k2 : InSlots(t, k2, j) <=> InSlots(t, k2, j - 1) \/ (k = k2 /\ v # Nil)
  <2> HIDE DEF k, v
  <2>1. 1..j = (1..(j - 1)) \cup {j}
    BY <1>1
  <2> QED
    BY <2>1 DEF InSlots, k, v
<1>6. /\ IsFiniteSet(H) /\ Cardinality(H) \in Nat
      /\ Cardinality(H \cap (1..j)) \in Nat /\ Cardinality(H \cap (1..j)) <= Cardinality(H)
      /\ Cardinality(H \cap (1..(j - 1))) \in Nat
      /\ j \in H => Cardinality(H \cap (1..j)) = Cardinality(H \cap (1..(j - 1))) + 1
      /\ j \notin H => Cardinality(H \cap (1..j)) = Cardinality(H \cap (1..(j - 1)))
  <2>1. IsFiniteSet(H) /\ Cardinality(H) \in Nat
    BY ToHashFinite
  <2>2. Cardinality(H \cap (1..j)) \in Nat /\ Cardinality(H \cap (1..j)) <= Cardinality(H)
    BY <1>1, ToHashFinite
  <2>3. Cardinality(H \cap (1..(j - 1))) \in Nat
    BY <1>1, ToHashFinite
  <2>4. j \in H => Cardinality(H \cap (1..j)) = Cardinality(H \cap (1..(j - 1))) + 1
    BY <1>1, ToHashFinite
  <2>5. j \notin H => Cardinality(H \cap (1..j)) = Cardinality(H \cap (1..(j - 1)))
    BY <1>1, ToHashFinite
  <2> QED
    BY <2>1, <2>2, <2>3, <2>4, <2>5
<1>7. j \in H <=> v # Nil /\ ~(k \in Num /\ k < asize)
  BY DEF ToHash
<1>8. IsFiniteSet(Used(s)) /\ Cardinality(Used(s)) \in Nat
  BY <1>4, UsedFinite
<1> HIDE DEF k, v, H, u
<1>9. CASE v = Nil \/ (j <= Asize(t) /\ j <= asize)
  <2>1. u = s
    BY <1>3, <1>9
  <2>2. Cardinality(Used(u)) <= Cardinality(H \cap (1..j))
    BY <1>4, <1>6, <1>8, <2>1
  <2>3. ASSUME NEW k2 \in Key
        PROVE  Get(u, k2) = IF InSlots(t, k2, j) \/ StaysInArray(t, asize, k2) THEN Get(t, k2) ELSE Nil
    <3>1. CASE k = k2 /\ v # Nil
      <4>1. k = j - 1 /\ k \in Num /\ k < Asize(t) /\ k < asize
        BY <1>1, <1>9, <3>1 DEF TableOK
      <4>2. StaysInArray(t, asize, k2)
        BY <3>1, <4>1 DEF StaysInArray, InArray
      <4> QED
        BY <1>4, <2>1, <4>2
    <3>2. CASE ~(k = k2 /\ v # Nil)
      BY <1>4, <1>5, <2>1, <3>2
    <3> QED
      BY <3>1, <3>2
  <2> QED
    BY <1>4, <2>1, <2>2, <2>3 DEF FilledUpTo, H, u
<1>10. CASE ~(v = Nil \/ (j <= Asize(t) /\ j <= asize))
  <2>1. u = Put(s, k, v) /\ k \in Key /\ v # Nil /\ v \in Key \cup {Nil}
    BY <1>1, <1>3, <1>10
  <2>2. InArray(s, k) <=> j \notin H
    BY <1>4, <1>7, <2>1 DEF InArray
  <2>3. InArray(s, k) \/ FindNode(s, k) # Nil \/ HasRoom(s, k)
    <3>1. SUFFICES ASSUME j \in H
                   PROVE  HasRoom(s, k)
      BY <2>2
    <3>2. Cardinality(Used(s)) + 1 <= HashSize(hbits)
      <4>1. HashSize(hbits) \in Nat /\ Cardinality(H) <= HashSize(hbits)
        BY Pow2Type DEF HashSize, H
      <4> QED
        BY <1>4, <1>6, <1>8, <3>1, <4>1
    <3>3. hbits # 0
      BY <1>8, <3>2 DEF HashSize
    <3>4. Hmask(s) > 0 /\ Cardinality(Used(s)) <= Hmask(s)
      <4>1. Hmask(s) \in Nat /\ Hmask(s) > 0 /\ Hmask(s) + 1 = HashSize(hbits)
        BY <1>4, <3>3 DEF TableOK
      <4> QED
        BY <1>8, <3>2, <4>1
    <3> QED
      BY <1>4, <2>1, <3>4, RoomLeft
  <2>4. Stored(u, s, k, v) /\ TableOK(u)
    BY <1>4, <2>1, <2>3, PutStores, PutType
  <2>5. Chains(u) /\ SameShape(u, s) /\ u.fits = s.fits
        /\ \A k2 \in Key : Get(u, k2) = IF k2 = k THEN v ELSE Get(s, k2)
    BY <2>4 DEF Stored
  <2>6. Cardinality(Used(u)) <= Cardinality(H \cap (1..j))
    <3>1. CASE j \in H
      <4>1. Cardinality(Used(u)) <= Cardinality(Used(s)) + 1
        BY <1>8, <2>4, OneMore DEF Stored
      <4>2. Cardinality(Used(u)) \in Nat
        BY <2>4, UsedFinite
      <4> QED
        BY <1>4, <1>6, <1>8, <3>1, <4>1, <4>2
    <3>2. CASE j \notin H
      <4>1. Used(u) = Used(s)
        BY <2>2, <2>4, <3>2 DEF Stored
      <4> QED
        BY <1>4, <1>6, <3>2, <4>1
    <3> QED
      BY <3>1, <3>2
  <2>7. ASSUME NEW k2 \in Key
        PROVE  Get(u, k2) = IF InSlots(t, k2, j) \/ StaysInArray(t, asize, k2) THEN Get(t, k2) ELSE Nil
    BY <1>2, <1>4, <1>5, <2>1, <2>5
  <2>8. /\ Asize(u) = asize
        /\ hbits # 0 => Hmask(u) > 0 /\ Hmask(u) + 1 = HashSize(hbits)
        /\ u.fits = t.fits
    BY <1>4, <2>5 DEF SameShape
  <2> QED
    BY <2>4, <2>5, <2>6, <2>7, <2>8 DEF FilledUpTo, H, u
<1> QED
  BY <1>9, <1>10

\* Resizing: in a hash part that is large enough, no entry is lost.
LEMMA ResizeKeeps ==
  ASSUME HashOK, NEW t, TableOK(t), Chains(t), NEW asize \in Nat, NEW hbits \in Nat,
         Cardinality(ToHash(t, asize)) <= HashSize(hbits)
  PROVE  LET u == Resize(t, asize, hbits)
         IN  /\ TableOK(u) /\ Chains(u) /\ u.fits = t.fits /\ Asize(u) = asize
             /\ hbits # 0 => Hmask(u) > 0 /\ Hmask(u) + 1 = HashSize(hbits)
             /\ Cardinality(Used(u)) <= Cardinality(ToHash(t, asize))
             /\ \A k \in Key : Get(u, k) = Get(t, k)
<1> DEFINE h == Len(Slots(t))
           u == Resize(t, asize, hbits)
<1>1. h \in Nat
  BY SlotsLen
<1>2. PICK g : /\ \A j \in 0..h : Filling(g, t, asize, hbits, j)
               /\ u = g[h]
  BY ResizeIs
<1> HIDE DEF u
<1> DEFINE T == {j \in 0..h : FilledUpTo(t, asize, hbits, g[j], j)}
<1>3. 0 \in T
  <2>1. g[0] = Resized(t, asize, hbits)
    BY <1>1, <1>2 DEF Filling
  <2> QED
    BY <1>1, <2>1, FillingBegins
<1>4. ASSUME NEW j \in 0..h, j # 0, j - 1 \in T
      PROVE  j \in T
  <2>1. g[j] = Filled(t, asize, g[j - 1], j) /\ j \in 1..h
    BY <1>2, <1>4 DEF Filling
  <2>2. FilledUpTo(t, asize, hbits, g[j - 1], j - 1)
    BY <1>4
  <2> QED
    BY <1>4, <2>1, <2>2, FillingGoesOn
<1> HIDE DEF T, h
<1>5. 0..h \subseteq T
  BY <1>1, <1>3, <1>4, Induction
<1>6. FilledUpTo(t, asize, hbits, u, h)
  BY <1>1, <1>2, <1>5 DEF T
<1>7. ASSUME NEW k \in Key
      PROVE  Get(u, k) = Get(t, k)
  <2>1. Get(t, k) # Nil => InSlots(t, k, h)
    BY SlotsAreEntries DEF InSlots, h
  <2> QED
    BY <1>6, <2>1 DEF FilledUpTo
<1>8. ToHash(t, asize) \cap (1..h) = ToHash(t, asize)
  BY DEF ToHash, h
<1> QED
  BY <1>6, <1>7, <1>8 DEF FilledUpTo, u

(***************************************************************************)
(* Rehashing: the hash part is large enough.                               *)
(***************************************************************************)

LEMMA HashSizeIs == ASSUME NEW s \in Nat PROVE s <= HashSize(Hsize2Hbits(s)) /\ HashSize(Hsize2Hbits(s)) \in Nat
<1>1. Hsize2Hbits(s) \in Nat /\ (s = 0 => Hsize2Hbits(s) = 0)
      /\ (s # 0 => Hsize2Hbits(s) # 0 /\ s <= Pow2[Hsize2Hbits(s)])
  BY Hsize2HbitsType
<1>2. HashSize(Hsize2Hbits(s)) \in Nat
  BY <1>1, Pow2Type DEF HashSize
<1>3. s <= HashSize(Hsize2Hbits(s))
  <2>1. CASE s = 0
    BY <1>2, <2>1
  <2>2. CASE s # 0
    BY <1>1, <2>2 DEF HashSize
  <2> QED
    BY <2>1, <2>2
<1> QED
  BY <1>2, <1>3

\* What BestAsize counts are integer keys of the array part.
Counted(best, keys, U) ==
  /\ best.size \in Nat /\ best.used = Cardinality(U) /\ U \subseteq keys
  /\ \A k \in U : k \in Num /\ k < best.size

LEMMA BestIs ==
  ASSUME NEW keys
  PROVE  \E U : Counted(BestAsize(keys), keys, U)
<1> DEFINE ints == {k \in keys \cap Num : k < MaxAsize}
           upto(b) == {k \in ints : k <= Pow2[b + 1]}
           bin(b) == IF b = 0 THEN upto(0) ELSE upto(b) \ upto(b - 1)
           good == {b \in Bits : /\ 2 * Cardinality(ints) > Pow2[b]
                                 /\ bin(b) # {}
                                 /\ 2 * Cardinality(upto(b)) > Pow2[b]}
           best == BestAsize(keys)
<1>1. best = IF good = {} THEN [size |-> 0, used |-> 0]
             ELSE [size |-> Pow2[Max(good) + 1] + 1, used |-> Cardinality(upto(Max(good)))]
  BY Zenon DEF BestAsize
<1> HIDE DEF best
<1>2. CASE good = {}
  <2>1. best.size = 0 /\ best.used = 0 /\ Cardinality({}) = 0
    BY <1>1, <1>2, FS_EmptySet
  <2>2. Counted(best, keys, {})
    BY <2>1 DEF Counted
  <2> QED
    BY <2>2 DEF best
<1>3. CASE good # {}
  <2>1. good \in SUBSET Nat /\ \A b \in good : b <= MaxAbits - 1
    BY TableAssumption DEF Bits
  <2> HIDE DEF good
  <2>2. Max(good) \in good
    <3>1. MaxAbits - 1 \in Nat
      BY TableAssumption
    <3> QED
      BY <1>3, <2>1, <3>1, MaxProperties
  <2> DEFINE b == Max(good)
             U == upto(b)
  <2>3. b \in Nat
    BY <2>1, <2>2
  <2>4. Pow2[b + 1] \in Nat
    BY <2>3, Pow2Type
  <2> HIDE DEF b
  <2>5. best = [size |-> Pow2[b + 1] + 1, used |-> Cardinality(U)]
    BY <1>1, <1>3 DEF b
  <2>6. \A k \in U : k \in keys /\ k \in Num /\ k \in Nat /\ k <= Pow2[b + 1]
    BY TableAssumption
  <2> HIDE DEF U
  <2>7. Counted(best, keys, U)
    <3>1. best.size = Pow2[b + 1] + 1 /\ best.used = Cardinality(U)
      BY <2>5
    <3>2. \A k \in U : k < Pow2[b + 1] + 1
      BY <2>4, <2>6
    <3> QED
      BY <2>4, <2>6, <3>1, <3>2 DEF Counted
  <2> QED
    BY <2>7 DEF best
<1> QED
  BY <1>2, <1>3

\* The keys that rehashing counts.
NodeKeysOf(t) == {t.node[n].key : n \in NodeKeys(t)}
AllKeys(t, ek) == ArrayKeys(t) \cup NodeKeysOf(t) \cup {ek}

LEMMA KeysCounted ==
  ASSUME NEW t, TableOK(t), NEW ek
  PROVE  /\ IsFiniteSet(AllKeys(t, ek))
         /\ Cardinality(ArrayKeys(t)) \in Nat /\ Cardinality(NodeKeys(t)) \in Nat
         /\ Cardinality(AllKeys(t, ek)) \in Nat
         /\ Cardinality(AllKeys(t, ek)) <= 1 + Cardinality(ArrayKeys(t)) + Cardinality(NodeKeys(t))
<1> DEFINE A == ArrayKeys(t)
           N == NodeKeys(t)
           B == NodeKeysOf(t)
<1>1. Asize(t) \in Nat /\ Hmask(t) \in Nat /\ DOMAIN t.node = 0..Hmask(t)
  BY SlotsLen DEF TableOK
<1>2. IsFiniteSet(A) /\ Cardinality(A) \in Nat
  <2>1. IsFiniteSet(0..(Asize(t) - 1))
    BY <1>1, FS_Interval
  <2>2. A \subseteq 0..(Asize(t) - 1)
    BY DEF ArrayKeys
  <2> QED
    BY <2>1, <2>2, FS_Subset, FS_CardinalityType
<1>3. IsFiniteSet(N) /\ Cardinality(N) \in Nat
  <2>1. IsFiniteSet(0..Hmask(t)) /\ N \subseteq 0..Hmask(t)
    BY <1>1, FS_Interval DEF NodeKeys
  <2> QED
    BY <2>1, FS_Subset, FS_CardinalityType
<1>4. IsFiniteSet(B) /\ Cardinality(B) \in Nat /\ Cardinality(B) <= Cardinality(N)
  <2> DEFINE f == [n \in N |-> t.node[n].key]
  <2>1. f \in Surjection(N, B)
    BY DEF Surjection, NodeKeysOf
  <2> QED
    BY <1>3, <2>1, FS_Surjection, FS_CardinalityType
<1> HIDE DEF A, B, N
<1>5. IsFiniteSet(A \cup B) /\ Cardinality(A \cup B) \in Nat
      /\ Cardinality(A \cup B) <= Cardinality(A) + Cardinality(N)
  <2>1. IsFiniteSet(A \cup B) /\ Cardinality(A \cup B) = Cardinality(A) + Cardinality(B) - Cardinality(A \cap B)
    BY <1>2, <1>4, FS_Union
  <2>2. Cardinality(A \cap B) \in Nat /\ Cardinality(A \cup B) \in Nat
    BY <1>2, <2>1, FS_Intersection, FS_CardinalityType
  <2> QED
    BY <1>2, <1>3, <1>4, <2>1, <2>2
<1>6. IsFiniteSet(AllKeys(t, ek)) /\ Cardinality(AllKeys(t, ek)) \in Nat
      /\ Cardinality(AllKeys(t, ek)) <= Cardinality(A \cup B) + 1
  <2>1. \E y : AllKeys(t, ek) \subseteq (A \cup B) \cup {y}
    BY DEF AllKeys, A, B
  <2> QED
    BY <1>5, <2>1, OneMore, FS_CardinalityType
<1> QED
  BY <1>2, <1>3, <1>5, <1>6 DEF A, N

\* The sizes that rehashing chooses: the keys in U go to the array part.
Rehashed(t, ek, U, asize, total) ==
  /\ Rehash(t, ek) = Resize(t, asize, Hsize2Hbits(total))
  /\ asize \in Nat /\ total \in Nat
  /\ U \subseteq AllKeys(t, ek) /\ \A k \in U : k \in Num /\ k < asize
  /\ Cardinality(AllKeys(t, ek) \ U) <= total

LEMMA RehashIs ==
  ASSUME NEW t, TableOK(t), NEW ek
  PROVE  \E U, asize, total : Rehashed(t, ek, U, asize, total)
<1> DEFINE keys == AllKeys(t, ek)
           best == BestAsize(keys)
           total == 1 + Cardinality(ArrayKeys(t)) + Cardinality(NodeKeys(t)) - best.used
<1>1. PICK U : Counted(best, keys, U)
  BY BestIs
<1>2. Rehash(t, ek) = Resize(t, best.size, Hsize2Hbits(total))
  BY Zenon DEF Rehash, AllKeys, NodeKeysOf
<1>3. /\ IsFiniteSet(keys) /\ Cardinality(ArrayKeys(t)) \in Nat /\ Cardinality(NodeKeys(t)) \in Nat
      /\ Cardinality(keys) \in Nat
      /\ Cardinality(keys) <= 1 + Cardinality(ArrayKeys(t)) + Cardinality(NodeKeys(t))
  BY KeysCounted
<1> HIDE DEF keys, best
<1>4. best.size \in Nat /\ best.used = Cardinality(U) /\ U \subseteq keys /\ \A k \in U : k \in Num /\ k < best.size
  BY <1>1 DEF Counted
<1>5. Cardinality(U) \in Nat /\ Cardinality(U) <= Cardinality(keys)
  BY <1>3, <1>4, FS_Subset, FS_CardinalityType
<1>6. Cardinality(keys \ U) = Cardinality(keys) - Cardinality(U)
  <2>1. keys \cap U = U
    BY <1>4
  <2> QED
    BY <1>3, <2>1, FS_Difference
<1>7. total \in Nat /\ Cardinality(keys \ U) <= total
  BY <1>3, <1>4, <1>5, <1>6
<1>8. Rehashed(t, ek, U, best.size, total)
  <2> HIDE DEF total
  <2> QED
    BY <1>2, <1>4, <1>7 DEF Rehashed, keys
<1> QED
  BY <1>8

\* No key is in two slots.
LEMMA SlotsUnique ==
  ASSUME HashOK, NEW t, TableOK(t), Chains(t), NEW i \in 1..Len(Slots(t)), NEW j \in 1..Len(Slots(t)),
         Slots(t)[i].val # Nil, Slots(t)[j].val # Nil, Slots(t)[i].key = Slots(t)[j].key
  PROVE  i = j
<1> DEFINE k == Slots(t)[i].key
           a == Asize(t)
<1>1. i \in Nat /\ j \in Nat /\ a \in Nat
  BY SlotsLen
<1>2. /\ k \in Key
      /\ i <= a => k = i - 1 /\ i \in DOMAIN t.array /\ t.array[i] # Nil
      /\ i > a => i - a - 1 \in DOMAIN t.node /\ k = t.node[i - a - 1].key
  BY SlotIs
<1>3. /\ j <= a => k = j - 1 /\ j \in DOMAIN t.array /\ t.array[j] # Nil
      /\ j > a => j - a - 1 \in DOMAIN t.node /\ k = t.node[j - a - 1].key
  BY SlotIs
<1> HIDE DEF k
<1>4. k # Nil
  BY <1>2, TableAssumption DEF Key
<1>5. \A l \in Nat : l <= a /\ k = l - 1 /\ l \in DOMAIN t.array /\ t.array[l] # Nil => InArray(t, k)
  <2> SUFFICES ASSUME NEW l \in Nat, l <= a, k = l - 1, l \in DOMAIN t.array, t.array[l] # Nil
               PROVE  InArray(t, k)
    OBVIOUS
  <2>1. k \in Num
    BY DEF TableOK
  <2> QED
    BY <1>1, <2>1 DEF InArray
<1>6. \A m \in DOMAIN t.node : k = t.node[m].key => ~InArray(t, k)
  BY <1>4 DEF Chains, NotInArray
<1> HIDE DEF a
<1>7. CASE i <= a /\ j <= a
  BY <1>1, <1>2, <1>3, <1>7
<1>8. CASE i <= a /\ j > a
  BY <1>1, <1>2, <1>3, <1>5, <1>6, <1>8
<1>9. CASE i > a /\ j <= a
  BY <1>1, <1>2, <1>3, <1>5, <1>6, <1>9
<1>10. CASE i > a /\ j > a
  <2>1. i - a - 1 = j - a - 1
    BY <1>2, <1>3, <1>4, <1>10 DEF Chains, UniqueKeys
  <2> QED
    BY <1>1, <2>1
<1> QED
  BY <1>1, <1>7, <1>8, <1>9, <1>10

\* There is room for the entries and the new key.
LEMMA RehashRoom ==
  ASSUME HashOK, NEW t, TableOK(t), Chains(t), NEW ek \in Key, ~InArray(t, ek),
         \A n \in DOMAIN t.node : t.node[n].key # ek,
         NEW U, NEW asize, NEW total, Rehashed(t, ek, U, asize, total)
  PROVE  /\ Cardinality(ToHash(t, asize)) <= HashSize(Hsize2Hbits(total))
         /\ ~(ek \in Num /\ ek < asize) => Cardinality(ToHash(t, asize)) + 1 <= HashSize(Hsize2Hbits(total))
<1> DEFINE H == ToHash(t, asize)
           D == AllKeys(t, ek) \ U
           extra == IF ek \in Num /\ ek < asize THEN {} ELSE {0}
           key(j) == IF j = 0 THEN ek ELSE Slots(t)[j].key
<1>1. /\ total \in Nat /\ Cardinality(D) <= total /\ \A k \in U : k \in Num /\ k < asize
  BY DEF Rehashed
<1>2. IsFiniteSet(D) /\ Cardinality(D) \in Nat
  <2>1. IsFiniteSet(AllKeys(t, ek))
    BY KeysCounted
  <2> QED
    BY <2>1, FS_Difference, FS_CardinalityType
<1>3. IsFiniteSet(H) /\ Cardinality(H) \in Nat /\ 0 \notin H
  <2>1. 0 \notin H
    BY DEF ToHash
  <2> QED
    BY <2>1, ToHashFinite
<1>4. IsFiniteSet(H \cup extra)
      /\ Cardinality(H \cup extra) = IF ek \in Num /\ ek < asize THEN Cardinality(H) ELSE Cardinality(H) + 1
  <2>1. CASE ek \in Num /\ ek < asize
    <3>1. H \cup extra = H
      BY <2>1
    <3> QED
      BY <1>3, <2>1, <3>1
  <2>2. CASE ~(ek \in Num /\ ek < asize)
    <3>1. H \cup extra = H \cup {0}
      BY <2>2
    <3> QED
      BY <1>3, <2>2, <3>1, FS_AddElement
  <2> QED
    BY <2>1, <2>2
\* The keys of the slots.
<1>5. ASSUME NEW j \in H
      PROVE  key(j) \in D /\ key(j) # ek /\ j # 0 /\ j \in 1..Len(Slots(t)) /\ Slots(t)[j].val # Nil
             /\ key(j) = Slots(t)[j].key
  <2> DEFINE n == j - Asize(t) - 1
  <2>1. j \in 1..Len(Slots(t)) /\ Slots(t)[j].val # Nil /\ ~(Slots(t)[j].key \in Num /\ Slots(t)[j].key < asize)
    BY DEF ToHash
  <2>2. j # 0 /\ key(j) = Slots(t)[j].key
    BY <2>1
  <2> HIDE DEF key
  <2>3. /\ j <= Asize(t) => key(j) = j - 1 /\ Slots(t)[j].val = t.array[j] /\ j \in DOMAIN t.array
        /\ j > Asize(t) => n \in DOMAIN t.node /\ key(j) = t.node[n].key /\ Slots(t)[j].val = t.node[n].val
        /\ Asize(t) \in Nat /\ j \in Nat
    BY <2>1, <2>2, SlotIs, SlotsLen
  <2> HIDE DEF n
  <2>4. CASE j <= Asize(t)
    <3>1. key(j) \in 0..(Asize(t) - 1) /\ key(j) + 1 = j
      BY <2>2, <2>3, <2>4
    <3>2. key(j) \in ArrayKeys(t)
      BY <2>1, <2>3, <2>4, <3>1 DEF ArrayKeys
    <3>3. key(j) \in Num
      BY <2>1, <2>3, <2>4 DEF TableOK
    <3>4. InArray(t, key(j))
      BY <2>3, <3>1, <3>3 DEF InArray
    <3> QED
      BY <1>1, <2>1, <2>2, <3>2, <3>4 DEF AllKeys
  <2>5. CASE j > Asize(t)
    <3>1. key(j) \in NodeKeysOf(t)
      BY <2>1, <2>3, <2>5 DEF NodeKeysOf, NodeKeys
    <3> QED
      BY <1>1, <2>1, <2>2, <2>3, <2>5, <3>1 DEF AllKeys
  <2> QED
    BY <2>3, <2>4, <2>5
<1>6. \A j \in extra : j = 0 /\ key(j) = ek /\ ek \in D
  BY <1>1 DEF AllKeys
<1>7. \A i, j \in H : key(i) = key(j) => i = j
  <2> HIDE DEF H, key, D
  <2> QED
    BY <1>5, SlotsUnique
<1> DEFINE f == [j \in H \cup extra |-> key(j)]
<1>8. f \in [H \cup extra -> D] /\ \A i, j \in H \cup extra : f[i] = f[j] => i = j
  <2> HIDE DEF H, key, D, extra
  <2> QED
    BY <1>5, <1>6, <1>7
<1> HIDE DEF H, key, D, extra, f
<1>9. Cardinality(H \cup extra) <= Cardinality(D)
  <2>1. Cardinality(H \cup extra) \in Nat
    BY <1>4, FS_CardinalityType
  <2> QED
    BY <1>2, <1>4, <1>8, <2>1, FS_PigeonHole
<1>10. total <= HashSize(Hsize2Hbits(total)) /\ HashSize(Hsize2Hbits(total)) \in Nat
  BY <1>1, HashSizeIs
<1>11. CASE ek \in Num /\ ek < asize
  BY <1>1, <1>2, <1>3, <1>4, <1>9, <1>10, <1>11 DEF H
<1>12. CASE ~(ek \in Num /\ ek < asize)
  BY <1>1, <1>2, <1>3, <1>4, <1>9, <1>10, <1>12 DEF H
<1> QED
  BY <1>11, <1>12

LEMMA RehashType ==
  ASSUME HashOK, NEW t, TableOK(t), NEW ek
  PROVE  TableOK(Rehash(t, ek))
<1>1. PICK U, asize, total : Rehashed(t, ek, U, asize, total)
  BY RehashIs
<1>2. /\ Rehash(t, ek) = Resize(t, asize, Hsize2Hbits(total)) /\ asize \in Nat
      /\ Hsize2Hbits(total) \in Nat
  BY <1>1, Hsize2HbitsType DEF Rehashed
<1> QED
  BY <1>2, ResizeType

LEMMA SetType ==
  ASSUME HashOK, NEW t, TableOK(t), NEW k \in Key, NEW v \in Key \cup {Nil}
  PROVE  TableOK(Set(t, k, v))
<1>1. TableOK(Put(t, k, v)) /\ TableOK(Put(Rehash(t, k), k, v))
  BY RehashType, PutType
<1> QED
  BY <1>1 DEF Set

\* A store gives the key the value, and no other key another one.
LEMMA SetStores ==
  ASSUME HashOK, NEW t, TableOK(t), Chains(t), NEW k \in Key, NEW v \in Key \cup {Nil}
  PROVE  LET u == Set(t, k, v)
         IN  /\ TableOK(u) /\ Chains(u) /\ u.fits = t.fits
             /\ \A k2 \in Key : Get(u, k2) = IF k2 = k THEN v ELSE Get(t, k2)
             /\ Get(t, k) # Nil => /\ SameShape(u, t)
                                   /\ \A n \in DOMAIN t.node : u.node[n].key = t.node[n].key
<1> DEFINE u == Set(t, k, v)
<1>1. TableOK(u)
  BY SetType
<1>2. CASE InArray(t, k) \/ FindNode(t, k) # Nil \/ HasRoom(t, k)
  <2>1. u = Put(t, k, v)
    BY <1>2 DEF Set
  <2>2. Stored(u, t, k, v)
    BY <1>2, <2>1, PutStores
  <2>3. Get(t, k) # Nil => \A n \in DOMAIN t.node : u.node[n].key = t.node[n].key
    BY <2>1, PutOver
  <2> HIDE DEF u
  <2> QED
    BY <1>1, <2>2, <2>3 DEF Stored, u
<1>3. CASE ~(InArray(t, k) \/ FindNode(t, k) # Nil \/ HasRoom(t, k))
  <2> DEFINE r == Rehash(t, k)
  <2>1. PICK U, asize, total : Rehashed(t, k, U, asize, total)
    BY RehashIs
  <2> DEFINE hbits == Hsize2Hbits(total)
  <2>2. r = Resize(t, asize, hbits) /\ asize \in Nat /\ hbits \in Nat
    BY <2>1, Hsize2HbitsType DEF Rehashed
  <2>3. \A n \in DOMAIN t.node : t.node[n].key # k
    BY <1>3, FoundIs
  <2>4. /\ Cardinality(ToHash(t, asize)) <= HashSize(hbits)
        /\ ~(k \in Num /\ k < asize) => Cardinality(ToHash(t, asize)) + 1 <= HashSize(hbits)
    BY <1>3, <2>1, <2>3, RehashRoom
  <2> HIDE DEF r, hbits
  <2>5. /\ TableOK(r) /\ Chains(r) /\ r.fits = t.fits /\ Asize(r) = asize
        /\ hbits # 0 => Hmask(r) > 0 /\ Hmask(r) + 1 = HashSize(hbits)
        /\ Cardinality(Used(r)) <= Cardinality(ToHash(t, asize))
        /\ \A k2 \in Key : Get(r, k2) = Get(t, k2)
    BY <2>2, <2>4, ResizeKeeps
  <2>6. InArray(r, k) \/ HasRoom(r, k)
    <3>1. CASE k \in Num /\ k < asize
      BY <2>5, <3>1 DEF InArray
    <3>2. CASE ~(k \in Num /\ k < asize)
      <4>1. /\ Cardinality(Used(r)) \in Nat /\ Cardinality(ToHash(t, asize)) \in Nat
            /\ Hmask(r) \in Nat
        BY <2>5, UsedFinite, ToHashFinite DEF TableOK
      <4>2. HashSize(hbits) \in Nat /\ (hbits = 0 => HashSize(hbits) = 0)
        BY <2>2, Pow2Type DEF HashSize
      <4>3. Cardinality(Used(r)) + 1 <= HashSize(hbits)
        BY <2>4, <2>5, <3>2, <4>1, <4>2
      <4>4. hbits # 0
        BY <4>1, <4>2, <4>3
      <4>5. Hmask(r) > 0 /\ Cardinality(Used(r)) <= Hmask(r)
        BY <2>5, <4>1, <4>2, <4>3, <4>4
      <4> QED
        BY <2>5, <4>5, RoomLeft
    <3> QED
      BY <3>1, <3>2
  <2>7. u = Put(r, k, v)
    BY <1>3 DEF Set, r
  <2>8. Stored(u, r, k, v)
    BY <2>5, <2>6, <2>7, PutStores
  <2>9. Get(t, k) = Nil
    BY <1>3 DEF Get
  <2> HIDE DEF u
  <2>10. Chains(u) /\ u.fits = r.fits /\ \A k2 \in Key : Get(u, k2) = IF k2 = k THEN v ELSE Get(r, k2)
    BY <2>8 DEF Stored
  <2>11. u.fits = t.fits
    BY <2>5, <2>10
  <2> QED
    BY <1>1, <2>5, <2>9, <2>10, <2>11 DEF u
<1> QED
  BY <1>2, <1>3

\* A larger array part.
LEMMA ReasizeKeeps ==
  ASSUME HashOK, NEW t, TableOK(t), Chains(t), NEW n \in Nat, n >= Asize(t)
  PROVE  LET u == Resize(t, n + 1, IF Hmask(t) = 0 THEN 0 ELSE Hsize2Hbits(Hmask(t) + 1))
         IN  TableOK(u) /\ Chains(u) /\ u.fits = t.fits /\ \A k \in Key : Get(u, k) = Get(t, k)
<1> DEFINE hbits == IF Hmask(t) = 0 THEN 0 ELSE Hsize2Hbits(Hmask(t) + 1)
           H == ToHash(t, n + 1)
           a == Asize(t)
<1>1. Hmask(t) \in Nat /\ a \in Nat /\ Len(Slots(t)) = a + Hmask(t) + 1
  BY SlotsLen
<1>2. hbits \in Nat
  <2>1. Hmask(t) + 1 \in Nat
    BY <1>1
  <2>2. Hsize2Hbits(Hmask(t) + 1) \in Nat
    BY <2>1, Hsize2HbitsType
  <2> QED
    BY <2>2
<1>3. \A j \in H : j \in 1..(a + Hmask(t) + 1) /\ j > a
  <2> SUFFICES ASSUME NEW j \in H, j <= a
               PROVE  FALSE
    BY <1>1 DEF ToHash
  <2>1. j \in 1..Len(Slots(t)) /\ Slots(t)[j].val # Nil /\ ~(Slots(t)[j].key \in Num /\ Slots(t)[j].key < n + 1)
    BY DEF ToHash
  <2>2. Slots(t)[j].key = j - 1 /\ Slots(t)[j].val = t.array[j] /\ j \in DOMAIN t.array
    BY <2>1, SlotIs
  <2>3. j - 1 \in Num
    BY <2>1, <2>2 DEF TableOK
  <2>4. j - 1 < n + 1
    BY <1>1, <2>1
  <2> QED
    BY <2>1, <2>2, <2>3, <2>4
<1>4. Cardinality(H) <= HashSize(hbits)
  <2>1. CASE Hmask(t) = 0
    <3>1. H = {}
      <4> SUFFICES ASSUME NEW j \in H
                   PROVE  FALSE
        OBVIOUS
      <4>1. j = a + 1 /\ j > a /\ j \in 1..Len(Slots(t)) /\ Slots(t)[j].val # Nil /\ j - a - 1 = 0
        BY <1>1, <1>3, <2>1 DEF ToHash
      <4>2. 0 \in DOMAIN t.node /\ Slots(t)[j].val = t.node[0].val
        BY <4>1, SlotIs
      <4>3. t.node[0].key # Nil
        BY <4>1, <4>2 DEF TableOK
      <4> QED
        BY <2>1, <4>3 DEF Chains, NilnodeEmpty
    <3>2. HashSize(hbits) = 0
      BY <2>1 DEF HashSize
    <3> HIDE DEF H, hbits
    <3> QED
      BY <3>1, <3>2, FS_EmptySet
  <2>2. CASE Hmask(t) # 0
    <3>1. H \subseteq (a + 1)..(a + Hmask(t) + 1)
      BY <1>1, <1>3
    <3>2. /\ IsFiniteSet((a + 1)..(a + Hmask(t) + 1))
          /\ Cardinality((a + 1)..(a + Hmask(t) + 1)) = Hmask(t) + 1
      <4>1. a + 1 \in Int /\ a + Hmask(t) + 1 \in Int /\ a + 1 <= a + Hmask(t) + 1
            /\ (a + Hmask(t) + 1) - (a + 1) + 1 = Hmask(t) + 1
        BY <1>1
      <4> QED
        BY <4>1, FS_Interval
    <3> HIDE DEF H
    <3>3. Cardinality(H) \in Nat /\ Cardinality(H) <= Hmask(t) + 1
      BY <3>1, <3>2, FS_Subset, FS_CardinalityType
    <3>4. Hmask(t) + 1 <= HashSize(hbits) /\ HashSize(hbits) \in Nat
      <4>1. Hmask(t) + 1 \in Nat /\ hbits = Hsize2Hbits(Hmask(t) + 1)
        BY <1>1, <2>2
      <4> HIDE DEF hbits
      <4> QED
        BY <4>1, HashSizeIs
    <3> QED
      BY <1>1, <3>3, <3>4
  <2> QED
    BY <2>1, <2>2
<1>5. n + 1 \in Nat
  OBVIOUS
<1> HIDE DEF hbits
<1>6. LET u == Resize(t, n + 1, hbits)
      IN  TableOK(u) /\ Chains(u) /\ u.fits = t.fits /\ \A k \in Key : Get(u, k) = Get(t, k)
  BY <1>2, <1>4, <1>5, ResizeKeeps
<1> QED
  BY <1>6 DEF hbits

(***************************************************************************)
(* The types.                                                              *)
(***************************************************************************)

TypeInv ==
  /\ HashOK /\ TableOK(tab)
  /\ iter \in Key \cup {Nil, Done}
  /\ visited \in {Nil} \cup SUBSET Key /\ (iter # Done => visited \in SUBSET Key)
  /\ reused \in 0..MaxReuse

LEMMA EmptyTableOK == TableOK(EmptyTable) /\ Hmask(EmptyTable) = 0
<1>1. DOMAIN EmptyTable.node = 0..0
  BY DEF EmptyTable, NilNodes
<1>2. Hmask(EmptyTable) = 0
  BY <1>1, HmaskIs
<1>3. EmptyTable.node \in [0..0 -> NodeRec(0..0)]
  BY DEF EmptyTable, NilNodes, EmptyNode, NodeRec
<1>4. /\ HasFields(EmptyTable, TableFields)
      /\ EmptyTable.array \in Seq(Key \cup {Nil})
      /\ EmptyTable.freetop \in 0..0 /\ EmptyTable.fits \in BOOLEAN
  BY DEF EmptyTable, HasFields, TableFields
<1>5. \A n \in DOMAIN EmptyTable.node : EmptyTable.node[n].val = Nil
  BY DEF EmptyTable, NilNodes, EmptyNode
<1>6. DOMAIN EmptyTable.array = {}
  BY DEF EmptyTable
<1> QED
  BY <1>2, <1>3, <1>4, <1>5, <1>6 DEF TableOK

LEMMA TypeInvInit == Init => TypeInv
<1> SUFFICES ASSUME Init
             PROVE  TypeInv
  OBVIOUS
<1>1. strhash \in [Str -> Hashes]
  BY TableAssumption DEF Init
<1>2. TableOK(tab)
  BY EmptyTableOK DEF Init
<1>3. iter = Done /\ visited = Nil
  BY DEF Init
<1>4. reused \in 0..MaxReuse
  BY TableAssumption DEF Init
<1>5. iter \in Key \cup {Nil, Done}
  BY <1>3
<1>6. visited \in {Nil} \cup SUBSET Key
  BY <1>3, Zenon
<1>7. iter # Done => visited \in SUBSET Key
  BY <1>3
<1> QED
  BY <1>1, <1>2, <1>4, <1>5, <1>6, <1>7 DEF TypeInv, HashOK

LEMMA TypeInvKept == TypeInv /\ [Next]_vars => TypeInv'
<1> SUFFICES ASSUME TypeInv, [Next]_vars
             PROVE  TypeInv'
  OBVIOUS
<1>0. Asize(tab) \in Nat /\ Hmask(tab) \in Nat
  BY SlotsLen DEF TypeInv
<1>1. CASE Assign
  <2>1. PICK k \in Key, v \in Key \cup {Nil} :
          /\ tab' = Set(tab, k, v)
          /\ IF Get(tab, k) = Nil THEN iter' = Done /\ visited' = Nil ELSE UNCHANGED <<iter, visited>>
          /\ UNCHANGED <<strhash, reused>>
    BY <1>1 DEF Assign
  <2>2. TableOK(tab')
    BY <2>1, SetType DEF TypeInv
  <2>3. iter' \in Key \cup {Nil, Done} /\ visited' \in {Nil} \cup SUBSET Key
        /\ (iter' # Done => visited' \in SUBSET Key)
    <3>1. (iter' = Done /\ visited' = Nil) \/ (iter' = iter /\ visited' = visited)
      BY <2>1
    <3>2. /\ iter \in Key \cup {Nil, Done}
          /\ visited \in {Nil} \cup SUBSET Key /\ (iter # Done => visited \in SUBSET Key)
      BY DEF TypeInv
    <3>3. CASE iter' = Done /\ visited' = Nil
      <4>1. iter' \in Key \cup {Nil, Done}
        BY <3>3
      <4>2. visited' \in {Nil} \cup SUBSET Key
        BY <3>3, Zenon
      <4>3. iter' # Done => visited' \in SUBSET Key
        BY <3>3
      <4> QED
        BY <4>1, <4>2, <4>3
    <3>4. CASE iter' = iter /\ visited' = visited
      BY <3>2, <3>4
    <3> QED
      BY <3>1, <3>3, <3>4
  <2>4. HashOK'
    BY <2>1 DEF TypeInv, HashOK
  <2> QED
    BY <2>1, <2>2, <2>3, <2>4 DEF TypeInv
<1>2. CASE Reasize
  <2> DEFINE hbits == IF Hmask(tab) = 0 THEN 0 ELSE Hsize2Hbits(Hmask(tab) + 1)
  <2>1. PICK n \in Num : tab' = Resize(tab, n + 1, hbits)
    BY <1>2 DEF Reasize
  <2>2. hbits \in Nat
    <3>1. Hmask(tab) + 1 \in Nat
      BY <1>0
    <3>2. Hsize2Hbits(Hmask(tab) + 1) \in Nat
      BY <3>1, Hsize2HbitsType
    <3> QED
      BY <3>2
  <2>3. n + 1 \in Nat
    BY TableAssumption
  <2> HIDE DEF hbits
  <2>4. TableOK(tab')
    BY <2>1, <2>2, <2>3, ResizeType DEF TypeInv
  <2>5. HashOK' /\ iter' = iter /\ visited' = visited /\ reused' = reused
    BY <1>2 DEF Reasize, TypeInv, HashOK
  <2> QED
    BY <2>4, <2>5 DEF TypeInv
<1>3. CASE Reuse
  <2>1. PICK k \in Str, h \in Hashes : strhash' = [strhash EXCEPT ![k] = h]
    BY <1>3 DEF Reuse
  <2>2. HashOK'
    BY <2>1 DEF TypeInv, HashOK
  <2>3. reused' \in 0..MaxReuse
    BY <1>3, TableAssumption DEF Reuse, TypeInv
  <2> QED
    BY <1>3, <2>2, <2>3 DEF Reuse, TypeInv
<1>4. CASE Begin
  BY <1>4 DEF Begin, TypeInv, HashOK
<1>5. CASE Step
  <2>1. iter # Done /\ visited \in SUBSET Key
    BY <1>5 DEF Step, TypeInv
  <2>2. (iter' \in Key /\ visited' = visited \cup {iter'}) \/ (iter' = Done /\ visited' = Nil)
    BY <1>5 DEF Step
  <2>3. UNCHANGED <<strhash, tab, reused>>
    BY <1>5 DEF Step
  <2>4. iter' \in Key \cup {Nil, Done} /\ visited' \in {Nil} \cup SUBSET Key
        /\ (iter' # Done => visited' \in SUBSET Key)
    <3>1. CASE iter' \in Key /\ visited' = visited \cup {iter'}
      <4>1. visited \cup {iter'} \in SUBSET Key
        BY <2>1, <3>1
      <4> QED
        BY <3>1, <4>1, Zenon
    <3>2. CASE iter' = Done /\ visited' = Nil
      <4>1. iter' \in Key \cup {Nil, Done}
        BY <3>2
      <4>2. visited' \in {Nil} \cup SUBSET Key
        BY <3>2, Zenon
      <4>3. iter' # Done => visited' \in SUBSET Key
        BY <3>2
      <4> QED
        BY <4>1, <4>2, <4>3
    <3> QED
      BY <2>2, <3>1, <3>2
  <2> QED
    BY <2>3, <2>4 DEF TypeInv, HashOK
<1>6. CASE UNCHANGED vars
  BY <1>6 DEF vars, TypeInv, HashOK
<1> QED
  BY <1>1, <1>2, <1>3, <1>4, <1>5, <1>6 DEF Next

LEMMA TypeInvAlways == Spec => []TypeInv
BY TypeInvInit, TypeInvKept, PTL DEF Spec

\* Every table is well formed, also when addresses of strings are used again: no
\* link leaves the nodes, and freetop stays among them.
THEOREM TypeCorrect == Spec => []TypeOK
<1>1. TypeInv => TypeOK
  <2> SUFFICES ASSUME TypeInv
               PROVE  TypeOK
    OBVIOUS
  <2>1. /\ tab.array \in Seq(Key \cup {Nil})
        /\ tab.node \in [0..Hmask(tab) -> NodeRec(0..Hmask(tab))]
        /\ tab.freetop \in 0..(IF Hmask(tab) = 0 THEN 0 ELSE Hmask(tab) + 1)
    BY DEF TypeInv, TableOK
  <2>2. DOMAIN tab.node = 0..Hmask(tab)
    BY <2>1
  <2>3. tab.node \in [0..Hmask(tab) -> [key : Key \cup {Nil}, val : Key \cup {Nil},
                                        next : DOMAIN tab.node \cup {Nil}]]
    BY <2>1, <2>2 DEF NodeRec
  <2> QED
    BY <2>1, <2>3 DEF TypeInv, TypeOK, HashOK
<1> QED
  BY <1>1, TypeInvAlways, PTL

(***************************************************************************)
(* Traversals: the order of the keys.                                      *)
(***************************************************************************)

ValueAt(t, j) == IF j < Asize(t) THEN t.array[j + 1] ELSE t.node[j - Asize(t)].val

KeyAt(t, j) == IF j < Asize(t) THEN j ELSE t.node[j - Asize(t)].key

LEMMA KeyIndexIs ==
  ASSUME HashOK, NEW t, TableOK(t), Chains(t), NEW k \in Key
  PROVE  /\ InArray(t, k) => KeyIndex(t, k) = k + 1
         /\ \A n \in DOMAIN t.node : t.node[n].key = k => ~InArray(t, k) /\ KeyIndex(t, k) = Asize(t) + n + 1
         /\ KeyIndex(t, k) \in (1..(Asize(t) + Hmask(t) + 1)) \cup {-1}
         /\ KeyIndex(t, k) = -1 <=> ~InArray(t, k) /\ \A n \in DOMAIN t.node : t.node[n].key # k
<1> DEFINE f == FindNode(t, k)
<1>1. k # Nil /\ Nil \notin DOMAIN t.node
  BY TableAssumption, TableLinked, NilNoNode DEF Key
<1>2. Asize(t) \in Nat /\ Hmask(t) \in Nat /\ DOMAIN t.node = 0..Hmask(t)
  BY SlotsLen DEF TableOK
<1>3. /\ \A n \in DOMAIN t.node : t.node[n].key = k => f = n
      /\ f = Nil <=> \A n \in DOMAIN t.node : t.node[n].key # k
  BY FoundIs
<1>4. f \in DOMAIN t.node \cup {Nil}
  BY FindNodeType
<1>5. KeyIndex(t, k) = IF InArray(t, k) THEN k + 1 ELSE IF f = Nil THEN -1 ELSE Asize(t) + f + 1
  BY <1>1 DEF KeyIndex
<1> HIDE DEF f
<1>6. \A n \in DOMAIN t.node : t.node[n].key = k => ~InArray(t, k)
  BY <1>1 DEF Chains, NotInArray
<1>7. InArray(t, k) => k \in Nat /\ k < Asize(t)
  BY TableAssumption DEF InArray
<1>8. CASE InArray(t, k)
  <2>1. KeyIndex(t, k) = k + 1 /\ k \in Nat /\ k < Asize(t)
    BY <1>5, <1>7, <1>8
  <2>2. KeyIndex(t, k) \in 1..(Asize(t) + Hmask(t) + 1) /\ KeyIndex(t, k) # -1
    BY <1>2, <2>1
  <2> QED
    BY <1>6, <1>8, <2>1, <2>2
<1>9. CASE ~InArray(t, k) /\ f = Nil
  BY <1>3, <1>5, <1>9
<1>10. CASE ~InArray(t, k) /\ f # Nil
  <2>1. f \in 0..Hmask(t) /\ KeyIndex(t, k) = Asize(t) + f + 1
    BY <1>2, <1>4, <1>5, <1>10
  <2>2. KeyIndex(t, k) \in 1..(Asize(t) + Hmask(t) + 1) /\ KeyIndex(t, k) # -1
    BY <1>2, <2>1
  <2>3. ~\A n \in DOMAIN t.node : t.node[n].key # k
    BY <1>3, <1>10
  <2> QED
    BY <1>3, <1>10, <2>1, <2>2, <2>3
<1> QED
  BY <1>8, <1>9, <1>10

LEMMA AtIndex ==
  ASSUME HashOK, NEW t, TableOK(t), Chains(t), NEW j \in 0..(Asize(t) + Hmask(t)), ValueAt(t, j) # Nil
  PROVE  /\ KeyAt(t, j) \in Key /\ Get(t, KeyAt(t, j)) # Nil
         /\ KeyIndex(t, KeyAt(t, j)) = j + 1
<1>1. Asize(t) \in Nat /\ Hmask(t) \in Nat /\ DOMAIN t.node = 0..Hmask(t) /\ j \in Nat
  BY SlotsLen DEF TableOK
<1>2. CASE j < Asize(t)
  <2>1. t.array[j + 1] # Nil /\ KeyAt(t, j) = j
    BY <1>2 DEF ValueAt, KeyAt
  <2>2. j + 1 \in DOMAIN t.array
    BY <1>1, <1>2 DEF Asize, TableOK
  <2>3. (j + 1) - 1 \in Num
    BY <2>1, <2>2 DEF TableOK
  <2>4. j \in Num
    BY <1>1, <2>3
  <2>5. InArray(t, j) /\ j \in Key
    BY <1>2, <2>4 DEF InArray, Key
  <2> QED
    BY <2>1, <2>5, GetIs, KeyIndexIs
<1>3. CASE ~(j < Asize(t))
  <2> DEFINE n == j - Asize(t)
  <2>1. t.node[n].val # Nil /\ KeyAt(t, j) = t.node[n].key
    BY <1>3 DEF ValueAt, KeyAt
  <2>2. n \in DOMAIN t.node /\ Asize(t) + n + 1 = j + 1
    BY <1>1, <1>3
  <2> HIDE DEF n
  <2>3. t.node[n].key \in Key
    BY <2>1, <2>2 DEF TableOK, NodeRec
  <2>4. ~InArray(t, t.node[n].key) /\ KeyIndex(t, t.node[n].key) = j + 1
    BY <2>2, <2>3, KeyIndexIs
  <2>5. Holds(t, t.node[n].key, t.node[n].val)
    BY <2>2 DEF Holds
  <2>6. Get(t, t.node[n].key) = t.node[n].val
    BY <2>1, <2>3, <2>4, <2>5, GetIs
  <2> QED
    BY <2>1, <2>3, <2>4, <2>6
<1> QED
  BY <1>2, <1>3

LEMMA IndexOfEntry ==
  ASSUME HashOK, NEW t, TableOK(t), Chains(t), NEW k \in Key, Get(t, k) # Nil
  PROVE  \E j \in 0..(Asize(t) + Hmask(t)) :
           ValueAt(t, j) # Nil /\ KeyAt(t, j) = k /\ KeyIndex(t, k) = j + 1
<1>1. Asize(t) \in Nat /\ Hmask(t) \in Nat /\ DOMAIN t.node = 0..Hmask(t)
  BY SlotsLen DEF TableOK
<1>2. CASE InArray(t, k)
  <2>1. k \in Nat /\ k < Asize(t)
    BY <1>2, TableAssumption DEF InArray
  <2>2. ValueAt(t, k) # Nil /\ KeyAt(t, k) = k /\ KeyIndex(t, k) = k + 1
    BY <1>2, <2>1, GetIs, KeyIndexIs DEF ValueAt, KeyAt
  <2>3. k \in 0..(Asize(t) + Hmask(t))
    BY <1>1, <2>1
  <2> QED
    BY <2>2, <2>3
<1>3. CASE ~InArray(t, k)
  <2>1. Holds(t, k, Get(t, k))
    BY <1>3, GetIs
  <2>2. PICK n \in DOMAIN t.node : t.node[n].key = k /\ t.node[n].val # Nil
    BY <2>1 DEF Holds
  <2> DEFINE j == Asize(t) + n
  <2>3. j \in 0..(Asize(t) + Hmask(t)) /\ ~(j < Asize(t)) /\ j - Asize(t) = n
    BY <1>1
  <2>4. ValueAt(t, j) # Nil /\ KeyAt(t, j) = k
    BY <2>2, <2>3 DEF ValueAt, KeyAt
  <2>5. KeyIndex(t, k) = j + 1
    BY <2>2, KeyIndexIs
  <2> HIDE DEF j
  <2> QED
    BY <2>3, <2>4, <2>5
<1> QED
  BY <1>2, <1>3

\* No two keys have one place.
LEMMA NextIs ==
  ASSUME HashOK, NEW t, TableOK(t), Chains(t), NEW i \in Key \cup {Nil}, KeyIndex(t, i) # -1
  PROVE  LET next == NextKey(t, i)
         IN  /\ KeyIndex(t, i) \in Nat
             /\ next = Done => \A k \in Key : Get(t, k) # Nil => KeyIndex(t, k) <= KeyIndex(t, i)
             /\ next # Done =>
                  /\ next \in Key /\ Get(t, next) # Nil /\ KeyIndex(t, next) > KeyIndex(t, i)
                  /\ \A k \in Key : Get(t, k) # Nil /\ KeyIndex(t, k) <= KeyIndex(t, next) =>
                                      k = next \/ KeyIndex(t, k) <= KeyIndex(t, i)
<1> DEFINE next == NextKey(t, i)
           x == KeyIndex(t, i)
           later == {j \in 0..(Asize(t) + Hmask(t)) : x <= j /\ ValueAt(t, j) # Nil}
<1>1. Asize(t) \in Nat /\ Hmask(t) \in Nat
  BY SlotsLen
<1>2. x \in Nat
  <2>1. CASE i = Nil
    BY <2>1 DEF KeyIndex
  <2>2. CASE i \in Key
    BY <1>1, <2>2, KeyIndexIs
  <2> QED
    BY <2>1, <2>2
<1>3. next = IF x = -1 \/ later = {} THEN Done
             ELSE IF Min(later) < Asize(t) THEN Min(later) ELSE t.node[Min(later) - Asize(t)].key
  BY Zenon DEF NextKey, ValueAt
<1>4. \A k \in Key : Get(t, k) # Nil /\ ~(KeyIndex(t, k) <= x) =>
        \E j \in later : KeyAt(t, j) = k /\ KeyIndex(t, k) = j + 1
  <2> SUFFICES ASSUME NEW k \in Key, Get(t, k) # Nil, ~(KeyIndex(t, k) <= x)
               PROVE  \E j \in later : KeyAt(t, j) = k /\ KeyIndex(t, k) = j + 1
    OBVIOUS
  <2>1. PICK j \in 0..(Asize(t) + Hmask(t)) :
          ValueAt(t, j) # Nil /\ KeyAt(t, j) = k /\ KeyIndex(t, k) = j + 1
    BY IndexOfEntry
  <2>2. x <= j
    BY <1>1, <1>2, <2>1
  <2> QED
    BY <2>1, <2>2
<1>5. ASSUME later = {}
      PROVE  next = Done /\ \A k \in Key : Get(t, k) # Nil => KeyIndex(t, k) <= x
  BY <1>3, <1>4, <1>5
<1>6. ASSUME later # {}
      PROVE  /\ next \in Key /\ Get(t, next) # Nil /\ KeyIndex(t, next) > x
             /\ \A k \in Key : Get(t, k) # Nil /\ KeyIndex(t, k) <= KeyIndex(t, next) =>
                                 k = next \/ KeyIndex(t, k) <= x
  <2>1. later \in SUBSET Nat
    BY <1>1
  <2>2. Min(later) \in later /\ \A j \in later : Min(later) <= j
    BY <1>6, <2>1, MinProperties
  <2> DEFINE m == Min(later)
  <2>3. m \in 0..(Asize(t) + Hmask(t)) /\ x <= m /\ ValueAt(t, m) # Nil
    BY <2>2
  <2>4. next = KeyAt(t, m)
    BY <1>2, <1>3, <1>6 DEF KeyAt
  <2>5. next \in Key /\ Get(t, next) # Nil /\ KeyIndex(t, next) = m + 1
    BY <2>3, <2>4, AtIndex
  <2> HIDE DEF m, next, x
  <2>6. KeyIndex(t, next) > x
    BY <1>1, <1>2, <2>3, <2>5
  <2>7. ASSUME NEW k \in Key, Get(t, k) # Nil, KeyIndex(t, k) <= KeyIndex(t, next),
               ~(KeyIndex(t, k) <= x)
        PROVE  k = next
    <3>1. PICK j \in later : KeyAt(t, j) = k /\ KeyIndex(t, k) = j + 1
      BY <1>4, <2>7
    <3>2. m <= j /\ j \in Nat /\ m \in Nat
      BY <2>1, <2>2, <3>1 DEF m
    <3>3. m = j
      BY <2>5, <2>7, <3>1, <3>2
    <3> QED
      BY <2>4, <3>1, <3>3
  <2> QED
    BY <2>5, <2>6, <2>7
<1>7. ASSUME NEW k \in Key
      PROVE  k # Done
  BY TableAssumption DEF Key
<1> HIDE DEF later, x, next
<1>8. (next = Done) <=> (later = {})
  BY <1>5, <1>6, <1>7
<1> QED
  BY <1>2, <1>5, <1>6, <1>8 DEF x, next

(***************************************************************************)
(* The invariant: chains, and what a traversal has visited.                *)
(***************************************************************************)

\* The traversal of t, now at the key i, has seen the entries up to i and no later key.
Traversed(t, i, seen) ==
  i # Done =>
    /\ KeyIndex(t, i) # -1
    /\ \A k \in seen : KeyIndex(t, k) # -1 /\ KeyIndex(t, k) <= KeyIndex(t, i)
    /\ \A k \in Key : Get(t, k) # Nil /\ KeyIndex(t, k) <= KeyIndex(t, i) => k \in seen

HashInv == Chains(tab) /\ tab.fits = TRUE /\ Traversed(tab, iter, visited)

EntriesInv ==
  /\ TypeInv
  /\ iter = Done => visited = Nil
  /\ reused = 0 => HashInv

LEMMA ChainsEmpty ==
  /\ Chains(EmptyTable) /\ Asize(EmptyTable) = 0
  /\ \A n \in DOMAIN EmptyTable.node : EmptyTable.node[n].key = Nil /\ EmptyTable.node[n].val = Nil
<1> DEFINE t == EmptyTable
<1>1. \A n \in DOMAIN t.node : t.node[n].key = Nil /\ t.node[n].next = Nil /\ t.node[n].val = Nil
  BY DEF EmptyTable, NilNodes, EmptyNode
<1>2. Asize(t) = 0
  BY DEF Asize, EmptyTable
<1>3. TableOK(t) /\ Hmask(t) = 0
  BY EmptyTableOK
<1>4. 0 \in DOMAIN t.node
  BY DEF EmptyTable, NilNodes
<1> HIDE DEF t
<1>5. Nil \notin DOMAIN t.node
  BY <1>3, TableLinked, NilNoNode
<1>6. Ends(t)
  BY <1>1 DEF Ends
<1>7. UniqueKeys(t) /\ UniquePreds(t) /\ FreeUnlinked(t) /\ Rooted(t) /\ Reached(t) /\ NotInArray(t)
  BY <1>1, <1>5 DEF UniqueKeys, UniquePreds, FreeUnlinked, Rooted, Reached, NotInArray
<1>8. FilledAbove(t) /\ NilnodeEmpty(t)
  BY <1>1, <1>3, <1>4 DEF FilledAbove, NilnodeEmpty
<1>9. Chains(t)
  BY <1>6, <1>7, <1>8 DEF Chains
<1> QED
  BY <1>1, <1>2, <1>9 DEF t

\* A step that changes no hash: the operators after it.
LEMMA SameHash ==
  ASSUME strhash' = strhash, NEW t, tab' = t
  PROVE  /\ Chains(tab)' <=> Chains(t)
         /\ \A k : Get(tab, k)' = Get(t, k)
         /\ \A k : KeyIndex(tab, k)' = KeyIndex(t, k)
         /\ \A k : FindNode(tab, k)' = FindNode(t, k)
<1>1. Rooted(tab)' <=> Rooted(t)
  BY Zenon DEF Rooted, MainNode
<1>2. Reached(tab)' <=> Reached(t)
  BY Zenon DEF Reached, MainNode
<1>3. /\ Ends(tab)' <=> Ends(t)
      /\ UniqueKeys(tab)' <=> UniqueKeys(t)
      /\ UniquePreds(tab)' <=> UniquePreds(t)
      /\ FreeUnlinked(tab)' <=> FreeUnlinked(t)
      /\ FilledAbove(tab)' <=> FilledAbove(t)
      /\ NotInArray(tab)' <=> NotInArray(t)
      /\ NilnodeEmpty(tab)' <=> NilnodeEmpty(t)
  BY Zenon
<1>4. Chains(tab)' <=> Chains(t)
  BY <1>1, <1>2, <1>3 DEF Chains
<1>5. ASSUME NEW k
      PROVE  FindNode(tab, k)' = FindNode(t, k)
  BY Zenon DEF FindNode, MainNode
<1>6. ASSUME NEW k
      PROVE  Get(tab, k)' = Get(t, k)
  BY Zenon DEF Get, FindNode, MainNode
<1>7. ASSUME NEW k
      PROVE  KeyIndex(tab, k)' = KeyIndex(t, k)
  BY Zenon DEF KeyIndex, FindNode, MainNode
<1> QED
  BY <1>4, <1>5, <1>6, <1>7

LEMMA SameInv ==
  ASSUME strhash' = strhash, NEW t, tab' = t, NEW i, iter' = i, NEW seen, visited' = seen
  PROVE  HashInv' <=> Chains(t) /\ t.fits = TRUE /\ Traversed(t, i, seen)
<1>1. Chains(tab)' <=> Chains(t)
  BY SameHash
<1>2. Traversed(tab, iter, visited)' <=> Traversed(t, i, seen)
  <2>1. KeyIndex(tab, iter)' = KeyIndex(t, i)
    BY Zenon DEF KeyIndex, FindNode, MainNode
  <2>2. \A k : Get(tab, k)' = Get(t, k) /\ KeyIndex(tab, k)' = KeyIndex(t, k)
    BY SameHash
  <2> QED
    BY <2>1, <2>2 DEF Traversed
<1> QED
  BY <1>1, <1>2 DEF HashInv

\* A store over an entry leaves the order of the keys.
LEMMA SameIndex ==
  ASSUME HashOK, NEW t, TableOK(t), Chains(t), NEW u, TableOK(u), Chains(u), SameShape(u, t),
         \A n \in DOMAIN t.node : u.node[n].key = t.node[n].key
  PROVE  \A k \in Key \cup {Nil} : KeyIndex(u, k) = KeyIndex(t, k)
<1>1. KeyIndex(u, Nil) = KeyIndex(t, Nil)
  BY DEF KeyIndex
<1> SUFFICES ASSUME NEW k \in Key
             PROVE  KeyIndex(u, k) = KeyIndex(t, k)
  BY <1>1
<1>2. Asize(u) = Asize(t) /\ DOMAIN u.node = DOMAIN t.node /\ (InArray(u, k) <=> InArray(t, k))
  BY DEF SameShape, InArray
<1>3. CASE InArray(t, k)
  BY <1>2, <1>3, KeyIndexIs
<1>4. ASSUME NEW n \in DOMAIN t.node, t.node[n].key = k
      PROVE  KeyIndex(u, k) = KeyIndex(t, k)
  <2>1. KeyIndex(t, k) = Asize(t) + n + 1
    BY <1>4, KeyIndexIs
  <2>2. n \in DOMAIN u.node /\ u.node[n].key = k
    BY <1>2, <1>4
  <2>3. KeyIndex(u, k) = Asize(u) + n + 1
    BY <2>2, KeyIndexIs
  <2> QED
    BY <1>2, <2>1, <2>3
<1>5. CASE ~InArray(t, k) /\ \A n \in DOMAIN t.node : t.node[n].key # k
  <2>1. KeyIndex(t, k) = -1
    BY <1>5, KeyIndexIs
  <2>2. ~InArray(u, k) /\ \A n \in DOMAIN u.node : u.node[n].key # k
    BY <1>2, <1>5
  <2>3. KeyIndex(u, k) = -1
    BY <2>2, KeyIndexIs
  <2> QED
    BY <2>1, <2>3
<1> QED
  BY <1>3, <1>4, <1>5

LEMMA EntriesInvInit == Init => EntriesInv
<1> SUFFICES ASSUME Init
             PROVE  EntriesInv
  OBVIOUS
<1>1. TypeInv
  BY TypeInvInit
<1>2. iter = Done /\ visited = Nil /\ tab = EmptyTable
  BY DEF Init
<1>3. Traversed(tab, iter, visited)
  BY <1>2 DEF Traversed
<1>4. Chains(tab) /\ tab.fits = TRUE
  BY <1>2, ChainsEmpty DEF EmptyTable
<1> QED
  BY <1>1, <1>2, <1>3, <1>4 DEF EntriesInv, HashInv

LEMMA AssignKeeps ==
  ASSUME TypeInv, HashInv, Assign
  PROVE  HashInv'
<1>1. PICK k \in Key, v \in Key \cup {Nil} :
        /\ tab' = Set(tab, k, v)
        /\ IF Get(tab, k) = Nil THEN iter' = Done /\ visited' = Nil ELSE UNCHANGED <<iter, visited>>
        /\ UNCHANGED <<strhash, reused>>
  BY DEF Assign
<1> DEFINE t == tab
           u == Set(tab, k, v)
<1>2. HashOK /\ TableOK(t) /\ Chains(t) /\ t.fits = TRUE
  BY DEF TypeInv, HashInv
<1>3. /\ TableOK(u) /\ Chains(u) /\ u.fits = t.fits
      /\ \A k2 \in Key : Get(u, k2) = IF k2 = k THEN v ELSE Get(t, k2)
      /\ Get(t, k) # Nil => /\ SameShape(u, t)
                            /\ \A n \in DOMAIN t.node : u.node[n].key = t.node[n].key
  BY <1>2, SetStores
<1>4. CASE Get(tab, k) = Nil
  <2>1. Traversed(u, Done, Nil)
    BY DEF Traversed
  <2>2. iter' = Done /\ visited' = Nil /\ strhash' = strhash /\ tab' = u
    BY <1>1, <1>4
  <2> HIDE DEF u
  <2> QED
    BY <1>2, <1>3, <2>1, <2>2, SameInv
<1>5. CASE Get(tab, k) # Nil
  <2>1. iter' = iter /\ visited' = visited /\ strhash' = strhash /\ tab' = u
    BY <1>1, <1>5
  <2> HIDE DEF u
  <2>2. \A k2 \in Key \cup {Nil} : KeyIndex(u, k2) = KeyIndex(t, k2)
    BY <1>2, <1>3, <1>5, SameIndex
  <2>3. \A k2 \in Key : Get(u, k2) # Nil => Get(t, k2) # Nil
    BY <1>3, <1>5
  <2>4. iter # Done => iter \in Key \cup {Nil} /\ visited \in SUBSET Key
    BY DEF TypeInv
  <2>5. Traversed(t, iter, visited)
    BY DEF HashInv
  <2> HIDE DEF t
  <2>6. Traversed(u, iter, visited)
    <3> SUFFICES ASSUME iter # Done
                 PROVE  /\ KeyIndex(u, iter) # -1
                        /\ \A k2 \in visited : KeyIndex(u, k2) # -1 /\ KeyIndex(u, k2) <= KeyIndex(u, iter)
                        /\ \A k2 \in Key : Get(u, k2) # Nil /\ KeyIndex(u, k2) <= KeyIndex(u, iter) =>
                                             k2 \in visited
      BY DEF Traversed
    <3>1. /\ KeyIndex(t, iter) # -1
          /\ \A k2 \in visited : KeyIndex(t, k2) # -1 /\ KeyIndex(t, k2) <= KeyIndex(t, iter)
          /\ \A k2 \in Key : Get(t, k2) # Nil /\ KeyIndex(t, k2) <= KeyIndex(t, iter) => k2 \in visited
      BY <2>5 DEF Traversed
    <3>2. KeyIndex(u, iter) = KeyIndex(t, iter)
      BY <2>2, <2>4
    <3>3. \A k2 \in visited : KeyIndex(u, k2) = KeyIndex(t, k2)
      BY <2>2, <2>4
    <3>4. \A k2 \in Key : KeyIndex(u, k2) = KeyIndex(t, k2)
      BY <2>2
    <3> QED
      BY <2>3, <3>1, <3>2, <3>3, <3>4
  <2>7. u.fits = TRUE
    BY <1>2, <1>3
  <2> QED
    BY <1>3, <2>1, <2>6, <2>7, SameInv
<1> QED
  BY <1>4, <1>5

LEMMA ReasizeKeepsInv ==
  ASSUME TypeInv, HashInv, Reasize
  PROVE  HashInv'
<1> DEFINE hbits == IF Hmask(tab) = 0 THEN 0 ELSE Hsize2Hbits(Hmask(tab) + 1)
<1>1. PICK n \in Num : n >= Asize(tab) /\ tab' = Resize(tab, n + 1, hbits)
  BY DEF Reasize
<1> DEFINE u == Resize(tab, n + 1, hbits)
<1>2. HashOK /\ TableOK(tab) /\ Chains(tab) /\ tab.fits = TRUE /\ n \in Nat
  BY TableAssumption DEF TypeInv, HashInv
<1>3. Chains(u) /\ u.fits = tab.fits
  BY <1>1, <1>2, ReasizeKeeps
<1>4. iter = Done /\ iter' = Done /\ visited' = visited /\ strhash' = strhash /\ tab' = u
  BY <1>1 DEF Reasize
<1> HIDE DEF u
<1>5. Traversed(u, Done, visited)
  BY DEF Traversed
<1> QED
  BY <1>2, <1>3, <1>4, <1>5, SameInv

LEMMA BeginKeeps ==
  ASSUME TypeInv, HashInv, Begin
  PROVE  HashInv'
<1>1. HashOK /\ TableOK(tab) /\ Chains(tab) /\ tab.fits = TRUE
  BY DEF TypeInv, HashInv
<1>2. iter' = Nil /\ visited' = {} /\ strhash' = strhash /\ tab' = tab
  BY DEF Begin
<1>3. KeyIndex(tab, Nil) = 0
  BY DEF KeyIndex
<1>4. ASSUME NEW k \in Key, Get(tab, k) # Nil
      PROVE  ~(KeyIndex(tab, k) <= 0)
  <2>1. PICK j \in 0..(Asize(tab) + Hmask(tab)) : KeyIndex(tab, k) = j + 1
    BY <1>1, <1>4, IndexOfEntry
  <2> QED
    BY <2>1
<1>5. Traversed(tab, Nil, {})
  BY <1>3, <1>4 DEF Traversed
<1> QED
  BY <1>1, <1>2, <1>5, SameInv

\* The next key of a traversal is a key that it has not visited, and at the end
\* it has visited all.
StepVisits ==
  LET next == NextKey(tab, iter)
  IN  /\ next # Done => /\ next \in Key /\ next \notin visited /\ Get(tab, next) # Nil
                        /\ Traversed(tab, next, visited \cup {next})
      /\ next = Done => \A k \in Key : Get(tab, k) # Nil => k \in visited

LEMMA StepIs ==
  ASSUME TypeInv, HashInv, iter # Done
  PROVE  StepVisits
<1> DEFINE next == NextKey(tab, iter)
           x == KeyIndex(tab, iter)
<1>1. HashOK /\ TableOK(tab) /\ Chains(tab) /\ iter \in Key \cup {Nil} /\ visited \in SUBSET Key
  BY DEF TypeInv, HashInv
<1>2. /\ x # -1
      /\ \A k \in visited : KeyIndex(tab, k) # -1 /\ KeyIndex(tab, k) <= x
      /\ \A k \in Key : Get(tab, k) # Nil /\ KeyIndex(tab, k) <= x => k \in visited
  BY DEF HashInv, Traversed
<1>3. /\ x \in Nat
      /\ next = Done => \A k \in Key : Get(tab, k) # Nil => KeyIndex(tab, k) <= x
      /\ next # Done =>
           /\ next \in Key /\ Get(tab, next) # Nil /\ KeyIndex(tab, next) > x
           /\ \A k \in Key : Get(tab, k) # Nil /\ KeyIndex(tab, k) <= KeyIndex(tab, next) =>
                               k = next \/ KeyIndex(tab, k) <= x
  BY <1>1, <1>2, NextIs
<1>4. \A k \in Key : KeyIndex(tab, k) \in Int
  <2>1. Asize(tab) \in Nat /\ Hmask(tab) \in Nat
    BY <1>1, SlotsLen
  <2> QED
    BY <1>1, <2>1, KeyIndexIs
<1> HIDE DEF next, x
<1>5. ASSUME next # Done
      PROVE  /\ next \in Key /\ next \notin visited /\ Get(tab, next) # Nil
             /\ Traversed(tab, next, visited \cup {next})
  <2>1. next \in Key /\ Get(tab, next) # Nil /\ KeyIndex(tab, next) > x /\ KeyIndex(tab, next) \in Int
    BY <1>3, <1>4, <1>5
  <2>2. next \notin visited
    BY <1>2, <1>3, <2>1
  <2>3. KeyIndex(tab, next) # -1
    BY <1>3, <2>1
  <2>4. \A k \in visited \cup {next} : KeyIndex(tab, k) # -1 /\ KeyIndex(tab, k) <= KeyIndex(tab, next)
    BY <1>1, <1>2, <1>3, <1>4, <2>1, <2>3
  <2>5. \A k \in Key : Get(tab, k) # Nil /\ KeyIndex(tab, k) <= KeyIndex(tab, next) =>
                         k \in visited \cup {next}
    BY <1>2, <1>3, <1>5
  <2>6. Traversed(tab, next, visited \cup {next})
    BY <2>3, <2>4, <2>5 DEF Traversed
  <2> QED
    BY <2>1, <2>2, <2>6
<1>6. next = Done => \A k \in Key : Get(tab, k) # Nil => k \in visited
  BY <1>2, <1>3
<1> QED
  BY <1>5, <1>6 DEF StepVisits, next

LEMMA StepKeeps ==
  ASSUME TypeInv, HashInv, Step
  PROVE  HashInv'
<1> DEFINE next == NextKey(tab, iter)
<1>1. iter # Done /\ strhash' = strhash /\ tab' = tab
      /\ IF next \in Key THEN iter' = next /\ visited' = visited \cup {next}
         ELSE iter' = Done /\ visited' = Nil
  BY DEF Step
<1>2. next # Done => next \in Key /\ Traversed(tab, next, visited \cup {next})
  BY <1>1, StepIs DEF StepVisits
<1>3. Chains(tab) /\ tab.fits = TRUE
  BY DEF HashInv
<1> HIDE DEF next
<1>4. CASE next \in Key
  <2>1. next # Done
    BY <1>4, TableAssumption DEF Key
  <2>2. iter' = next /\ visited' = visited \cup {next} /\ Traversed(tab, next, visited \cup {next})
    BY <1>1, <1>2, <1>4, <2>1
  <2> QED
    BY <1>1, <1>3, <2>2, SameInv
<1>5. CASE next \notin Key
  <2>1. iter' = Done /\ visited' = Nil /\ Traversed(tab, Done, Nil)
    BY <1>1, <1>5 DEF Traversed
  <2> QED
    BY <1>1, <1>3, <2>1, SameInv
<1> QED
  BY <1>4, <1>5

LEMMA EntriesInvKept == EntriesInv /\ [Next]_vars => EntriesInv'
<1> SUFFICES ASSUME EntriesInv, [Next]_vars
             PROVE  EntriesInv'
  OBVIOUS
<1>1. TypeInv /\ (iter = Done => visited = Nil) /\ (reused = 0 => HashInv)
  BY DEF EntriesInv
<1>2. TypeInv'
  BY <1>1, TypeInvKept
<1>3. CASE Assign
  <2>1. (iter' = Done /\ visited' = Nil) \/ (iter' = iter /\ visited' = visited)
    BY <1>3 DEF Assign
  <2>2. reused' = 0 => HashInv'
    BY <1>1, <1>3, AssignKeeps DEF Assign
  <2>3. iter' = Done => visited' = Nil
    BY <1>1, <2>1
  <2> QED
    BY <1>2, <2>2, <2>3 DEF EntriesInv
<1>4. CASE Reasize
  <2>1. reused' = 0 => HashInv'
    BY <1>1, <1>4, ReasizeKeepsInv DEF Reasize
  <2>2. iter' = Done => visited' = Nil
    BY <1>1, <1>4 DEF Reasize
  <2> QED
    BY <1>2, <2>1, <2>2 DEF EntriesInv
<1>5. CASE Reuse
  <2>1. reused' # 0
    <3>1. reused \in Nat /\ reused' = reused + 1
      BY <1>1, <1>5, TableAssumption DEF Reuse, TypeInv
    <3> QED
      BY <3>1
  <2>2. iter' = Done => visited' = Nil
    BY <1>1, <1>5 DEF Reuse
  <2> QED
    BY <1>2, <2>1, <2>2 DEF EntriesInv
<1>6. CASE Begin
  <2>1. reused' = 0 => HashInv'
    BY <1>1, <1>6, BeginKeeps DEF Begin
  <2>2. iter' # Done
    BY <1>6, TableAssumption DEF Begin
  <2> QED
    BY <1>2, <2>1, <2>2 DEF EntriesInv
<1>7. CASE Step
  <2>1. reused' = 0 => HashInv'
    BY <1>1, <1>7, StepKeeps DEF Step
  <2>2. (iter' \in Key) \/ visited' = Nil
    BY <1>7 DEF Step
  <2>3. Done \notin Key
    BY TableAssumption DEF Key
  <2>4. iter' = Done => visited' = Nil
    BY <2>2, <2>3
  <2> QED
    BY <1>2, <2>1, <2>4 DEF EntriesInv
<1>8. CASE UNCHANGED vars
  <2>1. iter' = iter /\ visited' = visited /\ strhash' = strhash /\ tab' = tab /\ reused' = reused
    BY <1>8 DEF vars
  <2>2. reused' = 0 => HashInv'
    BY <1>1, <2>1, SameInv DEF HashInv
  <2>3. iter' = Done => visited' = Nil
    BY <1>1, <2>1
  <2> QED
    BY <1>2, <2>2, <2>3 DEF EntriesInv
<1> QED
  BY <1>3, <1>4, <1>5, <1>6, <1>7, <1>8 DEF Next

LEMMA EntriesInvAlways == Spec => []EntriesInv
BY EntriesInvInit, EntriesInvKept, PTL DEF Spec

\* Through collisions, moved nodes, removed keys and resizes, a lookup of the key of an
\* entry comes to its node, as long as no address of a removed string is used again.
THEOREM EntriesAreFound == Spec => [](reused = 0 => EntriesFound)
<1>1. EntriesInv => (reused = 0 => EntriesFound)
  <2> SUFFICES ASSUME EntriesInv, reused = 0,
                      NEW n \in DOMAIN tab.node, tab.node[n].val # Nil
               PROVE  FindNode(tab, tab.node[n].key) = n
    BY DEF EntriesFound
  <2>1. HashOK /\ TableOK(tab) /\ Chains(tab)
    BY DEF EntriesInv, TypeInv, HashInv
  <2>2. tab.node[n].key \in Key
    BY <2>1 DEF TableOK, NodeRec
  <2> QED
    BY <2>1, <2>2, FoundIs
<1> QED
  BY <1>1, EntriesInvAlways, PTL

\* Every chain has an end, the hash part that a rehash chooses has room for all entries
\* and the new key, and a node that is moved is found in the chain of its key: no lookup
\* and no store goes on for ever, as long as no address is used again.
THEOREM CallsAlwaysEnd == Spec => [](reused = 0 => CallsEnd)
<1>1. EntriesInv => (reused = 0 => CallsEnd)
  <2> SUFFICES ASSUME EntriesInv, reused = 0
               PROVE  CallsEnd
    OBVIOUS
  <2>1. HashOK /\ TableOK(tab) /\ Chains(tab) /\ tab.fits = TRUE
    BY DEF EntriesInv, TypeInv, HashInv
  <2>2. Linked(tab) /\ Ends(tab)
    BY <2>1, TableLinked DEF Chains
  <2> DEFINE last == {m \in DOMAIN tab.node : tab.node[m].next = Nil}
  <2>3. ASSUME NEW n \in DOMAIN tab.node
        PROVE  InChain(tab, n, last) # Nil
    <3>1. PICK x \in DOMAIN tab.node : Reach(tab, n, x) /\ tab.node[x].next = Nil
      BY <2>2, EndReached
    <3>2. x \in last
      BY <3>1
    <3> HIDE DEF last
    <3> QED
      BY <2>2, <3>1, <3>2, InChainFinds
  <2> QED
    BY <2>1, <2>3 DEF CallsEnd
<1> QED
  BY <1>1, EntriesInvAlways, PTL

\* A traversal does not lose its place when the entry it is at is removed, or others are:
\* its key stays in the table, as long as no address is used again.
THEOREM TraversalsGoOn == Spec => [](reused = 0 => TraversalGoesOn)
<1>1. EntriesInv => (reused = 0 => TraversalGoesOn)
  BY DEF EntriesInv, HashInv, Traversed, TraversalGoesOn
<1> QED
  BY <1>1, EntriesInvAlways, PTL

(***************************************************************************)
(* The table is a dictionary.                                              *)
(***************************************************************************)

LEMMA ContentAfter ==
  ASSUME strhash' = strhash, NEW t, tab' = t
  PROVE  Content' = [k \in Key |-> Get(t, k)]
BY Zenon DEF Content, Get, FindNode, MainNode

LEMMA DictionaryInit == Init => Map!Init
<1> SUFFICES ASSUME Init
             PROVE  Map!Init
  OBVIOUS
<1>1. EntriesInv /\ HashOK /\ TableOK(EmptyTable) /\ Chains(EmptyTable)
  BY EntriesInvInit, EmptyTableOK, ChainsEmpty DEF EntriesInv, TypeInv
<1>2. ASSUME NEW k \in Key
      PROVE  Get(EmptyTable, k) = Nil
  <2>1. ~InArray(EmptyTable, k)
    <3>1. k \in Num => k \in Nat
      BY TableAssumption
    <3>2. Asize(EmptyTable) = 0
      BY ChainsEmpty
    <3> QED
      BY <3>1, <3>2 DEF InArray
  <2>2. \A x : x # Nil => ~Holds(EmptyTable, k, x)
    BY ChainsEmpty DEF Holds
  <2> QED
    BY <1>1, <2>1, <2>2, GetIs
<1>3. Content = [k \in Key |-> Nil]
  BY <1>2 DEF Content, Init
<1>4. visited = Nil
  BY DEF Init
<1> QED
  BY <1>3, <1>4 DEF Map!Init

LEMMA DictionaryStep ==
  ASSUME EntriesInv, reused = 0, [Next]_vars, reused' = 0
  PROVE  [Map!Next]_(Map!vars)
<1>1. /\ HashOK /\ TableOK(tab) /\ Chains(tab) /\ HashInv /\ TypeInv
      /\ iter = Done => visited = Nil
      /\ iter # Done => visited \in SUBSET Key
      /\ reused \in Nat
  BY TableAssumption DEF EntriesInv, HashInv, TypeInv
<1>2. CASE Assign
  <2>1. PICK k \in Key : \E v \in {Nil, k} :
          /\ tab' = Set(tab, k, v)
          /\ IF Get(tab, k) = Nil THEN iter' = Done /\ visited' = Nil ELSE UNCHANGED <<iter, visited>>
          /\ UNCHANGED <<strhash, reused>>
    BY <1>2 DEF Assign
  <2>2. PICK v \in {Nil, k} :
          /\ tab' = Set(tab, k, v)
          /\ IF Get(tab, k) = Nil THEN iter' = Done /\ visited' = Nil ELSE UNCHANGED <<iter, visited>>
          /\ UNCHANGED <<strhash, reused>>
    BY <2>1
  <2> DEFINE u == Set(tab, k, v)
  <2>3. \A k2 \in Key : Get(u, k2) = IF k2 = k THEN v ELSE Get(tab, k2)
    BY <1>1, SetStores
  <2>4. strhash' = strhash /\ tab' = u
    BY <2>2
  <2> HIDE DEF u
  <2>5. Content' = [k2 \in Key |-> Get(u, k2)]
    BY <2>4, ContentAfter
  <2>6. Content = [k2 \in Key |-> Get(tab, k2)]
    BY DEF Content
  <2>7. Content' = [Content EXCEPT ![k] = v]
    BY <2>3, <2>5, <2>6
  <2>8. visited' = IF Content[k] = Nil THEN Nil ELSE visited
    BY <2>2, <2>6
  <2>9. Map!Assign
    BY <2>7, <2>8 DEF Map!Assign
  <2> QED
    BY <2>9 DEF Map!Next
<1>3. CASE Reasize
  <2> DEFINE hbits == IF Hmask(tab) = 0 THEN 0 ELSE Hsize2Hbits(Hmask(tab) + 1)
  <2>1. PICK n \in Num : n >= Asize(tab) /\ tab' = Resize(tab, n + 1, hbits)
    BY <1>3 DEF Reasize
  <2> DEFINE u == Resize(tab, n + 1, hbits)
  <2>2. n \in Nat
    BY TableAssumption
  <2>3. \A k \in Key : Get(u, k) = Get(tab, k)
    BY <1>1, <2>1, <2>2, ReasizeKeeps
  <2>4. strhash' = strhash /\ tab' = u /\ visited' = visited
    BY <1>3, <2>1 DEF Reasize
  <2> HIDE DEF u
  <2>5. Content' = Content
    BY <2>3, <2>4, ContentAfter DEF Content
  <2> QED
    BY <2>4, <2>5 DEF Map!vars
<1>4. CASE Reuse
  BY <1>1, <1>4 DEF Reuse
<1>5. CASE Begin
  <2>1. visited' = {} /\ strhash' = strhash /\ tab' = tab
    BY <1>5 DEF Begin
  <2>2. Content' = Content
    BY <2>1, ContentAfter DEF Content
  <2> QED
    BY <2>1, <2>2 DEF Map!Next, Map!Begin
<1>6. CASE Step
  <2> DEFINE next == NextKey(tab, iter)
  <2>1. iter # Done /\ strhash' = strhash /\ tab' = tab
        /\ IF next \in Key THEN iter' = next /\ visited' = visited \cup {next}
           ELSE iter' = Done /\ visited' = Nil
    BY <1>6 DEF Step
  <2>2. Content' = Content
    BY <2>1, ContentAfter DEF Content
  <2>3. visited \in SUBSET Key /\ visited # Nil
    BY <1>1, <2>1, TableAssumption DEF Key
  <2>4. /\ next # Done => next \in Key /\ next \notin visited /\ Get(tab, next) # Nil
        /\ next = Done => \A k \in Key : Get(tab, k) # Nil => k \in visited
    BY <1>1, <2>1, StepIs DEF StepVisits
  <2>5. \A k \in Key : Content[k] = Get(tab, k)
    BY DEF Content
  <2>6. Done \notin Key
    BY TableAssumption DEF Key
  <2> HIDE DEF next
  <2>7. CASE next \in Key
    <3>1. next \notin visited /\ visited' = visited \cup {next} /\ Content[next] # Nil
      BY <2>1, <2>4, <2>5, <2>6, <2>7
    <3>2. Map!Visit
      BY <2>2, <2>3, <2>7, <3>1 DEF Map!Visit
    <3> QED
      BY <3>2 DEF Map!Next
  <2>8. CASE next \notin Key
    <3>1. visited' = Nil /\ next = Done
      BY <2>1, <2>4, <2>8
    <3>2. {k \in Key : Content[k] # Nil} \subseteq visited
      BY <2>4, <2>5, <3>1
    <3>3. Map!End
      BY <2>2, <2>3, <3>1, <3>2 DEF Map!End
    <3> QED
      BY <3>3 DEF Map!Next
  <2> QED
    BY <2>7, <2>8
<1>7. CASE UNCHANGED vars
  <2>1. visited' = visited /\ strhash' = strhash /\ tab' = tab
    BY <1>7 DEF vars
  <2>2. Content' = Content
    BY <2>1, ContentAfter DEF Content
  <2> QED
    BY <2>1, <2>2 DEF Map!vars
<1> QED
  BY <1>2, <1>3, <1>4, <1>5, <1>6, <1>7 DEF Next

\* Lookups agree with what was stored, and a traversal visits every entry once, in
\* a run that uses no address of a removed string again.
THEOREM DictionaryImplemented == Spec /\ [](reused = 0) => ImplementsDictionary
<1>1. Init => Map!Init
  BY DictionaryInit
<1>2. EntriesInv /\ reused = 0 /\ [Next]_vars /\ (reused = 0)' => [Map!Next]_(Map!vars)
  BY DictionaryStep
<1>3. Spec => []EntriesInv
  BY EntriesInvAlways
<1> QED
  BY <1>1, <1>2, <1>3, PTL DEF Spec, ImplementsDictionary, Map!Spec

(***************************************************************************)
(* Lengths. They need no chains: only that the shared nilnode stays empty. *)
(***************************************************************************)

LEMMA PutNilnode ==
  ASSUME HashOK, NEW t, TableOK(t), NilnodeEmpty(t), NEW k \in Key, NEW v \in Key \cup {Nil}
  PROVE  NilnodeEmpty(Put(t, k, v))
<1>1. Hmask(Put(t, k, v)) = Hmask(t)
  BY PutType
<1>2. CASE Hmask(t) # 0
  BY <1>1, <1>2 DEF NilnodeEmpty
<1>3. CASE Hmask(t) = 0
  <2>1. HasFields(t, TableFields) /\ t.freetop \in 0..0 /\ DOMAIN t.node = 0..0 /\ t.node[0].key = Nil
    BY <1>3 DEF TableOK, NilnodeEmpty
  <2>2. FindNode(t, k) = Nil
    <3>1. k # Nil
      BY TableAssumption DEF Key
    <3>2. FindNode(t, k) \in 0..0 => t.node[FindNode(t, k)].key = Nil
      BY <2>1
    <3> QED
      BY <2>1, <3>1, <3>2, FindNodeType
  <2>3. ~HasRoom(t, k)
    <3>1. FreeNodes(t) = {}
      BY <2>1 DEF FreeNodes
    <3> QED
      BY <1>3, <3>1 DEF HasRoom
  <2>4. Put(t, k, v) = [t EXCEPT !.array[k + 1] = v] \/ Put(t, k, v) = [t EXCEPT !.fits = FALSE]
    BY <2>2, <2>3 DEF Put
  <2>5. Put(t, k, v).node = t.node
    BY <2>1, <2>4 DEF HasFields, TableFields
  <2> QED
    BY <2>1, <2>5 DEF NilnodeEmpty
<1> QED
  BY <1>2, <1>3

LEMMA ResizeNilnode ==
  ASSUME HashOK, NEW t, TableOK(t), NEW asize \in Nat, NEW hbits \in Nat
  PROVE  NilnodeEmpty(Resize(t, asize, hbits))
<1> DEFINE h == Len(Slots(t))
<1>1. h \in Nat
  BY SlotsLen
<1>2. PICK g : /\ \A j \in 0..h : Filling(g, t, asize, hbits, j)
               /\ Resize(t, asize, hbits) = g[h]
  BY ResizeIs
<1>3. \A j \in 1..h : LET s == Slots(t)[j] IN s.val \in Key \cup {Nil} /\ (s.val # Nil => s.key \in Key)
  BY SlotIs
<1> HIDE DEF h
<1> DEFINE T == {j \in 0..h : TableOK(g[j]) /\ NilnodeEmpty(g[j])}
<1>4. 0 \in T
  <2>1. TableOK(Resized(t, asize, hbits)) /\ NilnodeEmpty(Resized(t, asize, hbits))
    BY ResizedIs DEF Chains
  <2> QED
    BY <1>1, <1>2, <2>1 DEF Filling
<1>5. ASSUME NEW j \in 0..h, j # 0, j - 1 \in T
      PROVE  j \in T
  <2>1. g[j] = Filled(t, asize, g[j - 1], j) /\ j \in 1..h
    BY <1>2, <1>5 DEF Filling
  <2>2. TableOK(g[j - 1]) /\ NilnodeEmpty(g[j - 1])
    BY <1>5
  <2>3. TableOK(Filled(t, asize, g[j - 1], j)) /\ NilnodeEmpty(Filled(t, asize, g[j - 1], j))
    BY <1>3, <2>1, <2>2, PutType, PutNilnode DEF Filled
  <2> QED
    BY <1>5, <2>1, <2>3
<1> HIDE DEF T
<1>6. 0..h \subseteq T
  BY <1>1, <1>4, <1>5, Induction
<1>7. NilnodeEmpty(g[h])
  BY <1>1, <1>6 DEF T
<1> QED
  BY <1>2, <1>7

LEMMA SetNilnode ==
  ASSUME HashOK, NEW t, TableOK(t), NilnodeEmpty(t), NEW k \in Key, NEW v \in Key \cup {Nil}
  PROVE  NilnodeEmpty(Set(t, k, v))
<1>1. TableOK(Rehash(t, k)) /\ NilnodeEmpty(Rehash(t, k))
  <2>1. PICK U, asize, total : Rehashed(t, k, U, asize, total)
    BY RehashIs
  <2>2. /\ Rehash(t, k) = Resize(t, asize, Hsize2Hbits(total))
        /\ asize \in Nat /\ Hsize2Hbits(total) \in Nat
    BY <2>1, Hsize2HbitsType DEF Rehashed
  <2> QED
    BY <2>2, ResizeType, ResizeNilnode
<1>2. NilnodeEmpty(Put(t, k, v)) /\ NilnodeEmpty(Put(Rehash(t, k), k, v))
  BY <1>1, PutNilnode
<1> QED
  BY <1>2 DEF Set

LengthInv == TypeInv /\ NilnodeEmpty(tab)

LEMMA LengthInvInit == Init => LengthInv
BY TypeInvInit, ChainsEmpty DEF LengthInv, Init, Chains

LEMMA LengthInvKept == LengthInv /\ [Next]_vars => LengthInv'
<1> SUFFICES ASSUME LengthInv, [Next]_vars
             PROVE  LengthInv'
  OBVIOUS
<1>1. TypeInv /\ NilnodeEmpty(tab) /\ HashOK /\ TableOK(tab)
  BY DEF LengthInv, TypeInv
<1>2. TypeInv'
  BY <1>1, TypeInvKept
<1>3. CASE Assign
  <2>1. PICK k \in Key, v \in Key \cup {Nil} : tab' = Set(tab, k, v)
    BY <1>3 DEF Assign
  <2>2. NilnodeEmpty(tab')
    BY <1>1, <2>1, SetNilnode
  <2> QED
    BY <1>2, <2>2 DEF LengthInv
<1>4. CASE Reasize
  <2> DEFINE hbits == IF Hmask(tab) = 0 THEN 0 ELSE Hsize2Hbits(Hmask(tab) + 1)
  <2>1. PICK n \in Num : tab' = Resize(tab, n + 1, hbits)
    BY <1>4 DEF Reasize
  <2>2. hbits \in Nat
    <3>1. Hmask(tab) + 1 \in Nat
      BY <1>1, SlotsLen
    <3>2. Hsize2Hbits(Hmask(tab) + 1) \in Nat
      BY <3>1, Hsize2HbitsType
    <3> QED
      BY <3>2
  <2>3. n + 1 \in Nat
    BY TableAssumption
  <2> HIDE DEF hbits
  <2>4. NilnodeEmpty(tab')
    BY <1>1, <2>1, <2>2, <2>3, ResizeNilnode
  <2> QED
    BY <1>2, <2>4 DEF LengthInv
<1>5. CASE Reuse \/ Begin \/ Step \/ UNCHANGED vars
  <2>1. tab' = tab
    BY <1>5 DEF Reuse, Begin, Step, vars
  <2> QED
    BY <1>1, <1>2, <2>1 DEF LengthInv
<1> QED
  BY <1>3, <1>4, <1>5 DEF Next

LEMMA LengthInvAlways == Spec => []LengthInv
BY LengthInvInit, LengthInvKept, PTL DEF Spec

\* The integers that have values: there are no more of them than slots.
Ints(t) == {m \in Num : GetInt(t, m) # Nil}

LEMMA IntsAre ==
  ASSUME HashOK, NEW t, TableOK(t)
  PROVE  /\ Ints(t) \subseteq Num /\ Ints(t) \subseteq Nat
         /\ \A m : GetInt(t, m) # Nil <=> m \in Ints(t)
         /\ \A m \in Num : m < Asize(t) => GetInt(t, m) = t.array[m + 1]
BY TableAssumption DEF Ints, GetInt, Get, InArray

LEMMA IntsFinite ==
  ASSUME HashOK, NEW t, TableOK(t)
  PROVE  /\ IsFiniteSet(Ints(t)) /\ Cardinality(Ints(t)) \in Nat
         /\ Cardinality(Ints(t)) <= Asize(t) + Hmask(t) + 1
<1> DEFINE size == Asize(t) + Hmask(t) + 1
           f == [m \in Ints(t) |-> IF InArray(t, m) THEN m + 1 ELSE Asize(t) + FindNode(t, m) + 1]
<1>1. Asize(t) \in Nat /\ Hmask(t) \in Nat /\ DOMAIN t.node = 0..Hmask(t) /\ Nil \notin DOMAIN t.node
  BY SlotsLen, TableLinked, NilNoNode DEF TableOK
<1>2. ASSUME NEW m \in Ints(t)
      PROVE  /\ m \in Nat
             /\ InArray(t, m) => m < Asize(t)
             /\ ~InArray(t, m) => FindNode(t, m) \in 0..Hmask(t) /\ t.node[FindNode(t, m)].key = m
  <2>1. m \in Num /\ m \in Key /\ m \in Nat /\ Get(t, m) # Nil
    BY TableAssumption DEF Ints, GetInt, Key
  <2>2. InArray(t, m) => m < Asize(t)
    BY DEF InArray
  <2>3. ~InArray(t, m) => FindNode(t, m) # Nil
    BY <2>1 DEF Get
  <2> QED
    BY <1>1, <2>1, <2>2, <2>3, FindNodeType
<1>3. \A m \in Ints(t) : f[m] \in 1..size
  BY <1>1, <1>2
<1>4. ASSUME NEW a \in Ints(t), NEW b \in Ints(t), f[a] = f[b]
      PROVE  a = b
  <2>1. CASE InArray(t, a) /\ InArray(t, b)
    BY <1>2, <1>4, <2>1
  <2>2. CASE ~InArray(t, a) /\ ~InArray(t, b)
    <3>1. FindNode(t, a) = FindNode(t, b)
      BY <1>1, <1>2, <1>4, <2>2
    <3> QED
      BY <1>2, <2>2, <3>1
  <2>3. CASE InArray(t, a) /\ ~InArray(t, b)
    BY <1>1, <1>2, <1>4, <2>3
  <2>4. CASE ~InArray(t, a) /\ InArray(t, b)
    BY <1>1, <1>2, <1>4, <2>4
  <2> QED
    BY <2>1, <2>2, <2>3, <2>4
<1>5. f \in [Ints(t) -> 1..size]
  <2>1. f = [m \in Ints(t) |-> f[m]] /\ DOMAIN f = Ints(t)
    OBVIOUS
  <2> HIDE DEF f
  <2> QED
    BY <1>3, <2>1
<1>6. DOMAIN f = Ints(t)
  OBVIOUS
<1> HIDE DEF f
<1>7. f \in Injection(Ints(t), 1..size)
  BY <1>4, <1>5, <1>6 DEF Injection, IsInjective
<1>8. size \in Nat
  BY <1>1
<1> HIDE DEF size
<1>9. IsFiniteSet(1..size) /\ Cardinality(1..size) = size
  BY <1>8, FS_Interval
<1>10. IsFiniteSet(Ints(t)) /\ Cardinality(Ints(t)) <= size
  BY <1>7, <1>9, FS_Injection
<1> QED
  BY <1>10, FS_CardinalityType DEF size

\* The binary searches.
IsBisect(g, i0, j0, present, k) ==
  g = [n \in 0..k |->
         IF n = 0 THEN [i |-> i0, j |-> j0]
         ELSE LET s == g[n - 1]
                  m == (s.i + s.j) \div 2
              IN  IF s.j - s.i <= 1 THEN s
                  ELSE IF m \in present THEN [s EXCEPT !.i = m] ELSE [s EXCEPT !.j = m]]

LEMMA BisectExists ==
  ASSUME NEW i0, NEW j0, NEW present, NEW h \in Nat
  PROVE  \E g : IsBisect(g, i0, j0, present, h)
<1> DEFINE T == {k \in 0..h : \E g : IsBisect(g, i0, j0, present, k)}
           On(s) == LET m == (s.i + s.j) \div 2
                    IN  IF s.j - s.i <= 1 THEN s
                        ELSE IF m \in present THEN [s EXCEPT !.i = m] ELSE [s EXCEPT !.j = m]
           At(g, n) == IF n = 0 THEN [i |-> i0, j |-> j0] ELSE On(g[n - 1])
<1>1. 0 \in T
  <2> DEFINE g == [n \in 0..0 |-> [i |-> i0, j |-> j0]]
  <2>1. g = [n \in 0..0 |-> At(g, n)]
    OBVIOUS
  <2> HIDE DEF g
  <2>2. IsBisect(g, i0, j0, present, 0)
    BY <2>1, Zenon DEF IsBisect
  <2> HIDE DEF On
  <2> QED
    BY <2>2
<1>2. ASSUME NEW k \in 0..h, k # 0, k - 1 \in T
      PROVE  k \in T
  <2>1. PICK g : IsBisect(g, i0, j0, present, k - 1)
    BY <1>2
  <2> DEFINE f == [n \in 0..k |-> IF n = k THEN On(g[k - 1]) ELSE g[n]]
  <2>2. k \in Nat /\ k - 1 \in Nat
    BY <1>2
  <2>3. g = [n \in 0..k - 1 |-> At(g, n)]
    BY <2>1, Zenon DEF IsBisect
  <2> HIDE DEF On
  <2>4. ASSUME NEW n \in 0..k
        PROVE  f[n] = At(f, n)
    <3>1. n # 0 => f[n - 1] = g[n - 1]
      BY <2>2
    <3>2. At(f, n) = At(g, n)
      BY <3>1
    <3>3. CASE n = k
      BY <1>2, <3>2, <3>3
    <3>4. CASE n # k
      <4>1. n \in 0..k - 1
        BY <2>2, <3>4
      <4> QED
        BY <2>3, <3>2, <3>4, <4>1
    <3> QED
      BY <3>3, <3>4
  <2>5. f = [n \in 0..k |-> f[n]]
    OBVIOUS
  <2> HIDE DEF f
  <2>6. f = [n \in 0..k |-> At(f, n)]
    <3> HIDE DEF At
    <3> QED
      BY <2>4, <2>5
  <2>7. IsBisect(f, i0, j0, present, k)
    BY <2>6, Zenon DEF IsBisect, On
  <2> QED
    BY <2>7
<1> HIDE DEF T
<1>3. 0..h \subseteq T
  BY <1>1, <1>2, Induction
<1> QED
  BY <1>3 DEF T

\* After n halvings.
Between(s, i0, j0, present, n) ==
  /\ s = [i |-> s.i, j |-> s.j] /\ s.i \in Nat /\ s.j \in Nat /\ i0 <= s.i /\ s.i < s.j /\ s.j <= j0
  /\ s.i = i0 \/ s.i \in present
  /\ s.j \notin present
  /\ s.j - s.i <= 1 \/ s.j - s.i + n <= j0 - i0

LEMMA BisectIs ==
  ASSUME NEW i0 \in Nat, NEW j0 \in Nat, i0 < j0, NEW present, j0 \notin present
  PROVE  LET r == Bisect(i0, j0, present)
         IN  /\ r \in Nat /\ i0 <= r /\ r < j0
             /\ r = i0 \/ r \in present
             /\ r + 1 \notin present
<1> DEFINE h == j0 - i0
<1>1. h \in Nat /\ h > 0
  OBVIOUS
<1>2. PICK g : IsBisect(g, i0, j0, present, h) /\ Bisect(i0, j0, present) = g[h].i
  <2> DEFINE Is(f) == f = [n \in 0..(j0 - i0) |->
                IF n = 0 THEN [i |-> i0, j |-> j0]
                ELSE LET s == f[n - 1]
                         m == (s.i + s.j) \div 2
                     IN  IF s.j - s.i <= 1 THEN s
                         ELSE IF m \in present THEN [s EXCEPT !.i = m] ELSE [s EXCEPT !.j = m]]
             c == CHOOSE f : Is(f)
  <2>1. Bisect(i0, j0, present) = c[h].i
    BY Zenon DEF Bisect
  <2>2. PICK f : IsBisect(f, i0, j0, present, h)
    BY <1>1, BisectExists
  <2>3. Is(f)
    BY <2>2, Zenon DEF IsBisect
  <2>4. Is(c)
    <3> HIDE DEF Is
    <3> QED
      BY <2>3
  <2>5. IsBisect(c, i0, j0, present, h)
    BY <2>4, Zenon DEF IsBisect
  <2> HIDE DEF c
  <2> QED
    BY <2>1, <2>5
<1>3. Bisect(i0, j0, present) = g[h].i
  BY <1>2
<1> DEFINE T == {n \in 0..h : Between(g[n], i0, j0, present, n)}
<1>4. 0 \in T
  <2>1. g[0] = [i |-> i0, j |-> j0] /\ 0 \in 0..h
    BY <1>1, <1>2 DEF IsBisect
  <2> QED
    BY <2>1 DEF Between
<1>5. ASSUME NEW n \in 0..h, n # 0, n - 1 \in T
      PROVE  n \in T
  <2> DEFINE s == g[n - 1]
             m == (s.i + s.j) \div 2
  <2>1. g[n] = IF s.j - s.i <= 1 THEN s
               ELSE IF m \in present THEN [s EXCEPT !.i = m] ELSE [s EXCEPT !.j = m]
    BY <1>2, <1>5, Zenon DEF IsBisect
  <2>2. Between(s, i0, j0, present, n - 1)
    BY <1>5
  <2> HIDE DEF s
  <2>3. /\ s = [i |-> s.i, j |-> s.j] /\ s.i \in Nat /\ s.j \in Nat /\ i0 <= s.i /\ s.i < s.j /\ s.j <= j0
        /\ s.i = i0 \/ s.i \in present
        /\ s.j \notin present
        /\ s.j - s.i <= 1 \/ s.j - s.i + (n - 1) <= j0 - i0
    BY <2>2 DEF Between
  <2>4. CASE s.j - s.i <= 1
    <3>1. g[n] = s
      BY <2>1, <2>4
    <3> QED
      BY <1>5, <2>3, <2>4, <3>1 DEF Between
  <2>5. CASE ~(s.j - s.i <= 1)
    <3>1. m \in Nat /\ s.i < m /\ m < s.j
      BY <2>3, <2>5
    <3> HIDE DEF m
    <3>2. CASE m \in present
      <4>1. g[n] = [i |-> m, j |-> s.j]
        BY <2>1, <2>3, <2>5, <3>2
      <4>2. s.j - m + n <= j0 - i0
        BY <1>5, <2>3, <2>5, <3>1
      <4> QED
        BY <1>5, <2>3, <3>1, <3>2, <4>1, <4>2 DEF Between
    <3>3. CASE m \notin present
      <4>1. g[n] = [i |-> s.i, j |-> m]
        BY <2>1, <2>3, <2>5, <3>3
      <4>2. m - s.i + n <= j0 - i0
        BY <1>5, <2>3, <2>5, <3>1
      <4> QED
        BY <1>5, <2>3, <3>1, <3>3, <4>1, <4>2 DEF Between
    <3> QED
      BY <3>2, <3>3
  <2> QED
    BY <2>4, <2>5
<1> HIDE DEF T
<1>6. 0..h \subseteq T
  BY <1>1, <1>4, <1>5, Induction
<1>7. Between(g[h], i0, j0, present, h)
  BY <1>1, <1>6 DEF T
<1> DEFINE s == g[h]
<1> HIDE DEF s
<1>8. /\ s.i \in Nat /\ s.j \in Nat /\ i0 <= s.i /\ s.i < s.j /\ s.j <= j0
      /\ s.i = i0 \/ s.i \in present
      /\ s.j \notin present
      /\ s.j - s.i <= 1 \/ s.j - s.i + h <= j0 - i0
  BY <1>7 DEF Between, s
<1>9. s.j = s.i + 1 /\ s.i < j0
  BY <1>1, <1>8
<1>10. Bisect(i0, j0, present) = s.i
  BY <1>3 DEF s
<1> QED
  BY <1>8, <1>9, <1>10

\* The search beyond the array part.
Over(s, j0) == s.i # j0 /\ s.j > MaxInt - 2

IsDoubling(g, t, j0, k) ==
  g = [n \in 0..k |->
         IF n = 0 THEN [i |-> j0, j |-> j0 + 1]
         ELSE LET s == g[n - 1]
              IN  IF Over(s, j0) \/ GetInt(t, s.j) = Nil THEN s ELSE [i |-> s.j, j |-> 2 * s.j]]

LEMMA DoublingExists ==
  ASSUME NEW t, NEW j0, NEW h \in Nat
  PROVE  \E g : IsDoubling(g, t, j0, h)
<1> DEFINE T == {k \in 0..h : \E g : IsDoubling(g, t, j0, k)}
           On(s) == IF Over(s, j0) \/ GetInt(t, s.j) = Nil THEN s ELSE [i |-> s.j, j |-> 2 * s.j]
           At(g, n) == IF n = 0 THEN [i |-> j0, j |-> j0 + 1] ELSE On(g[n - 1])
<1>1. 0 \in T
  <2> DEFINE g == [n \in 0..0 |-> [i |-> j0, j |-> j0 + 1]]
  <2>1. g = [n \in 0..0 |-> At(g, n)]
    OBVIOUS
  <2> HIDE DEF g
  <2>2. IsDoubling(g, t, j0, 0)
    BY <2>1, Zenon DEF IsDoubling
  <2> HIDE DEF On
  <2> QED
    BY <2>2
<1>2. ASSUME NEW k \in 0..h, k # 0, k - 1 \in T
      PROVE  k \in T
  <2>1. PICK g : IsDoubling(g, t, j0, k - 1)
    BY <1>2
  <2> DEFINE f == [n \in 0..k |-> IF n = k THEN On(g[k - 1]) ELSE g[n]]
  <2>2. k \in Nat /\ k - 1 \in Nat
    BY <1>2
  <2>3. g = [n \in 0..k - 1 |-> At(g, n)]
    BY <2>1, Zenon DEF IsDoubling
  <2> HIDE DEF On
  <2>4. ASSUME NEW n \in 0..k
        PROVE  f[n] = At(f, n)
    <3>1. n # 0 => f[n - 1] = g[n - 1]
      BY <2>2
    <3>2. At(f, n) = At(g, n)
      BY <3>1
    <3>3. CASE n = k
      BY <1>2, <3>2, <3>3
    <3>4. CASE n # k
      <4>1. n \in 0..k - 1
        BY <2>2, <3>4
      <4> QED
        BY <2>3, <3>2, <3>4, <4>1
    <3> QED
      BY <3>3, <3>4
  <2>5. f = [n \in 0..k |-> f[n]]
    OBVIOUS
  <2> HIDE DEF f
  <2>6. f = [n \in 0..k |-> At(f, n)]
    <3> HIDE DEF At
    <3> QED
      BY <2>4, <2>5
  <2>7. IsDoubling(f, t, j0, k)
    BY <2>6, Zenon DEF IsDoubling, On
  <2> QED
    BY <2>7
<1> HIDE DEF T
<1>3. 0..h \subseteq T
  BY <1>1, <1>2, Induction
<1> QED
  BY <1>3 DEF T

UpTo(t, b) == {m \in Ints(t) : m <= b}

LEMMA UpToGrows ==
  ASSUME HashOK, NEW t, TableOK(t), NEW a \in Nat, NEW b \in Ints(t), a < b
  PROVE  /\ Cardinality(UpTo(t, a)) \in Nat /\ Cardinality(UpTo(t, b)) \in Nat
         /\ Cardinality(UpTo(t, b)) >= Cardinality(UpTo(t, a)) + 1
         /\ Cardinality(UpTo(t, b)) <= Asize(t) + Hmask(t) + 1
<1>1. /\ IsFiniteSet(Ints(t)) /\ Cardinality(Ints(t)) \in Nat
      /\ Cardinality(Ints(t)) <= Asize(t) + Hmask(t) + 1
      /\ Ints(t) \subseteq Nat /\ Asize(t) \in Nat /\ Hmask(t) \in Nat
  BY IntsFinite, IntsAre, SlotsLen
<1>2. UpTo(t, a) \in SUBSET Ints(t) /\ UpTo(t, b) \in SUBSET Ints(t)
  BY DEF UpTo
<1>3. /\ IsFiniteSet(UpTo(t, a)) /\ Cardinality(UpTo(t, a)) \in Nat
      /\ IsFiniteSet(UpTo(t, b)) /\ Cardinality(UpTo(t, b)) \in Nat
      /\ Cardinality(UpTo(t, b)) <= Cardinality(Ints(t))
  BY <1>1, <1>2, FS_Subset, FS_CardinalityType
<1>4. b \notin UpTo(t, a) /\ UpTo(t, a) \cup {b} \in SUBSET UpTo(t, b)
  BY <1>1 DEF UpTo
<1>5. Cardinality(UpTo(t, a) \cup {b}) = Cardinality(UpTo(t, a)) + 1
  BY <1>3, <1>4, FS_AddElement
<1>6. Cardinality(UpTo(t, a) \cup {b}) <= Cardinality(UpTo(t, b))
  BY <1>3, <1>4, FS_Subset
<1> QED
  BY <1>1, <1>3, <1>5, <1>6

\* After n doublings: each that went on has found one value more.
Doubled(s, t, j0, n) ==
  /\ s.i \in Nat /\ s.j \in Nat /\ s.i < s.j
  /\ s.i = j0 \/ s.i \in Ints(t)
  /\ Over(s, j0) \/ s.j \notin Ints(t) \/ Cardinality(UpTo(t, s.j)) >= n + 1

LEMMA DoublingEnds ==
  ASSUME HashOK, NEW t, TableOK(t), NEW j0 \in Nat, NEW size, size = Asize(t) + Hmask(t) + 1,
         NEW g, IsDoubling(g, t, j0, size)
  PROVE  LET s == g[size]
         IN  /\ s.i \in Nat /\ s.j \in Nat /\ s.i < s.j
             /\ s.i = j0 \/ s.i \in Ints(t)
             /\ Over(s, j0) \/ s.j \notin Ints(t)
<1>1. size \in Nat
  BY SlotsLen
<1>2. /\ Ints(t) \subseteq Nat
      /\ \A m : GetInt(t, m) # Nil <=> m \in Ints(t)
  BY IntsAre
<1> DEFINE T == {n \in 0..size : Doubled(g[n], t, j0, n)}
<1>3. 0 \in T
  <2>1. g[0] = [i |-> j0, j |-> j0 + 1] /\ 0 \in 0..size
    BY <1>1 DEF IsDoubling
  <2>2. j0 + 1 \in Ints(t) => Cardinality(UpTo(t, j0 + 1)) >= 0 + 1
    <3> SUFFICES ASSUME j0 + 1 \in Ints(t)
                 PROVE  Cardinality(UpTo(t, j0 + 1)) >= 1
      OBVIOUS
    <3>1. /\ Cardinality(UpTo(t, j0)) \in Nat /\ Cardinality(UpTo(t, j0 + 1)) \in Nat
          /\ Cardinality(UpTo(t, j0 + 1)) >= Cardinality(UpTo(t, j0)) + 1
      BY UpToGrows
    <3> QED
      BY <3>1
  <2> QED
    BY <2>1, <2>2 DEF Doubled
<1>4. ASSUME NEW n \in 0..size, n # 0, n - 1 \in T
      PROVE  n \in T
  <2> DEFINE s == g[n - 1]
  <2>1. g[n] = IF Over(s, j0) \/ GetInt(t, s.j) = Nil THEN s ELSE [i |-> s.j, j |-> 2 * s.j]
    BY <1>4, Zenon DEF IsDoubling
  <2>2. Doubled(s, t, j0, n - 1)
    BY <1>4
  <2> HIDE DEF s
  <2>3. CASE Over(s, j0) \/ GetInt(t, s.j) = Nil
    <3>1. g[n] = s /\ (Over(s, j0) \/ s.j \notin Ints(t))
      BY <1>2, <2>1, <2>3
    <3>2. Doubled(s, t, j0, n)
      BY <2>2, <3>1 DEF Doubled
    <3> QED
      BY <1>4, <3>1, <3>2
  <2>4. CASE ~Over(s, j0) /\ GetInt(t, s.j) # Nil
    <3>1. g[n] = [i |-> s.j, j |-> 2 * s.j] /\ s.j \in Ints(t)
      BY <1>2, <2>1, <2>4
    <3>2. s.i \in Nat /\ s.j \in Nat /\ s.i < s.j /\ Cardinality(UpTo(t, s.j)) >= (n - 1) + 1
      BY <2>2, <2>4, <3>1 DEF Doubled
    <3>3. 2 * s.j \in Nat /\ s.j < 2 * s.j
      BY <3>2
    <3>4. 2 * s.j \in Ints(t) => Cardinality(UpTo(t, 2 * s.j)) >= n + 1
      <4> SUFFICES ASSUME 2 * s.j \in Ints(t)
                   PROVE  Cardinality(UpTo(t, 2 * s.j)) >= n + 1
        OBVIOUS
      <4>1. /\ Cardinality(UpTo(t, s.j)) \in Nat /\ Cardinality(UpTo(t, 2 * s.j)) \in Nat
            /\ Cardinality(UpTo(t, 2 * s.j)) >= Cardinality(UpTo(t, s.j)) + 1
        BY <3>2, <3>3, UpToGrows
      <4>2. n \in Nat
        BY <1>4
      <4> QED
        BY <3>2, <4>1, <4>2
    <3>5. Doubled([i |-> s.j, j |-> 2 * s.j], t, j0, n)
      BY <3>1, <3>2, <3>3, <3>4 DEF Doubled
    <3> QED
      BY <1>4, <3>1, <3>5
  <2> QED
    BY <2>3, <2>4
<1> HIDE DEF T
<1>5. 0..size \subseteq T
  BY <1>1, <1>3, <1>4, Induction
<1>6. Doubled(g[size], t, j0, size)
  BY <1>1, <1>5 DEF T
<1> DEFINE s == g[size]
<1> HIDE DEF s
<1>7. s.j \in Ints(t) => ~(Cardinality(UpTo(t, s.j)) >= size + 1)
  <2> SUFFICES ASSUME s.j \in Ints(t)
               PROVE  ~(Cardinality(UpTo(t, s.j)) >= size + 1)
    OBVIOUS
  <2>1. s.i \in Nat /\ s.i < s.j
    BY <1>6 DEF Doubled, s
  <2>2. Cardinality(UpTo(t, s.j)) \in Nat /\ Cardinality(UpTo(t, s.j)) <= size
    BY <2>1, UpToGrows
  <2> QED
    BY <1>1, <2>2
<1> QED
  BY <1>6, <1>7 DEF Doubled, s

\* Some integer after 0 and up to one more than the slots has no value.
LEMMA SomeIntIsNil ==
  ASSUME HashOK, NEW t, TableOK(t), NEW size, size = Asize(t) + Hmask(t) + 1
  PROVE  LET S == {i \in 1..size + 1 : GetInt(t, i) = Nil}
         IN  Min(S) \in S /\ \A i \in S : Min(S) <= i
<1> DEFINE S == {i \in 1..size + 1 : GetInt(t, i) = Nil}
<1>1. size \in Nat
  BY SlotsLen
<1>2. S # {}
  <2> SUFFICES ASSUME S = {}
               PROVE  FALSE
    OBVIOUS
  <2>1. 1..size + 1 \in SUBSET Ints(t)
    BY IntsAre
  <2>2. /\ IsFiniteSet(Ints(t)) /\ Cardinality(Ints(t)) \in Nat
        /\ Cardinality(Ints(t)) <= size
    BY IntsFinite
  <2>3. Cardinality(1..size + 1) <= Cardinality(Ints(t))
    BY <2>1, <2>2, FS_Subset
  <2>4. Cardinality(1..size + 1) = size + 1
    BY <1>1, FS_Interval
  <2>5. Cardinality(1..size + 1) \in Nat
    BY <1>1, <2>4
  <2> QED
    BY <1>1, <2>2, <2>3, <2>4, <2>5
<1>3. S \in SUBSET Nat
  BY <1>1
<1> HIDE DEF S
<1>4. Min(S) \in S /\ \A i \in S : Min(S) <= i
  BY <1>2, <1>3, MinProperties
<1> QED
  BY <1>4 DEF S

LEMMA UnboundIs ==
  ASSUME HashOK, NEW t, TableOK(t), NEW j0 \in Nat, j0 = 0 \/ j0 \in Ints(t)
  PROVE  LET r == UnboundSearch(t, j0)
         IN  r \in Nat /\ (r = 0 \/ r \in Ints(t)) /\ r + 1 \notin Ints(t)
<1> DEFINE size == Asize(t) + Hmask(t) + 1
<1>1. size \in Nat
  BY SlotsLen
<1>2. /\ Ints(t) \subseteq Nat
      /\ \A m : GetInt(t, m) # Nil <=> m \in Ints(t)
  BY IntsAre
<1> DEFINE S == {i \in 1..size + 1 : GetInt(t, i) = Nil}
<1>3. PICK g : /\ IsDoubling(g, t, j0, size)
               /\ UnboundSearch(t, j0) = IF Over(g[size], j0) THEN Min(S) - 1
                                         ELSE Bisect(g[size].i, g[size].j, Ints(t))
  <2> DEFINE Is(f) == f = [n \in 0..size |->
                IF n = 0 THEN [i |-> j0, j |-> j0 + 1]
                ELSE LET s == f[n - 1]
                     IN  IF (s.i # j0 /\ s.j > MaxInt - 2) \/ GetInt(t, s.j) = Nil THEN s
                         ELSE [i |-> s.j, j |-> 2 * s.j]]
             c == CHOOSE f : Is(f)
  <2>1. UnboundSearch(t, j0) = IF c[size].i # j0 /\ c[size].j > MaxInt - 2 THEN Min(S) - 1
                               ELSE Bisect(c[size].i, c[size].j, {m \in Num : GetInt(t, m) # Nil})
    BY Zenon DEF UnboundSearch
  <2>2. PICK f : IsDoubling(f, t, j0, size)
    BY <1>1, DoublingExists
  <2>3. Is(f)
    BY <2>2, Zenon DEF IsDoubling, Over
  <2>4. Is(c)
    <3> HIDE DEF Is
    <3> QED
      BY <2>3
  <2>5. IsDoubling(c, t, j0, size)
    BY <2>4, Zenon DEF IsDoubling, Over
  <2> HIDE DEF c
  <2>6. UnboundSearch(t, j0) = IF Over(c[size], j0) THEN Min(S) - 1
                               ELSE Bisect(c[size].i, c[size].j, Ints(t))
    BY <2>1, Zenon DEF Over, Ints
  <2> HIDE DEF S, size, Is
  <2> QED
    BY <2>5, <2>6
<1> DEFINE s == g[size]
<1>4. /\ s.i \in Nat /\ s.j \in Nat /\ s.i < s.j
      /\ s.i = j0 \/ s.i \in Ints(t)
      /\ Over(s, j0) \/ s.j \notin Ints(t)
  BY <1>3, DoublingEnds
<1>5. Min(S) \in S /\ \A i \in S : Min(S) <= i
  BY SomeIntIsNil
<1>6. UnboundSearch(t, j0) = IF Over(s, j0) THEN Min(S) - 1 ELSE Bisect(s.i, s.j, Ints(t))
  BY <1>3
<1> HIDE DEF s
<1>7. CASE Over(s, j0)
  <2> DEFINE m == Min(S)
  <2>1. m \in 1..size + 1 /\ GetInt(t, m) = Nil
    BY <1>5
  <2>2. \A i \in 1..size + 1 : i < m => i \in Ints(t)
    <3> SUFFICES ASSUME NEW i \in 1..size + 1, i < m
                 PROVE  i \in Ints(t)
      OBVIOUS
    <3>1. i \notin S
      <4> HIDE DEF S
      <4>1. i \in S => m <= i
        BY <1>5
      <4>2. i \in Nat /\ m \in Nat
        BY <1>1, <2>1
      <4> QED
        BY <4>1, <4>2
    <3> QED
      BY <1>2, <3>1
  <2>3. UnboundSearch(t, j0) = m - 1
    BY <1>6, <1>7
  <2> HIDE DEF m
  <2>4. m \in Nat /\ m >= 1 /\ m <= size + 1
    BY <1>1, <2>1
  <2>5. m - 1 \in Nat /\ (m - 1) + 1 = m /\ m \notin Ints(t)
    BY <1>2, <2>1, <2>4
  <2>6. m - 1 = 0 \/ m - 1 \in Ints(t)
    BY <1>1, <2>2, <2>4
  <2> QED
    BY <2>3, <2>5, <2>6
<1>8. CASE ~Over(s, j0)
  <2>1. UnboundSearch(t, j0) = Bisect(s.i, s.j, Ints(t)) /\ s.j \notin Ints(t)
    BY <1>4, <1>6, <1>8
  <2> DEFINE r == Bisect(s.i, s.j, Ints(t))
  <2>2. r \in Nat /\ (r = s.i \/ r \in Ints(t)) /\ r + 1 \notin Ints(t)
    BY <1>4, <2>1, BisectIs
  <2> QED
    BY <1>4, <2>1, <2>2
<1> QED
  BY <1>7, <1>8

LEMMA TabLenIs ==
  ASSUME HashOK, NEW t, TableOK(t), NilnodeEmpty(t)
  PROVE  LET n == TabLen(t)
         IN  n \in Nat /\ (n = 0 \/ n \in Ints(t)) /\ n + 1 \notin Ints(t)
<1> DEFINE j == Asize(t)
<1>1. j \in Nat /\ DOMAIN t.array = 1..j
  BY DEF TableOK, Asize
<1>2. /\ Ints(t) \subseteq Num /\ Ints(t) \subseteq Nat
      /\ \A m : GetInt(t, m) # Nil <=> m \in Ints(t)
      /\ \A m \in Num : m < j => GetInt(t, m) = t.array[m + 1]
  BY IntsAre
<1>3. \A m \in 1..j : t.array[m] # Nil <=> m - 1 \in Ints(t)
  <2> SUFFICES ASSUME NEW m \in 1..j
               PROVE  t.array[m] # Nil <=> m - 1 \in Ints(t)
    OBVIOUS
  <2>1. t.array[m] # Nil => m - 1 \in Num
    BY <1>1 DEF TableOK
  <2>2. m - 1 \in Num => GetInt(t, m - 1) = t.array[m]
    <3>1. m - 1 < j /\ (m - 1) + 1 = m
      BY <1>1
    <3> QED
      BY <1>2, <3>1
  <2> QED
    BY <1>2, <2>1, <2>2
<1>4. CASE j > 1 /\ t.array[j] = Nil
  <2> DEFINE present == {m \in 1..j : t.array[m] # Nil}
             r == Bisect(1, j, present)
  <2>1. TabLen(t) = r - 1
    BY <1>4 DEF TabLen
  <2>2. j \notin present
    BY <1>4
  <2>3. r \in Nat /\ 1 <= r /\ r < j /\ (r = 1 \/ r \in present) /\ r + 1 \notin present
    <3> HIDE DEF present
    <3> QED
      BY <1>1, <1>4, <2>2, BisectIs
  <2> HIDE DEF r
  <2>4. r \in 1..j /\ r + 1 \in 1..j /\ r - 1 \in Nat /\ (r - 1) + 1 = r /\ (r + 1) - 1 = r
    BY <1>1, <2>3
  <2>5. r \in present => r - 1 \in Ints(t)
    BY <1>3, <2>4
  <2>6. r \notin Ints(t)
    BY <1>3, <2>3, <2>4
  <2>7. r - 1 = 0 \/ r - 1 \in Ints(t)
    BY <2>3, <2>5
  <2> QED
    BY <2>1, <2>4, <2>6, <2>7
<1>5. CASE ~(j > 1 /\ t.array[j] = Nil)
  <2> DEFINE j0 == IF j = 0 THEN 0 ELSE j - 1
  <2>1. j0 \in Nat /\ (j0 = 0 \/ j0 \in Ints(t))
    <3>1. CASE j <= 1
      BY <1>1, <3>1
    <3>2. CASE j > 1
      <4>1. j \in 1..j /\ t.array[j] # Nil
        BY <1>1, <1>5, <3>2
      <4>2. j - 1 \in Ints(t)
        BY <1>3, <4>1
      <4> QED
        BY <1>1, <3>2, <4>2
    <3> QED
      BY <1>1, <3>1, <3>2
  <2>2. CASE Hmask(t) = 0
    <3>1. TabLen(t) = j0
      BY <1>5, <2>2 DEF TabLen
    <3>2. j0 + 1 \notin Ints(t)
      <4> SUFFICES ASSUME j0 + 1 \in Ints(t)
                   PROVE  FALSE
        OBVIOUS
      <4> DEFINE k == j0 + 1
      <4>1. k \in Num /\ k \in Key /\ k >= j /\ k \in Nat /\ k # Nil
        BY <1>1, <1>2, TableAssumption DEF Key
      <4> HIDE DEF k
      <4>2. Get(t, k) # Nil
        BY <4>1 DEF k, Ints, GetInt
      <4>3. ~InArray(t, k)
        BY <1>1, <4>1 DEF InArray
      <4>4. FindNode(t, k) # Nil
        BY <4>2, <4>3 DEF Get
      <4>5. FindNode(t, k) \in DOMAIN t.node /\ t.node[FindNode(t, k)].key = k
        BY <4>1, <4>4, FindNodeType
      <4>6. DOMAIN t.node = 0..0
        BY <2>2 DEF TableOK
      <4>7. t.node[0].key = Nil
        BY <2>2 DEF NilnodeEmpty
      <4> QED
        BY <4>1, <4>5, <4>6, <4>7
    <3> QED
      BY <2>1, <3>1, <3>2
  <2>3. CASE Hmask(t) # 0
    <3>1. TabLen(t) = UnboundSearch(t, j0)
      BY <1>5, <2>3 DEF TabLen
    <3> HIDE DEF j0
    <3> QED
      BY <2>1, <3>1, UnboundIs
  <2> QED
    BY <2>2, <2>3
<1> QED
  BY <1>4, <1>5

(***************************************************************************)
(* The length operator returns a border of the list, whatever mix of array *)
(* and hash parts it is in, also once addresses of strings are used again: *)
(* lj_tab_len and unbound_search, with the overflow of the doubling.       *)
(***************************************************************************)
THEOREM LengthsAreBorders == Spec => []LengthIsBorder
<1>1. LengthInv => LengthIsBorder
  <2> SUFFICES ASSUME LengthInv
               PROVE  LengthIsBorder
    OBVIOUS
  <2>1. HashOK /\ TableOK(tab) /\ NilnodeEmpty(tab)
    BY DEF LengthInv, TypeInv
  <2> DEFINE n == TabLen(tab)
  <2>2. (n = 0 \/ n \in Ints(tab)) /\ n + 1 \notin Ints(tab)
    BY <2>1, TabLenIs
  <2>3. \A m : GetInt(tab, m) # Nil <=> m \in Ints(tab)
    BY <2>1, IntsAre
  <2> QED
    BY <2>2, <2>3 DEF LengthIsBorder
<1> QED
  BY <1>1, LengthInvAlways, PTL

===============================================================================
