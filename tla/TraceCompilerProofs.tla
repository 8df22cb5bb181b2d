-------------------------- MODULE TraceCompilerProofs --------------------------
(***************************************************************************)
(* The links between traces, bytecode and chains, for every program.       *)
(***************************************************************************)
EXTENDS TraceCompiler, FiniteSetTheorems, WellFoundedInduction, TLAPS
-------------------------------------------------------------------------------
(* Lists of trace numbers, what is reached along links, and the largest    *)
(* trace number.                                                           *)

\* A set of numbers has a least one: the form in which induction is used here.
LEMMA Least ==
  ASSUME NEW T \in SUBSET Nat, T # {}
  PROVE  \E x \in T : \A y \in T : x <= y
<1> DEFINE R == OpToRel(<, Nat)
<1>1. IsWellFoundedOn(R, Nat)
  BY NatLessThanWellFounded
<1>2. \A x, y \in Nat : x < y => <<x, y>> \in R
  BY DEF OpToRel
<1> HIDE DEF R
<1>3. \E x \in T : \A y \in T : <<y, x>> \notin R
  BY <1>1, WFMin, Zenon
<1>4. ASSUME NEW x \in T, \A y \in T : <<y, x>> \notin R, NEW y \in T
      PROVE  x <= y
  <2>1. x \in Nat /\ y \in Nat
    OBVIOUS
  <2>2. ~(y < x)
    BY <2>1, <1>2, <1>4, Zenon
  <2> QED
    BY <2>1, <2>2
<1> QED
  BY <1>3, <1>4

\* Induction: a set of numbers with 0 and every successor up to m.
LEMMA Induction ==
  ASSUME NEW m \in Nat, NEW T, 0 \in T, \A i \in 0..m : i # 0 /\ i - 1 \in T => i \in T
  PROVE  0..m \subseteq T
<1> SUFFICES ASSUME (0..m) \ T # {}
             PROVE  FALSE
  OBVIOUS
<1>1. PICK i \in (0..m) \ T : \A a \in (0..m) \ T : i <= a
  <2>1. (0..m) \ T \in SUBSET Nat
    OBVIOUS
  <2> QED
    BY <2>1, Least
<1> QED
  BY <1>1

\* A recursive function exists: m steps in a set S that the steps do not leave.
Steps(m, S) == [1..m -> [S -> S]]
IsRun(g, m, S, a, F) == g \in [0..m -> S] /\ g[0] = a /\ \A i \in 1..m : g[i] = F[i][g[i - 1]]
LEMMA Recursion ==
  ASSUME NEW m \in Nat, NEW S, NEW a \in S, NEW F \in Steps(m, S)
  PROVE  \E g : IsRun(g, m, S, a, F)
<1> DEFINE T == {n \in 0..m : \E g \in [0..n -> S] : g[0] = a /\ \A i \in 1..n : g[i] = F[i][g[i - 1]]}
<1>1. 0 \in T
  <2> DEFINE g == [i \in 0..0 |-> a]
  <2>1. g \in [0..0 -> S] /\ g[0] = a /\ \A i \in 1..0 : g[i] = F[i][g[i - 1]]
    OBVIOUS
  <2> HIDE DEF g
  <2>2. 0 \in 0..m
    OBVIOUS
  <2> QED
    BY <2>1, <2>2
<1>2. ASSUME NEW n \in 0..m, n # 0, n - 1 \in T
      PROVE  n \in T
  <2>1. PICK g \in [0..n - 1 -> S] : g[0] = a /\ \A i \in 1..n - 1 : g[i] = F[i][g[i - 1]]
    BY <1>2
  <2> DEFINE h == [i \in 0..n |-> IF i = n THEN F[n][g[n - 1]] ELSE g[i]]
  <2>2. n \in 1..m /\ g[n - 1] \in S
    BY <1>2, <2>1
  <2>3. F[n][g[n - 1]] \in S
    BY <2>2 DEF Steps
  <2>4. \A i \in 0..n : i # n => i \in 0..n - 1
    BY <1>2
  <2>5. h \in [0..n -> S]
    BY <2>1, <2>3, <2>4
  <2>6. h[0] = a
    BY <1>2, <2>1
  <2>7. ASSUME NEW i \in 1..n
        PROVE  h[i] = F[i][h[i - 1]]
    <3>1. i \in 0..n /\ i - 1 \in 0..n /\ i - 1 # n /\ (i # n => i \in 1..n - 1)
      BY <1>2
    <3> QED
      BY <2>1, <3>1
  <2> HIDE DEF h
  <2> QED
    BY <1>2, <2>5, <2>6, <2>7
<1>3. m \in T
  <2> HIDE DEF T
  <2>1. 0..m \subseteq T
    BY <1>1, <1>2, Induction
  <2> QED
    BY <2>1
<1> QED
  BY <1>3 DEF IsRun

\* There is a largest trace number.
LEMMA MaxTraceType == MaxTrace \in Nat \ {0} /\ \A prog \in Program : prog.maxtrace \in 1..MaxTrace
<1> DEFINE S == {prog.maxtrace : prog \in Program}
<1>1. S \in SUBSET (Nat \ {0}) /\ S # {}
  BY CompilerAssumption
<1>2. PICK n \in Nat : ExistsSurjection(1..n, Program)
  BY CompilerAssumption, FS_NatSurjection
<1>3. PICK f \in [1..n -> Program] : \A prog \in Program : \E i \in 1..n : f[i] = prog
  BY <1>2 DEF ExistsSurjection, Surjection
<1> DEFINE T == {m \in 0..n : \E b \in Nat : \A i \in 1..m : f[i].maxtrace <= b}
<1>4. 0 \in T
  BY <1>2
<1>5. ASSUME NEW m \in 0..n, m # 0, m - 1 \in T
      PROVE  m \in T
  <2>1. PICK b \in Nat : \A i \in 1..m - 1 : f[i].maxtrace <= b
    BY <1>5
  <2>2. f[m].maxtrace \in Nat
    BY <1>1, <1>2, <1>3, <1>5
  <2>3. \A i \in 1..m : f[i].maxtrace <= (IF f[m].maxtrace > b THEN f[m].maxtrace ELSE b)
    <3> SUFFICES ASSUME NEW i \in 1..m
                 PROVE  f[i].maxtrace <= (IF f[m].maxtrace > b THEN f[m].maxtrace ELSE b)
      OBVIOUS
    <3>1. i = m \/ i \in 1..m - 1
      OBVIOUS
    <3>2. f[i].maxtrace \in Nat
      BY <1>1, <1>2, <1>3, <1>5
    <3> QED
      BY <2>1, <2>2, <3>1, <3>2
  <2> QED
    BY <2>2, <2>3
<1> HIDE DEF T
<1>6. n \in T
  BY <1>2, <1>4, <1>5, Induction
<1>7. PICK b \in Nat : \A x \in S : x <= b
  BY <1>2, <1>3, <1>6 DEF T
<1> DEFINE B == {b0 \in Nat : \A x \in S : x <= b0}
<1>8. PICK u \in B : \A b0 \in B : u <= b0
  <2>1. B \in SUBSET Nat /\ B # {}
    BY <1>7
  <2> QED
    BY <2>1, Least
<1>9. u \in S
  <2> SUFFICES ASSUME u \notin S
               PROVE  FALSE
    OBVIOUS
  <2>1. u \in Nat /\ \A x \in S : x \in Nat \ {0} /\ x <= u /\ x # u
    BY <1>1, <1>8
  <2> HIDE DEF S
  <2>2. PICK z \in S : TRUE
    BY <1>1
  <2>3. u - 1 \in Nat /\ \A x \in S : x <= u - 1
    BY <2>1, <2>2
  <2> USE DEF S
  <2>4. u - 1 \in B
    BY <1>1, <2>3
  <2> QED
    BY <1>8, <2>4
<1>10. \A x \in S : u >= x
  BY <1>1, <1>8
<1>11. MaxTrace \in S /\ \A x \in S : MaxTrace >= x
  BY <1>9, <1>10 DEF MaxTrace, Max
<1> QED
  BY <1>1, <1>11
-------------------------------------------------------------------------------
(* Lists.                                                                  *)

\* The list that begins at "first" and goes on along "next".
IsList(next, first, s, k) ==
  /\ s \in [1..k -> TraceNo]
  /\ \A a, b \in 1..k : s[a] = s[b] => a = b
  /\ first = IF k = 0 THEN 0 ELSE s[1]
  /\ \A a \in 1..k : next[s[a]] = IF a = k THEN 0 ELSE s[a + 1]

\* The numbers in it, each once.
ListOf(next, first, set) ==
  \E k \in 0..MaxTrace : \E s \in [1..k -> TraceNo] :
    IsList(next, first, s, k) /\ {s[a] : a \in 1..k} = set

\* A list without repetition is not longer than there are numbers.
LEMMA ListLength ==
  ASSUME NEW k \in Nat, NEW s \in [1..k -> TraceNo], \A a, b \in 1..k : s[a] = s[b] => a = b
  PROVE  k <= MaxTrace
<1>1. /\ IsFiniteSet(1..k) /\ Cardinality(1..k) = k
      /\ IsFiniteSet(TraceNo) /\ Cardinality(TraceNo) = MaxTrace
  BY FS_Interval, MaxTraceType DEF TraceNo
<1>2. ~(Cardinality(TraceNo) < Cardinality(1..k))
  BY <1>1, FS_PigeonHole
<1> QED
  BY <1>1, <1>2, MaxTraceType

LEMMA ListFacts ==
  ASSUME NEW next, NEW first, NEW set, ListOf(next, first, set)
  PROVE  /\ set \subseteq TraceNo
         /\ first \in {0} \cup set /\ (first = 0 <=> set = {})
         /\ \A n \in set : next[n] \in {0} \cup set
         /\ \A n \in set : next[n] # first
         /\ \A m, n \in set : next[m] = next[n] /\ next[m] # 0 => m = n
<1>1. PICK k \in 0..MaxTrace : \E s \in [1..k -> TraceNo] :
        IsList(next, first, s, k) /\ {s[a] : a \in 1..k} = set
  BY DEF ListOf
<1>2. PICK s \in [1..k -> TraceNo] : IsList(next, first, s, k) /\ {s[a] : a \in 1..k} = set
  BY <1>1
<1>3. k \in Nat /\ 0 \notin TraceNo
  BY MaxTraceType DEF TraceNo
<1>4. set \subseteq TraceNo
  BY <1>2
<1>5. first \in {0} \cup set /\ (first = 0 <=> set = {})
  BY <1>2, <1>3 DEF IsList
<1>6. ASSUME NEW a \in 1..k
      PROVE  next[s[a]] = (IF a = k THEN 0 ELSE s[a + 1]) /\ (a # k => a + 1 \in 1..k /\ a + 1 # 1)
  BY <1>2, <1>3 DEF IsList
<1>7. \A n \in set : next[n] \in {0} \cup set
  BY <1>2, <1>6
<1>8. ASSUME NEW n \in set
      PROVE  next[n] # first
  <2>1. PICK a \in 1..k : n = s[a]
    BY <1>2
  <2>2. k # 0 /\ 1 \in 1..k /\ first = s[1]
    BY <1>2, <1>3 DEF IsList
  <2>3. s[1] # 0
    BY <1>3, <2>2
  <2> QED
    BY <1>2, <1>6, <2>1, <2>2, <2>3 DEF IsList
<1>9. ASSUME NEW m \in set, NEW n \in set, next[m] = next[n], next[m] # 0
      PROVE  m = n
  <2>1. PICK a \in 1..k, b \in 1..k : m = s[a] /\ n = s[b]
    BY <1>2
  <2>2. a # k /\ b # k /\ s[a + 1] = s[b + 1] /\ a + 1 \in 1..k /\ b + 1 \in 1..k
    BY <1>6, <1>9, <2>1
  <2>3. a + 1 = b + 1
    BY <1>2, <2>2 DEF IsList
  <2> QED
    BY <2>1, <2>3
<1> QED
  BY <1>4, <1>5, <1>7, <1>8, <1>9

\* A list is what is met along its links.
LEMMA AlongList ==
  ASSUME NEW next, NEW first, NEW set, ListOf(next, first, set)
  PROVE  Along(next, first) = set
<1> DEFINE F(k) == IF k = 0 THEN 0 ELSE next[k]
           step[i \in 0..MaxTrace] ==
             IF i = 0 THEN first ELSE LET k == step[i - 1] IN IF k = 0 THEN 0 ELSE next[k]
<1>1. PICK k \in 0..MaxTrace : \E s \in [1..k -> TraceNo] :
        IsList(next, first, s, k) /\ {s[a] : a \in 1..k} = set
  BY DEF ListOf
<1>2. PICK s \in [1..k -> TraceNo] : IsList(next, first, s, k) /\ {s[a] : a \in 1..k} = set
  BY <1>1
<1>3. k \in Nat /\ MaxTrace \in Nat /\ 0 \notin TraceNo
  BY MaxTraceType DEF TraceNo
<1> DEFINE at == [i \in 0..MaxTrace |-> IF i < k THEN s[i + 1] ELSE 0]
<1>4. \A i \in 0..MaxTrace :
        at[i] = IF i = 0 THEN first ELSE LET n == at[i - 1] IN IF n = 0 THEN 0 ELSE next[n]
  <2> SUFFICES ASSUME NEW i \in 0..MaxTrace
               PROVE  at[i] = IF i = 0 THEN first ELSE LET n == at[i - 1] IN IF n = 0 THEN 0 ELSE next[n]
    OBVIOUS
  <2>1. CASE i = 0
    BY <1>2, <1>3, <2>1 DEF IsList
  <2>2. CASE i # 0 /\ i - 1 < k
    <3>1. i \in 1..k /\ at[i - 1] = s[i] /\ s[i] # 0
      BY <1>3, <2>2
    <3>2. next[s[i]] = IF i = k THEN 0 ELSE s[i + 1]
      BY <1>2, <3>1 DEF IsList
    <3> QED
      BY <1>3, <2>2, <3>1, <3>2
  <2>3. CASE i # 0 /\ ~(i - 1 < k)
    BY <1>3, <2>3
  <2> QED
    BY <2>1, <2>2, <2>3
<1>5. at = [i \in 0..MaxTrace |->
              IF i = 0 THEN first ELSE LET n == at[i - 1] IN IF n = 0 THEN 0 ELSE next[n]]
  BY <1>4
<1>6. step = [i \in 0..MaxTrace |->
              IF i = 0 THEN first ELSE LET n == step[i - 1] IN IF n = 0 THEN 0 ELSE next[n]]
  <2> HIDE DEF at
  <2> QED
    BY <1>5
<1> HIDE DEF step
<1>7. 0..MaxTrace \subseteq {i \in 0..MaxTrace : step[i] = at[i]}
  <2> DEFINE T == {i \in 0..MaxTrace : step[i] = at[i]}
  <2> HIDE DEF at
  <2>1. 0 \in T
    BY <1>3, <1>5, <1>6
  <2>2. ASSUME NEW i \in 0..MaxTrace, i # 0, i - 1 \in T
        PROVE  i \in T
    <3>1. step[i] = IF step[i - 1] = 0 THEN 0 ELSE next[step[i - 1]]
      BY <1>6, <2>2
    <3>2. at[i] = IF at[i - 1] = 0 THEN 0 ELSE next[at[i - 1]]
      BY <1>5, <2>2
    <3> QED
      BY <2>2, <3>1, <3>2
  <2> HIDE DEF T
  <2> QED
    BY <1>3, <2>1, <2>2, Induction DEF T
<1>8. Along(next, first) = {step[i] : i \in 0..MaxTrace} \ {0}
  BY DEF Along, step
<1>9. {at[i] : i \in 0..MaxTrace} \ {0} = set
  <2>1. ASSUME NEW i \in 0..MaxTrace, at[i] # 0
        PROVE  at[i] \in set
    <3>1. i < k /\ i + 1 \in 1..k
      BY <1>3, <2>1
    <3> QED
      BY <1>2, <3>1
  <2>2. ASSUME NEW n \in set
        PROVE  \E i \in 0..MaxTrace : at[i] = n
    <3>1. PICK a \in 1..k : n = s[a]
      BY <1>2
    <3>2. a - 1 \in 0..MaxTrace /\ a - 1 < k /\ (a - 1) + 1 = a
      BY <1>3, <3>1
    <3> QED
      BY <3>1, <3>2
  <2>3. 0 \notin set
    BY <1>2, <1>3
  <2> HIDE DEF at
  <2> QED
    BY <2>1, <2>2, <2>3
<1> QED
  BY <1>7, <1>8, <1>9

\* The empty list.
LEMMA EmptyList ==
  ASSUME NEW next
  PROVE  ListOf(next, 0, {})
<1> DEFINE s == [a \in 1..0 |-> 0]
<1>1. s \in [1..0 -> TraceNo] /\ IsList(next, 0, s, 0) /\ {s[a] : a \in 1..0} = {}
  BY DEF IsList
<1>2. 0 \in 0..MaxTrace
  BY MaxTraceType
<1> QED
  BY <1>1, <1>2 DEF ListOf

\* Whatever has the first of a list and follows its links has all of it.
LEMMA ListInside ==
  ASSUME NEW next, NEW first, NEW set, ListOf(next, first, set),
         NEW S, first # 0 => first \in S, \A n \in set \cap S : next[n] # 0 => next[n] \in S
  PROVE  set \subseteq S
<1>1. PICK k \in 0..MaxTrace : \E s \in [1..k -> TraceNo] :
        IsList(next, first, s, k) /\ {s[a] : a \in 1..k} = set
  BY DEF ListOf
<1>2. PICK s \in [1..k -> TraceNo] : IsList(next, first, s, k) /\ {s[a] : a \in 1..k} = set
  BY <1>1
<1>3. k \in Nat /\ 0 \notin TraceNo
  BY MaxTraceType DEF TraceNo
<1> DEFINE T == {i \in 0..k : i < k => s[i + 1] \in S}
<1>4. 0 \in T
  BY <1>2, <1>3 DEF IsList
<1>5. ASSUME NEW i \in 0..k, i # 0, i - 1 \in T
      PROVE  i \in T
  <2> SUFFICES ASSUME i < k
               PROVE  s[i + 1] \in S
    OBVIOUS
  <2>1. i \in 1..k /\ i + 1 \in 1..k /\ s[i] \in S
    BY <1>3, <1>5
  <2>2. next[s[i]] = s[i + 1] /\ s[i + 1] # 0 /\ s[i] \in set
    BY <1>2, <1>3, <2>1 DEF IsList
  <2> QED
    BY <2>1, <2>2
<1> HIDE DEF T
<1>6. 0..k \subseteq T
  BY <1>3, <1>4, <1>5, Induction
<1>7. ASSUME NEW a \in 1..k
      PROVE  s[a] \in S
  <2>1. a - 1 \in 0..k /\ a - 1 < k /\ (a - 1) + 1 = a
    BY <1>3
  <2> QED
    BY <1>6, <2>1 DEF T
<1> QED
  BY <1>2, <1>7

\* A list depends on the links of its members.
LEMMA SameList ==
  ASSUME NEW next, NEW first, NEW set, ListOf(next, first, set),
         NEW next1, \A n \in set : next1[n] = next[n]
  PROVE  ListOf(next1, first, set)
<1>1. PICK k \in 0..MaxTrace : \E s \in [1..k -> TraceNo] :
        IsList(next, first, s, k) /\ {s[a] : a \in 1..k} = set
  BY DEF ListOf
<1>2. PICK s \in [1..k -> TraceNo] : IsList(next, first, s, k) /\ {s[a] : a \in 1..k} = set
  BY <1>1
<1>3. IsList(next1, first, s, k)
  BY <1>2 DEF IsList
<1> QED
  BY <1>2, <1>3 DEF ListOf

\* A number that is put in front of a list.
LEMMA PushList ==
  ASSUME NEW next, NEW first, NEW set, ListOf(next, first, set),
         NEW n \in TraceNo, n \notin set,
         NEW next1, next1[n] = first, \A m \in set : next1[m] = next[m]
  PROVE  ListOf(next1, n, set \cup {n})
<1>1. PICK k \in 0..MaxTrace : \E s \in [1..k -> TraceNo] :
        IsList(next, first, s, k) /\ {s[a] : a \in 1..k} = set
  BY DEF ListOf
<1>2. PICK s \in [1..k -> TraceNo] : IsList(next, first, s, k) /\ {s[a] : a \in 1..k} = set
  BY <1>1
<1>3. k \in Nat
  BY MaxTraceType
<1> DEFINE l == k + 1
           t == [a \in 1..l |-> IF a = 1 THEN n ELSE s[a - 1]]
<1>4. \A a \in 1..l : a # 1 => a - 1 \in 1..k /\ t[a] = s[a - 1]
  BY <1>3
<1>5. t \in [1..l -> TraceNo] /\ t[1] = n
  BY <1>3, <1>4
<1>6. ASSUME NEW a \in 1..l, NEW b \in 1..l, t[a] = t[b]
      PROVE  a = b
  <2>1. CASE a = 1 \/ b = 1
    BY <1>2, <1>4, <1>5, <1>6, <2>1
  <2>2. CASE a # 1 /\ b # 1
    <3>1. a - 1 = b - 1
      BY <1>2, <1>4, <1>6, <2>2 DEF IsList
    <3> QED
      BY <3>1
  <2> QED
    BY <2>1, <2>2
<1>7. ASSUME NEW a \in 1..l
      PROVE  next1[t[a]] = IF a = l THEN 0 ELSE t[a + 1]
  <2>1. CASE a = 1
    <3>1. first = IF k = 0 THEN 0 ELSE s[1]
      BY <1>2 DEF IsList
    <3>2. k # 0 => a + 1 \in 1..l /\ (a + 1) - 1 = 1 /\ t[a + 1] = s[1]
      BY <1>3, <2>1
    <3> QED
      BY <1>3, <1>5, <2>1, <3>1, <3>2
  <2>2. CASE a # 1
    <3>1. a - 1 \in 1..k /\ t[a] = s[a - 1] /\ s[a - 1] \in set
      BY <1>2, <1>4, <2>2
    <3>2. next[s[a - 1]] = IF a - 1 = k THEN 0 ELSE s[(a - 1) + 1]
      BY <1>2, <3>1 DEF IsList
    <3>3. a # l => t[a + 1] = s[(a - 1) + 1]
      BY <1>3, <2>2
    <3> QED
      BY <1>3, <3>1, <3>2, <3>3
  <2> QED
    BY <2>1, <2>2
<1>8. l \in 0..MaxTrace
  <2> HIDE DEF t
  <2>1. l \in Nat
    BY <1>3
  <2> HIDE DEF l
  <2> QED
    BY <1>5, <1>6, <2>1, ListLength
<1>9. {t[a] : a \in 1..l} = set \cup {n}
  <2>1. \A a \in 1..l : t[a] \in set \cup {n}
    BY <1>2, <1>4, <1>5
  <2>2. \A m \in set : \E a \in 1..l : t[a] = m
    <3> SUFFICES ASSUME NEW m \in set
                 PROVE  \E a \in 1..l : t[a] = m
      OBVIOUS
    <3>1. PICK b \in 1..k : s[b] = m
      BY <1>2
    <3>2. b + 1 \in 1..l /\ b + 1 # 1 /\ (b + 1) - 1 = b
      BY <1>3
    <3> QED
      BY <3>1, <3>2
  <2>3. 1 \in 1..l
    BY <1>3
  <2> HIDE DEF t
  <2> QED
    BY <1>5, <2>1, <2>2, <2>3
<1>10. IsList(next1, n, t, l)
  <2>1. l # 0
    BY <1>3
  <2> HIDE DEF t
  <2> QED
    BY <1>5, <1>6, <1>7, <2>1 DEF IsList
<1> QED
  BY <1>5, <1>8, <1>9, <1>10 DEF ListOf

\* A number that is taken out of a list: the list goes on after it.
LEMMA CutList ==
  ASSUME NEW next, NEW first, NEW set, ListOf(next, first, set), NEW n \in set,
         NEW next1, \A m \in set \ {n} : next1[m] = IF next[m] = n THEN next[n] ELSE next[m]
  PROVE  ListOf(next1, IF first = n THEN next[n] ELSE first, set \ {n})
<1>1. PICK k \in 0..MaxTrace : \E s \in [1..k -> TraceNo] :
        IsList(next, first, s, k) /\ {s[a] : a \in 1..k} = set
  BY DEF ListOf
<1>2. PICK s \in [1..k -> TraceNo] : IsList(next, first, s, k) /\ {s[a] : a \in 1..k} = set
  BY <1>1
<1>3. PICK c \in 1..k : n = s[c]
  BY <1>2
<1>4. k \in Nat /\ c \in Nat /\ 1 <= c /\ c <= k
  BY MaxTraceType
<1> DEFINE l == k - 1
           at(a) == IF a < c THEN a ELSE a + 1
           t == [a \in 1..l |-> s[at(a)]]
           first1 == IF first = n THEN next[n] ELSE first
<1>5. l \in 0..MaxTrace /\ l \in Nat
  BY <1>4, MaxTraceType
<1>6. \A a \in 1..l : at(a) \in 1..k /\ at(a) # c
  BY <1>4
<1>7. \A a \in 1..l : s[at(a)] \in set /\ s[at(a)] # n
  BY <1>2, <1>3, <1>6 DEF IsList
<1>8. t \in [1..l -> TraceNo]
  BY <1>2, <1>6
<1>9. \A a \in 1..k : next[s[a]] = IF a = k THEN 0 ELSE s[a + 1]
  BY <1>2 DEF IsList
<1>10. ASSUME NEW a \in 1..l, NEW b \in 1..l, t[a] = t[b]
       PROVE  a = b
  <2>1. at(a) = at(b)
    BY <1>2, <1>6, <1>10 DEF IsList
  <2> QED
    BY <1>4, <2>1
<1>11. first1 = IF l = 0 THEN 0 ELSE t[1]
  <2>1. first = s[1]
    BY <1>2, <1>4 DEF IsList
  <2>2. CASE c = 1
    <3>1. first1 = IF k = 1 THEN 0 ELSE s[2]
      BY <1>3, <1>4, <1>9, <2>1, <2>2
    <3>2. l # 0 => 1 \in 1..l /\ at(1) = 2
      BY <1>4, <2>2
    <3> QED
      BY <1>4, <3>1, <3>2
  <2>3. CASE c # 1
    <3>1. first # n
      BY <1>2, <1>3, <1>4, <2>1, <2>3 DEF IsList
    <3>2. l # 0 /\ 1 \in 1..l /\ at(1) = 1
      BY <1>4, <2>3
    <3> QED
      BY <2>1, <3>1, <3>2
  <2> QED
    BY <2>2, <2>3
<1>12. ASSUME NEW a \in 1..l
       PROVE  next1[t[a]] = IF a = l THEN 0 ELSE t[a + 1]
  <2>1. next1[t[a]] = IF next[s[at(a)]] = n THEN next[n] ELSE next[s[at(a)]]
    BY <1>7
  <2>2. CASE a + 1 < c
    <3>1. at(a) = a /\ a # k /\ a + 1 # k + 1 /\ a # l /\ a + 1 \in 1..l /\ at(a + 1) = a + 1 /\ a + 1 \in 1..k /\ a + 1 # c
      BY <1>4, <2>2
    <3>2. next[s[a]] = s[a + 1] /\ s[a + 1] # n
      BY <1>2, <1>3, <1>9, <3>1 DEF IsList
    <3> QED
      BY <2>1, <3>1, <3>2
  <2>3. CASE a + 1 = c
    <3>1. at(a) = a /\ a \in 1..k /\ a # k
      BY <1>4, <2>3
    <3>2. next[s[a]] = n
      BY <1>3, <1>9, <2>3, <3>1
    <3>3. next[n] = IF c = k THEN 0 ELSE s[c + 1]
      BY <1>3, <1>9
    <3>4. a = l <=> c = k
      BY <1>4, <2>3
    <3>5. a # l => a + 1 \in 1..l /\ at(a + 1) = c + 1
      BY <1>4, <2>3
    <3> QED
      BY <2>1, <3>1, <3>2, <3>3, <3>4, <3>5
  <2>4. CASE a >= c
    <3>1. at(a) = a + 1 /\ a + 1 \in 1..k /\ (a = l <=> a + 1 = k)
      BY <1>4, <2>4
    <3>2. a # l => a + 1 \in 1..l /\ at(a + 1) = (a + 1) + 1 /\ (a + 1) + 1 \in 1..k /\ (a + 1) + 1 # c
      BY <1>4, <2>4
    <3>3. next[s[a + 1]] = IF a + 1 = k THEN 0 ELSE s[(a + 1) + 1]
      BY <1>9, <3>1
    <3>4. n # 0
      BY <1>2, <1>3, MaxTraceType DEF TraceNo
    <3>5. a # l => s[(a + 1) + 1] # n
      BY <1>2, <1>3, <3>2 DEF IsList
    <3> QED
      BY <2>1, <3>1, <3>2, <3>3, <3>4, <3>5
  <2> QED
    BY <1>4, <2>2, <2>3, <2>4
<1>13. {t[a] : a \in 1..l} = set \ {n}
  <2>1. \A a \in 1..l : t[a] \in set \ {n}
    BY <1>7
  <2>2. ASSUME NEW m \in set \ {n}
        PROVE  \E a \in 1..l : t[a] = m
    <3>1. PICK b \in 1..k : s[b] = m
      BY <1>2
    <3>2. b # c
      BY <1>3, <3>1
    <3>3. CASE b < c
      BY <1>4, <3>1, <3>3
    <3>4. CASE b > c
      <4>1. b - 1 \in 1..l /\ at(b - 1) = b
        BY <1>4, <3>4
      <4> QED
        BY <3>1, <4>1
    <3> QED
      BY <1>4, <3>2, <3>3, <3>4
  <2> HIDE DEF t
  <2> QED
    BY <2>1, <2>2
<1>14. IsList(next1, first1, t, l)
  <2> HIDE DEF t, first1
  <2> QED
    BY <1>8, <1>10, <1>11, <1>12 DEF IsList
<1> QED
  BY <1>5, <1>8, <1>13, <1>14 DEF ListOf
-------------------------------------------------------------------------------
(* What is reached along links.                                            *)

Number == {0} \cup TraceNo

LEMMA ReachedSteps ==
  ASSUME NEW from \in SUBSET Number, NEW to \in [TraceNo -> SUBSET Number]
  PROVE  \E step \in [0..MaxTrace -> SUBSET Number] :
           /\ step[0] = from
           /\ \A i \in 1..MaxTrace : step[i] = step[i - 1] \cup UNION {to[n] : n \in step[i - 1] \ {0}}
           /\ Reached(from, to) = step[MaxTrace] \ {0}
<1> DEFINE F == [i \in 1..MaxTrace |-> [s \in SUBSET Number |-> s \cup UNION {to[n] : n \in s \ {0}}]]
<1>1. MaxTrace \in Nat
  BY MaxTraceType
<1>2. \A s \in SUBSET Number : s \cup UNION {to[n] : n \in s \ {0}} \in SUBSET Number
  BY DEF Number
<1>3. F \in [1..MaxTrace -> [SUBSET Number -> SUBSET Number]]
  BY <1>2
<1>4. \A i \in 1..MaxTrace : \A s \in SUBSET Number : F[i][s] = s \cup UNION {to[n] : n \in s \ {0}}
  OBVIOUS
<1> HIDE DEF F
<1>5. PICK g \in [0..MaxTrace -> SUBSET Number] :
        g[0] = from /\ \A i \in 1..MaxTrace : g[i] = F[i][g[i - 1]]
  <2> DEFINE S == SUBSET Number
  <2>1. from \in S /\ F \in Steps(MaxTrace, S)
    BY <1>3 DEF Steps
  <2> HIDE DEF S
  <2>2. \E g : IsRun(g, MaxTrace, S, from, F)
    BY <1>1, <2>1, Recursion
  <2> QED
    BY <2>2 DEF S, IsRun
<1>6. \A i \in 1..MaxTrace : g[i] = g[i - 1] \cup UNION {to[n] : n \in g[i - 1] \ {0}}
  BY <1>1, <1>4, <1>5
<1>7. g = [i \in 0..MaxTrace |->
             IF i = 0 THEN from ELSE LET s == g[i - 1] IN s \cup UNION {to[n] : n \in s \ {0}}]
  BY <1>1, <1>5, <1>6
<1> DEFINE step[i \in 0..MaxTrace] ==
        IF i = 0 THEN from ELSE LET s == step[i - 1] IN s \cup UNION {to[n] : n \in s \ {0}}
<1>8. step = [i \in 0..MaxTrace |->
                IF i = 0 THEN from ELSE LET s == step[i - 1] IN s \cup UNION {to[n] : n \in s \ {0}}]
  BY <1>7
<1>9. Reached(from, to) = step[MaxTrace] \ {0}
  BY DEF Reached
<1> HIDE DEF step
<1>10. step[0] = from /\ \A i \in 1..MaxTrace : step[i] = step[i - 1] \cup UNION {to[n] : n \in step[i - 1] \ {0}}
  <2>1. 0 \in 0..MaxTrace /\ \A i \in 1..MaxTrace : i \in 0..MaxTrace /\ i # 0
    BY <1>1
  <2> DEFINE body(i) == IF i = 0 THEN from ELSE LET s == step[i - 1] IN s \cup UNION {to[n] : n \in s \ {0}}
  <2>2. \A i \in 0..MaxTrace : step[i] = body(i)
    <3> HIDE DEF body
    <3>1. step = [i \in 0..MaxTrace |-> body(i)]
      BY <1>8 DEF body
    <3> QED
      BY <3>1
  <2> QED
    BY <2>1, <2>2
<1>11. 0..MaxTrace \subseteq {i \in 0..MaxTrace : step[i] = g[i]}
  <2> DEFINE T == {i \in 0..MaxTrace : step[i] = g[i]}
  <2>1. 0 \in T
    BY <1>1, <1>5, <1>10
  <2>2. ASSUME NEW i \in 0..MaxTrace, i # 0, i - 1 \in T
        PROVE  i \in T
    <3>1. i \in 1..MaxTrace /\ step[i - 1] = g[i - 1]
      BY <1>1, <2>2
    <3>2. step[i] = g[i]
      BY <1>6, <1>10, <3>1
    <3> QED
      BY <3>2
  <2> HIDE DEF T
  <2> QED
    BY <1>1, <2>1, <2>2, Induction DEF T
<1>12. step = g
  BY <1>5, <1>8, <1>11
<1> QED
  BY <1>5, <1>6, <1>9, <1>12

\* It is closed: with as many steps as numbers nothing is left to reach.
LEMMA ReachedClosed ==
  ASSUME NEW from \in SUBSET Number, NEW to \in [TraceNo -> SUBSET Number]
  PROVE  /\ from \ {0} \subseteq Reached(from, to) /\ Reached(from, to) \subseteq TraceNo
         /\ \A n \in Reached(from, to) : to[n] \ {0} \subseteq Reached(from, to)
<1>1. PICK step \in [0..MaxTrace -> SUBSET Number] :
           /\ step[0] = from
           /\ \A i \in 1..MaxTrace : step[i] = step[i - 1] \cup UNION {to[n] : n \in step[i - 1] \ {0}}
           /\ Reached(from, to) = step[MaxTrace] \ {0}
  BY ReachedSteps
<1>2. MaxTrace \in Nat
  BY MaxTraceType
<1> DEFINE Closed(s) == \A n \in s \ {0} : to[n] \ {0} \subseteq s
           T == {i \in 0..MaxTrace : /\ from \subseteq step[i]
                                     /\ Closed(step[i]) \/ Cardinality(step[i] \ {0}) > i}
<1>3. IsFiniteSet(TraceNo) /\ Cardinality(TraceNo) = MaxTrace
  BY <1>2, FS_Interval DEF TraceNo
<1>4. ASSUME NEW s \in SUBSET Number
      PROVE  IsFiniteSet(s \ {0}) /\ Cardinality(s \ {0}) \in Nat /\ Cardinality(s \ {0}) <= MaxTrace
  <2>1. s \ {0} \in SUBSET TraceNo
    BY DEF Number
  <2> QED
    BY <1>3, <2>1, FS_Subset, FS_CardinalityType
<1>5. 0 \in T
  <2>1. CASE from \ {0} = {}
    BY <1>1, <1>2, <2>1
  <2>2. CASE from \ {0} # {}
    <3>1. Cardinality(from \ {0}) # 0
      BY <1>4, <2>2, FS_EmptySet
    <3>2. Cardinality(step[0] \ {0}) > 0 /\ from \subseteq step[0]
      <4>1. Cardinality(from \ {0}) \in Nat
        BY <1>4
      <4> QED
        BY <1>1, <3>1, <4>1
    <3> HIDE DEF Closed
    <3> QED
      BY <1>2, <3>2
  <2> QED
    BY <2>1, <2>2
<1>6. ASSUME NEW i \in 0..MaxTrace, i # 0, i - 1 \in T
      PROVE  i \in T
  <2> DEFINE s == step[i - 1]
             t == step[i]
  <2>1. i \in 1..MaxTrace /\ s \in SUBSET Number /\ t \in SUBSET Number /\ t = s \cup UNION {to[n] : n \in s \ {0}}
    BY <1>1, <1>2, <1>6
  <2>2. CASE Closed(s)
    <3>1. t \ {0} = s \ {0}
      BY <2>1, <2>2
    <3>2. Closed(t)
      BY <2>1, <2>2, <3>1
    <3> QED
      BY <1>6, <2>1, <3>2
  <2>3. CASE ~Closed(s)
    <3>1. PICK n \in s \ {0} : \E x \in to[n] \ {0} : x \notin s
      BY <2>3
    <3>2. s \ {0} \in SUBSET (t \ {0}) /\ s \ {0} # t \ {0}
      BY <2>1, <3>1
    <3>3. Cardinality(s \ {0}) <= Cardinality(t \ {0}) /\ Cardinality(s \ {0}) # Cardinality(t \ {0})
      BY <1>4, <2>1, <3>2, FS_Subset
    <3>4. Cardinality(s \ {0}) > i - 1
      BY <1>6, <2>3
    <3>5. Cardinality(s \ {0}) \in Nat /\ Cardinality(t \ {0}) \in Nat
      BY <1>4, <2>1
    <3>6. Cardinality(t \ {0}) > i
      <4> HIDE DEF s, t
      <4> QED
        BY <3>3, <3>4, <3>5
    <3> QED
      BY <1>6, <2>1, <3>6
  <2> QED
    BY <2>2, <2>3
<1>7. MaxTrace \in T
  <2> HIDE DEF T
  <2>1. 0..MaxTrace \subseteq T
    BY <1>2, <1>5, <1>6, Induction
  <2> QED
    BY <1>2, <2>1
<1>8. step[MaxTrace] \in SUBSET Number
  BY <1>1, <1>2
<1>9. Closed(step[MaxTrace]) /\ from \subseteq step[MaxTrace]
  <2> HIDE DEF Closed
  <2>1. Cardinality(step[MaxTrace] \ {0}) \in Nat /\ Cardinality(step[MaxTrace] \ {0}) <= MaxTrace
    BY <1>4, <1>8
  <2> QED
    BY <1>2, <1>7, <2>1
<1> QED
  BY <1>1, <1>9, <1>8 DEF Number

\* It is the smallest such set.
LEMMA ReachedLeast ==
  ASSUME NEW from \in SUBSET Number, NEW to \in [TraceNo -> SUBSET Number],
         NEW S, from \ {0} \subseteq S, \A n \in S \cap TraceNo : to[n] \ {0} \subseteq S
  PROVE  Reached(from, to) \subseteq S
<1>1. PICK step \in [0..MaxTrace -> SUBSET Number] :
           /\ step[0] = from
           /\ \A i \in 1..MaxTrace : step[i] = step[i - 1] \cup UNION {to[n] : n \in step[i - 1] \ {0}}
           /\ Reached(from, to) = step[MaxTrace] \ {0}
  BY ReachedSteps
<1>2. MaxTrace \in Nat
  BY MaxTraceType
<1> DEFINE T == {i \in 0..MaxTrace : step[i] \ {0} \subseteq S}
<1>3. 0 \in T
  BY <1>1, <1>2
<1>4. ASSUME NEW i \in 0..MaxTrace, i # 0, i - 1 \in T
      PROVE  i \in T
  <2>1. i \in 1..MaxTrace /\ step[i - 1] \in SUBSET Number /\ step[i - 1] \ {0} \subseteq S
        /\ step[i] = step[i - 1] \cup UNION {to[n] : n \in step[i - 1] \ {0}}
    BY <1>1, <1>2, <1>4
  <2>2. \A n \in step[i - 1] \ {0} : n \in S \cap TraceNo
    BY <2>1 DEF Number
  <2>3. step[i] \ {0} \subseteq S
    BY <2>1, <2>2
  <2> QED
    BY <2>3
<1>5. MaxTrace \in T
  <2> HIDE DEF T
  <2>1. 0..MaxTrace \subseteq T
    BY <1>2, <1>3, <1>4, Induction
  <2> QED
    BY <1>2, <2>1
<1> QED
  BY <1>1, <1>5
-------------------------------------------------------------------------------
(* The types and the invariants.                                           *)

Starts == Loop \cup Func \cup Ret
Code == {Plain, Interp, Wrong, Absent} \cup {Jit(n) : n \in TraceNo}
Penalties == [pc : Pc \cup {Null}, val : Nat]
Cursor == [no : Number, pt : Proto \cup {Null}, pc : Pc \cup {Null},
           parent : Number, exit : Exit \cup {Null}, root : Number]

JitSet ==
  [bc : [Pc -> Code], maxtrace : 1..MaxTrace, chain : [Proto -> Number],
   nojit : SUBSET Switched, iloop : SUBSET (Proto \cup {Null}),
   trace : [TraceNo -> Trace \cup {Null, Cur}], freetrace : 0..MaxTrace + 1,
   state : {"idle", "record", "end"}, cur : Cursor,
   patch : [pc : Pc \cup {Null}, d : Number], bcskip : BOOLEAN,
   penalty : [1..PenaltySlots -> Penalties], slot : 1..PenaltySlots,
   dead : SUBSET TraceNo]
JitType(j) == j \in JitSet

Live(j) == Real(j) \ j.dead
RootOf(j, n) == IF j.trace[n].root = 0 THEN n ELSE j.trace[n].root
SidesOf(j, n) == {m \in Real(j) : j.trace[m].root = n}

\* The chain of a prototype has root traces that start in it and are not dead.
ChainInv(j) ==
  \A p \in Proto :
    /\ ListOf(NextRoot(j), j.chain[p], Chained(j, p))
    /\ Chained(j, p) \subseteq {n \in Roots(j) \ j.dead : ProtoOf[j.trace[n].pc] = p}

\* The trace that an instruction enters, now or after the pending patch.
Entry(j, pc) == IF j.patch.pc = pc THEN j.patch.d ELSE j.bc[pc].d
EntryInv(j) ==
  \A pc \in Pc :
    Entry(j, pc) # 0 => /\ Entry(j, pc) \in Chained(j, ProtoOf[pc])
                        /\ j.trace[Entry(j, pc)].pc = pc

\* Side traces are a tree, whose nodes have ages, and no exit has two of them.
TreeInv(j) ==
  /\ \A n \in Real(j) :
       LET t == j.trace[n]
       IN  /\ t.parent = 0 <=> t.root = 0
           /\ t.parent # 0 => /\ t.parent \in Real(j) /\ t.root = RootOf(j, t.parent)
                              /\ t.root \in Roots(j)
                              /\ t.exit \in Exit /\ j.trace[t.parent].count[t.exit] = CountDone
                              /\ n \in j.dead <=> t.root \in j.dead
  /\ \A m, n \in Real(j) :
       m # n /\ j.trace[m].parent # 0 /\ j.trace[m].parent = j.trace[n].parent
         => j.trace[m].exit # j.trace[n].exit
  /\ \E age \in [TraceNo -> Nat] :
       \A n \in Real(j) : j.trace[n].parent # 0 => age[j.trace[n].parent] < age[n]

\* What a trace that is not dead refers to is not dead.
LinkInv(j) ==
  \A n \in Live(j) :
    LET t == j.trace[n]
    IN  /\ t.link \in {0, n} \cup (Roots(j) \ j.dead)
        /\ t.nextroot \in {0} \cup (Roots(j) \ j.dead)
        /\ t.nextside = 0 \/ t.nextside \in SidesOf(j, RootOf(j, n))

SideInv(j) ==
  \A n \in Roots(j) \ j.dead :
    /\ ListOf(NextSide(j), j.trace[n].nextside, SidesOf(j, n))
    /\ j.trace[n].nchild = Cardinality(SidesOf(j, n))

Graph(j) == j.dead \subseteq Real(j) /\ ChainInv(j) /\ TreeInv(j) /\ LinkInv(j) /\ SideInv(j)

FreeInv(j) == \A n \in TraceNo : n < j.freetrace => j.trace[n] # Null
PatchInv(j) ==
  j.patch = NoPatch \/ (j.patch.pc \in Starts /\ j.patch.d # 0 /\ j.bc[j.patch.pc] = Plain)
CurrentOnly(j) == \A n \in TraceNo : j.trace[n] = Cur <=> n = j.cur.no

\* Between the parts of a step.
Core(j) ==
  JitType(j) /\ Graph(j) /\ EntryInv(j) /\ FreeInv(j) /\ PatchInv(j) /\ CurrentOnly(j)

\* A recording that is under way.
Recording(j) ==
  LET c == j.cur
  IN  /\ c.no \in 1..j.maxtrace
      /\ c.parent = 0 => /\ c.pc \in Starts /\ c.pt = ProtoOf[c.pc] /\ c.root = 0
                         /\ j.bc[c.pc] = Plain /\ j.patch.pc # c.pc
      /\ c.parent # 0 => /\ c.pc = SidePc /\ c.exit \in Exit
                         /\ c.parent \in Marked(j) /\ c.root = RootOf(j, c.parent)
                         /\ \A n \in Real(j) : j.trace[n].parent = c.parent =>
                              j.trace[n].exit # c.exit

Inv(j) ==
  /\ Core(j) /\ j.state \in {"idle", "record"}
  /\ j.state = "idle" => j.cur = NoCur /\ j.patch = NoPatch
  /\ j.state = "record" => Recording(j)
-------------------------------------------------------------------------------
(* Records and sets of traces.                                             *)

LEMMA TraceFacts ==
  /\ 0 \notin TraceNo /\ TraceNo \subseteq Nat /\ Number = {0} \cup TraceNo
  /\ \A t \in Trace : t # Null /\ t # Cur
  /\ Null \notin Pc /\ Starts \subseteq Pc /\ SidePc \in Pc \ Starts /\ \A pc \in Pc : ProtoOf[pc] \in Proto
BY MaxTraceType, CompilerAssumption DEF TraceNo, Number, Pc, Starts

LEMMA RealFacts ==
  ASSUME NEW j, JitType(j)
  PROVE  /\ Real(j) \subseteq TraceNo /\ Roots(j) \subseteq Real(j)
         /\ \A n \in TraceNo : n \in Real(j) <=> j.trace[n] \in Trace
         /\ \A n \in TraceNo \ Real(j) : j.trace[n] \in {Null, Cur}
         /\ NextRoot(j) \in [TraceNo -> Number] /\ NextSide(j) \in [TraceNo -> Number]
<1>1. \A n \in TraceNo : j.trace[n] \in Trace \cup {Null, Cur}
  BY DEF JitType, JitSet
<1>2. \A n \in TraceNo : n \in Real(j) <=> j.trace[n] \in Trace
  BY <1>1, TraceFacts DEF Real
<1>3. \A n \in Real(j) : j.trace[n].nextroot \in Number /\ j.trace[n].nextside \in Number
  BY <1>2, TraceFacts DEF Real, Trace, Number
<1>4. Real(j) \subseteq TraceNo /\ Roots(j) \subseteq Real(j)
  BY DEF Real, Roots
<1>5. NextRoot(j) \in [TraceNo -> Number] /\ NextSide(j) \in [TraceNo -> Number]
  BY <1>3, TraceFacts DEF NextRoot, NextSide
<1> QED
  BY <1>1, <1>2, <1>4, <1>5

\* Only compiled instructions have an operand.
LEMMA CodeFacts ==
  /\ {Plain, Interp, Wrong, Absent} \subseteq Code /\ \A n \in TraceNo : Jit(n) \in Code
  /\ \A c \in Code : (c.op = "jit" <=> c.d # 0) /\ c.d \in Number
  /\ Plain # Interp /\ Plain # Wrong /\ Interp # Wrong /\ Absent # Wrong /\ Absent # Interp
  /\ Plain.d = 0 /\ Interp.d = 0 /\ Wrong.d = 0 /\ Absent.d = 0 /\ \A n : Jit(n).d = n /\ Jit(n).op = "jit"
  /\ Plain.op # "jit"
  /\ \A n : Jit(n) # Plain /\ Jit(n) # Interp /\ Jit(n) # Wrong
<1>1. /\ Plain.op = "plain" /\ Interp.op = "interp" /\ Wrong.op = "wrong" /\ Absent.op = "absent"
      /\ Plain.d = 0 /\ Interp.d = 0 /\ Wrong.d = 0 /\ Absent.d = 0
      /\ \A n : Jit(n).d = n /\ Jit(n).op = "jit"
  BY DEF Plain, Interp, Wrong, Absent, Jit
<1>2. {Plain, Interp, Wrong, Absent} \subseteq Code /\ \A n \in TraceNo : Jit(n) \in Code
  BY DEF Code
<1>3. \A c \in Code : (c.op = "jit" <=> c.d # 0) /\ c.d \in Number
  BY <1>1, TraceFacts DEF Code
<1> QED
  BY <1>1, <1>2, <1>3

\* The links between traces depend on the compiled traces and the chains.
SameLinks(j, r) ==
  /\ r.chain = j.chain /\ r.dead = j.dead /\ Real(r) = Real(j)
  /\ \A n \in Real(j) : r.trace[n] = j.trace[n]

LEMMA SameGraph ==
  ASSUME NEW j, NEW r, SameLinks(j, r)
  PROVE  /\ Roots(r) = Roots(j) /\ Live(r) = Live(j) /\ Marked(r) = Marked(j)
         /\ \A p : Chained(r, p) = Chained(j, p)
         /\ \A n \in Real(j) : RootOf(r, n) = RootOf(j, n)
         /\ \A n : SidesOf(r, n) = SidesOf(j, n)
         /\ Graph(j) => Graph(r)
<1>1. Roots(r) = Roots(j) /\ Live(r) = Live(j) /\ Real(r) = Real(j) /\ r.dead = j.dead
  BY DEF Roots, Live, SameLinks
<1>2. NextRoot(r) = NextRoot(j) /\ NextSide(r) = NextSide(j)
  BY DEF NextRoot, NextSide, SameLinks
<1>3. ASSUME NEW p
      PROVE  Chained(r, p) = Chained(j, p)
  BY <1>2 DEF Chained, SameLinks
<1>4. \A n \in Real(j) : RootOf(r, n) = RootOf(j, n)
  BY DEF RootOf, SameLinks
<1>5. ASSUME NEW n
      PROVE  SidesOf(r, n) = SidesOf(j, n)
  BY DEF SidesOf, SameLinks
<1>6. Marked(r) = Marked(j)
  <2>1. [n \in TraceNo |-> IF n \notin Real(r) THEN {}
                            ELSE {r.trace[n].link, r.trace[n].nextroot, r.trace[n].nextside}]
        = [n \in TraceNo |-> IF n \notin Real(j) THEN {}
                            ELSE {j.trace[n].link, j.trace[n].nextroot, j.trace[n].nextside}]
    BY DEF SameLinks
  <2>2. {r.chain[p] : p \in Proto} = {j.chain[p] : p \in Proto}
    BY DEF SameLinks
  <2> QED
    BY <2>1, <2>2 DEF Marked
<1>7. ASSUME Graph(j)
      PROVE  Graph(r)
  <2>1. ChainInv(r)
    BY <1>1, <1>2, <1>3, <1>7 DEF Graph, ChainInv, SameLinks, Roots
  <2>2. TreeInv(r)
    <3>1. ASSUME NEW n \in Real(r)
          PROVE  LET t == r.trace[n]
                 IN  /\ t.parent = 0 <=> t.root = 0
                     /\ t.parent # 0 => /\ t.parent \in Real(r) /\ t.root = RootOf(r, t.parent)
                                        /\ t.root \in Roots(r)
                                        /\ t.exit \in Exit /\ r.trace[t.parent].count[t.exit] = CountDone
                                        /\ n \in r.dead <=> t.root \in r.dead
      BY <1>1, <1>4, <1>7, <3>1 DEF Graph, TreeInv, SameLinks
    <3>2. ASSUME NEW m \in Real(r), NEW n \in Real(r),
                 m # n /\ r.trace[m].parent # 0 /\ r.trace[m].parent = r.trace[n].parent
          PROVE  r.trace[m].exit # r.trace[n].exit
      BY <1>7, <3>2 DEF Graph, TreeInv, SameLinks
    <3>3. \E age \in [TraceNo -> Nat] :
            \A n \in Real(r) : r.trace[n].parent # 0 => age[r.trace[n].parent] < age[n]
      BY <1>7 DEF Graph, TreeInv, SameLinks
    <3> QED
      BY <3>1, <3>2, <3>3 DEF TreeInv
  <2>3. LinkInv(r)
    <3>1. \A n \in Live(j) : n \in Real(j)
      BY DEF Live
    <3> QED
      BY <1>1, <1>4, <1>5, <1>7, <3>1 DEF Graph, LinkInv, SameLinks
  <2>4. SideInv(r)
    <3>1. \A n \in Roots(j) : n \in Real(j)
      BY DEF Roots
    <3> QED
      BY <1>1, <1>2, <1>5, <1>7, <3>1 DEF Graph, SideInv, SameLinks
  <2> QED
    BY <1>1, <1>7, <2>1, <2>2, <2>3, <2>4 DEF Graph, SameLinks
<1> QED
  BY <1>1, <1>3, <1>4, <1>5, <1>6, <1>7
-------------------------------------------------------------------------------
(* Flushing.                                                               *)

SameBook(j, r) ==
  /\ r.maxtrace = j.maxtrace /\ r.nojit = j.nojit /\ r.iloop = j.iloop
  /\ r.freetrace = j.freetrace /\ r.state = j.state /\ r.cur = j.cur /\ r.patch = j.patch
  /\ r.bcskip = j.bcskip /\ r.penalty = j.penalty /\ r.slot = j.slot /\ r.dead = j.dead

\* Only instructions that enter a trace are changed: they become what they were.
OnlyUnpatched(j, r) == \A pc \in Pc : r.bc[pc] = j.bc[pc] \/ (j.bc[pc].op = "jit" /\ r.bc[pc] = Plain)

\* The bytecode after a trace that starts at "at" was unpatched.
Unpatched(j, at) == [pc \in Pc |-> IF pc = at /\ j.bc[pc].op = "jit" THEN Plain ELSE j.bc[pc]]
Before(j, n) == {m \in Chained(j, ProtoOf[j.trace[n].pc]) \cap Real(j) : j.trace[m].nextroot = n}

LEMMA UnpatchShape ==
  ASSUME NEW j, JitType(j), NEW n \in Real(j)
  PROVE  LET r == Unpatch(j, n)
         IN  /\ JitType(r) /\ r.bc = Unpatched(j, j.trace[n].pc) /\ r.chain = j.chain /\ r.trace = j.trace
             /\ SameBook(j, r)
<1>1. j.trace[n].pc \in Pc
  BY RealFacts DEF Trace
<1>2. j.bc \in [Pc -> Code]
  BY DEF JitType, JitSet
<1>3. CASE j.bc[j.trace[n].pc].op = "jit"
  <2>1. Unpatch(j, n) = [j EXCEPT !.bc[j.trace[n].pc] = Plain]
    BY <1>3 DEF Unpatch
  <2>2. [j.bc EXCEPT ![j.trace[n].pc] = Plain] = Unpatched(j, j.trace[n].pc)
    BY <1>2, <1>3 DEF Unpatched
  <2>3. Unpatched(j, j.trace[n].pc) \in [Pc -> Code]
    BY <1>2, CodeFacts DEF Unpatched
  <2>4. JitType([j EXCEPT !.bc = Unpatched(j, j.trace[n].pc)])
    BY <2>3 DEF JitType, JitSet
  <2>5. SameBook(j, Unpatch(j, n)) /\ Unpatch(j, n).bc = Unpatched(j, j.trace[n].pc)
        /\ Unpatch(j, n).chain = j.chain /\ Unpatch(j, n).trace = j.trace
    BY <2>1, <2>2 DEF JitType, JitSet, SameBook
  <2>6. Unpatch(j, n) = [j EXCEPT !.bc = Unpatched(j, j.trace[n].pc)]
    BY <2>1, <2>2
  <2> QED
    BY <2>4, <2>5, <2>6
<1>4. CASE j.bc[j.trace[n].pc].op # "jit"
  <2>1. Unpatched(j, j.trace[n].pc) = j.bc
    BY <1>2, <1>4 DEF Unpatched
  <2> QED
    BY <1>4, <2>1 DEF Unpatch, SameBook
<1> QED
  BY <1>3, <1>4

\* A record that differs in the link to the next root.
LEMMA Relinked ==
  ASSUME NEW t \in Trace, NEW x \in Number
  PROVE  LET u == [t EXCEPT !.nextroot = x]
         IN  /\ u \in Trace /\ u.nextroot = x
             /\ u.pc = t.pc /\ u.root = t.root /\ u.parent = t.parent /\ u.exit = t.exit /\ u.link = t.link
             /\ u.nchild = t.nchild /\ u.nextside = t.nextside /\ u.count = t.count
BY DEF Trace, Number

FlushedTraces(j, n) ==
  [m \in TraceNo |-> IF j.chain[ProtoOf[j.trace[n].pc]] # n /\ m \in Before(j, n)
                     THEN [j.trace[m] EXCEPT !.nextroot = j.trace[n].nextroot] ELSE j.trace[m]]

LEMMA FlushRootShape ==
  ASSUME NEW j, JitType(j), NEW n \in Roots(j)
  PROVE  LET r == FlushRoot(j, n)
             p == ProtoOf[j.trace[n].pc]
         IN  /\ JitType(r) /\ SameBook(j, r) /\ OnlyUnpatched(j, r)
             /\ r.bc = Unpatched(j, j.trace[n].pc)
             /\ r.chain = [q \in Proto |-> IF q = p /\ j.chain[p] = n THEN j.trace[n].nextroot ELSE j.chain[q]]
             /\ r.trace = FlushedTraces(j, n)
<1> DEFINE k == Unpatch(j, n)
           p == ProtoOf[j.trace[n].pc]
           next == j.trace[n].nextroot
           r == FlushRoot(j, n)
<1>1. n \in Real(j) /\ j.trace[n] \in Trace /\ next \in Number /\ p \in Proto
  BY RealFacts, TraceFacts DEF Trace, Number
<1>2. /\ JitType(k) /\ k.bc = Unpatched(j, j.trace[n].pc) /\ k.chain = j.chain /\ k.trace = j.trace
      /\ SameBook(j, k)
  BY <1>1, UnpatchShape
<1>3. SameLinks(j, k)
  BY <1>2 DEF SameLinks, SameBook, Real
<1>4. Chained(k, p) = Chained(j, p) /\ Real(k) = Real(j)
  BY <1>3, SameGraph DEF SameLinks
<1>5. {m \in Chained(k, p) \cap Real(k) : k.trace[m].nextroot = n} = Before(j, n)
  BY <1>2, <1>4 DEF Before
<1>6. r = IF k.chain[p] = n THEN [k EXCEPT !.chain[p] = next]
          ELSE [k EXCEPT !.trace = [m \in TraceNo |->
                  IF m \in Before(j, n) THEN [k.trace[m] EXCEPT !.nextroot = next] ELSE k.trace[m]]]
  BY <1>2, <1>5 DEF FlushRoot
<1> HIDE DEF k
<1>7. CASE j.chain[p] = n
  <2>1. r = [k EXCEPT !.chain[p] = next]
    BY <1>2, <1>6, <1>7
  <2>2. k.chain \in [Proto -> Number] /\ [k.chain EXCEPT ![p] = next] \in [Proto -> Number]
    BY <1>1, <1>2 DEF JitType, JitSet
  <2>3. JitType(r)
    BY <1>2, <2>1, <2>2 DEF JitType, JitSet
  <2>4. SameBook(k, r) /\ r.bc = k.bc /\ r.trace = k.trace /\ r.chain = [k.chain EXCEPT ![p] = next]
    BY <1>2, <2>1 DEF JitType, JitSet, SameBook
  <2>5. FlushedTraces(j, n) = j.trace
    BY <1>7 DEF FlushedTraces, JitType, JitSet
  <2>6. r.chain = [q \in Proto |-> IF q = p /\ j.chain[p] = n THEN next ELSE j.chain[q]]
    BY <1>2, <1>7, <2>2, <2>4
  <2> QED
    BY <1>2, <2>3, <2>4, <2>5, <2>6 DEF SameBook, OnlyUnpatched, Unpatched
<1>8. CASE j.chain[p] # n
  <2>1. FlushedTraces(j, n) = [m \in TraceNo |->
                  IF m \in Before(j, n) THEN [k.trace[m] EXCEPT !.nextroot = next] ELSE k.trace[m]]
    BY <1>2, <1>8 DEF FlushedTraces
  <2>2. r = [k EXCEPT !.trace = FlushedTraces(j, n)]
    BY <1>2, <1>6, <1>8, <2>1
  <2>3. FlushedTraces(j, n) \in [TraceNo -> Trace \cup {Null, Cur}]
    <3>1. \A m \in Before(j, n) : m \in TraceNo /\ j.trace[m] \in Trace
      BY RealFacts DEF Before
    <3>2. \A m \in Before(j, n) : [j.trace[m] EXCEPT !.nextroot = next] \in Trace
      BY <1>1, <3>1, Relinked
    <3> QED
      BY <3>2 DEF FlushedTraces, JitType, JitSet
  <2> HIDE DEF r
  <2>4. JitType(r)
    BY <1>2, <2>2, <2>3 DEF JitType, JitSet
  <2>5. SameBook(k, r) /\ r.bc = k.bc /\ r.trace = FlushedTraces(j, n) /\ r.chain = k.chain
    BY <1>2, <2>2 DEF JitType, JitSet, SameBook
  <2>6. r.chain = [q \in Proto |-> IF q = p /\ j.chain[p] = n THEN next ELSE j.chain[q]]
    <3>1. j.chain \in [Proto -> Number]
      BY DEF JitType, JitSet
    <3> QED
      BY <1>2, <1>8, <2>5, <3>1
  <2>7. OnlyUnpatched(j, r) /\ SameBook(j, r)
    BY <1>2, <2>5 DEF SameBook, OnlyUnpatched, Unpatched
  <2>8. JitType(r) /\ r.bc = Unpatched(j, j.trace[n].pc) /\ r.trace = FlushedTraces(j, n)
    BY <1>2, <2>4, <2>5
  <2> QED
    BY <2>6, <2>7, <2>8 DEF r
<1> QED
  BY <1>7, <1>8

\* Flushing takes a root trace out of its chain, wherever it is, and no other.
LEMMA FlushRootChains ==
  ASSUME NEW j, JitType(j), ChainInv(j), NEW n \in Roots(j)
  PROVE  LET r == FlushRoot(j, n)
         IN  /\ ChainInv(r) /\ Real(r) = Real(j) /\ Roots(r) = Roots(j)
             /\ \A q \in Proto : Chained(r, q) = Chained(j, q) \ {n}
             /\ \A m \in TraceNo :
                  \/ r.trace[m] = j.trace[m]
                  \/ /\ n \in Chained(j, ProtoOf[j.trace[n].pc]) /\ m \in Real(j)
                     /\ r.trace[m] = [j.trace[m] EXCEPT !.nextroot = j.trace[n].nextroot]
<1> DEFINE r == FlushRoot(j, n)
           p == ProtoOf[j.trace[n].pc]
           next == j.trace[n].nextroot
           set(q) == Chained(j, q)
           links == NextRoot(j)
<1>1. n \in TraceNo /\ n # 0 /\ n \in Real(j) /\ j.trace[n] \in Trace /\ next \in Number /\ p \in Proto /\ links[n] = next
  <2>1. n \in TraceNo /\ n # 0 /\ n \in Real(j) /\ j.trace[n] \in Trace
    BY RealFacts, TraceFacts
  <2>2. next \in Number /\ p \in Proto
    BY <2>1, TraceFacts DEF Trace, Number
  <2> QED
    BY <2>1, <2>2 DEF NextRoot
<1>2. /\ JitType(r) /\ SameBook(j, r) /\ r.trace = FlushedTraces(j, n)
      /\ r.chain = [q \in Proto |-> IF q = p /\ j.chain[p] = n THEN next ELSE j.chain[q]]
  BY FlushRootShape
<1> HIDE DEF r
<1>3. \A m \in TraceNo : r.trace[m] = IF j.chain[p] # n /\ m \in Before(j, n)
                                      THEN [j.trace[m] EXCEPT !.nextroot = next] ELSE j.trace[m]
  BY <1>2 DEF FlushedTraces
<1>4. \A m \in Before(j, n) : m \in TraceNo /\ m \in Real(j) /\ j.trace[m] \in Trace /\ m \in set(p)
  BY RealFacts DEF Before
<1>5. \A m \in Before(j, n) : LET u == [j.trace[m] EXCEPT !.nextroot = next]
                              IN  u \in Trace /\ u.nextroot = next /\ u.pc = j.trace[m].pc /\ u.root = j.trace[m].root
  BY <1>1, <1>4, Relinked
<1>6. \A m \in TraceNo : /\ r.trace[m] \in Trace <=> j.trace[m] \in Trace
                         /\ j.trace[m] \in Trace => /\ r.trace[m].pc = j.trace[m].pc
                                                    /\ r.trace[m].root = j.trace[m].root
  BY <1>3, <1>4, <1>5
<1>7. Real(r) = Real(j) /\ Roots(r) = Roots(j)
  <2>1. Real(r) \subseteq TraceNo /\ Real(j) \subseteq TraceNo
        /\ \A m \in TraceNo : (m \in Real(r) <=> r.trace[m] \in Trace) /\ (m \in Real(j) <=> j.trace[m] \in Trace)
    BY <1>2, RealFacts
  <2>2. Real(r) = Real(j)
    BY <1>6, <2>1
  <2> QED
    BY <1>6, <2>1, <2>2 DEF Roots
<1>8. \A q \in Proto : /\ ListOf(links, j.chain[q], set(q))
                       /\ set(q) \subseteq {m \in Roots(j) \ j.dead : ProtoOf[j.trace[m].pc] = q}
  BY DEF ChainInv
<1>9. \A q \in Proto : n \in set(q) => q = p
  BY <1>8
<1>10. \A m \in TraceNo : NextRoot(r)[m] = IF j.chain[p] # n /\ m \in Before(j, n) THEN next ELSE links[m]
  <2>1. \A m \in TraceNo : m \in Real(j) /\ ~(j.chain[p] # n /\ m \in Before(j, n)) => r.trace[m] = j.trace[m]
    BY <1>3
  <2>2. \A m \in Before(j, n) : j.chain[p] # n => r.trace[m].nextroot = next
    BY <1>3, <1>4, <1>5
  <2> QED
    BY <1>4, <1>7, <2>1, <2>2 DEF NextRoot
<1>11. \A m \in set(p) : m \in TraceNo /\ (m \in Before(j, n) <=> links[m] = n)
  <2>1. \A m \in set(p) : m \in Real(j) /\ m \in TraceNo /\ links[m] = j.trace[m].nextroot
    BY <1>1, <1>8, RealFacts DEF NextRoot
  <2> QED
    BY <2>1 DEF Before
<1>12. /\ set(p) \subseteq TraceNo
       /\ j.chain[p] \in {0} \cup set(p)
       /\ \A m \in set(p) : links[m] \in {0} \cup set(p) /\ links[m] # j.chain[p]
  BY <1>1, <1>8, ListFacts
<1>13. ASSUME NEW q \in Proto
       PROVE  ListOf(NextRoot(r), r.chain[q], set(q) \ {n})
  <2>1. CASE n \in set(q)
    <3>1. q = p
      BY <1>9, <2>1
    <3>2. \A m \in set(p) \ {n} : NextRoot(r)[m] = IF links[m] = n THEN links[n] ELSE links[m]
      BY <1>1, <1>10, <1>11, <1>12
    <3>3. ListOf(NextRoot(r), IF j.chain[p] = n THEN links[n] ELSE j.chain[p], set(p) \ {n})
      <4>1. ListOf(links, j.chain[p], set(p)) /\ n \in set(p)
        BY <1>1, <1>8, <2>1, <3>1
      <4> HIDE DEF links, set, p
      <4> QED
        BY <3>2, <4>1, CutList
    <3> QED
      BY <1>1, <1>2, <3>1, <3>3
  <2>2. CASE n \notin set(q)
    <3>1. \A m \in set(q) : m \notin Before(j, n) /\ m \in TraceNo
      <4>1. CASE q = p
        BY <1>1, <1>11, <1>12, <2>2, <4>1
      <4>2. CASE q # p
        <5>1. \A m \in set(q) : m \in Roots(j) /\ m \notin set(p)
          BY <1>1, <1>8, <4>2
        <5> QED
          BY <1>4, <5>1, RealFacts
      <4> QED
        BY <4>1, <4>2
    <3>2. ListOf(NextRoot(r), j.chain[q], set(q))
      BY <1>8, <1>10, <3>1, SameList
    <3>3. r.chain[q] = j.chain[q]
      BY <1>1, <1>2, <1>12, <2>2
    <3>4. set(q) \ {n} = set(q)
      BY <2>2
    <3> QED
      BY <3>2, <3>3, <3>4
  <2> QED
    BY <2>1, <2>2
<1>14. ASSUME NEW q \in Proto
       PROVE  Chained(r, q) = set(q) \ {n}
  BY <1>13, AlongList DEF Chained
<1>15. ChainInv(r)
  <2>1. ASSUME NEW q \in Proto
        PROVE  /\ ListOf(NextRoot(r), r.chain[q], Chained(r, q))
               /\ Chained(r, q) \subseteq {m \in Roots(r) \ r.dead : ProtoOf[r.trace[m].pc] = q}
    <3>1. \A m \in set(q) : r.trace[m].pc = j.trace[m].pc
      BY <1>6, <1>8, RealFacts
    <3> QED
      BY <1>2, <1>7, <1>8, <1>13, <1>14, <3>1 DEF SameBook
  <2> QED
    BY <2>1 DEF ChainInv
<1>16. ASSUME NEW m \in TraceNo
       PROVE  \/ r.trace[m] = j.trace[m]
              \/ /\ n \in set(p) /\ m \in Real(j)
                 /\ r.trace[m] = [j.trace[m] EXCEPT !.nextroot = next]
  <2>1. m \in Before(j, n) => n \in set(p)
    BY <1>1, <1>4, <1>11, <1>12
  <2> QED
    BY <1>3, <1>4, <2>1
<1> QED
  BY <1>7, <1>14, <1>15, <1>16 DEF r

\* What bytecode enters is still chained: nothing enters what was flushed.
LEMMA FlushRootEntries ==
  ASSUME NEW j, JitType(j), ChainInv(j), EntryInv(j), j.patch = NoPatch, NEW n \in Roots(j)
  PROVE  EntryInv(FlushRoot(j, n))
<1> DEFINE r == FlushRoot(j, n)
<1>1. /\ SameBook(j, r) /\ r.bc = Unpatched(j, j.trace[n].pc)
      /\ \A q \in Proto : Chained(r, q) = Chained(j, q) \ {n}
  BY FlushRootShape, FlushRootChains
<1>2. \A m \in TraceNo : \/ r.trace[m] = j.trace[m]
                         \/ m \in Real(j) /\ r.trace[m] = [j.trace[m] EXCEPT !.nextroot = j.trace[n].nextroot]
  BY FlushRootChains
<1> HIDE DEF r
<1>3. SUFFICES ASSUME NEW pc \in Pc, Entry(r, pc) # 0
               PROVE  Entry(r, pc) \in Chained(r, ProtoOf[pc]) /\ r.trace[Entry(r, pc)].pc = pc
  BY DEF EntryInv, r
<1>4. Entry(r, pc) = r.bc[pc].d /\ Entry(j, pc) = j.bc[pc].d
  BY <1>1, TraceFacts DEF Entry, SameBook, NoPatch
<1>5. r.bc[pc] = j.bc[pc] /\ j.bc[pc] \in Code /\ ~(pc = j.trace[n].pc /\ j.bc[pc].op = "jit")
  BY <1>1, <1>3, <1>4, CodeFacts DEF Unpatched, JitType, JitSet
<1>6. j.bc[pc].op = "jit"
  BY <1>3, <1>4, <1>5, CodeFacts
<1> DEFINE e == j.bc[pc].d
<1>7. e \in Chained(j, ProtoOf[pc]) /\ j.trace[e].pc = pc /\ e # n /\ e = Entry(r, pc)
  BY <1>3, <1>4, <1>5, <1>6 DEF EntryInv
<1>8. ProtoOf[pc] \in Proto /\ e \in Roots(j) /\ e \in Real(j) /\ e \in TraceNo /\ j.trace[e] \in Trace
  BY <1>7, TraceFacts, RealFacts DEF ChainInv
<1>9. n \in Real(j) /\ j.trace[n].nextroot \in Number
  BY RealFacts DEF Trace, Number
<1>10. r.trace[e].pc = j.trace[e].pc
  <2>1. [j.trace[e] EXCEPT !.nextroot = j.trace[n].nextroot].pc = j.trace[e].pc
    BY <1>8, <1>9, Relinked
  <2> QED
    BY <1>2, <1>8, <2>1
<1> QED
  BY <1>1, <1>7, <1>8, <1>10

\* Traces that differ only in the link to the next root, which may be x, and in
\* the counts of the exits that are not compiled.
Alike(j, r, x) ==
  /\ r.dead = j.dead /\ Real(r) = Real(j)
  /\ \A m \in Real(j) :
       /\ r.trace[m].pc = j.trace[m].pc
       /\ r.trace[m].root = j.trace[m].root /\ r.trace[m].parent = j.trace[m].parent
       /\ r.trace[m].exit = j.trace[m].exit /\ r.trace[m].link = j.trace[m].link
       /\ r.trace[m].nchild = j.trace[m].nchild /\ r.trace[m].nextside = j.trace[m].nextside
       /\ r.trace[m].nextroot \in {j.trace[m].nextroot, x}
       /\ \A e \in Exit : j.trace[m].count[e] = CountDone => r.trace[m].count[e] = CountDone

LEMMA AlikeGraph ==
  ASSUME NEW j, JitType(j), TreeInv(j), LinkInv(j), SideInv(j),
         NEW r, NEW x \in {0} \cup (Roots(j) \ j.dead), Alike(j, r, x)
  PROVE  TreeInv(r) /\ LinkInv(r) /\ SideInv(r) /\ Roots(r) = Roots(j)
<1>1. /\ r.dead = j.dead /\ Real(r) = Real(j)
      /\ \A m \in Real(j) :
        /\ r.trace[m].root = j.trace[m].root /\ r.trace[m].parent = j.trace[m].parent
        /\ r.trace[m].exit = j.trace[m].exit /\ r.trace[m].link = j.trace[m].link
        /\ r.trace[m].nchild = j.trace[m].nchild /\ r.trace[m].nextside = j.trace[m].nextside
        /\ r.trace[m].nextroot \in {j.trace[m].nextroot, x}
  BY DEF Alike
<1>2. \A m \in Real(j), e \in Exit : j.trace[m].count[e] = CountDone => r.trace[m].count[e] = CountDone
  BY DEF Alike
<1>3. Roots(r) = Roots(j) /\ Live(r) = Live(j)
  BY <1>1 DEF Roots, Live
<1>4. \A m \in Real(j) : RootOf(r, m) = RootOf(j, m)
  BY <1>1 DEF RootOf
<1>5. \A m : SidesOf(r, m) = SidesOf(j, m)
  BY <1>1 DEF SidesOf
<1>6. NextSide(r) = NextSide(j)
  BY <1>1 DEF NextSide
<1>7. TreeInv(r)
  <2>1. ASSUME NEW n \in Real(r)
        PROVE  LET t == r.trace[n]
               IN  /\ t.parent = 0 <=> t.root = 0
                   /\ t.parent # 0 => /\ t.parent \in Real(r) /\ t.root = RootOf(r, t.parent)
                                      /\ t.root \in Roots(r)
                                      /\ t.exit \in Exit /\ r.trace[t.parent].count[t.exit] = CountDone
                                      /\ n \in r.dead <=> t.root \in r.dead
    <3>1. LET t == j.trace[n]
          IN  /\ t.parent = 0 <=> t.root = 0
              /\ t.parent # 0 => /\ t.parent \in Real(j) /\ t.root = RootOf(j, t.parent)
                                 /\ t.root \in Roots(j)
                                 /\ t.exit \in Exit /\ j.trace[t.parent].count[t.exit] = CountDone
                                 /\ n \in j.dead <=> t.root \in j.dead
      BY <1>1 DEF TreeInv
    <3> QED
      BY <1>2, <1>1, <1>3, <1>4, <3>1
  <2>2. ASSUME NEW m \in Real(r), NEW n \in Real(r),
               m # n /\ r.trace[m].parent # 0 /\ r.trace[m].parent = r.trace[n].parent
        PROVE  r.trace[m].exit # r.trace[n].exit
    BY <1>1, <2>2 DEF TreeInv
  <2>3. \E age \in [TraceNo -> Nat] :
          \A n \in Real(r) : r.trace[n].parent # 0 => age[r.trace[n].parent] < age[n]
    BY <1>1 DEF TreeInv
  <2> QED
    BY <2>1, <2>2, <2>3 DEF TreeInv
<1>8. LinkInv(r)
  <2>1. \A n \in Live(j) : n \in Real(j)
    BY DEF Live
  <2> QED
    BY <1>1, <1>3, <1>4, <1>5, <2>1 DEF LinkInv
<1>9. SideInv(r)
  BY <1>1, <1>3, <1>5, <1>6, RealFacts DEF SideInv
<1> QED
  BY <1>3, <1>7, <1>8, <1>9

\* Another link to the next root disturbs nothing else.
LEMMA RelinkedGraph ==
  ASSUME NEW j, JitType(j), TreeInv(j), LinkInv(j), SideInv(j),
         NEW r, r.dead = j.dead, Real(r) = Real(j),
         NEW x \in {0} \cup (Roots(j) \ j.dead),
         \A m \in Real(j) : r.trace[m] = j.trace[m] \/ r.trace[m] = [j.trace[m] EXCEPT !.nextroot = x]
  PROVE  TreeInv(r) /\ LinkInv(r) /\ SideInv(r)
<1>1. \A m \in Real(j) : j.trace[m] \in Trace /\ m \in TraceNo
  BY RealFacts
<1>2. x \in Number
  BY RealFacts, TraceFacts
<1>3. ASSUME NEW m \in Real(j)
      PROVE  /\ r.trace[m].pc = j.trace[m].pc
             /\ r.trace[m].root = j.trace[m].root /\ r.trace[m].parent = j.trace[m].parent
             /\ r.trace[m].exit = j.trace[m].exit /\ r.trace[m].link = j.trace[m].link
             /\ r.trace[m].nchild = j.trace[m].nchild /\ r.trace[m].nextside = j.trace[m].nextside
             /\ r.trace[m].nextroot \in {j.trace[m].nextroot, x} /\ r.trace[m].count = j.trace[m].count
  <2>1. CASE r.trace[m] = j.trace[m]
    BY <2>1
  <2>2. CASE r.trace[m] = [j.trace[m] EXCEPT !.nextroot = x]
    <3> DEFINE t == j.trace[m]
    <3>1. t \in Trace
      BY <1>1
    <3> HIDE DEF t
    <3>2. LET u == [t EXCEPT !.nextroot = x]
          IN  /\ u \in Trace /\ u.nextroot = x
              /\ u.pc = t.pc /\ u.root = t.root /\ u.parent = t.parent /\ u.exit = t.exit /\ u.link = t.link
              /\ u.nchild = t.nchild /\ u.nextside = t.nextside /\ u.count = t.count
      BY <1>2, <3>1, Relinked
    <3> QED
      BY <2>2, <3>2 DEF t
  <2> QED
    BY <2>1, <2>2
<1>4. Alike(j, r, x)
  BY <1>3 DEF Alike
<1> QED
  BY <1>4, AlikeGraph

LEMMA FlushRootCore ==
  ASSUME NEW j, Core(j), j.patch = NoPatch, NEW n \in Roots(j)
  PROVE  LET r == FlushRoot(j, n)
         IN  Core(r) /\ SameBook(j, r) /\ OnlyUnpatched(j, r)
<1> DEFINE r == FlushRoot(j, n)
           x == j.trace[n].nextroot
<1>1. JitType(j) /\ ChainInv(j) /\ EntryInv(j) /\ TreeInv(j) /\ LinkInv(j) /\ SideInv(j)
      /\ j.dead \subseteq Real(j)
  BY DEF Core, Graph
<1>2. JitType(r) /\ SameBook(j, r) /\ OnlyUnpatched(j, r)
  BY <1>1, FlushRootShape
<1>3. ChainInv(r) /\ Real(r) = Real(j)
  BY <1>1, FlushRootChains
<1>4. \A m \in TraceNo :
        \/ r.trace[m] = j.trace[m]
        \/ /\ n \in Chained(j, ProtoOf[j.trace[n].pc]) /\ m \in Real(j)
           /\ r.trace[m] = [j.trace[m] EXCEPT !.nextroot = x]
  BY <1>1, FlushRootChains
<1>5. EntryInv(r)
  BY <1>1, FlushRootEntries
<1> HIDE DEF r
<1>6. n \in Real(j) /\ ProtoOf[j.trace[n].pc] \in Proto
  BY <1>1, RealFacts, TraceFacts DEF Trace
<1>7. TreeInv(r) /\ LinkInv(r) /\ SideInv(r)
  <2>1. CASE n \in Chained(j, ProtoOf[j.trace[n].pc])
    <3>1. x \in {0} \cup (Roots(j) \ j.dead)
      BY <1>1, <1>6, <2>1 DEF ChainInv, LinkInv, Live
    <3>2. \A m \in Real(j) : r.trace[m] = j.trace[m] \/ r.trace[m] = [j.trace[m] EXCEPT !.nextroot = x]
      BY <1>1, <1>4, RealFacts
    <3> HIDE DEF x
    <3> QED
      BY <1>1, <1>2, <1>3, <3>1, <3>2, RelinkedGraph DEF SameBook
  <2>2. CASE n \notin Chained(j, ProtoOf[j.trace[n].pc])
    <3>1. 0 \in {0} \cup (Roots(j) \ j.dead) /\ \A m \in Real(j) : r.trace[m] = j.trace[m]
      BY <1>1, <1>4, <2>2, RealFacts
    <3> QED
      BY <1>1, <1>2, <1>3, <3>1, RelinkedGraph DEF SameBook
  <2> QED
    BY <2>1, <2>2
<1>8. FreeInv(r) /\ CurrentOnly(r)
  <2>1. \A m \in TraceNo : r.trace[m] = Null <=> j.trace[m] = Null
    BY <1>1, <1>2, <1>3, <1>4, RealFacts, TraceFacts
  <2>2. \A m \in TraceNo : r.trace[m] = Cur <=> j.trace[m] = Cur
    BY <1>1, <1>2, <1>3, <1>4, RealFacts, TraceFacts
  <2> QED
    BY <1>2, <2>1, <2>2 DEF Core, FreeInv, CurrentOnly, SameBook
<1>9. PatchInv(r)
  BY <1>2 DEF PatchInv, SameBook
<1> QED
  BY <1>1, <1>2, <1>3, <1>5, <1>7, <1>8, <1>9 DEF Core, Graph, SameBook, r

LEMMA FlushCore ==
  ASSUME NEW j, Core(j), j.patch = NoPatch, NEW n
  PROVE  LET r == Flush(j, n)
         IN  Core(r) /\ SameBook(j, r) /\ OnlyUnpatched(j, r)
<1>1. CASE n \in Roots(j)
  BY <1>1, FlushRootCore DEF Flush
<1>2. CASE n \notin Roots(j)
  BY <1>2 DEF Flush, SameBook, OnlyUnpatched
<1> QED
  BY <1>1, <1>2

LEMMA OnlyUnpatchedTwice ==
  ASSUME NEW j, NEW k, NEW r, OnlyUnpatched(j, k), OnlyUnpatched(k, r), SameBook(j, k), SameBook(k, r)
  PROVE  OnlyUnpatched(j, r) /\ SameBook(j, r)
<1>1. OnlyUnpatched(j, r)
  BY CodeFacts DEF OnlyUnpatched
<1> QED
  BY <1>1 DEF SameBook

\* The traces of a prototype.
LEMMA FlushProtoCore ==
  ASSUME NEW j, Core(j), j.patch = NoPatch, NEW p \in Proto
  PROVE  LET r == FlushProto(j, p)
         IN  Core(r) /\ SameBook(j, r) /\ OnlyUnpatched(j, r)
<1> DEFINE S == {k \in JitSet : Core(k) /\ SameBook(j, k) /\ OnlyUnpatched(j, k)}
           G(k) == IF k.chain[p] = 0 THEN k ELSE FlushRoot(k, k.chain[p])
           F == [i \in 1..MaxTrace |-> [k \in S |-> G(k)]]
           step[i \in 0..MaxTrace] ==
             IF i = 0 THEN j
             ELSE LET k == step[i - 1] IN IF k.chain[p] = 0 THEN k ELSE FlushRoot(k, k.chain[p])
<1>1. MaxTrace \in Nat
  BY MaxTraceType
<1>2. j \in S
  BY DEF Core, JitType, SameBook, OnlyUnpatched
<1>3. ASSUME NEW k \in S
      PROVE  G(k) \in S
  <2>1. Core(k) /\ SameBook(j, k) /\ OnlyUnpatched(j, k) /\ k.patch = NoPatch
    BY DEF SameBook
  <2>2. CASE k.chain[p] # 0
    <3>1. k.chain[p] \in Roots(k)
      <4>1. ListOf(NextRoot(k), k.chain[p], Chained(k, p)) /\ Chained(k, p) \subseteq Roots(k)
        BY <2>1 DEF Core, Graph, ChainInv
      <4> QED
        BY <2>2, <4>1, ListFacts
    <3> DEFINE r == FlushRoot(k, k.chain[p])
    <3>2. Core(r) /\ SameBook(k, r) /\ OnlyUnpatched(k, r)
      BY <2>1, <3>1, FlushRootCore
    <3> HIDE DEF r
    <3>3. SameBook(j, r) /\ OnlyUnpatched(j, r) /\ r \in JitSet
      BY <2>1, <3>2, OnlyUnpatchedTwice DEF Core, JitType
    <3> QED
      BY <2>2, <3>2, <3>3 DEF r
  <2> QED
    BY <2>2
<1>4. F \in Steps(MaxTrace, S)
  <2> HIDE DEF G, S
  <2> QED
    BY <1>3 DEF Steps
<1>5. \A i \in 1..MaxTrace : \A k \in S : F[i][k] = G(k)
  <2> HIDE DEF G, S
  <2> QED
    OBVIOUS
<1> HIDE DEF F
<1>6. PICK g : IsRun(g, MaxTrace, S, j, F)
  <2> HIDE DEF S
  <2> QED
    BY <1>1, <1>2, <1>4, Recursion
<1>7. g \in [0..MaxTrace -> S] /\ g[0] = j /\ \A i \in 1..MaxTrace : g[i] = G(g[i - 1])
  <2> HIDE DEF G, S
  <2>1. \A i \in 1..MaxTrace : i - 1 \in 0..MaxTrace
    BY <1>1
  <2> QED
    BY <1>5, <1>6, <2>1 DEF IsRun
<1>8. g = [i \in 0..MaxTrace |->
             IF i = 0 THEN j
             ELSE LET k == g[i - 1] IN IF k.chain[p] = 0 THEN k ELSE FlushRoot(k, k.chain[p])]
  <2>1. g = [i \in 0..MaxTrace |-> IF i = 0 THEN j ELSE G(g[i - 1])]
    <3> HIDE DEF G, S
    <3> QED
      BY <1>1, <1>7
  <2> QED
    BY <2>1
<1>9. step = [i \in 0..MaxTrace |->
             IF i = 0 THEN j
             ELSE LET k == step[i - 1] IN IF k.chain[p] = 0 THEN k ELSE FlushRoot(k, k.chain[p])]
  BY <1>8
<1>10. FlushProto(j, p) = step[MaxTrace]
  BY DEF FlushProto
<1> HIDE DEF step
<1>11. 0..MaxTrace \subseteq {i \in 0..MaxTrace : step[i] = g[i]}
  <2> DEFINE T == {i \in 0..MaxTrace : step[i] = g[i]}
  <2>1. step = [i \in 0..MaxTrace |-> IF i = 0 THEN j ELSE G(step[i - 1])]
    BY <1>9
  <2> HIDE DEF G, S
  <2>2. 0 \in T
    BY <1>1, <1>7, <2>1
  <2>3. ASSUME NEW i \in 0..MaxTrace, i # 0, i - 1 \in T
        PROVE  i \in T
    BY <1>1, <1>7, <2>1, <2>3
  <2> HIDE DEF T
  <2> QED
    BY <1>1, <2>2, <2>3, Induction DEF T
<1>12. step[MaxTrace] = g[MaxTrace] /\ g[MaxTrace] \in S
  <2> HIDE DEF S
  <2> QED
    BY <1>1, <1>7, <1>11
<1> QED
  BY <1>10, <1>12

\* What holds while all traces are dropped, one after the other.
Dropping(j) == JitType(j) /\ j.patch = NoPatch /\ ChainInv(j) /\ EntryInv(j)
DropTrace(k, n) == [Flush(k, n) EXCEPT !.trace[n] = Null]

LEMMA DropTraceKeeps ==
  ASSUME NEW k, Dropping(k), NEW n \in TraceNo
  PROVE  LET r == DropTrace(k, n)
         IN  /\ Dropping(r) /\ SameBook(k, r) /\ OnlyUnpatched(k, r)
             /\ r.trace[n] = Null /\ \A m \in TraceNo : k.trace[m] = Null => r.trace[m] = Null
<1> DEFINE f == Flush(k, n)
           r == DropTrace(k, n)
<1>1. Dropping(f) /\ SameBook(k, f) /\ OnlyUnpatched(k, f)
      /\ (\A q \in Proto : n \notin Chained(f, q))
      /\ (\A m \in TraceNo : k.trace[m] = Null => f.trace[m] = Null)
  <2>1. CASE n \in Roots(k)
    <3>1. f = FlushRoot(k, n)
      BY <2>1 DEF Flush
    <3>2. JitType(f) /\ SameBook(k, f) /\ OnlyUnpatched(k, f)
      <4> DEFINE u == FlushRoot(k, n)
      <4>1. JitType(u) /\ SameBook(k, u) /\ OnlyUnpatched(k, u)
        BY <2>1, FlushRootShape DEF Dropping
      <4> HIDE DEF u, f
      <4> QED
        BY <3>1, <4>1 DEF u
    <3>3. ChainInv(f) /\ \A q \in Proto : Chained(f, q) = Chained(k, q) \ {n}
      BY <2>1, <3>1, FlushRootChains DEF Dropping
    <3>4. \A m \in TraceNo : f.trace[m] = k.trace[m] \/ m \in Real(k)
      BY <2>1, <3>1, FlushRootChains DEF Dropping
    <3>5. EntryInv(f)
      BY <2>1, <3>1, FlushRootEntries DEF Dropping
    <3> QED
      BY <3>2, <3>3, <3>4, <3>5 DEF Dropping, SameBook, Real
  <2>2. CASE n \notin Roots(k)
    <3>1. f = k
      BY <2>2 DEF Flush
    <3>2. \A q \in Proto : n \notin Chained(k, q)
      BY <2>2 DEF Dropping, ChainInv
    <3> QED
      BY <3>1, <3>2 DEF SameBook, OnlyUnpatched
  <2> QED
    BY <2>1, <2>2
<1>2. JitType(r) /\ SameBook(f, r) /\ r.bc = f.bc /\ r.chain = f.chain /\ r.trace = [f.trace EXCEPT ![n] = Null]
      /\ f.trace \in [TraceNo -> Trace \cup {Null, Cur}]
  <2> HIDE DEF f
  <2>1. r = [f EXCEPT !.trace[n] = Null]
    BY DEF DropTrace, f
  <2> HIDE DEF r
  <2>2. f \in JitSet /\ f.trace \in [TraceNo -> Trace \cup {Null, Cur}]
    BY <1>1 DEF Dropping, JitType, JitSet
  <2>3. [f.trace EXCEPT ![n] = Null] \in [TraceNo -> Trace \cup {Null, Cur}]
    BY <2>2
  <2> QED
    BY <2>1, <2>2, <2>3 DEF JitType, JitSet, SameBook
<1> HIDE DEF f, r
<1>3. Real(r) = Real(f) \ {n} /\ Roots(r) = Roots(f) \ {n}
  <2>1. Real(r) = Real(f) \ {n}
    BY <1>2 DEF Real
  <2> QED
    BY <1>2, <2>1 DEF Roots, Real
<1>4. \A m \in TraceNo \ {n} : NextRoot(r)[m] = NextRoot(f)[m]
  BY <1>2, <1>3 DEF NextRoot
<1>5. ASSUME NEW q \in Proto
      PROVE  ListOf(NextRoot(r), r.chain[q], Chained(f, q)) /\ Chained(r, q) = Chained(f, q)
  <2>1. ListOf(NextRoot(f), f.chain[q], Chained(f, q)) /\ Chained(f, q) \subseteq TraceNo \ {n}
    BY <1>1, RealFacts DEF Dropping, ChainInv
  <2>2. ListOf(NextRoot(r), f.chain[q], Chained(f, q))
    BY <1>4, <2>1, SameList
  <2> QED
    BY <1>2, <2>2, AlongList DEF Chained
<1>6. ChainInv(r)
  <2>1. ASSUME NEW q \in Proto
        PROVE  /\ ListOf(NextRoot(r), r.chain[q], Chained(r, q))
               /\ Chained(r, q) \subseteq {m \in Roots(r) \ r.dead : ProtoOf[r.trace[m].pc] = q}
    <3>1. Chained(f, q) \subseteq {m \in Roots(f) \ f.dead : ProtoOf[f.trace[m].pc] = q}
      BY <1>1 DEF Dropping, ChainInv
    <3>2. \A m \in Chained(f, q) : r.trace[m] = f.trace[m] /\ m # n
      BY <1>1, <1>2, <3>1, RealFacts DEF Dropping
    <3> QED
      BY <1>2, <1>3, <1>5, <3>1, <3>2 DEF SameBook
  <2> QED
    BY <2>1 DEF ChainInv
<1>7. EntryInv(r)
  <2> SUFFICES ASSUME NEW pc \in Pc, Entry(r, pc) # 0
               PROVE  Entry(r, pc) \in Chained(r, ProtoOf[pc]) /\ r.trace[Entry(r, pc)].pc = pc
    BY DEF EntryInv
  <2>1. Entry(r, pc) = Entry(f, pc)
    BY <1>2 DEF Entry, SameBook
  <2>2. ProtoOf[pc] \in Proto
    BY TraceFacts
  <2>3. Entry(f, pc) \in Chained(f, ProtoOf[pc]) /\ f.trace[Entry(f, pc)].pc = pc
    BY <1>1, <2>1 DEF Dropping, EntryInv
  <2>4. Entry(f, pc) \in TraceNo \ {n}
    BY <1>1, <2>2, <2>3, RealFacts DEF Dropping, ChainInv
  <2>5. r.trace[Entry(f, pc)] = f.trace[Entry(f, pc)]
    BY <1>2, <2>4
  <2> QED
    BY <1>5, <2>1, <2>2, <2>3, <2>5
<1>8. Dropping(r)
  BY <1>1, <1>2, <1>6, <1>7 DEF Dropping, SameBook
<1>9. SameBook(k, r) /\ OnlyUnpatched(k, r)
  BY <1>1, <1>2 DEF SameBook, OnlyUnpatched
<1>10. r.trace[n] = Null /\ \A m \in TraceNo : k.trace[m] = Null => r.trace[m] = Null
  BY <1>1, <1>2
<1> QED
  BY <1>8, <1>9, <1>10 DEF r

\* All traces.
LEMMA FlushAllShape ==
  ASSUME NEW j, Dropping(j)
  PROVE  LET r == FlushAll(j)
         IN  /\ JitType(r) /\ OnlyUnpatched(j, r) /\ r.patch = NoPatch
             /\ \A pc \in Pc : r.bc[pc].d = 0
             /\ r.maxtrace = j.maxtrace /\ r.nojit = j.nojit /\ r.iloop = j.iloop /\ r.bcskip = j.bcskip
             /\ r.state = j.state /\ r.cur = [j.cur EXCEPT !.no = 0]
             /\ r.freetrace = 0 /\ r.dead = {}
             /\ \A p \in Proto : r.chain[p] = 0
             /\ \A n \in TraceNo : r.trace[n] = Null
<1> DEFINE S == {k \in JitSet : Dropping(k) /\ SameBook(j, k) /\ OnlyUnpatched(j, k)}
           no(i) == MaxTrace + 1 - i
           F == [i \in 1..MaxTrace |-> [k \in S |-> DropTrace(k, no(i))]]
           step[i \in 0..MaxTrace] ==
             IF i = 0 THEN j
             ELSE LET n == MaxTrace + 1 - i IN [Flush(step[i - 1], n) EXCEPT !.trace[n] = Null]
<1>1. MaxTrace \in Nat /\ \A i \in 1..MaxTrace : no(i) \in TraceNo
  BY MaxTraceType DEF TraceNo
<1>2. j \in S
  BY DEF Dropping, JitType, SameBook, OnlyUnpatched
<1>3. ASSUME NEW k \in S, NEW n \in TraceNo
      PROVE  DropTrace(k, n) \in S
  <2>1. Dropping(k) /\ SameBook(j, k) /\ OnlyUnpatched(j, k)
    OBVIOUS
  <2> DEFINE r == DropTrace(k, n)
  <2>2. Dropping(r) /\ SameBook(k, r) /\ OnlyUnpatched(k, r)
    BY <2>1, DropTraceKeeps
  <2> HIDE DEF r
  <2>3. SameBook(j, r) /\ OnlyUnpatched(j, r) /\ r \in JitSet
    BY <2>1, <2>2, OnlyUnpatchedTwice DEF Dropping, JitType
  <2> QED
    BY <2>2, <2>3 DEF r
<1>4. F \in Steps(MaxTrace, S)
  <2> HIDE DEF S, no
  <2> QED
    BY <1>1, <1>3 DEF Steps
<1>5. \A i \in 1..MaxTrace : \A k \in S : F[i][k] = DropTrace(k, no(i))
  <2> HIDE DEF S, no
  <2> QED
    OBVIOUS
<1> HIDE DEF F
<1>6. PICK g : IsRun(g, MaxTrace, S, j, F)
  <2> HIDE DEF S
  <2> QED
    BY <1>1, <1>2, <1>4, Recursion
<1>7. g \in [0..MaxTrace -> S] /\ g[0] = j /\ \A i \in 1..MaxTrace : g[i] = DropTrace(g[i - 1], no(i))
  <2> HIDE DEF S, no
  <2>1. \A i \in 1..MaxTrace : i - 1 \in 0..MaxTrace
    BY <1>1
  <2> QED
    BY <1>5, <1>6, <2>1 DEF IsRun
<1>8. g = [i \in 0..MaxTrace |->
             IF i = 0 THEN j
             ELSE LET n == MaxTrace + 1 - i IN [Flush(g[i - 1], n) EXCEPT !.trace[n] = Null]]
  <2>1. g = [i \in 0..MaxTrace |-> IF i = 0 THEN j ELSE DropTrace(g[i - 1], no(i))]
    <3> HIDE DEF S, no
    <3> QED
      BY <1>1, <1>7
  <2> QED
    BY <2>1 DEF DropTrace
<1>9. step = [i \in 0..MaxTrace |->
             IF i = 0 THEN j
             ELSE LET n == MaxTrace + 1 - i IN [Flush(step[i - 1], n) EXCEPT !.trace[n] = Null]]
  BY <1>8
<1> DEFINE last == step[MaxTrace]
<1>10. FlushAll(j) = [last EXCEPT !.cur.no = 0, !.freetrace = 0, !.dead = {},
                             !.penalty = [i \in 1..PenaltySlots |-> [pc |-> Null, val |-> 0]]]
  BY DEF FlushAll
<1> HIDE DEF step
<1>11. 0..MaxTrace \subseteq {i \in 0..MaxTrace : step[i] = g[i]}
  <2> DEFINE T == {i \in 0..MaxTrace : step[i] = g[i]}
  <2>1. step = [i \in 0..MaxTrace |-> IF i = 0 THEN j ELSE DropTrace(step[i - 1], no(i))]
    BY <1>9 DEF DropTrace
  <2> HIDE DEF S, no
  <2>2. 0 \in T
    BY <1>1, <1>7, <2>1
  <2>3. ASSUME NEW i \in 0..MaxTrace, i # 0, i - 1 \in T
        PROVE  i \in T
    BY <1>1, <1>7, <2>1, <2>3
  <2> HIDE DEF T
  <2> QED
    BY <1>1, <2>2, <2>3, Induction DEF T
<1>12. last = g[MaxTrace] /\ g[MaxTrace] \in S
  <2> HIDE DEF S
  <2> QED
    BY <1>1, <1>7, <1>11
<1>13. Dropping(last) /\ SameBook(j, last) /\ OnlyUnpatched(j, last)
  BY <1>12
<1>14. \A n \in TraceNo : last.trace[n] = Null
  <2> DEFINE T == {i \in 0..MaxTrace : \A n \in TraceNo : n > MaxTrace - i => g[i].trace[n] = Null}
  <2>1. 0 \in T
    BY <1>1 DEF TraceNo
  <2>2. ASSUME NEW i \in 0..MaxTrace, i # 0, i - 1 \in T
        PROVE  i \in T
    <3>1. i \in 1..MaxTrace /\ i - 1 \in 0..MaxTrace /\ g[i - 1] \in S /\ no(i) \in TraceNo
      <4> HIDE DEF S
      <4> QED
        BY <1>1, <1>7, <2>2
    <3>2. Dropping(g[i - 1]) /\ g[i] = DropTrace(g[i - 1], no(i))
      BY <1>7, <3>1
    <3>3. g[i].trace[no(i)] = Null /\ \A m \in TraceNo : g[i - 1].trace[m] = Null => g[i].trace[m] = Null
      <4> HIDE DEF S, no
      <4> QED
        BY <3>1, <3>2, DropTraceKeeps
    <3>4. \A n \in TraceNo : n > MaxTrace - i => n = no(i) \/ n > MaxTrace - (i - 1)
      BY <1>1 DEF TraceNo
    <3> HIDE DEF no
    <3> QED
      BY <2>2, <3>3, <3>4
  <2>3. MaxTrace \in T
    <3> HIDE DEF T
    <3>1. 0..MaxTrace \subseteq T
      BY <1>1, <2>1, <2>2, Induction
    <3> QED
      BY <1>1, <3>1
  <2> QED
    BY <1>1, <1>12, <2>3 DEF TraceNo
<1> HIDE DEF last
<1>15. Real(last) = {}
  BY <1>14 DEF Real
<1>16. \A p \in Proto : Chained(last, p) = {} /\ last.chain[p] = 0
  <2>1. \A p \in Proto : Chained(last, p) = {} /\ ListOf(NextRoot(last), last.chain[p], Chained(last, p))
    BY <1>13, <1>15 DEF Dropping, ChainInv, Roots
  <2> QED
    BY <2>1, ListFacts
<1>17. \A pc \in Pc : last.bc[pc].d = 0
  <2>1. \A pc \in Pc : Entry(last, pc) = last.bc[pc].d
    BY <1>13, TraceFacts DEF Entry, NoPatch, Dropping
  <2> QED
    BY <1>13, <1>16, <2>1, TraceFacts DEF Dropping, EntryInv
<1> DEFINE none == [i \in 1..PenaltySlots |-> [pc |-> Null, val |-> 0]]
           r == FlushAll(j)
<1>18. none \in [1..PenaltySlots -> Penalties] /\ [last.cur EXCEPT !.no = 0] \in Cursor
  BY <1>13 DEF Penalties, Dropping, JitType, JitSet, Cursor, Number
<1>19. r = [last EXCEPT !.cur.no = 0, !.freetrace = 0, !.dead = {}, !.penalty = none]
  BY <1>10
<1> HIDE DEF none, r
<1>20. JitType(r)
  <2>1. r = [last EXCEPT !.cur = [last.cur EXCEPT !.no = 0], !.freetrace = 0, !.dead = {}, !.penalty = none]
    BY <1>19
  <2>2. 0 \in 0..MaxTrace + 1 /\ {} \in SUBSET TraceNo /\ last \in JitSet
    BY <1>1, <1>13 DEF Dropping, JitType
  <2> QED
    BY <1>18, <2>1, <2>2 DEF JitType, JitSet
<1>21. /\ r.bc = last.bc /\ r.patch = last.patch /\ r.maxtrace = last.maxtrace /\ r.nojit = last.nojit
       /\ r.iloop = last.iloop /\ r.bcskip = last.bcskip /\ r.state = last.state
       /\ r.cur = [last.cur EXCEPT !.no = 0] /\ r.freetrace = 0 /\ r.dead = {}
       /\ r.chain = last.chain /\ r.trace = last.trace
  BY <1>13, <1>19 DEF Dropping, JitType, JitSet
<1> QED
  BY <1>13, <1>14, <1>16, <1>17, <1>20, <1>21 DEF r, SameBook, OnlyUnpatched, Dropping

\* With no traces at all.
LEMMA EmptyCore ==
  ASSUME NEW r, JitType(r), r.patch = NoPatch, r.freetrace \in {0, 1}, r.dead = {}, r.cur.no = 0,
         \A pc \in Pc : r.bc[pc].d = 0, \A p \in Proto : r.chain[p] = 0,
         \A n \in TraceNo : r.trace[n] = Null
  PROVE  Core(r)
<1>1. Real(r) = {} /\ Roots(r) = {} /\ Live(r) = {}
  BY DEF Real, Roots, Live
<1>2. ChainInv(r)
  <2>1. \A p \in Proto : ListOf(NextRoot(r), r.chain[p], {})
    BY EmptyList
  <2>2. \A p \in Proto : Chained(r, p) = {}
    BY <2>1, AlongList DEF Chained
  <2> QED
    BY <2>1, <2>2 DEF ChainInv
<1>3. EntryInv(r)
  BY TraceFacts DEF EntryInv, Entry, NoPatch
<1>4. TreeInv(r)
  <2>1. [n \in TraceNo |-> 0] \in [TraceNo -> Nat]
    OBVIOUS
  <2> QED
    BY <1>1, <2>1 DEF TreeInv
<1>5. LinkInv(r) /\ SideInv(r)
  BY <1>1 DEF LinkInv, SideInv
<1>6. FreeInv(r) /\ PatchInv(r) /\ CurrentOnly(r)
  BY TraceFacts, CompilerAssumption DEF FreeInv, PatchInv, CurrentOnly, TraceNo
<1> QED
  BY <1>1, <1>2, <1>3, <1>4, <1>5, <1>6 DEF Core, Graph

LEMMA FlushAllCore ==
  ASSUME NEW j, Core(j), j.patch = NoPatch
  PROVE  LET r == FlushAll(j)
         IN  /\ Core(r) /\ OnlyUnpatched(j, r) /\ r.patch = NoPatch
             /\ r.maxtrace = j.maxtrace /\ r.nojit = j.nojit /\ r.iloop = j.iloop /\ r.bcskip = j.bcskip
             /\ r.state = j.state /\ r.cur = [j.cur EXCEPT !.no = 0] /\ r.cur.no = 0
<1> DEFINE r == FlushAll(j)
<1>1. Dropping(j)
  BY DEF Dropping, Core, Graph
<1>2. /\ JitType(r) /\ OnlyUnpatched(j, r) /\ r.patch = NoPatch
      /\ \A pc \in Pc : r.bc[pc].d = 0
      /\ r.maxtrace = j.maxtrace /\ r.nojit = j.nojit /\ r.iloop = j.iloop /\ r.bcskip = j.bcskip
      /\ r.state = j.state /\ r.cur = [j.cur EXCEPT !.no = 0]
      /\ r.freetrace = 0 /\ r.dead = {}
      /\ \A p \in Proto : r.chain[p] = 0
      /\ \A n \in TraceNo : r.trace[n] = Null
  BY <1>1, FlushAllShape
<1> HIDE DEF r
<1>3. r.cur.no = 0
  BY <1>2 DEF Core, JitType, JitSet, Cursor
<1>4. Core(r)
  BY <1>2, <1>3, EmptyCore
<1> QED
  BY <1>2, <1>3, <1>4 DEF r
-------------------------------------------------------------------------------
(* Patches, penalties and numbers.                                         *)

LEMMA KeptCore ==
  ASSUME NEW j, Core(j), NEW r, JitType(r), SameLinks(j, r),
         \A pc \in Pc : Entry(r, pc) \in {0, Entry(j, pc)},
         FreeInv(r), PatchInv(r), CurrentOnly(r)
  PROVE  Core(r)
<1>1. Graph(r) /\ \A p : Chained(r, p) = Chained(j, p)
  BY SameGraph DEF Core
<1>2. ASSUME NEW pc \in Pc, Entry(r, pc) # 0
      PROVE  Entry(r, pc) \in Chained(r, ProtoOf[pc]) /\ r.trace[Entry(r, pc)].pc = pc
  <2> DEFINE e == Entry(j, pc)
  <2>1. Entry(r, pc) = e /\ e # 0
    BY <1>2
  <2>2. e \in Chained(j, ProtoOf[pc]) /\ j.trace[e].pc = pc /\ ProtoOf[pc] \in Proto
    BY <2>1, TraceFacts DEF Core, EntryInv
  <2>3. e \in Roots(j)
    BY <2>2 DEF Core, Graph, ChainInv
  <2>4. e \in Real(j)
    BY <2>3, RealFacts DEF Core
  <2> HIDE DEF e
  <2>5. r.trace[e] = j.trace[e]
    BY <2>4 DEF SameLinks
  <2> QED
    BY <1>1, <2>1, <2>2, <2>5
<1>3. EntryInv(r)
  BY <1>2 DEF EntryInv
<1> QED
  BY <1>1, <1>3 DEF Core

\* A pending patch is done.
LEMMA PendPatchCore ==
  ASSUME NEW j, Core(j)
  PROVE  LET r == PendPatch(j)
         IN  /\ Core(r) /\ SameLinks(j, r) /\ r.patch = NoPatch
             /\ \A pc \in Pc : r.bc[pc] = j.bc[pc] \/ (pc = j.patch.pc /\ r.bc[pc].op = "jit")
             /\ r.maxtrace = j.maxtrace /\ r.nojit = j.nojit /\ r.iloop = j.iloop /\ r.bcskip = j.bcskip
             /\ r.freetrace = j.freetrace /\ r.state = j.state /\ r.cur = j.cur /\ r.trace = j.trace
<1> DEFINE r == PendPatch(j)
<1>1. CASE j.patch = NoPatch
  BY <1>1 DEF PendPatch, SameLinks
<1>2. CASE j.patch # NoPatch
  <2> DEFINE at == j.patch.pc
             d == j.patch.d
  <2>1. at \in Pc /\ d \in TraceNo /\ at # Null /\ JitType(j)
    <3>1. at \in Starts /\ d # 0 /\ JitType(j)
      BY <1>2 DEF Core, PatchInv
    <3>2. d \in Number
      BY <3>1 DEF JitType, JitSet
    <3> QED
      BY <3>1, <3>2, TraceFacts
  <2>2. r = [j EXCEPT !.bc[at] = Jit(d), !.patch = NoPatch]
    BY <1>2 DEF PendPatch
  <2>3. j.bc \in [Pc -> Code] /\ [j.bc EXCEPT ![at] = Jit(d)] \in [Pc -> Code]
        /\ NoPatch \in [pc : Pc \cup {Null}, d : Number]
    BY <2>1, CodeFacts, TraceFacts DEF JitType, JitSet, NoPatch
  <2> HIDE DEF r, at, d
  <2>4. JitType(r)
    BY <2>1, <2>2, <2>3 DEF JitType, JitSet
  <2>5. /\ r.bc = [j.bc EXCEPT ![at] = Jit(d)] /\ r.patch = NoPatch /\ r.chain = j.chain /\ r.trace = j.trace
        /\ r.maxtrace = j.maxtrace /\ r.nojit = j.nojit /\ r.iloop = j.iloop /\ r.bcskip = j.bcskip
        /\ r.freetrace = j.freetrace /\ r.state = j.state /\ r.cur = j.cur /\ r.dead = j.dead
    BY <2>1, <2>2 DEF JitType, JitSet
  <2>6. \A pc \in Pc : r.bc[pc] = IF pc = at THEN Jit(d) ELSE j.bc[pc]
    BY <2>1, <2>3, <2>5
  <2>7. ASSUME NEW pc \in Pc
        PROVE  Entry(r, pc) = Entry(j, pc)
    <3>1. r.patch.pc # pc
      BY <2>5, TraceFacts DEF NoPatch
    <3>2. CASE pc = at
      BY <2>6, <3>1, <3>2, CodeFacts DEF Entry, at, d
    <3>3. CASE pc # at
      BY <2>6, <3>1, <3>3 DEF Entry, at
    <3> QED
      BY <3>2, <3>3
  <2>8. SameLinks(j, r)
    BY <2>5 DEF SameLinks, Real
  <2>9. FreeInv(r) /\ PatchInv(r) /\ CurrentOnly(r)
    BY <2>5 DEF Core, FreeInv, PatchInv, CurrentOnly
  <2>10. Core(r)
    BY <2>4, <2>7, <2>8, <2>9, KeptCore
  <2>11. \A pc \in Pc : r.bc[pc] = j.bc[pc] \/ (pc = at /\ r.bc[pc].op = "jit")
    BY <2>6, CodeFacts
  <2> QED
    BY <2>5, <2>8, <2>10, <2>11 DEF r, at
<1> QED
  BY <1>1, <1>2

\* What penalties may change.
Penalized(j, r, p, at) ==
  /\ r.patch = NoPatch /\ r.trace = j.trace /\ r.chain = j.chain /\ r.dead = j.dead
  /\ r.maxtrace = j.maxtrace /\ r.nojit = j.nojit /\ r.bcskip = j.bcskip
  /\ r.freetrace = j.freetrace /\ r.state = j.state /\ r.cur = j.cur
  /\ \A pc \in Pc \ {at} : r.bc[pc] = j.bc[pc]
  /\ \/ r.bc = j.bc /\ r.iloop = j.iloop
     \/ /\ r.iloop = j.iloop \cup {p}
        /\ r.bc[at] = IF j.bc[at] = Plain /\ at \in Loop \cup Func THEN Interp ELSE Wrong

LEMMA PenalizedCore ==
  ASSUME NEW j, Core(j), NEW r, NEW p, NEW at \in Pc, Penalized(j, r, p, at), JitType(r)
  PROVE  Core(r)
<1>1. SameLinks(j, r)
  BY DEF SameLinks, Real, Penalized
<1>2. ASSUME NEW pc \in Pc
      PROVE  Entry(r, pc) \in {0, j.bc[pc].d} /\ (j.patch = NoPatch => Entry(j, pc) = j.bc[pc].d)
  <2>1. Entry(r, pc) = r.bc[pc].d
    BY TraceFacts DEF Penalized, Entry, NoPatch
  <2>2. r.bc[pc] = j.bc[pc] \/ r.bc[pc] \in {Interp, Wrong}
    BY DEF Penalized
  <2>3. j.patch = NoPatch => Entry(j, pc) = j.bc[pc].d
    BY TraceFacts DEF Entry, NoPatch
  <2> QED
    BY <2>1, <2>2, <2>3, CodeFacts
<1>3. \A pc \in Pc : Entry(r, pc) \in {0, Entry(j, pc)}
  <2>1. \A pc \in Pc : j.bc[pc].d \in {0, Entry(j, pc)}
    <3> SUFFICES ASSUME NEW pc \in Pc
                 PROVE  j.bc[pc].d \in {0, Entry(j, pc)}
      OBVIOUS
    <3>1. CASE j.patch.pc = pc
      <4>1. j.bc[pc] = Plain
        BY <3>1, TraceFacts DEF Core, PatchInv, NoPatch
      <4> QED
        BY <4>1, CodeFacts
    <3>2. CASE j.patch.pc # pc
      BY <3>2 DEF Entry
    <3> QED
      BY <3>1, <3>2
  <2> QED
    BY <1>2, <2>1
<1>4. FreeInv(r) /\ PatchInv(r) /\ CurrentOnly(r)
  BY DEF Core, FreeInv, PatchInv, CurrentOnly, Penalized
<1> QED
  BY <1>1, <1>3, <1>4, KeptCore

LEMMA BlacklistShape ==
  ASSUME NEW j, JitType(j), j.patch = NoPatch, NEW p \in Proto \cup {Null}, NEW at \in Pc
  PROVE  JitType(Blacklist(j, p, at)) /\ Penalized(j, Blacklist(j, p, at), p, at)
<1> DEFINE c == IF j.bc[at] = Plain /\ at \in Loop \cup Func THEN Interp ELSE Wrong
           r == Blacklist(j, p, at)
<1>1. c \in Code /\ j.bc \in [Pc -> Code] /\ [j.bc EXCEPT ![at] = c] \in [Pc -> Code]
      /\ j.iloop \cup {p} \in SUBSET (Proto \cup {Null})
  BY CodeFacts DEF JitType, JitSet
<1>2. r = [j EXCEPT !.bc = [j.bc EXCEPT ![at] = c], !.iloop = j.iloop \cup {p}]
  BY DEF Blacklist
<1> HIDE DEF r
<1>3. JitType(r)
  <2> HIDE DEF c
  <2> QED
    BY <1>1, <1>2 DEF JitType, JitSet
<1>4. /\ r.patch = j.patch /\ r.trace = j.trace /\ r.chain = j.chain /\ r.dead = j.dead
      /\ r.maxtrace = j.maxtrace /\ r.nojit = j.nojit /\ r.bcskip = j.bcskip
      /\ r.freetrace = j.freetrace /\ r.state = j.state /\ r.cur = j.cur
      /\ r.bc = [j.bc EXCEPT ![at] = c] /\ r.iloop = j.iloop \cup {p}
  <2> HIDE DEF c
  <2> QED
    BY <1>2 DEF JitType, JitSet
<1>5. r.bc[at] = c /\ \A pc \in Pc \ {at} : r.bc[pc] = j.bc[pc]
  BY <1>1, <1>4
<1>6. Penalized(j, r, p, at)
  BY <1>4, <1>5 DEF Penalized
<1> QED
  BY <1>3, <1>6 DEF r

LEMMA PenalizeShape ==
  ASSUME NEW j, JitType(j), j.patch = NoPatch, NEW p \in Proto \cup {Null}, NEW at \in Pc,
         NEW rnd \in PenaltyRandom
  PROVE  JitType(Penalize(j, p, at, rnd)) /\ Penalized(j, Penalize(j, p, at, rnd), p, at)
<1> DEFINE r == Penalize(j, p, at, rnd)
           known == {i \in 1..PenaltySlots : j.penalty[i].pc = at}
           i == Min(known)
           val == 2 * j.penalty[i].val + rnd
<1>1. /\ PenaltySlots \in Nat \ {0} /\ PenaltyMin \in Nat /\ rnd \in Nat
      /\ j.penalty \in [1..PenaltySlots -> Penalties] /\ j.slot \in 1..PenaltySlots
  BY CompilerAssumption DEF JitType, JitSet
<1>2. CASE known = {}
  <2> DEFINE new == [pc |-> at, val |-> PenaltyMin]
             pen == [j.penalty EXCEPT ![j.slot] = new]
             slot == (j.slot % PenaltySlots) + 1
  <2>1. pen \in [1..PenaltySlots -> Penalties] /\ slot \in 1..PenaltySlots
    BY <1>1 DEF Penalties
  <2>2. r = [j EXCEPT !.penalty = pen, !.slot = slot]
    BY <1>2 DEF Penalize
  <2> HIDE DEF r, pen, slot
  <2>3. JitType(r)
    BY <2>1, <2>2 DEF JitType, JitSet
  <2>4. Penalized(j, r, p, at)
    BY <2>2 DEF JitType, JitSet, Penalized
  <2> QED
    BY <2>3, <2>4 DEF r
<1>3. CASE known # {}
  <2>1. i \in known
    <3>1. known \in SUBSET Nat
      OBVIOUS
    <3> HIDE DEF known
    <3>2. \E x \in known : \A y \in known : x <= y
      BY <1>3, <3>1, Least
    <3> QED
      BY <3>2 DEF Min
  <2>2. val \in Nat
    <3>1. i \in 1..PenaltySlots
      BY <2>1
    <3> HIDE DEF i, known
    <3>2. j.penalty[i].val \in Nat
      BY <1>1, <3>1 DEF Penalties
    <3>3. \A v, w \in Nat : 2 * v + w \in Nat
      OBVIOUS
    <3>4. rnd \in Nat
      BY <1>1
    <3> QED
      BY <3>2, <3>3, <3>4
  <2>3. CASE val > PenaltyMax
    <3>1. r = Blacklist(j, p, at)
      BY <1>3, <2>3 DEF Penalize
    <3> HIDE DEF r
    <3> QED
      BY <3>1, BlacklistShape DEF r
  <2>4. CASE ~(val > PenaltyMax)
    <3> DEFINE pen == [j.penalty EXCEPT ![i].val = val]
    <3>1. r = [j EXCEPT !.penalty = pen]
      BY <1>3, <2>4 DEF Penalize
    <3>2. i \in 1..PenaltySlots
      BY <2>1
    <3> HIDE DEF r, val, i, known
    <3>3. pen \in [1..PenaltySlots -> Penalties]
      BY <1>1, <2>2, <3>2 DEF Penalties
    <3> HIDE DEF pen
    <3>4. JitType(r)
      BY <3>1, <3>3 DEF JitType, JitSet
    <3>5. Penalized(j, r, p, at)
      BY <3>1 DEF JitType, JitSet, Penalized
    <3> QED
      BY <3>4, <3>5 DEF r
  <2> QED
    BY <2>3, <2>4
<1> QED
  BY <1>2, <1>3


LEMMA Minimum ==
  ASSUME NEW T \in SUBSET Nat, T # {}
  PROVE  Min(T) \in T /\ \A y \in T : Min(T) <= y
<1>1. \E x \in T : \A y \in T : x <= y
  BY Least
<1> QED
  BY <1>1 DEF Min

LEMMA MinimumOfTwo ==
  ASSUME NEW m \in Nat, NEW n \in Nat
  PROVE  Min({m, n}) \in {m, n} /\ Min({m, n}) <= m /\ Min({m, n}) <= n
<1>1. {m, n} \in SUBSET Nat /\ {m, n} # {}
  OBVIOUS
<1> QED
  BY <1>1, Minimum

\* The number found is the lowest that is free.
LEMMA FindFreeFacts ==
  ASSUME NEW j, JitType(j), FreeInv(j)
  PROVE  LET no == FindFree(j)
         IN  /\ no \in Number
             /\ no # 0 => /\ j.trace[no] = Null /\ no <= j.maxtrace
                          /\ \A n \in TraceNo : n < no => j.trace[n] # Null
             /\ no = 0 => \A n \in 1..j.maxtrace : j.trace[n] # Null
<1> DEFINE free == {n \in 1..j.maxtrace : n >= j.freetrace /\ j.trace[n] = Null}
<1>1. j.maxtrace \in 1..MaxTrace /\ j.freetrace \in 0..MaxTrace + 1 /\ MaxTrace \in Nat
  BY MaxTraceType DEF JitType, JitSet
<1>2. \A n \in 1..j.maxtrace : n \in TraceNo /\ (j.trace[n] = Null => n >= j.freetrace)
  BY <1>1 DEF TraceNo, FreeInv
<1>3. CASE free = {}
  <2>1. FindFree(j) = 0
    BY <1>3 DEF FindFree
  <2> QED
    BY <1>2, <1>3, <2>1 DEF Number
<1>4. CASE free # {}
  <2>1. FindFree(j) = Min(free) /\ free \in SUBSET Nat
    BY <1>1, <1>4 DEF FindFree
  <2>2. Min(free) \in free /\ \A y \in free : Min(free) <= y
    <3> HIDE DEF free
    <3> QED
      BY <1>4, <2>1, Minimum
  <2>3. ASSUME NEW n \in TraceNo, n < Min(free)
        PROVE  j.trace[n] # Null
    <3>1. n \in 1..j.maxtrace
      BY <1>1, <2>2, <2>3 DEF TraceNo
    <3>2. n \notin free
      BY <1>1, <2>2, <2>3
    <3> QED
      BY <1>2, <3>1, <3>2
  <2>4. FindFree(j) # 0 /\ FindFree(j) \in Number
    BY <1>1, <1>2, <2>1, <2>2, TraceFacts
  <2> HIDE DEF free
  <2>5. Min(free) \in 1..j.maxtrace /\ j.trace[Min(free)] = Null
    BY <2>2 DEF free
  <2> QED
    BY <1>1, <2>1, <2>3, <2>4, <2>5
<1> QED
  BY <1>3, <1>4

\* The trace being recorded is dropped.
LEMMA DroppedCore ==
  ASSUME NEW j, Core(j), j.patch = NoPatch, NEW rnd \in PenaltyRandom, NEW parent,
         parent = 0 /\ j.cur.pc \notin Ret => j.cur.pc \in Pc
  PROVE  LET r == Dropped(j, parent, rnd)
         IN  /\ Core(r) /\ r.patch = NoPatch /\ r.cur = [j.cur EXCEPT !.no = 0] /\ r.cur.no = 0
             /\ SameLinks(j, r) /\ r.maxtrace = j.maxtrace /\ r.nojit = j.nojit /\ r.state = j.state
             /\ r.bcskip = j.bcskip
             /\ j.cur.no # 0 => /\ r.freetrace <= j.cur.no /\ r.trace[j.cur.no] = Null
             /\ \/ r.bc = j.bc /\ r.iloop = j.iloop
                \/ /\ parent = 0 /\ j.cur.pc \notin Ret /\ r.iloop = j.iloop \cup {j.cur.pt}
                   /\ \A pc \in Pc \ {j.cur.pc} : r.bc[pc] = j.bc[pc]
                   /\ r.bc[j.cur.pc] = IF j.bc[j.cur.pc] = Plain /\ j.cur.pc \in Loop \cup Func
                                       THEN Interp ELSE Wrong
<1> DEFINE c == j.cur
           penal == parent = 0 /\ c.pc \notin Ret
           k == IF penal THEN Penalize(j, c.pt, c.pc, rnd) ELSE j
           r == Dropped(j, parent, rnd)
           no == c.no
<1>1. JitType(j) /\ c \in Cursor /\ CurrentOnly(j) /\ FreeInv(j)
      /\ j.cur = [no |-> c.no, pt |-> c.pt, pc |-> c.pc, parent |-> c.parent, exit |-> c.exit, root |-> c.root]
  BY DEF Core, JitType, JitSet, Cursor
<1>2. penal => JitType(k) /\ Penalized(j, k, c.pt, c.pc)
  <2>1. c.pt \in Proto \cup {Null}
    BY <1>1 DEF Cursor
  <2> QED
    BY <1>1, <2>1, PenalizeShape
<1>3. /\ JitType(k) /\ Core(k) /\ k.patch = NoPatch /\ k.trace = j.trace /\ k.chain = j.chain /\ k.dead = j.dead
      /\ k.maxtrace = j.maxtrace /\ k.nojit = j.nojit /\ k.bcskip = j.bcskip
      /\ k.freetrace = j.freetrace /\ k.state = j.state /\ k.cur = j.cur
      /\ \/ k.bc = j.bc /\ k.iloop = j.iloop
         \/ /\ penal /\ k.iloop = j.iloop \cup {c.pt}
            /\ \A pc \in Pc \ {c.pc} : k.bc[pc] = j.bc[pc]
            /\ k.bc[c.pc] = IF j.bc[c.pc] = Plain /\ c.pc \in Loop \cup Func THEN Interp ELSE Wrong
  <2>1. CASE penal
    <3>1. JitType(k) /\ Penalized(j, k, c.pt, c.pc) /\ c.pc \in Pc
      BY <1>2, <2>1
    <3> HIDE DEF k
    <3>2. Core(k)
      BY <3>1, PenalizedCore
    <3> QED
      BY <2>1, <3>1, <3>2 DEF Penalized
  <2>2. CASE ~penal
    BY <1>1, <2>2
  <2> QED
    BY <2>1, <2>2
<1>4. r = IF no = 0 THEN k
          ELSE [k EXCEPT !.trace[no] = Null, !.freetrace = Min({k.freetrace, no}), !.cur.no = 0]
  BY DEF Dropped
<1> HIDE DEF k, r, penal
<1>5. CASE no = 0
  <2>1. [j.cur EXCEPT !.no = 0] = j.cur
    BY <1>1, <1>5 DEF Cursor
  <2> QED
    BY <1>3, <1>4, <1>5, <2>1 DEF r, SameLinks, Real, penal
<1>6. CASE no # 0
  <2> DEFINE low == Min({k.freetrace, no})
             tr == [k.trace EXCEPT ![no] = Null]
             cur == [c EXCEPT !.no = 0]
  <2>1. no \in TraceNo /\ j.trace[no] = Cur /\ no \in Nat /\ k.freetrace \in 0..MaxTrace + 1 /\ MaxTrace \in Nat
    BY <1>1, <1>3, <1>6, TraceFacts, MaxTraceType DEF Cursor, CurrentOnly, JitType, JitSet
  <2>2. low \in {k.freetrace, no} /\ low <= k.freetrace /\ low <= no /\ low \in 0..MaxTrace + 1
    BY <2>1, MinimumOfTwo DEF TraceNo
  <2>3. /\ k.trace \in [TraceNo -> Trace \cup {Null, Cur}] /\ tr \in [TraceNo -> Trace \cup {Null, Cur}]
        /\ cur \in Cursor /\ cur.no = 0
    BY <1>1, <1>3, <2>1 DEF JitType, JitSet, Cursor, Number
  <2>4. r = [k EXCEPT !.trace = tr, !.freetrace = low, !.cur = cur]
    BY <1>3, <1>4, <1>6
  <2>5. \A n \in TraceNo : tr[n] = IF n = no THEN Null ELSE j.trace[n]
    BY <1>3, <2>1, <2>3
  <2> HIDE DEF low, tr, cur
  <2>6. JitType(r)
    BY <1>3, <2>2, <2>3, <2>4 DEF JitType, JitSet
  <2>7. /\ r.patch = NoPatch /\ r.trace = tr /\ r.chain = j.chain /\ r.dead = j.dead
        /\ r.maxtrace = j.maxtrace /\ r.nojit = j.nojit /\ r.bcskip = j.bcskip
        /\ r.freetrace = low /\ r.state = j.state /\ r.cur = cur /\ r.bc = k.bc /\ r.iloop = k.iloop
    BY <1>3, <2>4 DEF JitType, JitSet
  <2>8. Real(r) = Real(j) /\ SameLinks(k, r) /\ SameLinks(j, r)
    <3>1. no \notin Real(j)
      BY <2>1 DEF Real
    <3>2. Real(r) = Real(j) /\ Real(k) = Real(j)
      BY <1>3, <2>1, <2>5, <2>7 DEF Real
    <3>3. \A n \in Real(j) : r.trace[n] = j.trace[n]
      BY <2>5, <2>7, <3>1 DEF Real
    <3> QED
      BY <1>3, <2>7, <3>2, <3>3 DEF SameLinks
  <2>9. FreeInv(r) /\ PatchInv(r) /\ CurrentOnly(r)
    <3>1. FreeInv(r)
      BY <1>1, <1>3, <2>1, <2>2, <2>5, <2>7 DEF FreeInv, TraceNo
    <3>2. CurrentOnly(r)
      BY <1>1, <2>3, <2>5, <2>7, TraceFacts, CompilerAssumption DEF CurrentOnly
    <3> QED
      BY <2>7, <3>1, <3>2 DEF PatchInv
  <2>10. \A pc \in Pc : Entry(r, pc) = Entry(k, pc)
    BY <1>3, <2>7 DEF Entry
  <2>11. Core(r)
    BY <1>3, <2>6, <2>8, <2>9, <2>10, KeptCore
  <2>12. r.trace[no] = Null /\ r.freetrace <= no
    BY <2>1, <2>2, <2>5, <2>7
  <2> QED
    BY <1>3, <2>3, <2>7, <2>8, <2>11, <2>12 DEF r, cur, penal
<1> QED
  BY <1>5, <1>6


LEMMA StateCore ==
  ASSUME NEW j, Core(j), NEW s \in {"idle", "record", "end"}
  PROVE  LET r == [j EXCEPT !.state = s]
         IN  /\ Core(r) /\ SameLinks(j, r) /\ r.state = s /\ r.bc = j.bc /\ r.cur = j.cur /\ r.patch = j.patch
             /\ r.maxtrace = j.maxtrace /\ r.nojit = j.nojit /\ r.iloop = j.iloop /\ r.trace = j.trace
             /\ r.freetrace = j.freetrace
<1> DEFINE r == [j EXCEPT !.state = s]
<1>1. JitType(j)
  BY DEF Core
<1>2. JitType(r)
  BY <1>1 DEF JitType, JitSet
<1>3. /\ r.state = s /\ r.bc = j.bc /\ r.cur = j.cur /\ r.patch = j.patch /\ r.trace = j.trace
      /\ r.maxtrace = j.maxtrace /\ r.nojit = j.nojit /\ r.iloop = j.iloop /\ r.chain = j.chain
      /\ r.freetrace = j.freetrace /\ r.dead = j.dead
  BY <1>1 DEF JitType, JitSet
<1> HIDE DEF r
<1>4. SameLinks(j, r)
  BY <1>3 DEF SameLinks, Real
<1>5. FreeInv(r) /\ PatchInv(r) /\ CurrentOnly(r) /\ \A pc \in Pc : Entry(r, pc) = Entry(j, pc)
  BY <1>3 DEF Core, FreeInv, PatchInv, CurrentOnly, Entry
<1>6. Core(r)
  BY <1>2, <1>4, <1>5, KeptCore
<1> QED
  BY <1>3, <1>4, <1>6 DEF r

LEMMA IdleInv ==
  ASSUME NEW j, Core(j), j.patch = NoPatch, j.cur.no = 0
  PROVE  LET r == Idle(j)
         IN  Inv(r) /\ r.bc = j.bc /\ r.iloop = j.iloop /\ r.nojit = j.nojit /\ r.maxtrace = j.maxtrace
<1> DEFINE r == Idle(j)
<1>1. JitType(j) /\ NoCur \in Cursor /\ NoCur.no = 0
  BY DEF Core, NoCur, Cursor, Number
<1>2. JitType(r)
  <2>1. r = [j EXCEPT !.cur = NoCur, !.state = "idle"]
    BY DEF Idle
  <2> HIDE DEF r
  <2> QED
    BY <1>1, <2>1 DEF JitType, JitSet
<1>3. /\ r.state = "idle" /\ r.bc = j.bc /\ r.cur = NoCur /\ r.patch = j.patch /\ r.trace = j.trace
      /\ r.maxtrace = j.maxtrace /\ r.nojit = j.nojit /\ r.iloop = j.iloop /\ r.chain = j.chain
      /\ r.freetrace = j.freetrace /\ r.dead = j.dead
  BY <1>1 DEF JitType, JitSet, Idle
<1> HIDE DEF r
<1>4. SameLinks(j, r)
  BY <1>3 DEF SameLinks, Real
<1>5. FreeInv(r) /\ PatchInv(r) /\ CurrentOnly(r) /\ \A pc \in Pc : Entry(r, pc) = Entry(j, pc)
  BY <1>1, <1>3 DEF Core, FreeInv, PatchInv, CurrentOnly, Entry
<1>6. Core(r)
  BY <1>2, <1>4, <1>5, KeptCore
<1> QED
  BY <1>3, <1>6 DEF r, Inv
-------------------------------------------------------------------------------
(* The traces that are marked.                                             *)

LEMMA MarkedFacts ==
  ASSUME NEW j, JitType(j), Graph(j)
  PROVE  /\ Marked(j) \subseteq Live(j) /\ Marked(j) \subseteq TraceNo /\ 0 \notin Marked(j)
         /\ \A p \in Proto : Chained(j, p) \subseteq Marked(j)
         /\ \A n \in Marked(j) :
              /\ {j.trace[n].link, j.trace[n].nextroot, j.trace[n].nextside} \subseteq {0} \cup Marked(j)
              /\ RootOf(j, n) \in Marked(j) \cap Roots(j)
         /\ \A n \in Roots(j) \cap Marked(j) : SidesOf(j, n) \subseteq Marked(j)
         /\ \A n \in Marked(j), s \in Real(j) : j.trace[s].parent = n => s \in Marked(j)
<1> DEFINE from == {j.chain[p] : p \in Proto}
           to == [n \in TraceNo |-> IF n \notin Real(j) THEN {}
                                    ELSE {j.trace[n].link, j.trace[n].nextroot, j.trace[n].nextside}]
           M == Marked(j)
<1>1. from \in SUBSET Number /\ \A p \in Proto : j.chain[p] \in Number
  BY DEF JitType, JitSet
<1>2. to \in [TraceNo -> SUBSET Number]
  <2>1. \A n \in Real(j) : {j.trace[n].link, j.trace[n].nextroot, j.trace[n].nextside} \subseteq Number
    <3>1. \A t \in Trace : {t.link, t.nextroot, t.nextside} \subseteq Number
      BY DEF Trace, Number
    <3>2. \A n \in Real(j) : j.trace[n] \in Trace
      BY RealFacts
    <3> QED
      BY <3>1, <3>2
  <2> QED
    BY <2>1
<1>3. M = Reached(from, to)
  BY DEF Marked
<1>4. from \ {0} \subseteq M /\ M \subseteq TraceNo /\ \A n \in M : to[n] \ {0} \subseteq M
  <2> HIDE DEF from, to, M
  <2> QED
    BY <1>1, <1>2, <1>3, ReachedClosed
<1>5. \A n \in TraceNo : to[n] = IF n \notin Real(j) THEN {}
                                 ELSE {j.trace[n].link, j.trace[n].nextroot, j.trace[n].nextside}
  OBVIOUS
<1>6. \A p \in Proto : /\ j.chain[p] \in from
                       /\ ListOf(NextRoot(j), j.chain[p], Chained(j, p))
                       /\ Chained(j, p) \subseteq Roots(j) \ j.dead
  BY DEF Graph, ChainInv
<1>7. M \subseteq Live(j)
  <2>1. from \ {0} \subseteq Live(j)
    <3>1. \A p \in Proto : j.chain[p] \in {0} \cup (Roots(j) \ j.dead)
      BY <1>6, ListFacts
    <3> QED
      BY <3>1, RealFacts DEF Live
  <2>2. \A n \in Live(j) \cap TraceNo : to[n] \ {0} \subseteq Live(j)
    <3> SUFFICES ASSUME NEW n \in Live(j)
                 PROVE  {j.trace[n].link, j.trace[n].nextroot, j.trace[n].nextside} \ {0} \subseteq Live(j)
      BY <1>5
    <3>1. n \in Real(j) /\ n \notin j.dead /\ Roots(j) \ j.dead \subseteq Live(j)
      BY RealFacts DEF Live
    <3>2. j.trace[n].link \in {0, n} \cup (Roots(j) \ j.dead) /\ j.trace[n].nextroot \in {0} \cup (Roots(j) \ j.dead)
      BY DEF Graph, LinkInv
    <3>3. j.trace[n].nextside # 0 => j.trace[n].nextside \in Live(j)
      <4> SUFFICES ASSUME j.trace[n].nextside # 0
                   PROVE  j.trace[n].nextside \in Live(j)
        OBVIOUS
      <4> DEFINE s == j.trace[n].nextside
                 root == RootOf(j, n)
      <4>1. s \in Real(j) /\ j.trace[s].root = root
        BY DEF Graph, LinkInv, SidesOf
      <4>2. root # 0 /\ root \notin j.dead
        <5>1. CASE j.trace[n].root = 0
          <6>1. n # 0
            BY <3>1, RealFacts, TraceFacts
          <6> QED
            BY <3>1, <5>1, <6>1 DEF RootOf
        <5>2. CASE j.trace[n].root # 0
          BY <3>1, <5>2 DEF RootOf, Graph, TreeInv
        <5> QED
          BY <5>1, <5>2
      <4>3. s \notin j.dead
        BY <4>1, <4>2 DEF Graph, TreeInv
      <4> QED
        BY <4>1, <4>3 DEF Live
    <3> QED
      BY <3>1, <3>2, <3>3
  <2> HIDE DEF from, to, M
  <2> QED
    BY <1>1, <1>2, <1>3, <2>1, <2>2, ReachedLeast
<1>8. \A n \in M : n \in Real(j) /\ n \in TraceNo /\ n # 0 /\ n \notin j.dead
  BY <1>7, RealFacts, TraceFacts DEF Live
<1>9. \A n \in M : {j.trace[n].link, j.trace[n].nextroot, j.trace[n].nextside} \subseteq {0} \cup M
  <2> HIDE DEF to, M
  <2> QED
    BY <1>4, <1>5, <1>8
<1>10. ASSUME NEW p \in Proto
       PROVE  Chained(j, p) \subseteq M
  <2>1. j.chain[p] # 0 => j.chain[p] \in M
    BY <1>4, <1>6
  <2>2. \A n \in Chained(j, p) \cap M : NextRoot(j)[n] # 0 => NextRoot(j)[n] \in M
    BY <1>8, <1>9 DEF NextRoot
  <2> HIDE DEF M
  <2> QED
    BY <1>6, <2>1, <2>2, ListInside
<1>11. \A n \in M : RootOf(j, n) \in M
  <2> DEFINE S == {n \in M : RootOf(j, n) \in M}
  <2>1. \A n \in Roots(j) \cap M : n \in S
    BY DEF Roots, RootOf
  <2>2. from \ {0} \subseteq S
    <3>1. \A p \in Proto : j.chain[p] \in {0} \cup (Roots(j) \cap M)
      BY <1>6, <1>10, ListFacts
    <3> QED
      BY <2>1, <3>1
  <2>3. \A n \in S \cap TraceNo : to[n] \ {0} \subseteq S
    <3> SUFFICES ASSUME NEW n \in S
                 PROVE  {j.trace[n].link, j.trace[n].nextroot, j.trace[n].nextside} \ {0} \subseteq S
      BY <1>5
    <3>1. n \in M /\ n \in Live(j) /\ RootOf(j, n) \in M
      BY <1>7
    <3>2. j.trace[n].link \in {0, n} \cup (Roots(j) \ j.dead) /\ j.trace[n].nextroot \in {0} \cup (Roots(j) \ j.dead)
          /\ (j.trace[n].nextside = 0 \/ j.trace[n].nextside \in SidesOf(j, RootOf(j, n)))
      BY <3>1 DEF Graph, LinkInv
    <3>3. j.trace[n].link \in {0} \cup S /\ j.trace[n].nextroot \in {0} \cup S
      BY <1>9, <2>1, <3>1, <3>2
    <3>4. ASSUME j.trace[n].nextside # 0
          PROVE  j.trace[n].nextside \in S
      <4>1. j.trace[j.trace[n].nextside].root = RootOf(j, n) /\ j.trace[n].nextside \in M /\ RootOf(j, n) # 0
        BY <1>8, <1>9, <3>1, <3>2, <3>4 DEF SidesOf
      <4>2. RootOf(j, j.trace[n].nextside) = RootOf(j, n)
        BY <4>1 DEF RootOf
      <4> QED
        BY <3>1, <4>1, <4>2
    <3> QED
      BY <3>3, <3>4
  <2>4. M \subseteq S
    <3> HIDE DEF from, to, M, S
    <3> QED
      BY <1>1, <1>2, <1>3, <2>2, <2>3, ReachedLeast
  <2> QED
    BY <2>4
<1>12. \A n \in M : RootOf(j, n) \in Roots(j)
  BY <1>8 DEF RootOf, Roots, Graph, TreeInv
<1>13. ASSUME NEW n \in Roots(j) \cap M
       PROVE  SidesOf(j, n) \subseteq M
  <2>1. ListOf(NextSide(j), j.trace[n].nextside, SidesOf(j, n))
    BY <1>8 DEF Graph, SideInv
  <2>2. j.trace[n].nextside # 0 => j.trace[n].nextside \in M
    BY <1>9
  <2>3. \A s \in SidesOf(j, n) \cap M : NextSide(j)[s] # 0 => NextSide(j)[s] \in M
    BY <1>8, <1>9 DEF NextSide
  <2> HIDE DEF M
  <2> QED
    BY <2>1, <2>2, <2>3, ListInside
<1>14. ASSUME NEW n \in M, NEW s \in Real(j), j.trace[s].parent = n
       PROVE  s \in M
  <2>1. j.trace[s].root = RootOf(j, n)
    BY <1>8, <1>14 DEF Graph, TreeInv
  <2>2. s \in SidesOf(j, RootOf(j, n))
    BY <2>1 DEF SidesOf
  <2> QED
    BY <1>11, <1>12, <1>13, <2>2
<1> QED
  BY <1>4, <1>7, <1>8, <1>9, <1>10, <1>11, <1>12, <1>13, <1>14
-------------------------------------------------------------------------------
(* Starting and stopping.                                                  *)

Blacklisted(j, r, p, at) ==
  /\ r.iloop = j.iloop \cup {p} /\ \A pc \in Pc \ {at} : r.bc[pc] = j.bc[pc]
  /\ r.bc[at] = IF j.bc[at] = Plain /\ at \in Loop \cup Func THEN Interp ELSE Wrong

\* Where a root or a side trace starts.
StartsAt(j, p, pc, parent, exit) ==
  \/ parent = 0 /\ pc \in Starts /\ p = ProtoOf[pc] /\ j.bc[pc] = Plain /\ exit = Null
  \/ /\ parent \in Marked(j) /\ pc = SidePc /\ exit \in Exit
     /\ \A n \in Real(j) : j.trace[n].parent = parent => j.trace[n].exit # exit

LEMMA StartCore ==
  ASSUME NEW j, Core(j), j.patch = NoPatch, j.cur.no = 0,
         NEW p \in Proto, NEW pc, NEW parent, NEW exit, StartsAt(j, p, pc, parent, exit)
  PROVE  LET r == Start(j, p, pc, parent, exit)
         IN  /\ Core(r) /\ r.patch = NoPatch /\ r.state \in {"idle", "record", "end"}
             /\ r.maxtrace = j.maxtrace /\ r.nojit = j.nojit
             /\ r.state = "idle" => r.cur = j.cur
             /\ r.state # "idle" => Recording(r) /\ r.bc = j.bc
             /\ parent = 0 => r.state # "end"
             /\ \/ OnlyUnpatched(j, r) /\ r.iloop = j.iloop
                \/ /\ parent = 0 /\ p \in j.nojit /\ r.state = "idle"
                   /\ Blacklisted(j, r, p, pc)
             /\ p \notin j.nojit /\ FindFree(j) # 0 => r.state # "idle"
<1> DEFINE r == Start(j, p, pc, parent, exit)
           no == FindFree(j)
           root == IF parent = 0 THEN 0 ELSE RootOf(j, parent)
           cur == [no |-> no, pt |-> IF parent = 0 THEN p ELSE Null, pc |-> pc, parent |-> parent,
                   exit |-> exit, root |-> root]
           k == [j EXCEPT !.trace[no] = Cur, !.freetrace = no + 1, !.bcskip = FALSE, !.cur = cur]
           st == IF GivesUp(k) THEN "end" ELSE "record"
<1>1. JitType(j) /\ Graph(j) /\ FreeInv(j) /\ CurrentOnly(j)
  BY DEF Core
<1>2. /\ parent # 0 => parent \in Marked(j) /\ parent \in Real(j) /\ parent \in TraceNo
                       /\ root \in TraceNo
      /\ pc \in Pc /\ parent \in Number /\ exit \in Exit \cup {Null} /\ root \in Number
  <2>1. CASE parent = 0
    BY <2>1, TraceFacts DEF StartsAt
  <2>2. CASE parent # 0
    <3>1. parent \in Marked(j) /\ pc = SidePc /\ exit \in Exit
      BY <2>2 DEF StartsAt
    <3>2. Marked(j) \subseteq Live(j) /\ Marked(j) \subseteq TraceNo /\ RootOf(j, parent) \in Marked(j)
      BY <1>1, <3>1, MarkedFacts
    <3> QED
      BY <2>2, <3>1, <3>2, TraceFacts DEF Live
  <2> QED
    BY <2>1, <2>2
<1>3. r = IF p \in j.nojit THEN [IF parent # 0 THEN j ELSE Blacklist(j, p, pc) EXCEPT !.state = "idle"]
          ELSE IF no = 0 THEN [FlushAll(j) EXCEPT !.state = "idle"]
          ELSE [k EXCEPT !.state = st]
  BY DEF Start, RootOf
<1> HIDE DEF r
<1>4. CASE p \in j.nojit
  <2> DEFINE b == IF parent # 0 THEN j ELSE Blacklist(j, p, pc)
  <2>1. /\ Core(b) /\ b.patch = NoPatch /\ b.cur = j.cur /\ b.maxtrace = j.maxtrace /\ b.nojit = j.nojit
        /\ b = j \/ (parent = 0 /\ Penalized(j, b, p, pc))
    <3>1. CASE parent # 0
      BY <3>1
    <3>2. CASE parent = 0
      <4> DEFINE u == Blacklist(j, p, pc)
      <4>1. JitType(u) /\ Penalized(j, u, p, pc)
        BY <1>1, <1>2, BlacklistShape
      <4> HIDE DEF u
      <4>2. Core(u)
        BY <1>2, <4>1, PenalizedCore
      <4> QED
        BY <3>2, <4>1, <4>2 DEF u, Penalized
    <3> QED
      BY <3>1, <3>2
  <2>2. r = [b EXCEPT !.state = "idle"]
    BY <1>3, <1>4
  <2> HIDE DEF b
  <2> DEFINE u == [b EXCEPT !.state = "idle"]
  <2>3. /\ Core(u) /\ u.state = "idle" /\ u.bc = b.bc /\ u.cur = b.cur /\ u.patch = b.patch
        /\ u.maxtrace = b.maxtrace /\ u.nojit = b.nojit /\ u.iloop = b.iloop
    BY <2>1, StateCore
  <2> HIDE DEF u
  <2>4. r = u /\ (b = j => r.bc = j.bc /\ r.iloop = j.iloop /\ OnlyUnpatched(j, r))
    BY <2>2, <2>3 DEF u, OnlyUnpatched
  <2>5. b = j \/ (parent = 0 /\ (Blacklisted(j, r, p, pc) \/ (OnlyUnpatched(j, r) /\ r.iloop = j.iloop)))
    BY <2>1, <2>3, <2>4 DEF Penalized, Blacklisted, OnlyUnpatched
  <2> QED
    BY <1>4, <2>1, <2>3, <2>4, <2>5 DEF r
<1>5. CASE p \notin j.nojit /\ no = 0
  <2> DEFINE b == FlushAll(j)
             u == [b EXCEPT !.state = "idle"]
  <2>1. /\ Core(b) /\ OnlyUnpatched(j, b) /\ b.patch = NoPatch
        /\ b.maxtrace = j.maxtrace /\ b.nojit = j.nojit /\ b.iloop = j.iloop
        /\ b.cur = [j.cur EXCEPT !.no = 0]
    BY FlushAllCore
  <2>2. r = u
    BY <1>3, <1>5
  <2> HIDE DEF b
  <2>3. /\ Core(u) /\ u.state = "idle" /\ u.bc = b.bc /\ u.cur = b.cur /\ u.patch = b.patch
        /\ u.maxtrace = b.maxtrace /\ u.nojit = b.nojit /\ u.iloop = b.iloop
    BY <2>1, StateCore
  <2>4. j.cur = [j.cur EXCEPT !.no = 0]
    BY <1>1 DEF JitType, JitSet, Cursor
  <2> HIDE DEF u
  <2>5. OnlyUnpatched(j, r) /\ r.iloop = j.iloop
    BY <2>1, <2>2, <2>3 DEF OnlyUnpatched
  <2> QED
    BY <1>5, <2>1, <2>2, <2>3, <2>4, <2>5 DEF r
<1>6. CASE p \notin j.nojit /\ no # 0
  <2>1. r = [j EXCEPT !.trace[no] = Cur, !.freetrace = no + 1, !.bcskip = FALSE, !.cur = cur, !.state = st]
    BY <1>3, <1>6
  <2>2. no \in TraceNo /\ j.trace[no] = Null /\ no <= j.maxtrace /\ \A n \in TraceNo : n < no => j.trace[n] # Null
    <3>1. no \in Number /\ j.trace[no] = Null /\ no <= j.maxtrace /\ \A n \in TraceNo : n < no => j.trace[n] # Null
      BY <1>1, <1>6, FindFreeFacts
    <3> QED
      BY <1>6, <3>1, TraceFacts
  <2>3. st \in {"idle", "record", "end"} /\ st # "idle" /\ (parent = 0 => st # "end")
    <3>1. j.cur.no = 0 /\ cur.parent = parent
      OBVIOUS
    <3>2. k.cur = cur
      BY <1>1 DEF JitType, JitSet
    <3> HIDE DEF k, cur
    <3>3. parent = 0 => ~GivesUp(k)
      BY <3>1, <3>2 DEF GivesUp
    <3> HIDE DEF GivesUp
    <3> QED
      BY <3>3
  <2> HIDE DEF st
  <2> DEFINE tr == [j.trace EXCEPT ![no] = Cur]
  <2>4. /\ tr \in [TraceNo -> Trace \cup {Null, Cur}] /\ no + 1 \in 0..MaxTrace + 1 /\ cur \in Cursor
        /\ \A n \in TraceNo : tr[n] = IF n = no THEN Cur ELSE j.trace[n]
    <3>1. j.trace \in [TraceNo -> Trace \cup {Null, Cur}]
      BY <1>1 DEF JitType, JitSet
    <3>2. no + 1 \in 0..MaxTrace + 1
      BY <2>2, MaxTraceType DEF TraceNo
    <3>3. cur \in Cursor
      BY <1>2, <2>2, TraceFacts DEF Cursor
    <3> QED
      BY <2>2, <3>1, <3>2, <3>3
  <2>5. r = [j EXCEPT !.trace = tr, !.freetrace = no + 1, !.bcskip = FALSE, !.cur = cur, !.state = st]
    BY <2>1
  <2>6. /\ cur.no = no /\ cur.pc = pc /\ cur.parent = parent /\ cur.exit = exit /\ cur.root = root
        /\ parent = 0 => cur.pt = p
    OBVIOUS
  <2> HIDE DEF tr, cur, no
  <2>7. JitType(r)
    BY <1>1, <2>3, <2>4, <2>5 DEF JitType, JitSet
  <2>8. /\ r.trace = tr /\ r.freetrace = no + 1 /\ r.cur = cur /\ r.state = st
        /\ r.bc = j.bc /\ r.maxtrace = j.maxtrace /\ r.chain = j.chain /\ r.nojit = j.nojit
        /\ r.iloop = j.iloop /\ r.patch = j.patch /\ r.dead = j.dead
    BY <1>1, <2>5 DEF JitType, JitSet
  <2>9. no \notin Real(j) /\ Real(r) = Real(j)
    BY <2>2, <2>4, <2>8 DEF Real
  <2>10. SameLinks(j, r)
    BY <2>4, <2>8, <2>9 DEF SameLinks, Real
  <2>11. FreeInv(r)
    BY <2>2, <2>4, <2>8, CompilerAssumption DEF FreeInv, TraceNo
  <2>12. CurrentOnly(r)
    <3>1. \A n \in TraceNo : j.trace[n] # Cur
      BY <1>1, TraceFacts DEF CurrentOnly
    <3> QED
      BY <2>2, <2>4, <2>6, <2>8, <3>1 DEF CurrentOnly
  <2>13. PatchInv(r) /\ \A q \in Pc : Entry(r, q) = Entry(j, q)
    BY <2>8 DEF PatchInv, Entry
  <2>14. Core(r)
    BY <2>7, <2>10, <2>11, <2>12, <2>13, KeptCore
  <2>15. Marked(r) = Marked(j) /\ \A n \in Real(j) : RootOf(r, n) = RootOf(j, n)
    BY <2>10, SameGraph
  <2>16. Recording(r)
    <3>1. r.cur.no \in 1..r.maxtrace
      BY <1>1, <2>2, <2>6, <2>8 DEF JitType, JitSet, TraceNo
    <3>2. CASE parent = 0
      <4>1. pc \in Starts /\ p = ProtoOf[pc] /\ j.bc[pc] = Plain /\ pc # Null
        BY <1>2, <3>2, TraceFacts, MarkedFacts, <1>1 DEF StartsAt
      <4>2. r.patch.pc = Null
        BY <2>8 DEF NoPatch
      <4> QED
        BY <2>6, <2>8, <3>1, <3>2, <4>1, <4>2 DEF Recording
    <3>3. CASE parent # 0
      <4>1. /\ parent \in Marked(j) /\ pc = SidePc /\ exit \in Exit
            /\ \A n \in Real(j) : j.trace[n].parent = parent => j.trace[n].exit # exit
        BY <3>3 DEF StartsAt
      <4>2. \A n \in Real(j) : r.trace[n] = j.trace[n]
        BY <2>10 DEF SameLinks
      <4>3. root = RootOf(r, parent)
        BY <1>2, <2>15, <3>3
      <4> QED
        BY <2>6, <2>8, <2>9, <2>15, <3>1, <3>3, <4>1, <4>2, <4>3 DEF Recording
    <3> QED
      BY <3>2, <3>3
  <2>17. OnlyUnpatched(j, r)
    BY <2>8 DEF OnlyUnpatched
  <2> QED
    BY <1>6, <2>3, <2>8, <2>14, <2>16, <2>17 DEF r
<1> QED
  BY <1>4, <1>5, <1>6


LEMMA NewTrace ==
  ASSUME NEW j, Core(j), j.patch = NoPatch, Recording(j)
  PROVE  /\ j.cur.no \in TraceNo /\ j.trace[j.cur.no] = Cur /\ j.cur.no \notin Real(j) /\ j.cur.no # 0
         /\ j.cur.no \notin j.dead /\ CountDone \in Nat
         /\ j.cur.pc \in Pc /\ j.cur.exit \in Exit \cup {Null}
         /\ \A n \in Real(j) : j.trace[n].parent \in {0} \cup Real(j) /\ j.trace[n].root \in {0} \cup Roots(j)
         /\ NoCur \in Cursor /\ NoCur.no = 0
<1>1. JitType(j) /\ CurrentOnly(j) /\ Graph(j) /\ j.cur \in Cursor
  BY DEF Core, JitType, JitSet
<1>2. j.cur.no \in TraceNo
  <2>1. j.cur.no \in 1..j.maxtrace
    BY DEF Recording
  <2>2. j.maxtrace \in 1..MaxTrace
    BY <1>1 DEF JitType, JitSet
  <2> QED
    BY <2>1, <2>2, MaxTraceType DEF TraceNo
<1>3. j.trace[j.cur.no] = Cur /\ j.cur.no \notin Real(j)
  BY <1>1, <1>2 DEF CurrentOnly, Real
<1>4. j.cur.no \notin j.dead /\ j.cur.no # 0
  BY <1>1, <1>2, <1>3, TraceFacts DEF Graph
<1>5. CountDone \in Nat
  BY CompilerAssumption DEF CountDone
<1>6. j.cur.pc \in Pc
  BY TraceFacts DEF Recording
<1>7. \A n \in Real(j) : j.trace[n].parent \in {0} \cup Real(j) /\ j.trace[n].root \in {0} \cup Roots(j)
  BY <1>1 DEF Graph, TreeInv
<1>8. NoCur \in Cursor /\ NoCur.no = 0
  BY DEF NoCur, Cursor, Number
<1> QED
  BY <1>1, <1>2, <1>3, <1>4, <1>5, <1>6, <1>7, <1>8 DEF Cursor

\* A new trace has no links yet.
Saved(c, link) ==
  [pc |-> c.pc, root |-> c.root, parent |-> c.parent, exit |-> c.exit,
   link |-> link, nchild |-> 0, nextside |-> 0, nextroot |-> 0, count |-> [e \in Exit |-> 0]]

LEMMA StopRoot ==
  ASSUME NEW j, Core(j), j.patch = NoPatch, Recording(j), j.cur.parent = 0,
         NEW link \in {0, j.cur.no} \cup (Roots(j) \ j.dead)
  PROVE  LET r == Stop(j, link)
         IN  /\ Inv(r) /\ r.iloop = j.iloop /\ r.nojit = j.nojit
             /\ \A pc \in Pc : r.bc[pc] = j.bc[pc] \/ r.bc[pc].op = "jit"
<1> DEFINE c == j.cur
           no == c.no
           at == c.pc
           p == ProtoOf[at]
           first == j.chain[p]
           t == [Saved(c, link) EXCEPT !.nextroot = first]
           r == Stop(j, link)
           bc == [j.bc EXCEPT ![at] = Jit(no)]
           chain == [j.chain EXCEPT ![p] = no]
           tr == [j.trace EXCEPT ![no] = t]
<1>1. JitType(j) /\ Graph(j) /\ ChainInv(j) /\ TreeInv(j) /\ LinkInv(j) /\ SideInv(j) /\ EntryInv(j) /\ FreeInv(j)
      /\ CurrentOnly(j) /\ j.dead \subseteq Real(j) /\ c \in Cursor
  BY DEF Core, Graph, JitType, JitSet
<1>2. /\ no \in TraceNo /\ j.trace[no] = Cur /\ no \notin Real(j) /\ no # 0 /\ no \notin j.dead
      /\ CountDone \in Nat /\ c.exit \in Exit \cup {Null}
      /\ \A n \in Real(j) : j.trace[n].parent \in {0} \cup Real(j) /\ j.trace[n].root \in {0} \cup Roots(j)
      /\ NoCur \in Cursor /\ NoCur.no = 0
  BY NewTrace
<1>3. at \in Starts /\ at \in Pc /\ p \in Proto /\ c.pt = p /\ c.root = 0 /\ c.parent = 0 /\ j.bc[at] = Plain
  BY TraceFacts DEF Recording
<1>4. link \in Number /\ first \in Number
  BY <1>1, <1>2, <1>3, RealFacts, TraceFacts DEF JitType, JitSet
<1>5. /\ t.pc = at /\ t.root = 0 /\ t.parent = 0 /\ t.link = link /\ t.nchild = 0 /\ t.nextside = 0 /\ t.nextroot = first
      /\ t \in Trace
  <2>1. /\ t.pc = at /\ t.root = 0 /\ t.parent = 0 /\ t.link = link /\ t.nchild = 0 /\ t.nextside = 0 /\ t.nextroot = first
    BY <1>3 DEF Saved
  <2>2. t = [pc |-> at, root |-> 0, parent |-> 0, exit |-> c.exit, link |-> link, nchild |-> 0,
             nextside |-> 0, nextroot |-> first, count |-> [e \in Exit |-> 0]]
    BY <1>3 DEF Saved
  <2>3. [e \in Exit |-> 0] \in [Exit -> 0..CountDone] /\ 0 \in 0..MaxTrace
    BY <1>2, MaxTraceType
  <2> HIDE DEF t, first, at
  <2>4. t \in Trace
    BY <1>2, <1>3, <1>4, <2>2, <2>3 DEF Trace, Number
  <2> QED
    BY <2>1, <2>4
<1>6. r = [j EXCEPT !.bc = bc, !.chain = chain, !.trace = tr, !.cur = NoCur, !.state = "idle"]
  BY <1>3 DEF Stop, Saved
<1>7. /\ bc \in [Pc -> Code] /\ \A pc \in Pc : bc[pc] = IF pc = at THEN Jit(no) ELSE j.bc[pc]
      /\ chain \in [Proto -> Number] /\ \A q \in Proto : chain[q] = IF q = p THEN no ELSE j.chain[q]
      /\ tr \in [TraceNo -> Trace \cup {Null, Cur}] /\ \A n \in TraceNo : tr[n] = IF n = no THEN t ELSE j.trace[n]
  <2> HIDE DEF t, p, at, no
  <2> QED
    BY <1>1, <1>2, <1>3, <1>5, CodeFacts, TraceFacts DEF JitType, JitSet
<1> HIDE DEF r, bc, chain, tr, t, first, p, no, at
<1>8. JitType(r)
  BY <1>1, <1>2, <1>6, <1>7 DEF JitType, JitSet
<1>9. /\ r.bc = bc /\ r.chain = chain /\ r.trace = tr /\ r.cur = NoCur /\ r.state = "idle"
      /\ r.dead = j.dead /\ r.patch = NoPatch /\ r.freetrace = j.freetrace
      /\ r.iloop = j.iloop /\ r.nojit = j.nojit
  BY <1>1, <1>6 DEF JitType, JitSet
<1>10. /\ Real(r) = Real(j) \cup {no} /\ Roots(r) = Roots(j) \cup {no}
       /\ \A n \in Real(j) : n # no /\ n \in TraceNo /\ r.trace[n] = j.trace[n]
       /\ r.trace[no] = t
  <2>1. \A n \in Real(j) : n # no /\ n \in TraceNo /\ r.trace[n] = j.trace[n]
    BY <1>1, <1>2, <1>7, <1>9, RealFacts
  <2>2. r.trace[no] = t
    BY <1>2, <1>7, <1>9
  <2>3. Real(r) = Real(j) \cup {no}
    <3>1. t # Null /\ t # Cur
      BY <1>5, TraceFacts
    <3>2. \A n \in TraceNo : r.trace[n] = IF n = no THEN t ELSE j.trace[n]
      BY <1>7, <1>9
    <3> QED
      BY <1>2, <3>1, <3>2 DEF Real
  <2> QED
    BY <1>5, <2>1, <2>2, <2>3 DEF Roots
<1>11. ASSUME NEW q \in Proto
       PROVE  /\ ListOf(NextRoot(r), r.chain[q], Chained(j, q) \cup (IF q = p THEN {no} ELSE {}))
              /\ Chained(r, q) = Chained(j, q) \cup (IF q = p THEN {no} ELSE {})
  <2>1. /\ ListOf(NextRoot(j), j.chain[q], Chained(j, q))
        /\ Chained(j, q) \subseteq Roots(j)
    BY <1>1 DEF ChainInv
  <2>2. \A n \in Chained(j, q) : n # no /\ NextRoot(r)[n] = NextRoot(j)[n]
    BY <1>1, <1>10, <2>1, RealFacts DEF NextRoot
  <2>3. ListOf(NextRoot(r), r.chain[q], Chained(j, q) \cup (IF q = p THEN {no} ELSE {}))
    <3>1. CASE q = p
      <4>1. NextRoot(r)[no] = j.chain[q] /\ r.chain[q] = no
        BY <1>2, <1>3, <1>5, <1>7, <1>9, <1>10, <3>1 DEF NextRoot, first
      <4>2. no \notin Chained(j, q)
        BY <2>2
      <4>3. ListOf(NextRoot(r), no, Chained(j, q) \cup {no})
        BY <1>2, <2>1, <2>2, <4>1, <4>2, PushList
      <4> QED
        BY <3>1, <4>1, <4>3
    <3>2. CASE q # p
      <4>1. r.chain[q] = j.chain[q] /\ Chained(j, q) \cup {} = Chained(j, q)
        BY <1>7, <1>9, <3>2
      <4>2. ListOf(NextRoot(r), j.chain[q], Chained(j, q))
        BY <2>1, <2>2, SameList
      <4> QED
        BY <3>2, <4>1, <4>2
    <3> QED
      BY <3>1, <3>2
  <2> QED
    BY <2>3, AlongList DEF Chained
<1>12. ChainInv(r)
  <2>1. ASSUME NEW q \in Proto
        PROVE  Chained(r, q) \subseteq {n \in Roots(r) \ r.dead : ProtoOf[r.trace[n].pc] = q}
    <3>1. Chained(j, q) \subseteq {n \in Roots(j) \ j.dead : ProtoOf[j.trace[n].pc] = q}
      BY <1>1 DEF ChainInv
    <3>2. \A n \in Chained(j, q) : r.trace[n] = j.trace[n]
      BY <1>1, <1>10, <3>1, RealFacts
    <3>3. q = p => no \in Roots(r) \ r.dead /\ ProtoOf[r.trace[no].pc] = q
      BY <1>2, <1>5, <1>9, <1>10 DEF p
    <3>4. \A n \in Chained(j, q) : n \in Roots(r) \ r.dead /\ ProtoOf[r.trace[n].pc] = q
      BY <1>9, <1>10, <3>1, <3>2
    <3>5. Chained(r, q) = Chained(j, q) \cup (IF q = p THEN {no} ELSE {})
      BY <1>11
    <3> QED
      BY <3>3, <3>4, <3>5
  <2>2. \A q \in Proto : ListOf(NextRoot(r), r.chain[q], Chained(r, q))
    BY <1>11
  <2> QED
    BY <2>1, <2>2 DEF ChainInv
<1>13. \A n \in Real(j) : RootOf(r, n) = RootOf(j, n)
  BY <1>10 DEF RootOf
<1>14. \A n \in Roots(j) \cup {0} : SidesOf(r, n) = SidesOf(j, n) \cup (IF n = 0 THEN {no} ELSE {})
  BY <1>2, <1>5, <1>10 DEF SidesOf
<1>15. TreeInv(r)
  <2>1. ASSUME NEW n \in Real(r)
        PROVE  LET u == r.trace[n]
               IN  /\ u.parent = 0 <=> u.root = 0
                   /\ u.parent # 0 => /\ u.parent \in Real(r) /\ u.root = RootOf(r, u.parent)
                                      /\ u.root \in Roots(r)
                                      /\ u.exit \in Exit /\ r.trace[u.parent].count[u.exit] = CountDone
                                      /\ n \in r.dead <=> u.root \in r.dead
    <3>1. CASE n = no
      BY <1>5, <1>10, <3>1
    <3>2. CASE n # no
      <4>1. n \in Real(j) /\ r.trace[n] = j.trace[n]
        BY <1>10, <3>2
      <4> DEFINE u == j.trace[n]
      <4>2. /\ u.parent = 0 <=> u.root = 0
            /\ u.parent # 0 => /\ u.parent \in Real(j) /\ u.root = RootOf(j, u.parent)
                               /\ u.root \in Roots(j)
                               /\ u.exit \in Exit /\ j.trace[u.parent].count[u.exit] = CountDone
                               /\ n \in j.dead <=> u.root \in j.dead
        BY <1>1, <4>1 DEF TreeInv
      <4> QED
        BY <1>9, <1>10, <1>13, <4>1, <4>2
    <3> QED
      BY <3>1, <3>2
  <2>2. ASSUME NEW m \in Real(r), NEW n \in Real(r),
               m # n /\ r.trace[m].parent # 0 /\ r.trace[m].parent = r.trace[n].parent
        PROVE  r.trace[m].exit # r.trace[n].exit
    <3>1. m # no /\ n # no
      BY <1>5, <1>10, <2>2
    <3>2. m \in Real(j) /\ n \in Real(j) /\ r.trace[m] = j.trace[m] /\ r.trace[n] = j.trace[n]
      BY <1>10, <3>1
    <3> QED
      BY <1>1, <2>2, <3>2 DEF TreeInv
  <2>3. \E age \in [TraceNo -> Nat] :
          \A n \in Real(r) : r.trace[n].parent # 0 => age[r.trace[n].parent] < age[n]
    <3>1. PICK age \in [TraceNo -> Nat] :
            \A n \in Real(j) : j.trace[n].parent # 0 => age[j.trace[n].parent] < age[n]
      BY <1>1 DEF TreeInv
    <3>2. \A n \in Real(r) : r.trace[n].parent # 0 => age[r.trace[n].parent] < age[n]
      BY <1>5, <1>10, <3>1
    <3> QED
      BY <3>2
  <2> QED
    BY <2>1, <2>2, <2>3 DEF TreeInv
<1>16. LinkInv(r)
  <2> SUFFICES ASSUME NEW n \in Live(r)
               PROVE  LET u == r.trace[n]
                      IN  /\ u.link \in {0, n} \cup (Roots(r) \ r.dead)
                          /\ u.nextroot \in {0} \cup (Roots(r) \ r.dead)
                          /\ u.nextside = 0 \/ u.nextside \in SidesOf(r, RootOf(r, n))
    BY DEF LinkInv
  <2>1. Roots(j) \ j.dead \subseteq Roots(r) \ r.dead
    BY <1>9, <1>10
  <2>2. CASE n = no
    <3>1. first \in {0} \cup (Roots(j) \ j.dead)
      BY <1>1, <1>3, ListFacts DEF ChainInv, first
    <3>2. link \in {0, no} \cup (Roots(j) \ j.dead)
      BY DEF no
    <3> QED
      BY <1>5, <1>10, <2>1, <2>2, <3>1, <3>2
  <2>3. CASE n # no
    <3>1. n \in Live(j) /\ n \in Real(j) /\ r.trace[n] = j.trace[n]
      BY <1>9, <1>10, <2>3 DEF Live
    <3>2. /\ j.trace[n].link \in {0, n} \cup (Roots(j) \ j.dead)
          /\ j.trace[n].nextroot \in {0} \cup (Roots(j) \ j.dead)
          /\ j.trace[n].nextside = 0 \/ j.trace[n].nextside \in SidesOf(j, RootOf(j, n))
      BY <1>1, <3>1 DEF LinkInv
    <3>3. SidesOf(j, RootOf(j, n)) \subseteq SidesOf(r, RootOf(r, n))
      BY <1>10, <1>13, <3>1 DEF SidesOf
    <3> QED
      BY <2>1, <3>1, <3>2, <3>3
  <2> QED
    BY <2>2, <2>3
<1>17. SideInv(r)
  <2> SUFFICES ASSUME NEW n \in Roots(r) \ r.dead
               PROVE  /\ ListOf(NextSide(r), r.trace[n].nextside, SidesOf(r, n))
                      /\ r.trace[n].nchild = Cardinality(SidesOf(r, n))
    BY DEF SideInv
  <2>1. CASE n = no
    <3>1. SidesOf(r, no) = {}
      <4>1. no \notin Roots(j)
        BY <1>1, <1>2, RealFacts
      <4>2. \A m \in Real(r) : r.trace[m].root # no
        BY <1>2, <1>5, <1>10, <4>1
      <4> QED
        BY <4>2 DEF SidesOf
    <3>2. Cardinality({}) = 0
      BY FS_EmptySet
    <3> QED
      BY <1>5, <1>10, <2>1, <3>1, <3>2, EmptyList
  <2>2. CASE n # no
    <3>1. n \in Roots(j) \ j.dead /\ n \in Real(j) /\ r.trace[n] = j.trace[n] /\ n # 0
      BY <1>1, <1>9, <1>10, <2>2, RealFacts, TraceFacts
    <3>2. SidesOf(r, n) = SidesOf(j, n)
      BY <1>14, <3>1
    <3>3. \A m \in SidesOf(j, n) : NextSide(r)[m] = NextSide(j)[m]
      BY <1>10 DEF SidesOf, NextSide
    <3>4. ListOf(NextSide(j), j.trace[n].nextside, SidesOf(j, n)) /\ j.trace[n].nchild = Cardinality(SidesOf(j, n))
      BY <1>1, <3>1 DEF SideInv
    <3>5. ListOf(NextSide(r), j.trace[n].nextside, SidesOf(j, n))
      BY <3>3, <3>4, SameList
    <3> QED
      BY <3>1, <3>2, <3>4, <3>5
  <2> QED
    BY <2>1, <2>2
<1>18. EntryInv(r)
  <2> SUFFICES ASSUME NEW pc \in Pc, Entry(r, pc) # 0
               PROVE  Entry(r, pc) \in Chained(r, ProtoOf[pc]) /\ r.trace[Entry(r, pc)].pc = pc
    BY DEF EntryInv
  <2>1. Entry(r, pc) = bc[pc].d /\ Entry(j, pc) = j.bc[pc].d /\ ProtoOf[pc] \in Proto
    BY <1>9, TraceFacts DEF Entry, NoPatch
  <2>2. CASE pc = at
    <3>1. Entry(r, pc) = no
      BY <1>7, <2>1, <2>2, CodeFacts
    <3> QED
      BY <1>5, <1>10, <1>11, <2>1, <2>2, <3>1 DEF p
  <2>3. CASE pc # at
    <3> DEFINE e == Entry(j, pc)
    <3>1. Entry(r, pc) = e
      BY <1>7, <2>1, <2>3
    <3>2. e \in Chained(j, ProtoOf[pc]) /\ j.trace[e].pc = pc
      BY <1>1, <3>1 DEF EntryInv
    <3>3. e \in Roots(j)
      BY <1>1, <2>1, <3>2 DEF ChainInv
    <3>4. e \in Real(j)
      BY <1>1, <3>3, RealFacts
    <3> QED
      BY <1>10, <1>11, <2>1, <3>1, <3>2, <3>4
  <2> QED
    BY <2>2, <2>3
<1>19. FreeInv(r) /\ PatchInv(r) /\ CurrentOnly(r)
  <2>1. FreeInv(r)
    BY <1>1, <1>5, <1>7, <1>9, TraceFacts DEF FreeInv
  <2>2. CurrentOnly(r)
    BY <1>1, <1>2, <1>5, <1>7, <1>9, TraceFacts DEF CurrentOnly, no
  <2> QED
    BY <1>9, <2>1, <2>2 DEF PatchInv
<1>20. Inv(r)
  BY <1>1, <1>8, <1>9, <1>10, <1>12, <1>15, <1>16, <1>17, <1>18, <1>19 DEF Inv, Core, Graph
<1> QED
  BY <1>7, <1>9, <1>20, CodeFacts DEF r


\* The fields that side traces do not change.
SameTrace(u, v) ==
  /\ v.pc = u.pc /\ v.root = u.root /\ v.parent = u.parent /\ v.exit = u.exit
  /\ v.link = u.link /\ v.nextroot = u.nextroot

LEMMA Counted ==
  ASSUME NEW u \in Trace, NEW e \in Exit, NEW i \in 0..CountDone
  PROVE  LET v == [u EXCEPT !.count[e] = i]
         IN  /\ v \in Trace /\ SameTrace(u, v) /\ v.nchild = u.nchild /\ v.nextside = u.nextside
             /\ \A x \in Exit : v.count[x] = IF x = e THEN i ELSE u.count[x]
<1> DEFINE v == [u EXCEPT !.count[e] = i]
           count == [u.count EXCEPT ![e] = i]
<1>1. u.count \in [Exit -> 0..CountDone]
  BY DEF Trace
<1>2. count \in [Exit -> 0..CountDone] /\ \A x \in Exit : count[x] = IF x = e THEN i ELSE u.count[x]
  BY <1>1
<1>3. v = [u EXCEPT !.count = count]
  OBVIOUS
<1> HIDE DEF v, count
<1>4. v \in Trace /\ v.count = count
  BY <1>2, <1>3 DEF Trace
<1>5. SameTrace(u, v) /\ v.nchild = u.nchild /\ v.nextside = u.nextside
  BY <1>3 DEF Trace, SameTrace
<1> QED
  BY <1>2, <1>4, <1>5 DEF v

LEMMA Sided ==
  ASSUME NEW u \in Trace, NEW n \in Number, NEW i \in 0..MaxTrace
  PROVE  LET v == [u EXCEPT !.nchild = i, !.nextside = n]
         IN  v \in Trace /\ SameTrace(u, v) /\ v.nchild = i /\ v.nextside = n /\ v.count = u.count
<1> DEFINE v == [u EXCEPT !.nchild = i, !.nextside = n]
<1>1. v \in Trace
  BY DEF Trace, Number
<1>2. SameTrace(u, v) /\ v.nchild = i /\ v.nextside = n /\ v.count = u.count
  BY DEF Trace, SameTrace
<1> QED
  BY <1>1, <1>2

LEMMA StopSide ==
  ASSUME NEW j, Core(j), j.patch = NoPatch, Recording(j), j.cur.parent # 0,
         NEW link \in {0, j.cur.no} \cup (Roots(j) \ j.dead)
  PROVE  LET r == Stop(j, link)
         IN  Inv(r) /\ r.iloop = j.iloop /\ r.nojit = j.nojit /\ r.bc = j.bc
<1> DEFINE c == j.cur
           no == c.no
           par == c.parent
           root == c.root
           e == c.exit
           count == [j.trace EXCEPT ![par].count[e] = CountDone]
           side == [count EXCEPT ![root].nchild = j.trace[root].nchild + 1, ![root].nextside = no]
           first == j.trace[root].nextside
           t == [Saved(c, link) EXCEPT !.nextside = first]
           tr == [side EXCEPT ![no] = t]
           r == Stop(j, link)
<1>1. JitType(j) /\ Graph(j) /\ ChainInv(j) /\ TreeInv(j) /\ LinkInv(j) /\ SideInv(j) /\ EntryInv(j) /\ FreeInv(j)
      /\ CurrentOnly(j) /\ j.dead \subseteq Real(j) /\ c \in Cursor /\ j.trace \in [TraceNo -> Trace \cup {Null, Cur}]
  BY DEF Core, Graph, JitType, JitSet
<1>2. /\ no \in TraceNo /\ j.trace[no] = Cur /\ no \notin Real(j) /\ no # 0 /\ no \notin j.dead
      /\ CountDone \in Nat
      /\ \A n \in Real(j) : j.trace[n].parent \in {0} \cup Real(j) /\ j.trace[n].root \in {0} \cup Roots(j)
      /\ NoCur \in Cursor /\ NoCur.no = 0
  BY NewTrace
<1>3. /\ c.pc = SidePc /\ e \in Exit /\ par \in Marked(j) /\ root = RootOf(j, par)
      /\ \A n \in Real(j) : j.trace[n].parent = par => j.trace[n].exit # e
  BY DEF Recording
<1>4. /\ par \in Real(j) /\ par \in TraceNo /\ par # no /\ j.trace[par] \in Trace /\ par \notin j.dead
      /\ root \in Roots(j) /\ root \in Real(j) /\ root \in TraceNo /\ root # 0 /\ root # no
      /\ j.trace[root] \in Trace /\ root \notin j.dead
  <2>1. {par, root} \subseteq Marked(j) /\ root \in Roots(j) /\ Marked(j) \subseteq Live(j)
    BY <1>1, <1>3, MarkedFacts
  <2> QED
    BY <1>1, <1>2, <1>3, <2>1, RealFacts, TraceFacts DEF Live
<1>5. link \in Number /\ first \in Number /\ first \in {0} \cup SidesOf(j, root)
  <2>1. first = 0 \/ first \in SidesOf(j, RootOf(j, root))
    BY <1>1, <1>4 DEF LinkInv, Live
  <2>2. RootOf(j, root) = root
    BY <1>4 DEF RootOf, Roots
  <2>3. SidesOf(j, root) \subseteq TraceNo
    BY <1>1, RealFacts DEF SidesOf
  <2> QED
    BY <1>1, <1>2, <2>1, <2>2, <2>3, RealFacts, TraceFacts
<1>6. /\ t.pc = SidePc /\ t.root = root /\ t.parent = par /\ t.exit = e /\ t.link = link /\ t.nchild = 0
      /\ t.nextside = first /\ t.nextroot = 0 /\ t \in Trace
  <2>1. /\ t.pc = SidePc /\ t.root = root /\ t.parent = par /\ t.exit = e /\ t.link = link /\ t.nchild = 0
        /\ t.nextside = first /\ t.nextroot = 0
    BY <1>3 DEF Saved
  <2>2. t = [pc |-> SidePc, root |-> root, parent |-> par, exit |-> e, link |-> link, nchild |-> 0,
             nextside |-> first, nextroot |-> 0, count |-> [x \in Exit |-> 0]]
    BY <1>3 DEF Saved
  <2>3. [x \in Exit |-> 0] \in [Exit -> 0..CountDone] /\ 0 \in 0..MaxTrace
    BY <1>2, MaxTraceType
  <2> HIDE DEF t, first, root, par, e
  <2>4. t \in Trace
    BY <1>3, <1>4, <1>5, <2>2, <2>3, TraceFacts DEF Trace, Number
  <2> QED
    BY <2>1, <2>4
<1>7. r = [j EXCEPT !.trace = tr, !.cur = NoCur, !.state = "idle"]
  <2> DEFINE one == [j.trace EXCEPT ![par].count[e] = CountDone,
                                    ![root].nchild = j.trace[root].nchild + 1,
                                    ![root].nextside = no, ![no] = t]
  <2>1. r = [j EXCEPT !.trace = one, !.cur = NoCur, !.state = "idle"]
    BY <1>4 DEF Stop, Saved
  <2>2. one = tr
    OBVIOUS
  <2> HIDE DEF one, tr
  <2> QED
    BY <2>1, <2>2
\* The side traces are counted.
<1>8. /\ Cardinality(SidesOf(j, root) \cup {no}) = Cardinality(SidesOf(j, root)) + 1
      /\ j.trace[root].nchild = Cardinality(SidesOf(j, root))
      /\ j.trace[root].nchild + 1 \in 0..MaxTrace
  <2>1. SidesOf(j, root) \cup {no} \subseteq TraceNo /\ no \notin SidesOf(j, root)
    BY <1>1, <1>2, RealFacts DEF SidesOf
  <2>2. IsFiniteSet(TraceNo) /\ Cardinality(TraceNo) = MaxTrace
    BY FS_Interval, MaxTraceType DEF TraceNo
  <2>3. IsFiniteSet(SidesOf(j, root)) /\ IsFiniteSet(SidesOf(j, root) \cup {no})
    BY <2>1, <2>2, FS_Subset
  <2>4. Cardinality(SidesOf(j, root) \cup {no}) = Cardinality(SidesOf(j, root)) + 1
    <3> HIDE DEF no, root
    <3> QED
      BY <2>1, <2>3, FS_AddElement
  <2>5. Cardinality(SidesOf(j, root) \cup {no}) <= MaxTrace
    BY <2>1, <2>2, FS_Subset
  <2>6. j.trace[root].nchild = Cardinality(SidesOf(j, root))
    BY <1>1, <1>4 DEF SideInv
  <2>7. Cardinality(SidesOf(j, root)) \in Nat
    BY <2>3, FS_CardinalityType
  <2> QED
    BY <2>4, <2>5, <2>6, <2>7, MaxTraceType
<1>9. /\ count \in [TraceNo -> Trace \cup {Null, Cur}]
      /\ \A m \in TraceNo \ {par} : count[m] = j.trace[m]
      /\ count[par] \in Trace /\ SameTrace(j.trace[par], count[par])
      /\ count[par].nchild = j.trace[par].nchild /\ count[par].nextside = j.trace[par].nextside
      /\ \A x \in Exit : count[par].count[x] = IF x = e THEN CountDone ELSE j.trace[par].count[x]
  <2> DEFINE u == j.trace[par]
             v == [u EXCEPT !.count[e] = CountDone]
  <2>1. count = [j.trace EXCEPT ![par] = v]
    OBVIOUS
  <2>2. u \in Trace /\ CountDone \in 0..CountDone
    BY <1>2, <1>4
  <2>3. /\ v \in Trace /\ SameTrace(u, v) /\ v.nchild = u.nchild /\ v.nextside = u.nextside
        /\ \A x \in Exit : v.count[x] = IF x = e THEN CountDone ELSE u.count[x]
    <3> HIDE DEF u, e
    <3> QED
      BY <1>3, <2>2, Counted
  <2> HIDE DEF count, v, par
  <2>4. count[par] = v /\ count \in [TraceNo -> Trace \cup {Null, Cur}] /\ \A m \in TraceNo \ {par} : count[m] = j.trace[m]
    BY <1>1, <1>4, <2>1, <2>3
  <2> QED
    BY <2>3, <2>4
<1> HIDE DEF count
<1>10. count[root] \in Trace /\ count[root].nchild = j.trace[root].nchild /\ SameTrace(j.trace[root], count[root])
  <2>1. CASE root = par
    BY <1>9, <2>1
  <2>2. CASE root # par
    BY <1>4, <1>9, <2>2 DEF SameTrace
  <2> QED
    BY <2>1, <2>2
<1>11. /\ side \in [TraceNo -> Trace \cup {Null, Cur}]
       /\ \A m \in TraceNo \ {root} : side[m] = count[m]
       /\ side[root] \in Trace /\ SameTrace(count[root], side[root])
       /\ side[root].nchild = j.trace[root].nchild + 1 /\ side[root].nextside = no
       /\ side[root].count = count[root].count
  <2> DEFINE u == count[root]
             i == j.trace[root].nchild + 1
             v == [u EXCEPT !.nchild = i, !.nextside = no]
  <2>1. side = [count EXCEPT ![root] = v]
    BY <1>4, <1>9
  <2>2. u \in Trace /\ i \in 0..MaxTrace /\ no \in Number
    BY <1>2, <1>8, <1>10, TraceFacts
  <2>3. v \in Trace /\ SameTrace(u, v) /\ v.nchild = i /\ v.nextside = no /\ v.count = u.count
    <3> HIDE DEF u, i, no
    <3> QED
      BY <2>2, Sided
  <2> HIDE DEF side, v, root
  <2>4. side[root] = v /\ side \in [TraceNo -> Trace \cup {Null, Cur}] /\ \A m \in TraceNo \ {root} : side[m] = count[m]
    BY <1>4, <1>9, <2>1, <2>3
  <2> QED
    BY <2>3, <2>4
<1> HIDE DEF side
<1>12. /\ tr \in [TraceNo -> Trace \cup {Null, Cur}] /\ tr[no] = t /\ \A m \in TraceNo \ {no} : tr[m] = side[m]
  <2> HIDE DEF t, no
  <2> QED
    BY <1>2, <1>6, <1>11
<1> HIDE DEF tr, t, r, first, no, par, root, e
<1>13. ASSUME NEW m \in Real(j)
       PROVE  /\ m \in TraceNo /\ m # no /\ tr[m] \in Trace /\ SameTrace(j.trace[m], tr[m])
              /\ tr[m].nchild = IF m = root THEN j.trace[m].nchild + 1 ELSE j.trace[m].nchild
              /\ tr[m].nextside = IF m = root THEN no ELSE j.trace[m].nextside
              /\ \A x \in Exit : tr[m].count[x] = IF m = par /\ x = e THEN CountDone ELSE j.trace[m].count[x]
  <2>1. m \in TraceNo /\ m # no /\ j.trace[m] \in Trace /\ tr[m] = side[m]
    BY <1>1, <1>2, <1>12, RealFacts
  <2>2. /\ count[m] \in Trace /\ SameTrace(j.trace[m], count[m])
        /\ count[m].nchild = j.trace[m].nchild /\ count[m].nextside = j.trace[m].nextside
        /\ \A x \in Exit : count[m].count[x] = IF m = par /\ x = e THEN CountDone ELSE j.trace[m].count[x]
    <3>1. CASE m = par
      BY <1>9, <3>1
    <3>2. CASE m # par
      BY <1>9, <2>1, <3>2 DEF SameTrace
    <3> QED
      BY <3>1, <3>2
  <2>3. CASE m = root
    BY <1>11, <2>1, <2>2, <2>3 DEF SameTrace
  <2>4. CASE m # root
    BY <1>11, <2>1, <2>2, <2>4
  <2> QED
    BY <2>3, <2>4
<1>14. JitType(r)
  BY <1>1, <1>2, <1>7, <1>12 DEF JitType, JitSet
<1>15. /\ r.trace = tr /\ r.cur = NoCur /\ r.state = "idle" /\ r.bc = j.bc /\ r.chain = j.chain
       /\ r.dead = j.dead /\ r.patch = NoPatch /\ r.freetrace = j.freetrace
       /\ r.iloop = j.iloop /\ r.nojit = j.nojit
  BY <1>1, <1>7 DEF JitType, JitSet
<1>16. \A m \in TraceNo : tr[m] \in Trace <=> m \in Real(j) \cup {no}
  <2>1. \A m \in TraceNo \ (Real(j) \cup {no}) : tr[m] = j.trace[m] /\ j.trace[m] \notin Trace
    <3>1. \A m \in TraceNo \ (Real(j) \cup {no}) : tr[m] = side[m] /\ m # root /\ m # par
      BY <1>4, <1>12
    <3>2. \A m \in TraceNo \ (Real(j) \cup {no}) : tr[m] = j.trace[m]
      BY <1>9, <1>11, <3>1
    <3> QED
      BY <1>1, <3>2, RealFacts
  <2> QED
    BY <1>6, <1>12, <1>13, <2>1
<1>17. Real(r) = Real(j) \cup {no} /\ Roots(r) = Roots(j)
  <2>1. \A m \in TraceNo : m \in Real(r) <=> tr[m] \in Trace
    BY <1>14, <1>15, RealFacts
  <2>2. Real(r) = Real(j) \cup {no}
    <3>1. Real(r) \subseteq TraceNo /\ Real(j) \subseteq TraceNo
      BY DEF Real
    <3> QED
      BY <1>2, <1>16, <2>1, <3>1
  <2>3. tr[no].root # 0
    BY <1>4, <1>6, <1>12
  <2> QED
    BY <1>13, <1>15, <2>2, <2>3 DEF Roots, SameTrace
<1>18. \A m \in Real(j) : RootOf(r, m) = RootOf(j, m)
  BY <1>13, <1>15 DEF RootOf, SameTrace
<1>19. \A n : SidesOf(r, n) = SidesOf(j, n) \cup (IF n = root THEN {no} ELSE {})
  <2>1. \A m \in Real(j) : r.trace[m].root = j.trace[m].root
    BY <1>13, <1>15 DEF SameTrace
  <2>2. r.trace[no].root = root
    BY <1>6, <1>12, <1>15
  <2> QED
    BY <1>17, <2>1, <2>2 DEF SidesOf
<1>20. ChainInv(r) /\ \A p \in Proto : Chained(r, p) = Chained(j, p)
  <2>1. ASSUME NEW p \in Proto
        PROVE  /\ ListOf(NextRoot(r), r.chain[p], Chained(j, p)) /\ Chained(r, p) = Chained(j, p)
               /\ Chained(j, p) \subseteq {n \in Roots(r) \ r.dead : ProtoOf[r.trace[n].pc] = p}
    <3>1. /\ ListOf(NextRoot(j), j.chain[p], Chained(j, p))
          /\ Chained(j, p) \subseteq {n \in Roots(j) \ j.dead : ProtoOf[j.trace[n].pc] = p}
      BY <1>1 DEF ChainInv
    <3>2. \A m \in Chained(j, p) : m \in Real(j)
      BY <1>1, <3>1, RealFacts
    <3>3. \A m \in Chained(j, p) : NextRoot(r)[m] = NextRoot(j)[m] /\ r.trace[m].pc = j.trace[m].pc
      BY <1>13, <1>15, <1>17, <3>2 DEF NextRoot, SameTrace
    <3>4. ListOf(NextRoot(r), r.chain[p], Chained(j, p))
      BY <1>15, <3>1, <3>3, SameList
    <3>5. Chained(r, p) = Chained(j, p)
      BY <3>4, AlongList DEF Chained
    <3> QED
      BY <1>15, <1>17, <3>1, <3>3, <3>4, <3>5
  <2> QED
    BY <2>1 DEF ChainInv
<1>21. TreeInv(r)
  <2>1. ASSUME NEW n \in Real(r)
        PROVE  LET u == r.trace[n]
               IN  /\ u.parent = 0 <=> u.root = 0
                   /\ u.parent # 0 => /\ u.parent \in Real(r) /\ u.root = RootOf(r, u.parent)
                                      /\ u.root \in Roots(r)
                                      /\ u.exit \in Exit /\ r.trace[u.parent].count[u.exit] = CountDone
                                      /\ n \in r.dead <=> u.root \in r.dead
    <3>1. CASE n = no
      <4>1. r.trace[n] = t /\ n \notin r.dead
        BY <1>2, <1>12, <1>15, <3>1 DEF no
      <4>2. par \in Real(r) /\ root = RootOf(r, par) /\ root \in Roots(r) /\ r.trace[par].count[e] = CountDone
        BY <1>3, <1>4, <1>13, <1>15, <1>17, <1>18 DEF root, par, e
      <4> QED
        BY <1>3, <1>4, <1>6, <1>15, <4>1, <4>2 DEF e, par, root
    <3>2. CASE n # no
      <4>1. n \in Real(j)
        BY <1>17, <3>2
      <4> DEFINE u == j.trace[n]
      <4>2. /\ u.parent = 0 <=> u.root = 0
            /\ u.parent # 0 => /\ u.parent \in Real(j) /\ u.root = RootOf(j, u.parent)
                               /\ u.root \in Roots(j)
                               /\ u.exit \in Exit /\ j.trace[u.parent].count[u.exit] = CountDone
                               /\ n \in j.dead <=> u.root \in j.dead
        BY <1>1, <4>1 DEF TreeInv
      <4>3. r.trace[n].parent = u.parent /\ r.trace[n].root = u.root /\ r.trace[n].exit = u.exit
        BY <1>13, <1>15, <4>1 DEF SameTrace
      <4>4. u.parent # 0 => r.trace[u.parent].count[u.exit] = CountDone
        BY <1>13, <1>15, <4>2
      <4> HIDE DEF u
      <4> QED
        BY <1>15, <1>17, <1>18, <4>2, <4>3, <4>4
    <3> QED
      BY <3>1, <3>2
  <2>2. ASSUME NEW m \in Real(r), NEW n \in Real(r),
               m # n /\ r.trace[m].parent # 0 /\ r.trace[m].parent = r.trace[n].parent
        PROVE  r.trace[m].exit # r.trace[n].exit
    <3>1. \A x \in Real(j) : r.trace[x].parent = j.trace[x].parent /\ r.trace[x].exit = j.trace[x].exit
      BY <1>13, <1>15 DEF SameTrace
    <3>2. r.trace[no].parent = par /\ r.trace[no].exit = e
      BY <1>6, <1>12, <1>15
    <3>3. \A x \in Real(j) : j.trace[x].parent = par => j.trace[x].exit # e
      BY <1>3 DEF par, e
    <3>4. CASE m # no /\ n # no
      <4>1. m \in Real(j) /\ n \in Real(j)
        BY <1>17, <3>4
      <4> QED
        BY <1>1, <2>2, <3>1, <4>1 DEF TreeInv
    <3>5. CASE m = no \/ n = no
      BY <1>17, <2>2, <3>1, <3>2, <3>3, <3>5
    <3> QED
      BY <3>4, <3>5
  <2>3. \E age \in [TraceNo -> Nat] :
          \A n \in Real(r) : r.trace[n].parent # 0 => age[r.trace[n].parent] < age[n]
    <3>1. PICK age \in [TraceNo -> Nat] :
            \A n \in Real(j) : j.trace[n].parent # 0 => age[j.trace[n].parent] < age[n]
      BY <1>1 DEF TreeInv
    <3> DEFINE older == [n \in TraceNo |-> IF n = no THEN age[par] + 1 ELSE age[n]]
    <3>2. older \in [TraceNo -> Nat] /\ age[par] \in Nat
      BY <1>4 DEF par
    <3>3. \A n \in Real(j) : /\ r.trace[n].parent = j.trace[n].parent /\ older[n] = age[n]
                             /\ j.trace[n].parent # 0 => older[j.trace[n].parent] = age[j.trace[n].parent]
      <4>1. \A n \in Real(j) : r.trace[n].parent = j.trace[n].parent /\ n \in TraceNo /\ n # no
        BY <1>13, <1>15 DEF SameTrace
      <4>2. \A n \in Real(j) : j.trace[n].parent # 0 => j.trace[n].parent \in Real(j)
        BY <1>2
      <4> QED
        BY <4>1, <4>2
    <3>4. r.trace[no].parent = par /\ older[no] = age[par] + 1 /\ older[par] = age[par]
      <4>1. no \in TraceNo /\ par \in TraceNo /\ par # no
        BY <1>2, <1>4 DEF no, par
      <4> QED
        BY <1>6, <1>12, <1>15, <4>1
    <3> HIDE DEF older
    <3>5. \A n \in Real(r) : r.trace[n].parent # 0 => older[r.trace[n].parent] < older[n]
      BY <1>17, <3>1, <3>2, <3>3, <3>4
    <3> QED
      BY <3>2, <3>5
  <2> QED
    BY <2>1, <2>2, <2>3 DEF TreeInv
<1>22. LinkInv(r)
  <2> SUFFICES ASSUME NEW n \in Live(r)
               PROVE  LET u == r.trace[n]
                      IN  /\ u.link \in {0, n} \cup (Roots(r) \ r.dead)
                          /\ u.nextroot \in {0} \cup (Roots(r) \ r.dead)
                          /\ u.nextside = 0 \/ u.nextside \in SidesOf(r, RootOf(r, n))
    BY DEF LinkInv
  <2>1. CASE n = no
    <3>1. r.trace[n] = t /\ RootOf(r, n) = root
      BY <1>4, <1>6, <1>12, <1>15, <2>1 DEF RootOf, root
    <3>2. link \in {0, no} \cup (Roots(j) \ j.dead)
      BY DEF no
    <3>3. first \in {0} \cup SidesOf(r, root)
      BY <1>5, <1>19
    <3> QED
      BY <1>6, <1>15, <1>17, <2>1, <3>1, <3>2, <3>3
  <2>2. CASE n # no
    <3>1. n \in Live(j) /\ n \in Real(j)
      BY <1>15, <1>17, <2>2 DEF Live
    <3>2. /\ j.trace[n].link \in {0, n} \cup (Roots(j) \ j.dead)
          /\ j.trace[n].nextroot \in {0} \cup (Roots(j) \ j.dead)
          /\ j.trace[n].nextside = 0 \/ j.trace[n].nextside \in SidesOf(j, RootOf(j, n))
      BY <1>1, <3>1 DEF LinkInv
    <3>3. r.trace[n].link = j.trace[n].link /\ r.trace[n].nextroot = j.trace[n].nextroot
      BY <1>13, <1>15, <3>1 DEF SameTrace
    <3>4. r.trace[n].nextside = 0 \/ r.trace[n].nextside \in SidesOf(r, RootOf(r, n))
      <4>1. CASE n = root
        <5>1. RootOf(j, n) = root
          BY <1>4, <4>1 DEF RootOf, Roots, root
        <5> QED
          BY <1>13, <1>15, <1>18, <1>19, <3>1, <4>1, <5>1
      <4>2. CASE n # root
        BY <1>13, <1>15, <1>18, <1>19, <3>1, <3>2, <4>2
      <4> QED
        BY <4>1, <4>2
    <3> QED
      BY <1>15, <1>17, <3>2, <3>3, <3>4
  <2> QED
    BY <2>1, <2>2
<1>23. SideInv(r)
  <2> SUFFICES ASSUME NEW n \in Roots(r) \ r.dead
               PROVE  /\ ListOf(NextSide(r), r.trace[n].nextside, SidesOf(r, n))
                      /\ r.trace[n].nchild = Cardinality(SidesOf(r, n))
    BY DEF SideInv
  <2>1. n \in Roots(j) \ j.dead /\ n \in Real(j)
    BY <1>1, <1>15, <1>17, RealFacts
  <2>2. ListOf(NextSide(j), j.trace[n].nextside, SidesOf(j, n)) /\ j.trace[n].nchild = Cardinality(SidesOf(j, n))
    BY <1>1, <2>1 DEF SideInv
  <2>3. \A m \in SidesOf(j, n) : NextSide(r)[m] = NextSide(j)[m] /\ m # no
    <3>1. \A m \in SidesOf(j, n) : m \in Real(j) /\ m # root
      <4>1. n # 0 /\ j.trace[root].root = 0
        BY <1>1, <1>4, <2>1, RealFacts, TraceFacts DEF Roots, root
      <4> QED
        BY <4>1 DEF SidesOf
    <3> QED
      BY <1>13, <1>15, <1>17, <3>1 DEF NextSide
  <2>4. CASE n = root
    <3>1. r.trace[n].nextside = no /\ r.trace[n].nchild = j.trace[n].nchild + 1 /\ SidesOf(r, n) = SidesOf(j, n) \cup {no}
      BY <1>13, <1>15, <1>19, <2>1, <2>4
    <3>2. NextSide(r)[no] = j.trace[n].nextside /\ no \in TraceNo /\ no \notin SidesOf(j, n)
      <4>1. no \in TraceNo /\ no \in Real(r) /\ r.trace[no].nextside = first
        BY <1>2, <1>6, <1>12, <1>15, <1>17 DEF no
      <4> QED
        BY <2>3, <2>4, <4>1 DEF NextSide, first
    <3>3. ListOf(NextSide(r), no, SidesOf(j, n) \cup {no})
      BY <2>2, <2>3, <3>2, PushList
    <3> QED
      BY <1>8, <2>2, <2>4, <3>1, <3>3 DEF root, no
  <2>5. CASE n # root
    <3>1. r.trace[n].nextside = j.trace[n].nextside /\ r.trace[n].nchild = j.trace[n].nchild /\ SidesOf(r, n) = SidesOf(j, n)
      BY <1>13, <1>15, <1>19, <2>1, <2>5
    <3>2. ListOf(NextSide(r), j.trace[n].nextside, SidesOf(j, n))
      BY <2>2, <2>3, SameList
    <3> QED
      BY <2>2, <3>1, <3>2
  <2> QED
    BY <2>4, <2>5
<1>24. EntryInv(r)
  <2> SUFFICES ASSUME NEW pc \in Pc, Entry(r, pc) # 0
               PROVE  Entry(r, pc) \in Chained(r, ProtoOf[pc]) /\ r.trace[Entry(r, pc)].pc = pc
    BY DEF EntryInv
  <2> DEFINE x == Entry(j, pc)
  <2>1. Entry(r, pc) = x
    BY <1>15 DEF Entry
  <2>2. x \in Chained(j, ProtoOf[pc]) /\ j.trace[x].pc = pc /\ ProtoOf[pc] \in Proto
    BY <1>1, <2>1, TraceFacts DEF EntryInv
  <2>3. x \in Real(j)
    BY <1>1, <2>2, RealFacts DEF ChainInv
  <2> HIDE DEF x
  <2> QED
    BY <1>13, <1>15, <1>20, <2>1, <2>2, <2>3 DEF SameTrace
<1>25. FreeInv(r) /\ PatchInv(r) /\ CurrentOnly(r)
  <2>1. \A m \in TraceNo : (tr[m] = Null <=> j.trace[m] = Null) /\ (tr[m] = Cur <=> (j.trace[m] = Cur /\ m # no))
    <3> SUFFICES ASSUME NEW m \in TraceNo
                 PROVE  (tr[m] = Null <=> j.trace[m] = Null) /\ (tr[m] = Cur <=> (j.trace[m] = Cur /\ m # no))
      OBVIOUS
    <3>1. CASE m = no
      <4>1. j.trace[m] = Cur
        BY <1>2, <3>1 DEF no
      <4> QED
        BY <1>6, <1>12, <3>1, <4>1, TraceFacts, CompilerAssumption
    <3>2. CASE m \in Real(j)
      <4>1. j.trace[m] \in Trace /\ tr[m] \in Trace
        BY <1>1, <1>13, <3>2, RealFacts
      <4> QED
        BY <4>1, TraceFacts
    <3>3. CASE m \notin Real(j) \cup {no}
      <4>1. tr[m] = side[m] /\ m # root /\ m # par
        BY <1>4, <1>12, <3>3 DEF root, par
      <4>2. tr[m] = j.trace[m]
        BY <1>9, <1>11, <4>1
      <4> QED
        BY <3>3, <4>2
    <3> QED
      BY <3>1, <3>2, <3>3
  <2>2. \A m \in TraceNo : j.trace[m] = Cur <=> m = no
    BY <1>1 DEF CurrentOnly, no
  <2> QED
    BY <1>1, <1>2, <1>15, <2>1, <2>2, TraceFacts DEF FreeInv, PatchInv, CurrentOnly
<1>26. Inv(r)
  BY <1>1, <1>14, <1>15, <1>17, <1>20, <1>21, <1>22, <1>23, <1>24, <1>25 DEF Inv, Core, Graph
<1> QED
  BY <1>15, <1>26 DEF r


\* A recording stops: the trace enters the graph.
LEMMA StopInv ==
  ASSUME NEW j, Core(j), j.patch = NoPatch, Recording(j),
         NEW link \in {0, j.cur.no} \cup (Roots(j) \ j.dead)
  PROVE  LET r == Stop(j, link)
         IN  /\ Inv(r) /\ r.iloop = j.iloop /\ r.nojit = j.nojit
             /\ \A pc \in Pc : r.bc[pc] = j.bc[pc] \/ r.bc[pc].op = "jit"
BY StopRoot, StopSide

\* The instructions after a step that starts with "before": only those that were
\* blacklisted in a prototype are out of compilation.
InstrInv(j) == \A pc \in Pc : j.bc[pc] # Wrong /\ (j.bc[pc] = Interp => ProtoOf[pc] \in j.iloop)
NoReturnSwitched == \A r \in Ret : ProtoOf[r] \notin Switched

LEMMA InstrKept ==
  ASSUME NEW j, NEW r, InstrInv(j), r.iloop = j.iloop,
         \A pc \in Pc : r.bc[pc] = j.bc[pc] \/ r.bc[pc] = Plain \/ r.bc[pc].op = "jit"
  PROVE  InstrInv(r)
<1>1. Wrong.op # "jit" /\ Interp.op # "jit" /\ Plain # Wrong /\ Plain # Interp
  BY DEF Wrong, Interp, Plain
<1> QED
  BY <1>1 DEF InstrInv

LEMMA InstrPenalized ==
  ASSUME NEW j, InstrInv(j), NEW r, NEW at \in Loop \cup Func, j.bc[at] = Plain,
         r.iloop = j.iloop \cup {ProtoOf[at]}, \A pc \in Pc \ {at} : r.bc[pc] = j.bc[pc],
         r.bc[at] = IF j.bc[at] = Plain /\ at \in Loop \cup Func THEN Interp ELSE Wrong
  PROVE  InstrInv(r)
BY CodeFacts DEF InstrInv

\* A recording goes on when its instruction is not patched.
LEMMA RecordingKept ==
  ASSUME NEW j, Core(j), Recording(j), NEW r, SameLinks(j, r), r.cur = j.cur, r.maxtrace = j.maxtrace,
         j.cur.parent = 0 => r.bc[j.cur.pc] = Plain /\ r.patch.pc # j.cur.pc
  PROVE  Recording(r)
<1>1. Marked(r) = Marked(j) /\ \A n \in Real(j) : RootOf(r, n) = RootOf(j, n)
  BY SameGraph
<1>2. Marked(j) \subseteq Real(j)
  BY MarkedFacts DEF Core, Live
<1>3. Real(r) = Real(j) /\ \A n \in Real(j) : r.trace[n] = j.trace[n]
  BY DEF SameLinks
<1>4. j.cur.parent = 0 => /\ j.cur.pc \in Starts /\ j.cur.pt = ProtoOf[j.cur.pc] /\ j.cur.root = 0
  BY DEF Recording
<1>5. j.cur.parent # 0 => /\ j.cur.pc = SidePc /\ j.cur.exit \in Exit
                          /\ j.cur.parent \in Marked(j) /\ j.cur.root = RootOf(j, j.cur.parent)
                          /\ \A n \in Real(j) : j.trace[n].parent = j.cur.parent =>
                               j.trace[n].exit # j.cur.exit
  BY DEF Recording
<1>6. j.cur.no \in 1..r.maxtrace
  BY DEF Recording
<1> QED
  BY <1>1, <1>2, <1>3, <1>4, <1>5, <1>6 DEF Recording

\* What aborting needs of a recording.
Abortable(j) ==
  LET c == j.cur
  IN  /\ c.pc \in Pc /\ c.no \in 1..j.maxtrace
      /\ c.parent = 0 => c.pc \in Starts /\ c.pt = ProtoOf[c.pc] /\ j.bc[c.pc] = Plain /\ j.patch.pc # c.pc

LEMMA RecordingAbortable ==
  ASSUME NEW j, Recording(j)
  PROVE  Abortable(j)
BY TraceFacts DEF Recording, Abortable

\* An error, from a state where the pending patch is done.
LEMMA AbortInv ==
  ASSUME NEW j, Core(j), Abortable(j), NEW rnd \in PenaltyRandom, NEW e,
         e \in {"error", "mcode"} \/ (e \in Ret /\ e # j.cur.pc /\ j.bc[e] = Plain /\ j.patch = NoPatch)
  PROVE  LET r == Abort(j, e, rnd)
         IN  Inv(r) /\ (InstrInv(j) /\ NoReturnSwitched => InstrInv(r))
<1> DEFINE a == PendPatch(j)
           k == Dropped(a, j.cur.parent, rnd)
           c == j.cur
<1>1. /\ Core(a) /\ SameLinks(j, a) /\ a.patch = NoPatch
      /\ \A pc \in Pc : a.bc[pc] = j.bc[pc] \/ (pc = j.patch.pc /\ a.bc[pc].op = "jit")
      /\ a.iloop = j.iloop /\ a.cur = j.cur /\ a.maxtrace = j.maxtrace
  BY PendPatchCore
<1>2. /\ c.pc \in Pc /\ c.no \in 1..j.maxtrace /\ c.no # 0 /\ c \in Cursor
      /\ c.parent = 0 => c.pc \in Starts /\ c.pt = ProtoOf[c.pc] /\ a.bc[c.pc] = Plain
  <2>1. c \in Cursor /\ j.maxtrace \in 1..MaxTrace
    BY DEF Core, JitType, JitSet
  <2>2. c.parent = 0 => c.pc \in Starts /\ c.pt = ProtoOf[c.pc] /\ a.bc[c.pc] = Plain
    BY <1>1, TraceFacts DEF Abortable
  <2>3. c.no \in 1..j.maxtrace /\ c.pc \in Pc
    BY DEF Abortable
  <2> QED
    BY <2>1, <2>2, <2>3
<1> HIDE DEF a
<1>3. /\ Core(k) /\ k.patch = NoPatch /\ k.cur = [c EXCEPT !.no = 0] /\ k.cur.no = 0
      /\ SameLinks(a, k) /\ k.maxtrace = j.maxtrace
      /\ k.freetrace <= c.no /\ k.trace[c.no] = Null
      /\ \/ k.bc = a.bc /\ k.iloop = a.iloop
         \/ /\ c.parent = 0 /\ c.pc \notin Ret /\ k.iloop = a.iloop \cup {c.pt}
            /\ \A pc \in Pc \ {c.pc} : k.bc[pc] = a.bc[pc]
            /\ k.bc[c.pc] = IF a.bc[c.pc] = Plain /\ c.pc \in Loop \cup Func THEN Interp ELSE Wrong
  <2> HIDE DEF c
  <2> QED
    BY <1>1, <1>2, DroppedCore DEF c
<1>4. InstrInv(j) => InstrInv(k)
  <2> SUFFICES ASSUME InstrInv(j)
               PROVE  InstrInv(k)
    OBVIOUS
  <2>1. InstrInv(a)
    BY <1>1, InstrKept
  <2>2. CASE k.bc = a.bc /\ k.iloop = a.iloop
    BY <2>1, <2>2 DEF InstrInv
  <2>3. CASE ~(k.bc = a.bc /\ k.iloop = a.iloop)
    <3>1. /\ c.pc \in Loop \cup Func /\ c.pt = ProtoOf[c.pc] /\ a.bc[c.pc] = Plain
          /\ k.iloop = a.iloop \cup {c.pt} /\ \A pc \in Pc \ {c.pc} : k.bc[pc] = a.bc[pc]
          /\ k.bc[c.pc] = IF a.bc[c.pc] = Plain /\ c.pc \in Loop \cup Func THEN Interp ELSE Wrong
      BY <1>2, <1>3, <2>3 DEF Starts
    <3> HIDE DEF c, k
    <3> QED
      BY <2>1, <3>1, InstrPenalized
  <2> QED
    BY <2>2, <2>3
<1>5. CASE e \in {"error", "mcode"}
  <2>1. e \notin Ret
    BY <1>5, CompilerAssumption
  <2>2. CASE e = "mcode"
    <3> DEFINE f == FlushAll(k)
    <3>1. Abort(j, e, rnd) = Idle(f)
      BY <2>1, <2>2 DEF Abort, a
    <3> HIDE DEF k
    <3>2. Core(f) /\ OnlyUnpatched(k, f) /\ f.patch = NoPatch /\ f.iloop = k.iloop /\ f.cur.no = 0
      BY <1>3, FlushAllCore
    <3> HIDE DEF f
    <3>3. Inv(Idle(f)) /\ Idle(f).bc = f.bc /\ Idle(f).iloop = f.iloop
      BY <3>2, IdleInv
    <3>4. InstrInv(k) => InstrInv(f)
      BY <3>2, InstrKept DEF OnlyUnpatched
    <3>5. InstrInv(f) => InstrInv(Idle(f))
      BY <3>3 DEF InstrInv
    <3> QED
      BY <1>4, <3>1, <3>3, <3>4, <3>5
  <2>3. CASE e = "error"
    <3>1. Abort(j, e, rnd) = Idle(k)
      BY <2>1, <2>3 DEF Abort, a
    <3> HIDE DEF k
    <3>2. Inv(Idle(k)) /\ Idle(k).bc = k.bc /\ Idle(k).iloop = k.iloop
      BY <1>3, IdleInv
    <3>3. InstrInv(k) => InstrInv(Idle(k))
      BY <3>2 DEF InstrInv
    <3> QED
      BY <1>4, <3>1, <3>2, <3>3
  <2> QED
    BY <1>5, <2>2, <2>3
<1>6. CASE e \in Ret /\ e # c.pc /\ j.bc[e] = Plain /\ j.patch = NoPatch
  <2> DEFINE p == ProtoOf[e]
             down == Start(k, p, e, 0, Null)
             d == Dropped(down, 0, rnd)
  <2>1. Abort(j, e, rnd) = IF down.state = "idle" THEN Idle(d) ELSE down
    BY <1>6 DEF Abort, a
  <2>2. e \in Starts /\ e \in Pc /\ p \in Proto /\ k.bc[e] = Plain
    <3>1. e \in Starts /\ e \in Pc /\ p \in Proto
      BY <1>6, TraceFacts DEF Starts
    <3>2. a.bc[e] = Plain
      BY <1>1, <1>6, <3>1, TraceFacts DEF NoPatch
    <3> QED
      BY <1>3, <1>6, <3>1, <3>2
  <2> HIDE DEF k
  <2>3. StartsAt(k, p, e, 0, Null)
    BY <2>2 DEF StartsAt
  <2>4. /\ Core(down) /\ down.patch = NoPatch /\ down.state \in {"idle", "record", "end"}
        /\ down.state = "idle" => down.cur = k.cur
        /\ down.state # "idle" => Recording(down) /\ down.state = "record"
        /\ p \notin k.nojit => OnlyUnpatched(k, down) /\ down.iloop = k.iloop
        /\ p \notin k.nojit /\ FindFree(k) # 0 => down.state # "idle"
    <3>1. Core(k) /\ k.patch = NoPatch /\ k.cur.no = 0
      BY <1>3
    <3> HIDE DEF p, c, d
    <3>2. PICK z : z = 0
      OBVIOUS
    <3> DEFINE r == Start(k, p, e, z, Null)
    <3>3. StartsAt(k, p, e, z, Null)
      BY <2>3, <3>2
    <3>4. /\ Core(r) /\ r.patch = NoPatch /\ r.state \in {"idle", "record", "end"}
          /\ r.state = "idle" => r.cur = k.cur
          /\ r.state # "idle" => Recording(r)
          /\ z = 0 => r.state # "end"
          /\ \/ OnlyUnpatched(k, r) /\ r.iloop = k.iloop
             \/ /\ z = 0 /\ p \in k.nojit /\ r.state = "idle"
                /\ Blacklisted(k, r, p, e)
          /\ p \notin k.nojit /\ FindFree(k) # 0 => r.state # "idle"
      BY <2>2, <3>1, <3>3, StartCore
    <3>5. r = down
      BY <3>2
    <3> HIDE DEF down, r
    <3> QED
      BY <3>2, <3>4, <3>5
  <2>5. FindFree(k) # 0
    <3>1. JitType(k) /\ FreeInv(k) /\ c.no \in 1..k.maxtrace /\ k.trace[c.no] = Null
      BY <1>2, <1>3 DEF Core
    <3> QED
      BY <3>1, FindFreeFacts
  <2>6. NoReturnSwitched => p \notin k.nojit
    <3>1. k.nojit \subseteq Switched
      BY <1>3 DEF Core, JitType, JitSet
    <3> QED
      BY <1>6, <3>1 DEF NoReturnSwitched
  <2> HIDE DEF down
  <2>7. CASE down.state = "idle"
    <3>1. down.cur = k.cur /\ down.cur.pc = c.pc /\ down.cur.no = 0
      BY <1>2, <1>3, <2>4, <2>7 DEF Cursor
    <3>2. Core(d) /\ d.patch = NoPatch /\ d.cur.no = 0
      <4>1. down.cur.pc \in Pc
        BY <1>2, <3>1
      <4> QED
        <5>1. Core(down) /\ down.patch = NoPatch
          BY <2>4
        <5> HIDE DEF c
        <5>2. /\ Core(d) /\ d.patch = NoPatch /\ d.cur = [down.cur EXCEPT !.no = 0] /\ d.cur.no = 0
          BY <4>1, <5>1, DroppedCore
        <5> QED
          BY <5>2
    <3> HIDE DEF d
    <3>3. Inv(Idle(d))
      BY <3>2, IdleInv
    <3> QED
      BY <2>1, <2>4, <2>5, <2>6, <2>7, <3>3
  <2>8. CASE down.state # "idle"
    <3>1. Inv(down)
      BY <2>4, <2>8 DEF Inv
    <3>2. InstrInv(k) /\ NoReturnSwitched => InstrInv(down)
      BY <2>4, <2>6, InstrKept DEF OnlyUnpatched
    <3> QED
      BY <1>4, <2>1, <2>8, <3>1, <3>2
  <2> QED
    BY <2>7, <2>8
<1> QED
  BY <1>5, <1>6

\* The end of a recording.
LEMMA FinishInv ==
  ASSUME NEW j, Core(j), Recording(j), NEW link \in {0, j.cur.no} \cup (Roots(j) \ j.dead), Finish(j, link)
  PROVE  Inv(jit') /\ (InstrInv(j) /\ NoReturnSwitched => InstrInv(jit'))
<1> DEFINE k == PendPatch(j)
<1>1. /\ Core(k) /\ SameLinks(j, k) /\ k.patch = NoPatch
      /\ \A pc \in Pc : k.bc[pc] = j.bc[pc] \/ (pc = j.patch.pc /\ k.bc[pc].op = "jit")
      /\ k.iloop = j.iloop /\ k.cur = j.cur /\ k.maxtrace = j.maxtrace
  BY PendPatchCore
<1>2. jit' = Stop(k, link) \/ \E e \in {"error", "mcode"}, rnd \in PenaltyRandom : jit' = Abort(k, e, rnd)
  BY DEF Finish
<1> HIDE DEF k
<1>3. Recording(k) /\ link \in {0, k.cur.no} \cup (Roots(k) \ k.dead)
  <2>1. j.cur.parent = 0 => k.bc[j.cur.pc] = Plain /\ k.patch.pc # j.cur.pc
    <3>1. j.cur.parent = 0 => /\ j.cur.pc \in Pc /\ j.cur.pc # Null /\ j.bc[j.cur.pc] = Plain
                              /\ j.patch.pc # j.cur.pc
      BY TraceFacts DEF Recording
    <3> QED
      BY <1>1, <3>1 DEF NoPatch
  <2> QED
    BY <1>1, <2>1, RecordingKept, SameGraph DEF SameLinks
<1>4. InstrInv(j) => InstrInv(k)
  BY <1>1, InstrKept
<1>5. CASE jit' = Stop(k, link)
  <2> DEFINE r == Stop(k, link)
  <2>1. Inv(r) /\ r.iloop = k.iloop /\ \A pc \in Pc : r.bc[pc] = k.bc[pc] \/ r.bc[pc].op = "jit"
    BY <1>1, <1>3, StopInv
  <2> HIDE DEF r
  <2>2. InstrInv(k) => InstrInv(r)
    BY <2>1, InstrKept
  <2> QED
    BY <1>4, <1>5, <2>1, <2>2 DEF r
<1>6. CASE \E e \in {"error", "mcode"}, rnd \in PenaltyRandom : jit' = Abort(k, e, rnd)
  <2>1. PICK e \in {"error", "mcode"}, rnd \in PenaltyRandom : jit' = Abort(k, e, rnd)
    BY <1>6
  <2>2. Inv(Abort(k, e, rnd)) /\ (InstrInv(k) /\ NoReturnSwitched => InstrInv(Abort(k, e, rnd)))
    BY <1>1, <1>3, RecordingAbortable, AbortInv
  <2> QED
    BY <1>4, <2>1, <2>2
<1> QED
  BY <1>2, <1>5, <1>6
-------------------------------------------------------------------------------
(* The events.                                                             *)

\* What may run is marked.
LEMMA RunningMarked ==
  ASSUME NEW j, JitType(j), Graph(j), EntryInv(j), PatchInv(j)
  PROVE  /\ Running(j) \subseteq Marked(j)
         /\ \A pc \in Pc : j.bc[pc].op = "jit" => j.bc[pc].d \in Marked(j) \cap Roots(j)
<1> DEFINE from == Entered(j)
           to == [n \in TraceNo |-> IF n \notin Real(j) THEN {}
                                    ELSE {j.trace[n].link} \cup {s \in Real(j) : j.trace[s].parent = n}]
           M == Marked(j)
<1>1. /\ M \subseteq Live(j) /\ M \subseteq TraceNo /\ 0 \notin M
      /\ \A p \in Proto : Chained(j, p) \subseteq M
      /\ \A n \in M : {j.trace[n].link, j.trace[n].nextroot, j.trace[n].nextside} \subseteq {0} \cup M
      /\ \A n \in M, s \in Real(j) : j.trace[s].parent = n => s \in M
  BY MarkedFacts
<1>2. ASSUME NEW pc \in Pc, j.bc[pc].op = "jit"
      PROVE  j.bc[pc].d \in M \cap Roots(j)
  <2>1. j.bc[pc].d # 0
    BY <1>2, CodeFacts DEF JitType, JitSet
  <2>2. j.bc[pc] # Plain
    BY <1>2, CodeFacts
  <2>3. Entry(j, pc) = j.bc[pc].d
    BY <2>2, TraceFacts DEF PatchInv, Entry, NoPatch
  <2>4. j.bc[pc].d \in Chained(j, ProtoOf[pc]) /\ ProtoOf[pc] \in Proto
    BY <2>1, <2>3, TraceFacts DEF EntryInv
  <2> QED
    BY <1>1, <2>4 DEF Graph, ChainInv
<1>3. from \subseteq M
  BY <1>2 DEF Entered
<1>4. from \in SUBSET Number
  BY <1>1, <1>3, TraceFacts
<1>5. to \in [TraceNo -> SUBSET Number]
  <2>1. \A n \in Real(j) : j.trace[n].link \in Number
    <3>1. \A t \in Trace : t.link \in Number
      BY DEF Trace, Number
    <3> QED
      BY <3>1, RealFacts
  <2>2. Real(j) \subseteq Number
    BY RealFacts, TraceFacts
  <2> QED
    BY <2>1, <2>2
<1>6. \A n \in M \cap TraceNo : to[n] \ {0} \subseteq M
  BY <1>1
<1>7. Running(j) = Reached(from, to)
  BY DEF Running
<1>8. Running(j) \subseteq M
  <2> HIDE DEF from, to, M
  <2> QED
    BY <1>3, <1>4, <1>5, <1>6, <1>7, ReachedLeast
<1> QED
  BY <1>2, <1>8

\* A trace links to itself, to the interpreter or to a root trace that is not
\* dead: an instruction enters none that is, and the root of a recorded side
\* trace is marked with its parent.
LEMMA LinksFacts ==
  ASSUME NEW j, Core(j), Recording(j)
  PROVE  Links(j) \subseteq {0, j.cur.no} \cup (Roots(j) \ j.dead)
<1>1. JitType(j) /\ Graph(j) /\ EntryInv(j) /\ PatchInv(j)
  BY DEF Core
<1>2. \A pc \in Pc : j.bc[pc].op = "jit" => j.bc[pc].d \in Roots(j) \ j.dead
  BY <1>1, RunningMarked, MarkedFacts DEF Live
<1>3. Loop \subseteq Pc /\ Func \subseteq Pc /\ Ret \subseteq Pc
  BY DEF Pc
<1>4. \A pcs \in SUBSET Pc : Compiled(j, pcs) \subseteq Roots(j) \ j.dead
  BY <1>2 DEF Compiled
<1>5. j.cur.parent # 0 => j.cur.root \in Roots(j) \ j.dead
  <2> SUFFICES ASSUME j.cur.parent # 0
               PROVE  j.cur.root \in Roots(j) \ j.dead
    OBVIOUS
  <2>1. j.cur.parent \in Marked(j) /\ j.cur.root = RootOf(j, j.cur.parent)
    BY DEF Recording
  <2> QED
    BY <1>1, <2>1, MarkedFacts DEF Live
<1>6. LoopsBack(j) \subseteq {j.cur.no} \cup (Roots(j) \ j.dead)
  BY <1>5 DEF LoopsBack
<1>7. EntersLoop(j) \subseteq Roots(j) \ j.dead
  BY <1>3, <1>4 DEF EntersLoop
<1>8. /\ Compiled(j, {h \in Func : ~Returns(j, h)}) \subseteq Roots(j) \ j.dead
      /\ Compiled(j, Loop \cup Ret) \subseteq Roots(j) \ j.dead
  <2>1. {h \in Func : ~Returns(j, h)} \in SUBSET Pc /\ Loop \cup Ret \in SUBSET Pc
    BY <1>3
  <2> QED
    BY <1>4, <2>1
<1> QED
  BY <1>6, <1>7, <1>8 DEF Links

\* An exit that is not compiled is taken.
Taken(j, n, e) == [j EXCEPT !.trace[n].count[e] = j.trace[n].count[e] + 1]

LEMMA CountedCore ==
  ASSUME NEW j, Core(j), NEW n \in Real(j), NEW e \in Exit, j.trace[n].count[e] # CountDone
  PROVE  LET r == Taken(j, n, e)
         IN  /\ Core(r) /\ Real(r) = Real(j) /\ Marked(r) = Marked(j)
             /\ r.bc = j.bc /\ r.cur = j.cur /\ r.patch = j.patch /\ r.state = j.state
             /\ r.iloop = j.iloop /\ r.nojit = j.nojit
             /\ \A m \in Real(r) : r.trace[m].parent = n => r.trace[m].exit # e
<1> DEFINE i == j.trace[n].count[e] + 1
           u == j.trace[n]
           v == [u EXCEPT !.count[e] = i]
           tr == [j.trace EXCEPT ![n] = v]
           r == Taken(j, n, e)
<1>1. /\ JitType(j) /\ Graph(j) /\ ChainInv(j) /\ TreeInv(j) /\ LinkInv(j) /\ SideInv(j)
      /\ j.trace \in [TraceNo -> Trace \cup {Null, Cur}]
  BY DEF Core, Graph, JitType, JitSet
<1>2. n \in TraceNo /\ u \in Trace
  BY <1>1, RealFacts
<1>3. i \in 0..CountDone
  <2>1. j.trace[n].count \in [Exit -> 0..CountDone] /\ CountDone \in Nat
    BY <1>2, CompilerAssumption DEF Trace, CountDone
  <2> QED
    BY <2>1
<1> HIDE DEF i, u
<1>4. /\ v \in Trace /\ SameTrace(u, v) /\ v.nchild = u.nchild /\ v.nextside = u.nextside
      /\ \A x \in Exit : v.count[x] = IF x = e THEN i ELSE u.count[x]
  BY <1>2, <1>3, Counted
<1>5. r = [j EXCEPT !.trace = tr]
  BY DEF Taken, u, i
<1> HIDE DEF v
<1>6. /\ tr \in [TraceNo -> Trace \cup {Null, Cur}] /\ tr[n] = v /\ \A m \in TraceNo \ {n} : tr[m] = j.trace[m]
  BY <1>1, <1>2, <1>4
<1> HIDE DEF tr, r
<1>7. JitType(r)
  BY <1>1, <1>5, <1>6 DEF JitType, JitSet
<1>8. /\ r.trace = tr /\ r.cur = j.cur /\ r.state = j.state /\ r.bc = j.bc /\ r.chain = j.chain
      /\ r.dead = j.dead /\ r.patch = j.patch /\ r.freetrace = j.freetrace
      /\ r.iloop = j.iloop /\ r.nojit = j.nojit
  BY <1>1, <1>5 DEF JitType, JitSet
<1>9. Real(r) = Real(j)
  <2>1. v \notin {Null, Cur} /\ j.trace[n] \notin {Null, Cur}
    BY <1>4, TraceFacts DEF Real
  <2> QED
    BY <1>2, <1>6, <1>8, <2>1 DEF Real
<1>10. \A m \in Real(j) : m \in TraceNo /\ (m # n => r.trace[m] = j.trace[m])
  BY <1>1, <1>6, <1>8, RealFacts
<1>11. Alike(j, r, 0)
  <2>1. ASSUME NEW m \in Real(j)
        PROVE  /\ r.trace[m].pc = j.trace[m].pc
               /\ r.trace[m].root = j.trace[m].root /\ r.trace[m].parent = j.trace[m].parent
               /\ r.trace[m].exit = j.trace[m].exit /\ r.trace[m].link = j.trace[m].link
               /\ r.trace[m].nchild = j.trace[m].nchild /\ r.trace[m].nextside = j.trace[m].nextside
               /\ r.trace[m].nextroot \in {j.trace[m].nextroot, 0}
               /\ \A x \in Exit : j.trace[m].count[x] = CountDone => r.trace[m].count[x] = CountDone
    <3>1. CASE m = n
      <4>1. j.trace[m] = u /\ r.trace[m] = v /\ u.count[e] # CountDone
        BY <1>6, <1>8, <3>1 DEF u
      <4> QED
        BY <1>4, <4>1 DEF SameTrace
    <3>2. CASE m # n
      BY <1>10, <3>2
    <3> QED
      BY <3>1, <3>2
  <2> QED
    BY <1>8, <1>9, <2>1 DEF Alike
<1>12. TreeInv(r) /\ LinkInv(r) /\ SideInv(r) /\ Roots(r) = Roots(j)
  BY <1>1, <1>11, AlikeGraph
<1>13. \A m \in Real(j) : /\ r.trace[m].nextroot = j.trace[m].nextroot /\ r.trace[m].pc = j.trace[m].pc
                          /\ r.trace[m].link = j.trace[m].link /\ r.trace[m].nextside = j.trace[m].nextside
  <2>1. r.trace[n].nextroot = j.trace[n].nextroot
    BY <1>4, <1>6, <1>8 DEF SameTrace, u
  <2> QED
    BY <1>10, <1>11, <2>1 DEF Alike
<1>14. NextRoot(r) = NextRoot(j)
  BY <1>9, <1>13 DEF NextRoot
<1>15. \A p : Chained(r, p) = Chained(j, p)
  BY <1>8, <1>14 DEF Chained
<1>16. ChainInv(r)
  BY <1>1, <1>8, <1>12, <1>13, <1>14, <1>15, RealFacts DEF ChainInv
<1>17. EntryInv(r)
  <2> SUFFICES ASSUME NEW pc \in Pc, Entry(r, pc) # 0
               PROVE  Entry(r, pc) \in Chained(r, ProtoOf[pc]) /\ r.trace[Entry(r, pc)].pc = pc
    BY DEF EntryInv
  <2> DEFINE x == Entry(j, pc)
  <2>1. Entry(r, pc) = x
    BY <1>8 DEF Entry
  <2>2. x \in Chained(j, ProtoOf[pc]) /\ j.trace[x].pc = pc /\ ProtoOf[pc] \in Proto
    BY <2>1, TraceFacts DEF EntryInv, Core
  <2>3. x \in Real(j)
    BY <1>1, <2>2, RealFacts DEF ChainInv
  <2> HIDE DEF x
  <2> QED
    BY <1>13, <1>15, <2>1, <2>2, <2>3
<1>18. Marked(r) = Marked(j)
  <2>1. [m \in TraceNo |-> IF m \notin Real(r) THEN {}
                            ELSE {r.trace[m].link, r.trace[m].nextroot, r.trace[m].nextside}]
        = [m \in TraceNo |-> IF m \notin Real(j) THEN {}
                            ELSE {j.trace[m].link, j.trace[m].nextroot, j.trace[m].nextside}]
    BY <1>9, <1>13
  <2>2. {r.chain[p] : p \in Proto} = {j.chain[p] : p \in Proto}
    BY <1>8
  <2> QED
    BY <2>1, <2>2 DEF Marked
<1>19. FreeInv(r) /\ PatchInv(r) /\ CurrentOnly(r)
  <2>1. \A m \in TraceNo : (r.trace[m] = Null <=> j.trace[m] = Null) /\ (r.trace[m] = Cur <=> j.trace[m] = Cur)
    <3>1. v \notin {Null, Cur} /\ j.trace[n] \notin {Null, Cur}
      BY <1>4, TraceFacts DEF Real
    <3> QED
      BY <1>6, <1>8, <3>1
  <2> QED
    BY <1>8, <2>1 DEF Core, FreeInv, PatchInv, CurrentOnly
<1>20. \A m \in Real(r) : r.trace[m].parent = n => r.trace[m].exit # e
  <2>1. \A m \in Real(j) : r.trace[m].parent = j.trace[m].parent /\ r.trace[m].exit = j.trace[m].exit
    BY <1>11 DEF Alike
  <2>2. n # 0
    BY <1>2, TraceFacts
  <2>3. \A m \in Real(j) : j.trace[m].parent = n => j.trace[m].exit # e
    BY <1>1, <2>2 DEF TreeInv
  <2> QED
    BY <1>9, <2>1, <2>3
<1>21. Core(r)
  BY <1>7, <1>8, <1>9, <1>1, <1>12, <1>16, <1>17, <1>19 DEF Core, Graph
<1> QED
  BY <1>8, <1>9, <1>18, <1>20, <1>21 DEF r, i

\* An instruction that enters a trace does not while it is recorded.
LEMMA PatchedCore ==
  ASSUME NEW j, Core(j), j.patch = NoPatch, Recording(j), NEW at \in Starts, j.bc[at].op = "jit",
         NEW skip \in BOOLEAN
  PROVE  LET r == [j EXCEPT !.patch = [pc |-> at, d |-> j.bc[at].d], !.bc[at] = Plain, !.bcskip = skip]
         IN  /\ Core(r) /\ Recording(r) /\ r.state = j.state /\ r.iloop = j.iloop
             /\ \A pc \in Pc : r.bc[pc] = j.bc[pc] \/ r.bc[pc] = Plain
<1> DEFINE d == j.bc[at].d
           bc == [j.bc EXCEPT ![at] = Plain]
           patch == [pc |-> at, d |-> d]
           r == [j EXCEPT !.patch = patch, !.bc[at] = Plain, !.bcskip = skip]
<1>1. JitType(j) /\ at \in Pc /\ j.bc \in [Pc -> Code]
  BY TraceFacts DEF Core, JitType, JitSet
<1>2. d # 0 /\ d \in Number
  BY <1>1, CodeFacts
<1>3. r = [j EXCEPT !.patch = patch, !.bc = bc, !.bcskip = skip]
  OBVIOUS
<1> HIDE DEF d
<1>4. /\ bc \in [Pc -> Code] /\ \A pc \in Pc : bc[pc] = IF pc = at THEN Plain ELSE j.bc[pc]
      /\ patch \in [pc : Pc \cup {Null}, d : Number] /\ patch.pc = at /\ patch.d = d
  BY <1>1, <1>2, CodeFacts
<1> HIDE DEF bc, patch, r
<1>5. JitType(r)
  BY <1>1, <1>3, <1>4 DEF JitType, JitSet
<1>6. /\ r.bc = bc /\ r.patch = patch /\ r.chain = j.chain /\ r.trace = j.trace
      /\ r.maxtrace = j.maxtrace /\ r.iloop = j.iloop
      /\ r.freetrace = j.freetrace /\ r.state = j.state /\ r.cur = j.cur /\ r.dead = j.dead
  BY <1>1, <1>3 DEF JitType, JitSet
<1>7. SameLinks(j, r)
  BY <1>6 DEF SameLinks, Real
<1>8. ASSUME NEW pc \in Pc
      PROVE  Entry(r, pc) = Entry(j, pc)
  <2>1. Entry(j, pc) = j.bc[pc].d
    BY TraceFacts DEF Entry, NoPatch
  <2>2. CASE pc = at
    BY <1>4, <1>6, <2>1, <2>2 DEF Entry, d
  <2>3. CASE pc # at
    BY <1>4, <1>6, <2>1, <2>3 DEF Entry
  <2> QED
    BY <2>2, <2>3
<1>9. PatchInv(r)
  BY <1>1, <1>2, <1>4, <1>6 DEF PatchInv
<1>10. FreeInv(r) /\ CurrentOnly(r)
  BY <1>6 DEF Core, FreeInv, CurrentOnly
<1>11. Core(r)
  BY <1>5, <1>7, <1>8, <1>9, <1>10, KeptCore
<1>12. j.cur.parent = 0 => r.bc[j.cur.pc] = Plain /\ r.patch.pc # j.cur.pc
  <2>1. j.cur.parent = 0 => j.cur.pc \in Pc /\ j.bc[j.cur.pc] = Plain
    BY TraceFacts DEF Recording
  <2>2. Plain.op # "jit"
    BY CodeFacts
  <2> QED
    BY <1>4, <1>6, <2>1, <2>2
<1>13. Recording(r)
  BY <1>6, <1>7, <1>12, RecordingKept
<1> QED
  BY <1>4, <1>6, <1>11, <1>13 DEF r, d, patch


\* What the theorems need of every step.
Good == Inv(jit') /\ (InstrInv(jit) /\ NoReturnSwitched => InstrInv(jit'))

LEMMA IdleFacts ==
  ASSUME NEW j, Inv(j), j.state = "idle"
  PROVE  Core(j) /\ j.patch = NoPatch /\ j.cur = NoCur /\ j.cur.no = 0
BY DEF Inv, NoCur

LEMMA HotKeeps ==
  ASSUME Inv(jit), Hot
  PROVE  Good
<1>1. Core(jit) /\ jit.patch = NoPatch /\ jit.cur.no = 0
  BY IdleFacts DEF Hot
<1>2. PICK pc \in Loop \cup Func :
        /\ jit.bc[pc] = Plain
        /\ LET k == Start(jit, ProtoOf[pc], pc, 0, Null)
           IN  jit' = IF k.state = "record" THEN k ELSE Idle(k)
  BY DEF Hot
<1> DEFINE p == ProtoOf[pc]
           k == Start(jit, p, pc, 0, Null)
<1>3. jit' = IF k.state = "record" THEN k ELSE Idle(k)
  BY <1>2
<1>4. pc \in Starts /\ pc \in Pc /\ p \in Proto /\ StartsAt(jit, p, pc, 0, Null)
  <2>1. pc \in Starts /\ pc \in Pc /\ p \in Proto
    BY TraceFacts DEF Starts
  <2> QED
    BY <1>2, <2>1 DEF StartsAt
<1> HIDE DEF p
<1>5. /\ Core(k) /\ k.patch = NoPatch /\ k.state \in {"idle", "record", "end"}
      /\ k.state = "idle" => k.cur = jit.cur
      /\ k.state # "idle" => Recording(k)
      /\ k.state # "end"
      /\ \/ OnlyUnpatched(jit, k) /\ k.iloop = jit.iloop
         \/ Blacklisted(jit, k, p, pc)
  BY <1>1, <1>4, StartCore
<1> HIDE DEF k
<1>6. InstrInv(jit) => InstrInv(k)
  <2>1. OnlyUnpatched(jit, k) /\ k.iloop = jit.iloop /\ InstrInv(jit) => InstrInv(k)
    BY InstrKept DEF OnlyUnpatched
  <2>2. Blacklisted(jit, k, p, pc) /\ InstrInv(jit) => InstrInv(k)
    BY <1>2, InstrPenalized DEF Blacklisted, p
  <2> QED
    BY <1>5, <2>1, <2>2
<1>7. CASE k.state = "record"
  BY <1>3, <1>5, <1>6, <1>7 DEF Good, Inv
<1>8. CASE k.state = "idle"
  <2>1. Inv(Idle(k)) /\ Idle(k).bc = k.bc /\ Idle(k).iloop = k.iloop
    BY <1>1, <1>5, <1>8, IdleInv
  <2> QED
    BY <1>3, <1>6, <1>8, <2>1 DEF Good, InstrInv
<1> QED
  BY <1>5, <1>7, <1>8

LEMMA TraceExitKeeps ==
  ASSUME Inv(jit), TraceExit
  PROVE  Good
<1>1. Core(jit) /\ jit.patch = NoPatch /\ jit.cur = NoCur /\ jit.cur.no = 0 /\ jit.state = "idle"
  BY IdleFacts DEF TraceExit
<1>2. PICK n \in Running(jit), e \in Exit :
        /\ jit.trace[n].count[e] # CountDone
        /\ \E p \in Proto, pc \in Ret \cup {SidePc} :
             LET j == [jit EXCEPT !.trace[n].count[e] = jit.trace[n].count[e] + 1]
                 k == Start(j, p, SidePc, n, e)
             IN  /\ pc \in Ret => jit.bc[pc].op = "jit"
                 /\ IF jit.trace[n].count[e] + 1 < HotExit THEN jit' = j
                    ELSE CASE k.state = "record" -> jit' = IF pc \in Ret THEN PatchReturn(k, pc) ELSE k
                           [] k.state = "end" -> Finish(k, 0)
                           [] OTHER -> jit' = Idle(k)
  BY Zenon DEF TraceExit
<1> DEFINE j == Taken(jit, n, e)
<1>0. PICK p \in Proto, pc \in Ret \cup {SidePc} :
         LET k == Start(j, p, SidePc, n, e)
         IN  /\ pc \in Ret => jit.bc[pc].op = "jit"
             /\ IF jit.trace[n].count[e] + 1 < HotExit THEN jit' = j
                ELSE CASE k.state = "record" -> jit' = IF pc \in Ret THEN PatchReturn(k, pc) ELSE k
                       [] k.state = "end" -> Finish(k, 0)
                       [] OTHER -> jit' = Idle(k)
  BY <1>2, Zenon DEF Taken
<1> DEFINE k == Start(j, p, SidePc, n, e)
<1>3. /\ jit.trace[n].count[e] # CountDone
      /\ pc \in Ret => jit.bc[pc].op = "jit"
      /\ \/ jit' = j
         \/ k.state = "record" /\ jit' = IF pc \in Ret THEN PatchReturn(k, pc) ELSE k
         \/ k.state = "end" /\ Finish(k, 0)
         \/ k.state \notin {"record", "end"} /\ jit' = Idle(k)
  BY <1>2, <1>0
<1>4. n \in Marked(jit) /\ n \in Real(jit) /\ n # 0
  <2>1. JitType(jit) /\ Graph(jit) /\ EntryInv(jit) /\ PatchInv(jit)
    BY <1>1 DEF Core
  <2> QED
    BY <2>1, RunningMarked, MarkedFacts DEF Live
<1>5. /\ Core(j) /\ Real(j) = Real(jit) /\ Marked(j) = Marked(jit)
      /\ j.bc = jit.bc /\ j.cur = jit.cur /\ j.patch = jit.patch /\ j.state = jit.state
      /\ j.iloop = jit.iloop /\ j.nojit = jit.nojit
      /\ \A m \in Real(j) : j.trace[m].parent = n => j.trace[m].exit # e
  BY <1>1, <1>3, <1>4, CountedCore
<1> HIDE DEF j
<1>6. StartsAt(j, p, SidePc, n, e)
  BY <1>4, <1>5 DEF StartsAt
<1>7. /\ Core(k) /\ k.patch = NoPatch /\ k.state \in {"idle", "record", "end"}
      /\ k.state = "idle" => k.cur = j.cur
      /\ k.state # "idle" => Recording(k) /\ k.bc = j.bc
      /\ OnlyUnpatched(j, k) /\ k.iloop = j.iloop
  BY <1>1, <1>4, <1>5, <1>6, StartCore
<1> HIDE DEF k
<1>8. InstrInv(jit) => InstrInv(k)
  BY <1>5, <1>7, InstrKept DEF OnlyUnpatched, InstrInv
<1>9. CASE jit' = j
  BY <1>1, <1>5, <1>9 DEF Good, Inv, InstrInv
<1>10. CASE k.state = "record" /\ jit' = IF pc \in Ret THEN PatchReturn(k, pc) ELSE k
  <2>1. CASE pc \notin Ret
    BY <1>7, <1>8, <1>10, <2>1 DEF Good, Inv
  <2>2. CASE pc \in Ret
    <3> DEFINE r == [k EXCEPT !.patch = [pc |-> pc, d |-> k.bc[pc].d], !.bc[pc] = Plain, !.bcskip = TRUE]
    <3>1. jit' = r
      BY <1>10, <2>2 DEF PatchReturn
    <3>2. pc \in Starts /\ k.bc[pc].op = "jit" /\ TRUE \in BOOLEAN
      BY <1>3, <1>5, <1>7, <1>10, <2>2 DEF Starts
    <3>3. /\ Core(r) /\ Recording(r) /\ r.state = k.state /\ r.iloop = k.iloop
          /\ \A x \in Pc : r.bc[x] = k.bc[x] \/ r.bc[x] = Plain
      BY <1>7, <1>10, <3>2, PatchedCore
    <3> HIDE DEF r
    <3>4. InstrInv(k) => InstrInv(r)
      BY <3>3, InstrKept
    <3> QED
      BY <1>8, <1>10, <3>1, <3>3, <3>4 DEF Good, Inv
  <2> QED
    BY <2>1, <2>2
<1>11. CASE k.state = "end" /\ Finish(k, 0)
  <2>1. 0 \in {0, k.cur.no} \cup (Roots(k) \ k.dead)
    OBVIOUS
  <2> QED
    BY <1>7, <1>8, <1>11, <2>1, FinishInv DEF Good
<1>12. CASE k.state \notin {"record", "end"} /\ jit' = Idle(k)
  <2>1. Inv(Idle(k)) /\ Idle(k).bc = k.bc /\ Idle(k).iloop = k.iloop
    BY <1>1, <1>5, <1>7, <1>12, IdleInv
  <2> QED
    BY <1>8, <1>12, <2>1 DEF Good, InstrInv
<1> QED
  BY <1>3, <1>9, <1>10, <1>11, <1>12


\* The next instruction of a recording.
LEMMA ResumedCore ==
  ASSUME NEW j, Core(j), Recording(j)
  PROVE  LET r == IF j.bcskip THEN [j EXCEPT !.bcskip = FALSE] ELSE PendPatch(j)
         IN  Core(r) /\ Recording(r) /\ r.state = j.state /\ (InstrInv(j) => InstrInv(r))
<1>1. CASE j.bcskip
  <2> DEFINE r == [j EXCEPT !.bcskip = FALSE]
  <2>1. JitType(j)
    BY DEF Core
  <2>2. JitType(r)
    BY <2>1 DEF JitType, JitSet
  <2>3. /\ r.bc = j.bc /\ r.patch = j.patch /\ r.chain = j.chain /\ r.trace = j.trace
        /\ r.maxtrace = j.maxtrace /\ r.iloop = j.iloop
        /\ r.freetrace = j.freetrace /\ r.state = j.state /\ r.cur = j.cur /\ r.dead = j.dead
    BY <2>1 DEF JitType, JitSet
  <2> HIDE DEF r
  <2>4. SameLinks(j, r)
    BY <2>3 DEF SameLinks, Real
  <2>5. FreeInv(r) /\ PatchInv(r) /\ CurrentOnly(r) /\ \A pc \in Pc : Entry(r, pc) = Entry(j, pc)
    BY <2>3 DEF Core, FreeInv, PatchInv, CurrentOnly, Entry
  <2>6. Core(r)
    BY <2>2, <2>4, <2>5, KeptCore
  <2>7. j.cur.parent = 0 => r.bc[j.cur.pc] = Plain /\ r.patch.pc # j.cur.pc
    BY <2>3 DEF Recording
  <2>8. Recording(r)
    BY <2>3, <2>4, <2>7, RecordingKept
  <2>9. InstrInv(j) => InstrInv(r)
    BY <2>3 DEF InstrInv
  <2> QED
    BY <1>1, <2>3, <2>6, <2>8, <2>9 DEF r
<1>2. CASE ~j.bcskip
  <2> DEFINE r == PendPatch(j)
  <2>1. /\ Core(r) /\ SameLinks(j, r) /\ r.patch = NoPatch
        /\ \A pc \in Pc : r.bc[pc] = j.bc[pc] \/ (pc = j.patch.pc /\ r.bc[pc].op = "jit")
        /\ r.iloop = j.iloop /\ r.cur = j.cur /\ r.maxtrace = j.maxtrace /\ r.state = j.state
    BY PendPatchCore
  <2> HIDE DEF r
  <2>2. j.cur.parent = 0 => r.bc[j.cur.pc] = Plain /\ r.patch.pc # j.cur.pc
    <3>1. j.cur.parent = 0 => /\ j.cur.pc \in Pc /\ j.cur.pc # Null /\ j.bc[j.cur.pc] = Plain
                              /\ j.patch.pc # j.cur.pc
      BY TraceFacts DEF Recording
    <3> QED
      BY <2>1, <3>1 DEF NoPatch
  <2>3. Recording(r)
    BY <2>1, <2>2, RecordingKept
  <2>4. InstrInv(j) => InstrInv(r)
    BY <2>1, InstrKept
  <2> QED
    BY <1>2, <2>1, <2>3, <2>4 DEF r
<1> QED
  BY <1>1, <1>2

\* The trace of the function at h is flushed, and the recording aborted.
LEMMA FlushedAbortInv ==
  ASSUME NEW j, Core(j), Recording(j), j.patch = NoPatch, NEW n, NEW rnd \in PenaltyRandom
  PROVE  LET r == Abort(Flush(j, n), "error", rnd)
         IN  Inv(r) /\ (InstrInv(j) /\ NoReturnSwitched => InstrInv(r))
<1> DEFINE f == Flush(j, n)
<1>1. Core(f) /\ SameBook(j, f) /\ OnlyUnpatched(j, f)
  BY FlushCore
<1> HIDE DEF f
<1>2. Abortable(f)
  <2>1. Abortable(j)
    BY RecordingAbortable
  <2>2. j.cur.parent = 0 => f.bc[j.cur.pc] = Plain
    <3>1. j.cur.parent = 0 => j.cur.pc \in Pc /\ j.bc[j.cur.pc] = Plain
      BY <2>1 DEF Abortable
    <3> QED
      BY <1>1, <3>1 DEF OnlyUnpatched
  <2> QED
    BY <1>1, <2>1, <2>2 DEF Abortable, SameBook
<1>3. InstrInv(j) => InstrInv(f)
  BY <1>1, InstrKept DEF OnlyUnpatched, SameBook
<1>4. Inv(Abort(f, "error", rnd)) /\ (InstrInv(f) /\ NoReturnSwitched => InstrInv(Abort(f, "error", rnd)))
  <2>1. PICK e : e = "error"
    OBVIOUS
  <2>2. Inv(Abort(f, e, rnd)) /\ (InstrInv(f) /\ NoReturnSwitched => InstrInv(Abort(f, e, rnd)))
    BY <1>1, <1>2, <2>1, AbortInv
  <2> QED
    BY <2>1, <2>2
<1> QED
  BY <1>3, <1>4 DEF f

LEMMA RecordKeeps ==
  ASSUME Inv(jit), Record
  PROVE  Good
<1> DEFINE j == IF jit.bcskip THEN [jit EXCEPT !.bcskip = FALSE] ELSE PendPatch(jit)
<1>1. Core(jit) /\ Recording(jit) /\ jit.state = "record"
  BY DEF Record, Inv
<1>2. Core(j) /\ Recording(j) /\ j.state = "record" /\ (InstrInv(jit) => InstrInv(j))
  BY <1>1, ResumedCore
<1>3. \/ jit' = j
      \/ \E link \in Links(j) : Finish(j, link)
      \/ \E rnd \in PenaltyRandom : jit' = Abort(j, "error", rnd)
      \/ /\ j.patch = NoPatch
         /\ \/ \E h \in Func :
                 /\ Returns(j, h)
                 /\ \/ jit' = [j EXCEPT !.patch = [pc |-> h, d |-> j.bc[h].d], !.bc[h] = Plain]
                    \/ \E rnd \in PenaltyRandom : jit' = Abort(Flush(j, j.bc[h].d), "error", rnd)
            \/ \E r \in Ret \ {j.cur.pc}, rnd \in PenaltyRandom :
                 j.bc[r] = Plain /\ jit' = Abort(j, r, rnd)
  BY DEF Record
<1> HIDE DEF j
<1>4. CASE jit' = j
  BY <1>2, <1>4 DEF Good, Inv
<1>5. CASE \E link \in Links(j) : Finish(j, link)
  BY <1>2, <1>5, LinksFacts, FinishInv DEF Good
<1>6. CASE \E rnd \in PenaltyRandom : jit' = Abort(j, "error", rnd)
  <2>1. PICK rnd \in PenaltyRandom, e \in {"error"} : jit' = Abort(j, e, rnd)
    BY <1>6
  <2>2. Inv(Abort(j, e, rnd)) /\ (InstrInv(j) /\ NoReturnSwitched => InstrInv(Abort(j, e, rnd)))
    BY <1>2, RecordingAbortable, AbortInv
  <2> QED
    BY <1>2, <2>1, <2>2 DEF Good
<1>7. ASSUME j.patch = NoPatch, NEW h \in Func, Returns(j, h),
             jit' = [j EXCEPT !.patch = [pc |-> h, d |-> j.bc[h].d], !.bc[h] = Plain]
      PROVE  Good
  <2> DEFINE r == [j EXCEPT !.patch = [pc |-> h, d |-> j.bc[h].d], !.bc[h] = Plain, !.bcskip = j.bcskip]
  <2>1. jit' = r
    <3>1. jit' = [j EXCEPT !.patch = [pc |-> h, d |-> j.bc[h].d], !.bc = [j.bc EXCEPT ![h] = Plain]]
      BY <1>7
    <3> QED
      BY <1>2, <3>1 DEF Core, JitType, JitSet
  <2>2. h \in Starts /\ j.bc[h].op = "jit" /\ j.bcskip \in BOOLEAN
    BY <1>2, <1>7 DEF Starts, Returns, Core, JitType, JitSet
  <2>3. /\ Core(r) /\ Recording(r) /\ r.state = j.state /\ r.iloop = j.iloop
        /\ \A x \in Pc : r.bc[x] = j.bc[x] \/ r.bc[x] = Plain
    BY <1>2, <1>7, <2>2, PatchedCore
  <2> HIDE DEF r
  <2>4. InstrInv(j) => InstrInv(r)
    BY <2>3, InstrKept
  <2> QED
    BY <1>2, <2>1, <2>3, <2>4 DEF Good, Inv
<1>8. ASSUME j.patch = NoPatch, NEW n, NEW rnd \in PenaltyRandom, jit' = Abort(Flush(j, n), "error", rnd)
      PROVE  Good
  BY <1>2, <1>8, FlushedAbortInv DEF Good
<1>9. ASSUME j.patch = NoPatch, NEW e \in Ret \ {j.cur.pc}, NEW rnd \in PenaltyRandom,
             j.bc[e] = Plain, jit' = Abort(j, e, rnd)
      PROVE  Good
  <2>1. Inv(Abort(j, e, rnd)) /\ (InstrInv(j) /\ NoReturnSwitched => InstrInv(Abort(j, e, rnd)))
    BY <1>2, <1>9, RecordingAbortable, AbortInv
  <2> QED
    BY <1>2, <1>9, <2>1 DEF Good
<1> QED
  BY <1>3, <1>4, <1>5, <1>6, <1>7, <1>8, <1>9

\* The flag of a prototype.
Switch(j, flags) == [j EXCEPT !.nojit = flags]

LEMMA SwitchCore ==
  ASSUME NEW j, Core(j), NEW flags \in SUBSET Switched
  PROVE  LET r == Switch(j, flags)
         IN  Core(r) /\ SameLinks(j, r) /\ r.bc = j.bc /\ r.iloop = j.iloop /\ r.state = j.state
             /\ r.cur = j.cur /\ r.patch = j.patch
<1> DEFINE r == Switch(j, flags)
<1>1. JitType(j)
  BY DEF Core
<1>2. JitType(r)
  BY <1>1 DEF JitType, JitSet, Switch
<1>3. /\ r.bc = j.bc /\ r.patch = j.patch /\ r.chain = j.chain /\ r.trace = j.trace
      /\ r.maxtrace = j.maxtrace /\ r.iloop = j.iloop
      /\ r.freetrace = j.freetrace /\ r.state = j.state /\ r.cur = j.cur /\ r.dead = j.dead
  BY <1>1 DEF JitType, JitSet, Switch
<1> HIDE DEF r
<1>4. SameLinks(j, r)
  BY <1>3 DEF SameLinks, Real
<1>5. FreeInv(r) /\ PatchInv(r) /\ CurrentOnly(r) /\ \A pc \in Pc : Entry(r, pc) = Entry(j, pc)
  BY <1>3 DEF Core, FreeInv, PatchInv, CurrentOnly, Entry
<1>6. Core(r)
  BY <1>2, <1>4, <1>5, KeptCore
<1> QED
  BY <1>3, <1>4, <1>6 DEF r

LEMMA ReenableCore ==
  ASSUME NEW j, Core(j), j.patch = NoPatch, NEW p \in Proto
  PROVE  LET r == Reenable(j, p)
         IN  /\ Core(r) /\ r.state = j.state /\ r.cur = j.cur /\ r.patch = j.patch
             /\ InstrInv(j) => InstrInv(r)
<1> DEFINE r == Reenable(j, p)
           bc == [pc \in Pc |-> IF ProtoOf[pc] = p /\ j.bc[pc] = Interp THEN Plain ELSE j.bc[pc]]
           iloop == j.iloop \ {p}
<1>1. CASE p \notin j.iloop
  BY <1>1 DEF Reenable
<1>2. CASE p \in j.iloop
  <2>1. JitType(j)
    BY DEF Core
  <2>2. r = [j EXCEPT !.iloop = iloop, !.bc = bc]
    BY <1>2 DEF Reenable
  <2>3. /\ bc \in [Pc -> Code] /\ iloop \in SUBSET (Proto \cup {Null})
        /\ \A pc \in Pc : bc[pc] = IF ProtoOf[pc] = p /\ j.bc[pc] = Interp THEN Plain ELSE j.bc[pc]
    BY <2>1, CodeFacts DEF JitType, JitSet
  <2> HIDE DEF r, bc
  <2>4. JitType(r)
    BY <2>1, <2>2, <2>3 DEF JitType, JitSet
  <2>5. /\ r.bc = bc /\ r.patch = j.patch /\ r.chain = j.chain /\ r.trace = j.trace
        /\ r.maxtrace = j.maxtrace /\ r.iloop = iloop
        /\ r.freetrace = j.freetrace /\ r.state = j.state /\ r.cur = j.cur /\ r.dead = j.dead
    BY <2>1, <2>2 DEF JitType, JitSet
  <2>6. SameLinks(j, r)
    BY <2>5 DEF SameLinks, Real
  <2>7. \A pc \in Pc : Entry(r, pc) = Entry(j, pc)
    <3>1. \A pc \in Pc : bc[pc].d = j.bc[pc].d
      BY <2>3, CodeFacts
    <3> QED
      BY <2>5, <3>1 DEF Entry
  <2>8. FreeInv(r) /\ PatchInv(r) /\ CurrentOnly(r)
    BY <2>5 DEF Core, FreeInv, PatchInv, CurrentOnly
  <2>9. Core(r)
    BY <2>4, <2>6, <2>7, <2>8, KeptCore
  <2>10. InstrInv(j) => InstrInv(r)
    BY <2>3, <2>5, CodeFacts DEF InstrInv
  <2> QED
    BY <2>5, <2>9, <2>10 DEF r
<1> QED
  BY <1>1, <1>2

LEMMA CallKeeps ==
  ASSUME Inv(jit), Call
  PROVE  Good
<1>1. Core(jit) /\ jit.patch = NoPatch /\ jit.cur = NoCur /\ jit.state = "idle"
  BY IdleFacts DEF Call
<1>2. CASE jit' = FlushAll(jit)
  <2> DEFINE r == FlushAll(jit)
  <2>1. Core(r) /\ OnlyUnpatched(jit, r) /\ r.patch = NoPatch /\ r.iloop = jit.iloop
        /\ r.state = jit.state /\ r.cur = [jit.cur EXCEPT !.no = 0]
    BY <1>1, FlushAllCore
  <2>2. [NoCur EXCEPT !.no = 0] = NoCur
    BY DEF NoCur
  <2> HIDE DEF r
  <2>3. InstrInv(jit) => InstrInv(r)
    BY <2>1, InstrKept DEF OnlyUnpatched
  <2> QED
    BY <1>1, <1>2, <2>1, <2>2, <2>3 DEF Good, Inv, r
<1>3. CASE \E n \in Roots(jit) : jit' = Flush(jit, n)
  <2>1. PICK n \in Roots(jit) : jit' = Flush(jit, n)
    BY <1>3
  <2> DEFINE r == Flush(jit, n)
  <2>2. Core(r) /\ SameBook(jit, r) /\ OnlyUnpatched(jit, r)
    BY <1>1, FlushCore
  <2> HIDE DEF r
  <2>3. InstrInv(jit) => InstrInv(r)
    BY <2>2, InstrKept DEF OnlyUnpatched, SameBook
  <2> QED
    BY <1>1, <2>1, <2>2, <2>3 DEF Good, Inv, SameBook, r
<1>4. CASE \E p \in Switched : jit' = FlushProto([jit EXCEPT !.nojit = @ \cup {p}], p)
  <2>1. PICK p \in Switched : jit' = FlushProto(Switch(jit, jit.nojit \cup {p}), p)
    BY <1>4 DEF Switch
  <2> DEFINE s == Switch(jit, jit.nojit \cup {p})
             r == FlushProto(s, p)
  <2>2. jit.nojit \cup {p} \in SUBSET Switched /\ p \in Proto
    BY <1>1, CompilerAssumption DEF Core, JitType, JitSet
  <2>3. Core(s) /\ s.bc = jit.bc /\ s.iloop = jit.iloop /\ s.state = jit.state /\ s.cur = jit.cur /\ s.patch = jit.patch
    BY <1>1, <2>2, SwitchCore
  <2> HIDE DEF s
  <2>4. Core(r) /\ SameBook(s, r) /\ OnlyUnpatched(s, r)
    BY <1>1, <2>2, <2>3, FlushProtoCore
  <2> HIDE DEF r
  <2>5. InstrInv(jit) => InstrInv(r)
    BY <2>3, <2>4, InstrKept DEF OnlyUnpatched, SameBook
  <2> QED
    BY <1>1, <2>1, <2>3, <2>4, <2>5 DEF Good, Inv, SameBook, r, s
<1>5. CASE \E p \in Switched : jit' = Reenable([jit EXCEPT !.nojit = @ \ {p}], p)
  <2>1. PICK p \in Switched : jit' = Reenable(Switch(jit, jit.nojit \ {p}), p)
    BY <1>5 DEF Switch
  <2> DEFINE s == Switch(jit, jit.nojit \ {p})
             r == Reenable(s, p)
  <2>2. jit.nojit \ {p} \in SUBSET Switched /\ p \in Proto
    BY <1>1, CompilerAssumption DEF Core, JitType, JitSet
  <2>3. Core(s) /\ s.bc = jit.bc /\ s.iloop = jit.iloop /\ s.state = jit.state /\ s.cur = jit.cur /\ s.patch = jit.patch
    BY <1>1, <2>2, SwitchCore
  <2> HIDE DEF s
  <2>4. /\ Core(r) /\ r.state = s.state /\ r.cur = s.cur /\ r.patch = s.patch
        /\ InstrInv(s) => InstrInv(r)
    BY <1>1, <2>2, <2>3, ReenableCore
  <2> HIDE DEF r
  <2>5. InstrInv(jit) => InstrInv(s)
    BY <2>3 DEF InstrInv
  <2> QED
    BY <1>1, <2>1, <2>3, <2>4, <2>5 DEF Good, Inv, r, s
<1> QED
  BY <1>2, <1>3, <1>4, <1>5 DEF Call
-------------------------------------------------------------------------------
(* The collector.                                                          *)

\* A dead root is dead with all its side traces.
LEMMA AtomicKeeps ==
  ASSUME Inv(jit), Atomic
  PROVE  Good
<1> DEFINE r == jit'
           dead == Real(jit) \ Marked(jit)
<1>1. /\ JitType(jit) /\ Core(jit) /\ Graph(jit) /\ ChainInv(jit) /\ TreeInv(jit) /\ LinkInv(jit) /\ SideInv(jit)
      /\ jit.dead = {}
  BY DEF Inv, Core, Graph, Atomic
<1>2. r = [jit EXCEPT !.dead = dead]
  BY DEF Atomic
<1>3. dead \in SUBSET TraceNo /\ dead \subseteq Real(jit)
  BY DEF Real
<1>4. \A n \in Real(jit) : n \in dead <=> n \notin Marked(jit)
  OBVIOUS
<1>5. /\ Marked(jit) \subseteq Real(jit) /\ 0 \notin Marked(jit)
      /\ \A p \in Proto : Chained(jit, p) \subseteq Marked(jit)
      /\ \A n \in Marked(jit) :
           /\ {jit.trace[n].link, jit.trace[n].nextroot, jit.trace[n].nextside} \subseteq {0} \cup Marked(jit)
           /\ RootOf(jit, n) \in Marked(jit) \cap Roots(jit)
      /\ \A n \in Roots(jit) \cap Marked(jit) : SidesOf(jit, n) \subseteq Marked(jit)
  BY <1>1, MarkedFacts DEF Live
<1> HIDE DEF dead, r
<1>6. JitType(r)
  BY <1>1, <1>2, <1>3 DEF JitType, JitSet
<1>7. /\ r.bc = jit.bc /\ r.patch = jit.patch /\ r.chain = jit.chain /\ r.trace = jit.trace
      /\ r.maxtrace = jit.maxtrace /\ r.iloop = jit.iloop /\ r.dead = dead
      /\ r.freetrace = jit.freetrace /\ r.state = jit.state /\ r.cur = jit.cur
  BY <1>1, <1>2 DEF JitType, JitSet
<1>8. /\ Real(r) = Real(jit) /\ Roots(r) = Roots(jit) /\ NextRoot(r) = NextRoot(jit) /\ NextSide(r) = NextSide(jit)
      /\ \A p : Chained(r, p) = Chained(jit, p)
      /\ \A n : RootOf(r, n) = RootOf(jit, n) /\ SidesOf(r, n) = SidesOf(jit, n)
  BY <1>7 DEF Real, Roots, NextRoot, NextSide, Chained, RootOf, SidesOf
<1>9. Marked(r) = Marked(jit)
  BY <1>7, <1>8 DEF Marked
<1>10. \A n \in Real(jit) : jit.trace[n].parent # 0 => (n \in dead <=> jit.trace[n].root \in dead)
  <2> SUFFICES ASSUME NEW n \in Real(jit), jit.trace[n].parent # 0
               PROVE  n \in Marked(jit) <=> jit.trace[n].root \in Marked(jit)
    BY <1>1, <1>4, RealFacts DEF TreeInv
  <2>1. jit.trace[n].root # 0 /\ jit.trace[n].root \in Roots(jit)
    BY <1>1 DEF TreeInv
  <2>2. RootOf(jit, n) = jit.trace[n].root /\ n \in SidesOf(jit, jit.trace[n].root)
    BY <2>1 DEF RootOf, SidesOf
  <2> QED
    BY <1>5, <2>1, <2>2
<1>11. ChainInv(r)
  <2>1. ASSUME NEW p \in Proto
        PROVE  /\ ListOf(NextRoot(jit), jit.chain[p], Chained(jit, p))
               /\ Chained(jit, p) \subseteq {n \in Roots(jit) \ dead : ProtoOf[jit.trace[n].pc] = p}
    <3>1. /\ ListOf(NextRoot(jit), jit.chain[p], Chained(jit, p))
          /\ Chained(jit, p) \subseteq {n \in Roots(jit) \ jit.dead : ProtoOf[jit.trace[n].pc] = p}
      BY <1>1 DEF ChainInv
    <3>2. Chained(jit, p) \cap dead = {}
      BY <1>3, <1>4, <1>5
    <3> QED
      BY <3>1, <3>2
  <2> QED
    BY <1>7, <1>8, <2>1 DEF ChainInv
<1>12. TreeInv(r)
  <2>1. ASSUME NEW n \in Real(jit)
        PROVE  LET t == jit.trace[n]
               IN  /\ t.parent = 0 <=> t.root = 0
                   /\ t.parent # 0 => /\ t.parent \in Real(jit) /\ t.root = RootOf(jit, t.parent)
                                      /\ t.root \in Roots(jit)
                                      /\ t.exit \in Exit /\ jit.trace[t.parent].count[t.exit] = CountDone
                                      /\ n \in dead <=> t.root \in dead
    BY <1>1, <1>10 DEF TreeInv
  <2>2. ASSUME NEW m \in Real(jit), NEW n \in Real(jit),
               m # n /\ jit.trace[m].parent # 0 /\ jit.trace[m].parent = jit.trace[n].parent
        PROVE  jit.trace[m].exit # jit.trace[n].exit
    BY <1>1, <2>2 DEF TreeInv
  <2>3. \E age \in [TraceNo -> Nat] :
          \A n \in Real(jit) : jit.trace[n].parent # 0 => age[jit.trace[n].parent] < age[n]
    BY <1>1 DEF TreeInv
  <2> QED
    BY <1>7, <1>8, <2>1, <2>2, <2>3 DEF TreeInv
<1>13. LinkInv(r)
  <2> SUFFICES ASSUME NEW n \in Live(r)
               PROVE  LET t == r.trace[n]
                      IN  /\ t.link \in {0, n} \cup (Roots(r) \ r.dead)
                          /\ t.nextroot \in {0} \cup (Roots(r) \ r.dead)
                          /\ t.nextside = 0 \/ t.nextside \in SidesOf(r, RootOf(r, n))
    BY DEF LinkInv
  <2>1. n \in Marked(jit) /\ n \in Live(jit)
    BY <1>1, <1>4, <1>7, <1>8 DEF Live
  <2>2. /\ jit.trace[n].link \in {0, n} \cup Roots(jit) /\ jit.trace[n].nextroot \in {0} \cup Roots(jit)
        /\ jit.trace[n].nextside = 0 \/ jit.trace[n].nextside \in SidesOf(jit, RootOf(jit, n))
    BY <1>1, <2>1 DEF LinkInv
  <2>3. {jit.trace[n].link, jit.trace[n].nextroot} \subseteq {0} \cup Marked(jit)
    BY <1>5, <2>1
  <2>4. \A m \in Roots(jit) \cap Marked(jit) : m \in Roots(r) \ r.dead
    BY <1>4, <1>5, <1>7, <1>8
  <2> QED
    BY <1>7, <1>8, <2>2, <2>3, <2>4
<1>14. SideInv(r)
  BY <1>1, <1>7, <1>8 DEF SideInv
<1>15. EntryInv(r)
  BY <1>7, <1>8 DEF Core, EntryInv, Entry, Inv
<1>16. FreeInv(r) /\ PatchInv(r) /\ CurrentOnly(r)
  BY <1>1, <1>7 DEF Core, FreeInv, PatchInv, CurrentOnly
<1>17. Core(r)
  BY <1>3, <1>6, <1>7, <1>8, <1>11, <1>12, <1>13, <1>14, <1>15, <1>16 DEF Core, Graph
<1>18. Recording(jit) => Recording(r)
  BY <1>7, <1>8, <1>9 DEF Recording
<1>19. InstrInv(jit) => InstrInv(r)
  BY <1>7 DEF InstrInv
<1> QED
  BY <1>7, <1>17, <1>18, <1>19 DEF Good, Inv, r

\* A dead trace is freed before what it refers to.
LEMMA SweepKeeps ==
  ASSUME Inv(jit), Sweep
  PROVE  Good
<1> DEFINE r == jit'
<1>1. /\ JitType(jit) /\ Core(jit) /\ Graph(jit) /\ ChainInv(jit) /\ TreeInv(jit) /\ LinkInv(jit) /\ SideInv(jit)
      /\ EntryInv(jit) /\ jit.dead \subseteq Real(jit)
  BY DEF Inv, Core, Graph
<1>2. PICK n \in jit.dead :
        /\ \A m \in jit.dead \ {n} : n \notin {jit.trace[m].parent, jit.trace[m].link, jit.trace[m].nextroot}
        /\ r = [jit EXCEPT !.trace[n] = Null, !.freetrace = Min({jit.freetrace, n}), !.dead = jit.dead \ {n}]
  BY DEF Sweep
<1> DEFINE tr == [jit.trace EXCEPT ![n] = Null]
           low == Min({jit.freetrace, n})
           dead == jit.dead \ {n}
<1>3. n \in Real(jit) /\ n \in TraceNo /\ n \in Nat /\ n # 0
  BY <1>1, <1>2, RealFacts, TraceFacts
<1>4. low \in 0..MaxTrace + 1 /\ low <= jit.freetrace /\ low <= n
  <2>1. jit.freetrace \in 0..MaxTrace + 1 /\ MaxTrace \in Nat /\ n \in 0..MaxTrace + 1
    BY <1>1, <1>3, MaxTraceType DEF JitType, JitSet, TraceNo
  <2>2. low \in {jit.freetrace, n} /\ low <= jit.freetrace /\ low <= n
    <3> HIDE DEF low
    <3> QED
      BY <1>3, <2>1, MinimumOfTwo DEF low
  <2> HIDE DEF low
  <2> QED
    BY <2>1, <2>2
<1>5. /\ tr \in [TraceNo -> Trace \cup {Null, Cur}] /\ tr[n] = Null /\ \A m \in TraceNo \ {n} : tr[m] = jit.trace[m]
      /\ dead \in SUBSET TraceNo
  BY <1>1, <1>3 DEF JitType, JitSet
<1>6. r = [jit EXCEPT !.trace = tr, !.freetrace = low, !.dead = dead]
  BY <1>2
<1> HIDE DEF r, tr, low
<1>7. JitType(r)
  BY <1>1, <1>4, <1>5, <1>6 DEF JitType, JitSet
<1>8. /\ r.bc = jit.bc /\ r.patch = jit.patch /\ r.chain = jit.chain /\ r.trace = tr
      /\ r.maxtrace = jit.maxtrace /\ r.iloop = jit.iloop /\ r.dead = dead
      /\ r.freetrace = low /\ r.state = jit.state /\ r.cur = jit.cur
  BY <1>1, <1>6 DEF JitType, JitSet
<1>9. /\ Real(r) = Real(jit) \ {n} /\ Roots(r) = Roots(jit) \ {n}
      /\ \A m \in Real(jit) \ {n} : m \in TraceNo /\ r.trace[m] = jit.trace[m]
  <2>1. \A m \in Real(jit) \ {n} : m \in TraceNo /\ r.trace[m] = jit.trace[m]
    BY <1>1, <1>5, <1>8, RealFacts
  <2>2. Real(r) = Real(jit) \ {n}
    BY <1>5, <1>8 DEF Real
  <2> QED
    BY <2>1, <2>2 DEF Roots
<1>10. \A m \in Real(jit) \ {n} : RootOf(r, m) = RootOf(jit, m)
  BY <1>9 DEF RootOf
\* No other trace has the freed one as its parent or its root.
<1>11. ASSUME NEW m \in Real(jit) \ {n}
       PROVE  jit.trace[m].parent # n
  <2> SUFFICES ASSUME jit.trace[m].parent = n
               PROVE  FALSE
    OBVIOUS
  <2>1. m \notin jit.dead
    BY <1>2
  <2>2. jit.trace[m].root = RootOf(jit, n) /\ jit.trace[m].root \notin jit.dead
    BY <1>1, <1>3, <2>1 DEF TreeInv
  <2>3. CASE jit.trace[n].root = 0
    BY <1>2, <2>2, <2>3 DEF RootOf
  <2>4. CASE jit.trace[n].root # 0
    <3>1. jit.trace[n].parent # 0
      BY <1>1, <1>3, <2>4 DEF TreeInv
    <3>2. jit.trace[n].root \in jit.dead
      BY <1>1, <1>2, <1>3, <3>1 DEF TreeInv
    <3> QED
      BY <2>2, <2>4, <3>2 DEF RootOf
  <2> QED
    BY <2>3, <2>4
<1>12. SidesOf(jit, n) = {}
  <2> SUFFICES ASSUME SidesOf(jit, n) # {}
               PROVE  FALSE
    OBVIOUS
  <2>1. PICK age \in [TraceNo -> Nat] :
          \A m \in Real(jit) : jit.trace[m].parent # 0 => age[jit.trace[m].parent] < age[m]
    BY <1>1 DEF TreeInv
  <2>2. \A m \in SidesOf(jit, n) : m \in Real(jit) /\ m \in TraceNo /\ jit.trace[m].root = n /\ age[m] \in Nat
    BY <1>1, RealFacts DEF SidesOf
  <2>3. PICK least \in {age[m] : m \in SidesOf(jit, n)} : \A x \in {age[m] : m \in SidesOf(jit, n)} : least <= x
    <3> DEFINE T == {age[m] : m \in SidesOf(jit, n)}
    <3>1. T \in SUBSET Nat /\ T # {}
      BY <2>2
    <3> HIDE DEF T
    <3>2. \E x \in T : \A y \in T : x <= y
      BY <3>1, Least
    <3> QED
      BY <3>2 DEF T
  <2>4. PICK m \in SidesOf(jit, n) : least = age[m]
    BY <2>3
  <2> DEFINE q == jit.trace[m].parent
  <2>5. jit.trace[m].root = n /\ m \in Real(jit) /\ m # n
    <3>1. jit.trace[m].root = n /\ m \in Real(jit)
      BY <2>2
    <3>2. jit.trace[m].root \in Roots(jit)
      BY <1>1, <1>3, <3>1 DEF TreeInv
    <3>3. jit.trace[n].root = 0
      BY <3>1, <3>2 DEF Roots
    <3> QED
      BY <1>3, <3>1, <3>3
  <2>6. q # 0 /\ q \in Real(jit) /\ RootOf(jit, q) = n /\ age[q] < age[m]
    BY <1>1, <1>3, <2>1, <2>5 DEF TreeInv
  <2>7. q # n
    BY <1>11, <2>5
  <2>8. q \in SidesOf(jit, n)
    BY <2>6, <2>7 DEF RootOf, SidesOf
  <2>9. least <= age[q] /\ age[q] \in Nat /\ age[m] \in Nat
    BY <2>2, <2>3, <2>8
  <2> HIDE DEF q
  <2> QED
    BY <2>4, <2>6, <2>9
<1>13. \A m \in Real(jit) \ {n} : jit.trace[m].parent # n /\ jit.trace[m].root # n
  BY <1>11, <1>12 DEF SidesOf
<1>14. \A m \in Roots(jit) \ jit.dead : n \notin SidesOf(jit, m)
  <2> SUFFICES ASSUME NEW m \in Roots(jit) \ jit.dead, jit.trace[n].root = m
               PROVE  FALSE
    BY DEF SidesOf
  <2>1. m # 0
    BY <1>1, RealFacts, TraceFacts
  <2> QED
    BY <1>1, <1>2, <1>3, <2>1 DEF TreeInv
<1>15. \A m \in Roots(jit) \ jit.dead : SidesOf(r, m) = SidesOf(jit, m)
  BY <1>9, <1>14 DEF SidesOf
<1>16. \A p \in Proto : /\ ListOf(NextRoot(r), r.chain[p], Chained(jit, p)) /\ Chained(r, p) = Chained(jit, p)
                        /\ Chained(jit, p) \subseteq {m \in Roots(jit) \ jit.dead : ProtoOf[jit.trace[m].pc] = p}
  <2> SUFFICES ASSUME NEW p \in Proto
               PROVE  /\ ListOf(NextRoot(r), r.chain[p], Chained(jit, p)) /\ Chained(r, p) = Chained(jit, p)
                      /\ Chained(jit, p) \subseteq {m \in Roots(jit) \ jit.dead : ProtoOf[jit.trace[m].pc] = p}
    OBVIOUS
  <2>1. /\ ListOf(NextRoot(jit), jit.chain[p], Chained(jit, p))
        /\ Chained(jit, p) \subseteq {m \in Roots(jit) \ jit.dead : ProtoOf[jit.trace[m].pc] = p}
    BY <1>1 DEF ChainInv
  <2>2. \A m \in Chained(jit, p) : m \in Real(jit) \ {n}
    BY <1>1, <1>2, <2>1, RealFacts
  <2>3. \A m \in Chained(jit, p) : NextRoot(r)[m] = NextRoot(jit)[m]
    BY <1>9, <2>2 DEF NextRoot
  <2>4. ListOf(NextRoot(r), r.chain[p], Chained(jit, p))
    BY <1>8, <2>1, <2>3, SameList
  <2> QED
    BY <2>1, <2>4, AlongList DEF Chained
<1>17. ChainInv(r)
  <2> SUFFICES ASSUME NEW p \in Proto
               PROVE  Chained(jit, p) \subseteq {m \in Roots(r) \ r.dead : ProtoOf[r.trace[m].pc] = p}
    BY <1>16 DEF ChainInv
  <2>1. \A m \in Chained(jit, p) : m \in Roots(jit) \ jit.dead /\ ProtoOf[jit.trace[m].pc] = p
    BY <1>16
  <2>2. \A m \in Chained(jit, p) : m \in Real(jit) \ {n}
    BY <1>1, <1>2, <2>1, RealFacts
  <2> QED
    BY <1>8, <1>9, <2>1, <2>2
<1>18. TreeInv(r)
  <2>1. ASSUME NEW m \in Real(r)
        PROVE  LET t == r.trace[m]
               IN  /\ t.parent = 0 <=> t.root = 0
                   /\ t.parent # 0 => /\ t.parent \in Real(r) /\ t.root = RootOf(r, t.parent)
                                      /\ t.root \in Roots(r)
                                      /\ t.exit \in Exit /\ r.trace[t.parent].count[t.exit] = CountDone
                                      /\ m \in r.dead <=> t.root \in r.dead
    <3>1. m \in Real(jit) \ {n} /\ r.trace[m] = jit.trace[m]
      BY <1>9
    <3> DEFINE t == jit.trace[m]
    <3>2. /\ t.parent = 0 <=> t.root = 0
          /\ t.parent # 0 => /\ t.parent \in Real(jit) /\ t.root = RootOf(jit, t.parent)
                             /\ t.root \in Roots(jit)
                             /\ t.exit \in Exit /\ jit.trace[t.parent].count[t.exit] = CountDone
                             /\ m \in jit.dead <=> t.root \in jit.dead
      BY <1>1, <3>1 DEF TreeInv
    <3>3. t.parent # n /\ t.root # n
      BY <1>13, <3>1
    <3> HIDE DEF t
    <3> QED
      BY <1>8, <1>9, <1>10, <3>1, <3>2, <3>3 DEF t
  <2>2. ASSUME NEW l \in Real(r), NEW m \in Real(r),
               l # m /\ r.trace[l].parent # 0 /\ r.trace[l].parent = r.trace[m].parent
        PROVE  r.trace[l].exit # r.trace[m].exit
    BY <1>1, <1>9, <2>2 DEF TreeInv
  <2>3. \E age \in [TraceNo -> Nat] :
          \A m \in Real(r) : r.trace[m].parent # 0 => age[r.trace[m].parent] < age[m]
    BY <1>1, <1>9 DEF TreeInv
  <2> QED
    BY <2>1, <2>2, <2>3 DEF TreeInv
<1>19. LinkInv(r)
  <2> SUFFICES ASSUME NEW m \in Live(r)
               PROVE  LET t == r.trace[m]
                      IN  /\ t.link \in {0, m} \cup (Roots(r) \ r.dead)
                          /\ t.nextroot \in {0} \cup (Roots(r) \ r.dead)
                          /\ t.nextside = 0 \/ t.nextside \in SidesOf(r, RootOf(r, m))
    BY DEF LinkInv
  <2>1. m \in Real(jit) \ {n} /\ m \notin jit.dead /\ m \in Live(jit) /\ r.trace[m] = jit.trace[m]
    BY <1>8, <1>9 DEF Live
  <2>2. /\ jit.trace[m].link \in {0, m} \cup (Roots(jit) \ jit.dead)
        /\ jit.trace[m].nextroot \in {0} \cup (Roots(jit) \ jit.dead)
        /\ jit.trace[m].nextside = 0 \/ jit.trace[m].nextside \in SidesOf(jit, RootOf(jit, m))
    BY <1>1, <2>1 DEF LinkInv
  <2>3. Roots(jit) \ jit.dead \subseteq Roots(r) \ r.dead
    BY <1>2, <1>8, <1>9
  <2>4. RootOf(jit, m) \in Roots(jit) \ jit.dead
    <3>1. CASE jit.trace[m].root = 0
      BY <2>1, <3>1 DEF RootOf, Roots
    <3>2. CASE jit.trace[m].root # 0
      BY <1>1, <2>1, <3>2 DEF RootOf, TreeInv
    <3> QED
      BY <3>1, <3>2
  <2>5. SidesOf(r, RootOf(r, m)) = SidesOf(jit, RootOf(jit, m))
    BY <1>10, <1>15, <2>1, <2>4
  <2> QED
    BY <2>1, <2>2, <2>3, <2>5
<1>20. SideInv(r)
  <2> SUFFICES ASSUME NEW m \in Roots(r) \ r.dead
               PROVE  /\ ListOf(NextSide(r), r.trace[m].nextside, SidesOf(r, m))
                      /\ r.trace[m].nchild = Cardinality(SidesOf(r, m))
    BY DEF SideInv
  <2>1. m \in Roots(jit) \ jit.dead /\ m \in Real(jit) \ {n} /\ r.trace[m] = jit.trace[m]
    BY <1>1, <1>8, <1>9, RealFacts
  <2>2. ListOf(NextSide(jit), jit.trace[m].nextside, SidesOf(jit, m)) /\ jit.trace[m].nchild = Cardinality(SidesOf(jit, m))
    BY <1>1, <2>1 DEF SideInv
  <2>3. \A s \in SidesOf(jit, m) : NextSide(r)[s] = NextSide(jit)[s]
    <3>1. \A s \in SidesOf(jit, m) : s \in Real(jit) \ {n}
      BY <1>14, <2>1 DEF SidesOf
    <3> QED
      BY <1>9, <3>1 DEF NextSide
  <2>4. ListOf(NextSide(r), jit.trace[m].nextside, SidesOf(jit, m))
    BY <2>2, <2>3, SameList
  <2> QED
    BY <1>15, <2>1, <2>2, <2>4
<1>21. EntryInv(r)
  <2> SUFFICES ASSUME NEW pc \in Pc, Entry(r, pc) # 0
               PROVE  Entry(r, pc) \in Chained(r, ProtoOf[pc]) /\ r.trace[Entry(r, pc)].pc = pc
    BY DEF EntryInv
  <2> DEFINE x == Entry(jit, pc)
  <2>1. Entry(r, pc) = x
    BY <1>8 DEF Entry
  <2>2. x \in Chained(jit, ProtoOf[pc]) /\ jit.trace[x].pc = pc /\ ProtoOf[pc] \in Proto
    BY <1>1, <2>1, TraceFacts DEF EntryInv
  <2>3. x \in Real(jit) \ {n}
    BY <1>1, <1>2, <2>2, RealFacts DEF ChainInv
  <2> HIDE DEF x
  <2> QED
    BY <1>9, <1>16, <2>1, <2>2, <2>3
<1>22. FreeInv(r) /\ PatchInv(r) /\ CurrentOnly(r)
  <2>1. FreeInv(r)
    <3> SUFFICES ASSUME NEW m \in TraceNo, m < low
                 PROVE  tr[m] # Null
      BY <1>8 DEF FreeInv
    <3>1. m \in Nat /\ jit.freetrace \in Int /\ low \in Int
      <4>1. jit.freetrace \in 0..MaxTrace + 1
        BY <1>1 DEF JitType, JitSet
      <4> QED
        BY <1>4, <4>1, MaxTraceType, TraceFacts
    <3>2. m < jit.freetrace /\ m # n
      BY <1>3, <1>4, <3>1
    <3> QED
      BY <1>1, <1>5, <3>2 DEF FreeInv, Core
  <2>2. jit.trace[n] # Cur /\ tr[n] # Cur
    BY <1>3, <1>5, CompilerAssumption DEF Real
  <2>3. CurrentOnly(r)
    BY <1>1, <1>5, <1>8, <2>2 DEF CurrentOnly, Core
  <2> QED
    BY <1>1, <1>8, <2>1, <2>3 DEF PatchInv, Core
<1>23. Core(r)
  BY <1>1, <1>7, <1>8, <1>9, <1>17, <1>18, <1>19, <1>20, <1>21, <1>22 DEF Core, Graph
<1>24. Marked(jit) \subseteq Marked(r)
  <2> DEFINE from == {jit.chain[p] : p \in Proto}
             to == [m \in TraceNo |-> IF m \notin Real(jit) THEN {}
                                      ELSE {jit.trace[m].link, jit.trace[m].nextroot, jit.trace[m].nextside}]
             M == Marked(r)
  <2>1. /\ M \subseteq Live(r) /\ \A p \in Proto : Chained(r, p) \subseteq M
        /\ \A m \in M : {r.trace[m].link, r.trace[m].nextroot, r.trace[m].nextside} \subseteq {0} \cup M
    <3>1. JitType(r) /\ Graph(r)
      BY <1>7, <1>23 DEF Core
    <3> QED
      BY <3>1, MarkedFacts
  <2>2. from \in SUBSET Number
    BY <1>1 DEF JitType, JitSet
  <2>3. to \in [TraceNo -> SUBSET Number]
    <3>1. \A t \in Trace : {t.link, t.nextroot, t.nextside} \subseteq Number
      BY DEF Trace, Number
    <3>2. \A m \in Real(jit) : jit.trace[m] \in Trace
      BY <1>1, RealFacts
    <3> QED
      BY <3>1, <3>2
  <2>4. from \ {0} \subseteq M
    <3>1. \A p \in Proto : jit.chain[p] \in {0} \cup M
      BY <1>8, <1>16, <2>1, ListFacts
    <3> QED
      BY <3>1
  <2>5. \A m \in M \cap TraceNo : to[m] \ {0} \subseteq M
    <3>1. \A m \in M : m \in Real(jit) \ {n} /\ r.trace[m] = jit.trace[m]
      BY <1>9, <2>1 DEF Live
    <3> QED
      BY <2>1, <3>1
  <2>6. Marked(jit) = Reached(from, to)
    BY DEF Marked
  <2> HIDE DEF from, to, M
  <2>7. Reached(from, to) \subseteq M
    BY <2>2, <2>3, <2>4, <2>5, ReachedLeast
  <2> QED
    BY <2>6, <2>7 DEF M
<1>25. Recording(jit) => Recording(r)
  <2> SUFFICES ASSUME Recording(jit)
               PROVE  Recording(r)
    OBVIOUS
  <2>1. jit.cur.parent # 0 => /\ jit.cur.parent \in Marked(r) /\ jit.cur.root = RootOf(r, jit.cur.parent)
    <3>1. Marked(jit) \subseteq Live(jit)
      BY <1>1, MarkedFacts
    <3>2. jit.cur.parent # 0 => jit.cur.parent \in Real(jit) \ {n}
      BY <1>2, <3>1 DEF Recording, Live
    <3> QED
      BY <1>10, <1>24, <3>2 DEF Recording
  <2>2. \A m \in Real(r) : r.trace[m] = jit.trace[m] /\ m \in Real(jit)
    BY <1>9
  <2> QED
    BY <1>8, <2>1, <2>2 DEF Recording
<1>26. InstrInv(jit) => InstrInv(r)
  BY <1>8 DEF InstrInv
<1> QED
  BY <1>8, <1>23, <1>25, <1>26 DEF Good, Inv, r
-------------------------------------------------------------------------------
(* The specification.                                                      *)

LEMMA InitInv ==
  ASSUME Init
  PROVE  Inv(jit) /\ InstrInv(jit)
<1>1. PICK prog \in Program :
        jit = [bc |-> [pc \in Pc |-> IF pc \in prog.code \cup {SidePc} THEN Plain ELSE Absent],
               maxtrace |-> prog.maxtrace, chain |-> [p \in Proto |-> 0], nojit |-> {}, iloop |-> {},
               trace |-> [n \in TraceNo |-> Null], freetrace |-> 1, state |-> "idle", cur |-> NoCur,
               patch |-> NoPatch, bcskip |-> FALSE,
               penalty |-> [i \in 1..PenaltySlots |-> [pc |-> Null, val |-> 0]], slot |-> 1, dead |-> {}]
  BY DEF Init
<1> DEFINE code == [pc \in Pc |-> IF pc \in prog.code \cup {SidePc} THEN Plain ELSE Absent]
           penalty == [i \in 1..PenaltySlots |-> [pc |-> Null, val |-> 0]]
<1>2. code \in [Pc -> Code] /\ \A pc \in Pc : code[pc] \in {Plain, Absent}
  BY CodeFacts
<1>3. penalty \in [1..PenaltySlots -> Penalties]
  BY DEF Penalties
<1>4. NoCur \in Cursor /\ NoPatch \in [pc : Pc \cup {Null}, d : Number]
  BY DEF NoCur, NoPatch, Cursor, Number
<1>5. prog.maxtrace \in 1..MaxTrace /\ 1 \in 0..MaxTrace + 1 /\ 1 \in 1..PenaltySlots
  BY MaxTraceType, CompilerAssumption
<1>6. /\ jit.bc = code /\ jit.chain = [p \in Proto |-> 0] /\ jit.trace = [n \in TraceNo |-> Null]
      /\ jit.freetrace = 1 /\ jit.state = "idle" /\ jit.cur = NoCur /\ jit.patch = NoPatch /\ jit.dead = {}
  BY <1>1
<1>7. JitType(jit)
  <2> HIDE DEF code, penalty
  <2>1. [p \in Proto |-> 0] \in [Proto -> Number] /\ [n \in TraceNo |-> Null] \in [TraceNo -> Trace \cup {Null, Cur}]
    BY DEF Number
  <2> QED
    BY <1>1, <1>2, <1>3, <1>4, <1>5, <2>1 DEF JitType, JitSet, code, penalty
<1> HIDE DEF code
<1>8. Core(jit)
  <2>1. \A pc \in Pc : jit.bc[pc].d = 0
    BY <1>2, <1>6, CodeFacts
  <2>2. jit.cur.no = 0
    BY <1>6 DEF NoCur
  <2> QED
    BY <1>6, <1>7, <2>1, <2>2, EmptyCore
<1>9. InstrInv(jit)
  BY <1>2, <1>6, CodeFacts DEF InstrInv
<1> QED
  BY <1>6, <1>8, <1>9 DEF Inv

LEMMA NextGood ==
  ASSUME Inv(jit), [Next]_jit
  PROVE  Good
<1>1. CASE Hot
  BY <1>1, HotKeeps
<1>2. CASE TraceExit
  BY <1>2, TraceExitKeeps
<1>3. CASE Record
  BY <1>3, RecordKeeps
<1>4. CASE Call
  BY <1>4, CallKeeps
<1>5. CASE Atomic
  BY <1>5, AtomicKeeps
<1>6. CASE Sweep
  BY <1>6, SweepKeeps
<1>7. CASE UNCHANGED jit
  BY <1>7 DEF Good
<1> QED
  BY <1>1, <1>2, <1>3, <1>4, <1>5, <1>6, <1>7 DEF Next

\* In every state of every program, whatever is recorded, flushed, aborted,
\* collected or numbered again: the chains of roots and of side traces are lists
\* of live traces, the bytecode enters traces of those chains, and side traces
\* are a tree.
THEOREM Consistent == Spec => []Inv(jit)
<1>1. Init => Inv(jit)
  BY InitInv
<1>2. Inv(jit) /\ [Next]_jit => Inv(jit')
  BY NextGood DEF Good
<1>3. Inv(jit') <=> Inv(jit)'
  OBVIOUS
<1> QED
  BY <1>1, <1>2, <1>3, PTL DEF Spec

\* The compiler's state is of its type: at most one trace is recorded, and only
\* then are there a current trace and a pending patch.
THEOREM Typed == Spec => []TypeOK
<1>1. Inv(jit) => TypeOK
  <2> SUFFICES ASSUME Inv(jit)
               PROVE  TypeOK
    OBVIOUS
  <2>1. JitType(jit) /\ CurrentOnly(jit)
    BY DEF Inv, Core
  <2>2. \A n \in Real(jit) : jit.trace[n] \in Trace
    BY <2>1, RealFacts
  <2>3. jit.freetrace \in 0..MaxTrace + 1 /\ jit.chain \in [Proto -> {0} \cup TraceNo]
    BY <2>1 DEF JitType, JitSet, Number
  <2> QED
    BY <2>1, <2>2, <2>3 DEF Inv, TypeOK, CurrentOnly
<1> QED
  BY <1>1, Consistent, PTL

\* Bytecode never enters a trace that was flushed or collected, or that starts
\* somewhere else.
THEOREM EntersItsTraces == Spec => []EntersItsTrace
<1>1. Inv(jit) => EntersItsTrace
  <2> SUFFICES ASSUME Inv(jit), NEW pc \in Pc, Entry(jit, pc) # 0
               PROVE  /\ Entry(jit, pc) \in Roots(jit) \ jit.dead
                      /\ jit.trace[Entry(jit, pc)].pc = pc
                      /\ Entry(jit, pc) \in Chained(jit, ProtoOf[pc])
    BY DEF EntersItsTrace, Entry
  <2>1. EntryInv(jit) /\ ChainInv(jit)
    BY DEF Inv, Core, Graph
  <2> QED
    BY <2>1, TraceFacts DEF EntryInv, ChainInv
<1> QED
  BY <1>1, Consistent, PTL

\* The collector keeps every trace that may run, and the parent of the trace
\* being recorded.
THEOREM KeepsRunning == Spec => []RunningKept
<1>1. Inv(jit) => RunningKept
  <2> SUFFICES ASSUME Inv(jit)
               PROVE  RunningKept
    OBVIOUS
  <2>1. JitType(jit) /\ Graph(jit) /\ EntryInv(jit) /\ PatchInv(jit)
    BY DEF Inv, Core
  <2>2. Running(jit) \subseteq Marked(jit) /\ Marked(jit) \subseteq Live(jit)
    BY <2>1, RunningMarked, MarkedFacts
  <2>3. jit.cur.parent # 0 => {jit.cur.parent, jit.cur.root} \subseteq Marked(jit)
    <3> SUFFICES ASSUME jit.cur.parent # 0
                 PROVE  {jit.cur.parent, jit.cur.root} \subseteq Marked(jit)
      OBVIOUS
    <3>1. Recording(jit)
      BY DEF Inv, NoCur
    <3>2. jit.cur.parent \in Marked(jit) /\ jit.cur.root = RootOf(jit, jit.cur.parent)
      BY <3>1 DEF Recording
    <3> QED
      BY <2>1, <3>2, MarkedFacts
  <2> QED
    BY <2>2, <2>3 DEF RunningKept, Live
<1> QED
  BY <1>1, Consistent, PTL

\* When no number is found for a new trace, all of them are in use.
THEOREM FindsNumbers == Spec => []NumbersFound
<1>1. Inv(jit) => NumbersFound
  BY FindFreeFacts DEF Inv, Core, NumbersFound
<1> QED
  BY <1>1, Consistent, PTL

\* The chain of a root's side traces has all of them, and the root's count of
\* them is right.
THEOREM ChainsSides == Spec => []SidesChained
<1>1. Inv(jit) => SidesChained
  <2> SUFFICES ASSUME Inv(jit), NEW n \in Roots(jit) \ jit.dead
               PROVE  LET sides == SidesOf(jit, n)
                      IN  /\ Sides(jit, n) = sides
                          /\ jit.trace[n].nchild = Cardinality(sides)
                          /\ \A s, t \in sides : s # t =>
                               <<jit.trace[s].parent, jit.trace[s].exit>> # <<jit.trace[t].parent, jit.trace[t].exit>>
    BY DEF SidesChained, SidesOf
  <2>1. JitType(jit) /\ SideInv(jit) /\ TreeInv(jit)
    BY DEF Inv, Core, Graph
  <2>2. ListOf(NextSide(jit), jit.trace[n].nextside, SidesOf(jit, n)) /\ jit.trace[n].nchild = Cardinality(SidesOf(jit, n))
    BY <2>1 DEF SideInv
  <2>3. Sides(jit, n) = SidesOf(jit, n)
    BY <2>2, AlongList DEF Sides
  <2>4. ASSUME NEW s \in SidesOf(jit, n), NEW t \in SidesOf(jit, n), s # t,
               jit.trace[s].parent = jit.trace[t].parent
        PROVE  jit.trace[s].exit # jit.trace[t].exit
    <3>1. n # 0 /\ s \in Real(jit) /\ t \in Real(jit) /\ jit.trace[s].root = n
      BY <2>1, RealFacts, TraceFacts DEF SidesOf
    <3> QED
      BY <2>1, <2>4, <3>1 DEF TreeInv
  <2> QED
    BY <2>2, <2>3, <2>4
<1> QED
  BY <1>1, Consistent, PTL

\* When no function with a return that may start a trace is ever switched off,
\* blacklisting never changes an instruction into a wrong one, and jit.on finds
\* every instruction that was taken out of compilation.
THEOREM KeepsInstructions == NoReturnSwitched => (Spec => []InstructionsKept)
<1> SUFFICES ASSUME NoReturnSwitched
             PROVE  Spec => []InstructionsKept
  OBVIOUS
<1>1. Init => Inv(jit) /\ InstrInv(jit)
  BY InitInv
<1>2. Inv(jit) /\ InstrInv(jit) /\ [Next]_jit => (Inv(jit) /\ InstrInv(jit))'
  BY NextGood DEF Good
<1>3. InstrInv(jit) => InstructionsKept
  BY DEF InstrInv, InstructionsKept
<1> QED
  BY <1>1, <1>2, <1>3, PTL DEF Spec
===============================================================================
