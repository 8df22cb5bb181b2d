---------------------------- MODULE CollectorProofs ----------------------------
(***************************************************************************)
(* Proofs about the collector, for every heap and every program: that it   *)
(* calls a finalizer once; and, for every program that does not call       *)
(* debug.setupvalue, that it frees nothing a program can reach and frees   *)
(* all its garbage in a full collection. Each step of the collector and of *)
(* the program keeps the invariant SafeInv.                                *)
(***************************************************************************)
EXTENDS Collector, FiniteSetTheorems, TLAPS

Waiting == DOMAIN gc.mmudata

\* What keeps a finalizer from being called twice: the userdata that wait for
\* theirs wait once, have not been called, are remembered as finalized and are
\* not swept; whoever has been called is remembered.
FinalizerInv ==
  /\ {"mmudata", "finalized", "unswept"} \subseteq DOMAIN gc
  /\ gc.mmudata \in Seq(Obj)
  /\ \A m, n \in Waiting : gc.mmudata[m] = gc.mmudata[n] => m = n
  /\ \A n \in Waiting : LET o == gc.mmudata[n]
                        IN  /\ kind[o] = "udata"
                            /\ o \in gc.finalized
                            /\ o \notin gc.unswept
                            /\ called[o] = 0
  /\ called \in [Obj -> {0, 1}]
  /\ \A o \in Obj : called[o] = 1 => o \in gc.finalized
  /\ DOMAIN openAt = Obj
  /\ \A o \in Obj : openAt[o] # Nil => kind[o] = "upval"

\* A finite set as a sequence has its elements, each once.
LEMMA SetToSeqOnce ==
  ASSUME NEW S, IsFiniteSet(S)
  PROVE  /\ SetToSeq(S) \in Seq(S)
         /\ \A m, n \in DOMAIN SetToSeq(S) : SetToSeq(S)[m] = SetToSeq(S)[n] => m = n
<1>1. Cardinality(S) \in Nat /\ ExistsBijection(1..Cardinality(S), S)
  BY FS_CardinalityType
<1>2. PICK f \in [1..Cardinality(S) -> S] : IsInjective(f)
  BY <1>1 DEF ExistsBijection, Bijection, Injection, IsInjective
<1>3. SetToSeq(S) \in [1..Cardinality(S) -> S] /\ IsInjective(SetToSeq(S))
  BY <1>2 DEF SetToSeq
<1> QED
  BY <1>1, <1>3 DEF IsInjective

\* Appending other userdata to those that wait, when they are remembered and
\* not to be swept.
LEMMA AppendKeeps ==
  ASSUME FinalizerInv,
         NEW S \in SUBSET Obj, IsFiniteSet(S),
         \A o \in S : kind[o] = "udata" /\ o \notin gc.finalized /\ o \notin Pending,
         {"mmudata", "finalized", "unswept"} \subseteq DOMAIN gc',
         gc'.mmudata = gc.mmudata \o SetToSeq(S),
         gc'.finalized = gc.finalized \cup S,
         gc'.unswept \cap ToSet(gc'.mmudata) = {},
         UNCHANGED <<kind, called, openAt>>
  PROVE  FinalizerInv'
<1> DEFINE old == gc.mmudata
           add == SetToSeq(S)
<1>1. /\ add \in Seq(S) /\ old \in Seq(Obj)
      /\ \A m, n \in 1..Len(add) : add[m] = add[n] => m = n
      /\ \A m, n \in 1..Len(old) : old[m] = old[n] => m = n
  BY SetToSeqOnce DEF FinalizerInv, Waiting
<1>2. /\ \A n \in 1..Len(old) : old[n] \in Pending /\ old[n] \in Obj
      /\ \A n \in 1..Len(add) : add[n] \in S
  BY <1>1 DEF Pending, ToSet
<1> HIDE DEF old, add
<1> DEFINE new == old \o add
<1>3. /\ new \in Seq(Obj)
      /\ Len(new) = Len(old) + Len(add)
      /\ \A n \in 1..Len(old) : new[n] = old[n]
      /\ \A n \in Len(old) + 1..Len(new) : new[n] = add[n - Len(old)]
  BY <1>1
<1>4. gc'.mmudata = new
  BY DEF old, add
<1>5. \A n \in 1..Len(new) : \/ n \in 1..Len(old)
                             \/ n \in Len(old) + 1..Len(new) /\ n - Len(old) \in 1..Len(add)
  BY <1>1, <1>3
<1> HIDE DEF new
<1>6. \A m, n \in 1..Len(new) : new[m] = new[n] => m = n
  <2> SUFFICES ASSUME NEW m \in 1..Len(new), NEW n \in 1..Len(new), new[m] = new[n]
               PROVE  m = n
    OBVIOUS
  <2>1. CASE m \in 1..Len(old) /\ n \in 1..Len(old)
    BY <1>1, <1>3, <2>1
  <2>2. CASE m \notin 1..Len(old) /\ n \notin 1..Len(old)
    <3>1. /\ m \in Len(old) + 1..Len(new) /\ m - Len(old) \in 1..Len(add)
          /\ n \in Len(old) + 1..Len(new) /\ n - Len(old) \in 1..Len(add)
      BY <1>5, <2>2
    <3>2. add[m - Len(old)] = add[n - Len(old)]
      BY <1>3, <3>1
    <3>3. m - Len(old) = n - Len(old)
      BY <1>1, <3>1, <3>2
    <3>4. Len(old) \in Nat /\ m \in Int /\ n \in Int
      BY <1>1, <3>1
    <3> QED
      BY <3>3, <3>4
  <2>3. \A k, j \in 1..Len(new) : k \in 1..Len(old) /\ j \notin 1..Len(old) => new[k] # new[j]
    <3> SUFFICES ASSUME NEW k \in 1..Len(old), NEW j \in 1..Len(new), j \notin 1..Len(old)
                 PROVE  new[k] # new[j]
      OBVIOUS
    <3>1. new[k] \in Pending
      BY <1>2, <1>3
    <3>2. new[j] \in S
      BY <1>2, <1>3, <1>5
    <3> QED
      BY <3>1, <3>2
  <2> QED
    BY <2>1, <2>2, <2>3
<1>7. \A n \in 1..Len(new) : LET o == new[n]
                             IN  /\ kind[o] = "udata"
                                 /\ o \in gc'.finalized
                                 /\ o \notin gc'.unswept
                                 /\ called'[o] = 0
  <2> SUFFICES ASSUME NEW n \in 1..Len(new)
               PROVE  /\ kind[new[n]] = "udata"
                      /\ new[n] \in gc'.finalized
                      /\ new[n] \notin gc'.unswept
                      /\ called'[new[n]] = 0
    OBVIOUS
  <2>1. new[n] \notin gc'.unswept
    BY <1>3, <1>4 DEF ToSet
  <2>2. CASE n \in 1..Len(old)
    BY <1>1, <1>3, <2>1, <2>2 DEF FinalizerInv, Waiting, old
  <2>3. CASE n \notin 1..Len(old)
    <3>1. new[n] \in S
      BY <1>2, <1>3, <1>5, <2>3
    <3>2. called[new[n]] = 0
      BY <3>1 DEF FinalizerInv
    <3> QED
      BY <2>1, <3>1, <3>2
  <2> QED
    BY <2>2, <2>3
<1>8. DOMAIN new = 1..Len(new)
  BY <1>3
<1> QED
  BY <1>3, <1>4, <1>6, <1>7, <1>8 DEF FinalizerInv, Waiting

\* The atomic phase separates userdata that have never been finalized.
LEMMA AtomicKeeps ==
  ASSUME FinalizerInv, Atomic, UNCHANGED <<kind, called, openAt>>
  PROVE  FinalizerInv'
<1>1. PICK S \in SUBSET Obj :
        /\ \A o \in S : kind[o] = "udata" /\ o \notin gc.finalized /\ o \notin Pending
        /\ {"mmudata", "finalized", "unswept"} \subseteq DOMAIN gc'
        /\ gc'.mmudata = gc.mmudata \o SetToSeq(S)
        /\ gc'.finalized = gc.finalized \cup S
        /\ gc'.unswept = Listed(ToSet(gc.mmudata \o SetToSeq(S)))
  <2>1. PICK h3, h4, h5 :
          gc' = [state |-> "sweepstring", white |-> OtherWhite(gc.white),
                 gray |-> h5.gray, grayagain |-> h5.grayagain, weak |-> h5.weak,
                 mmudata |-> gc.mmudata \o SetToSeq(Separated(h3)),
                 finalized |-> gc.finalized \cup Separated(h3),
                 unswept |-> Listed(ToSet(gc.mmudata \o SetToSeq(Separated(h3))))]
    BY Zenon DEF Atomic
  <2>2. Separated(h3) \in SUBSET Obj
    BY DEF Separated, Allocated
  <2>3. \A o \in Separated(h3) : kind[o] = "udata" /\ o \notin gc.finalized /\ o \notin Pending
    BY DEF Separated, Pending
  <2> HIDE DEF Separated
  <2> QED
    BY <2>1, <2>2, <2>3
<1>2. IsFiniteSet(S)
  BY FS_Subset, HeapAssumption
<1>3. gc'.unswept \cap ToSet(gc'.mmudata) = {}
  BY <1>1 DEF Listed
<1> QED
  BY <1>1, <1>2, <1>3, AppendKeeps

\* What is freed forgets its calls and that it was finalized; it does not wait.
LEMMA SweepKeeps ==
  ASSUME FinalizerInv, NEW o \in gc.unswept, Sweep({o}), UNCHANGED kind
  PROVE  FinalizerInv'
<1> DEFINE upvals == UNION {OpenUpvals(t) : t \in {x \in {o} : kind[x] = "thread"}}
           swept == {o} \cup upvals
           freed == {x \in swept : IsDead(x)}
           closed == {u \in upvals \ freed : openAt[u].thread \in freed}
<1>1. /\ openAt' = [x \in Obj |-> IF x \in freed \cup closed THEN Nil ELSE openAt[x]]
      /\ called' = [x \in Obj |-> IF x \in freed THEN 0 ELSE called[x]]
      /\ gc' = [gc EXCEPT !.unswept = @ \ {o}, !.finalized = @ \ freed]
  BY DEF Sweep
<1>2. \A x \in upvals : x \in Obj /\ openAt[x] # Nil
  BY DEF OpenUpvals, Allocated
<1>3. \A n \in Waiting : gc.mmudata[n] \notin freed
  <2> SUFFICES ASSUME NEW n \in Waiting
               PROVE  gc.mmudata[n] \notin swept
    OBVIOUS
  <2>1. gc.mmudata[n] # o /\ kind[gc.mmudata[n]] = "udata"
    BY DEF FinalizerInv
  <2>2. \A x \in upvals : kind[x] = "upval"
    BY <1>2 DEF FinalizerInv
  <2> QED
    BY <2>1, <2>2
<1> HIDE DEF upvals, freed, closed
<1>4. /\ {"mmudata", "finalized", "unswept"} \subseteq DOMAIN gc'
      /\ gc'.mmudata = gc.mmudata
      /\ gc'.finalized = gc.finalized \ freed
      /\ gc'.unswept = gc.unswept \ {o}
  BY <1>1 DEF FinalizerInv
<1>5. /\ called' \in [Obj -> {0, 1}]
      /\ \A x \in Obj : called'[x] = 1 => x \in gc'.finalized
  BY <1>1, <1>4 DEF FinalizerInv
<1>6. \A n \in Waiting : /\ gc.mmudata[n] \in Obj
                         /\ gc.mmudata[n] \in gc'.finalized
                         /\ gc.mmudata[n] \notin gc'.unswept
                         /\ called'[gc.mmudata[n]] = 0
  BY <1>1, <1>3, <1>4 DEF FinalizerInv, Waiting
<1>7. /\ DOMAIN openAt' = Obj
      /\ \A x \in Obj : openAt'[x] # Nil => kind[x] = "upval"
  BY <1>1 DEF FinalizerInv
<1> QED
  BY <1>4, <1>5, <1>6, <1>7 DEF FinalizerInv, Waiting

\* A finalizer is called: its userdata is the first that waits, and waits no
\* longer.
LEMMA FinalizeKeeps ==
  ASSUME FinalizerInv, Finalize, UNCHANGED <<kind, openAt>>
  PROVE  FinalizerInv'
<1> DEFINE s == gc.mmudata
           o == Head(s)
<1>1. /\ called' = [called EXCEPT ![o] = @ + 1]
      /\ gc' = [gc EXCEPT !.mmudata = Tail(s)]
      /\ s # <<>>
  BY DEF Finalize
<1>2. s \in Seq(Obj) /\ 1 \in DOMAIN s /\ o = s[1]
  BY <1>1 DEF FinalizerInv
<1>3. /\ {"mmudata", "finalized", "unswept"} \subseteq DOMAIN gc'
      /\ gc'.mmudata = Tail(s)
      /\ gc'.finalized = gc.finalized
      /\ gc'.unswept = gc.unswept
  BY <1>1 DEF FinalizerInv
<1>4. o \in Obj /\ called[o] = 0 /\ o \in gc.finalized
  BY <1>2 DEF FinalizerInv, Waiting
<1>5. /\ Tail(s) \in Seq(Obj)
      /\ \A n \in DOMAIN Tail(s) : n \in Nat /\ n + 1 \in DOMAIN s /\ Tail(s)[n] = s[n + 1]
  BY <1>1, <1>2
<1>6. /\ called' \in [Obj -> {0, 1}]
      /\ \A x \in Obj : called'[x] = 1 => x \in gc'.finalized
  BY <1>1, <1>3, <1>4 DEF FinalizerInv
<1>7. \A n \in DOMAIN Tail(s) : Tail(s)[n] # o
  BY <1>2, <1>5 DEF FinalizerInv, Waiting
<1>8. \A n \in DOMAIN Tail(s) : LET x == Tail(s)[n]
                                IN  /\ kind[x] = "udata"
                                    /\ x \in gc'.finalized
                                    /\ x \notin gc'.unswept
                                    /\ called'[x] = 0
  <2> SUFFICES ASSUME NEW n \in DOMAIN Tail(s)
               PROVE  /\ kind[Tail(s)[n]] = "udata"
                      /\ Tail(s)[n] \in gc'.finalized
                      /\ Tail(s)[n] \notin gc'.unswept
                      /\ called'[Tail(s)[n]] = 0
    OBVIOUS
  <2>1. /\ kind[Tail(s)[n]] = "udata"
        /\ Tail(s)[n] \in gc.finalized
        /\ Tail(s)[n] \notin gc.unswept
        /\ called[Tail(s)[n]] = 0
        /\ Tail(s)[n] \in Obj
    BY <1>2, <1>5 DEF FinalizerInv, Waiting
  <2>2. called'[Tail(s)[n]] = called[Tail(s)[n]]
    BY <1>1, <1>7, <2>1 DEF FinalizerInv
  <2> QED
    BY <1>3, <2>1, <2>2
<1>9. \A m, n \in DOMAIN Tail(s) : Tail(s)[m] = Tail(s)[n] => m = n
  BY <1>5 DEF FinalizerInv, Waiting
<1> QED
  BY <1>3, <1>5, <1>6, <1>8, <1>9 DEF FinalizerInv, Waiting

\* A step that only takes objects off the sweep, or lists all but those that
\* wait.
LEMMA RelistKeeps ==
  ASSUME FinalizerInv, UNCHANGED <<kind, called, openAt>>,
         {"mmudata", "finalized", "unswept"} \subseteq DOMAIN gc',
         gc'.mmudata = gc.mmudata, gc'.finalized = gc.finalized,
         gc'.unswept = gc.unswept \/ gc'.unswept = Listed(Pending)
  PROVE  FinalizerInv'
<1>1. \A n \in Waiting : gc.mmudata[n] \notin gc'.unswept
  BY DEF FinalizerInv, Waiting, Listed, Pending, ToSet
<1> QED
  BY <1>1 DEF FinalizerInv, Waiting

\* What the other steps leave of the collector's state.
SameLists ==
  /\ {"mmudata", "finalized", "unswept"} \subseteq DOMAIN gc'
  /\ gc'.mmudata = gc.mmudata
  /\ gc'.finalized = gc.finalized
  /\ gc'.unswept = gc.unswept

\* A step of the program or of the mark phase: upvalues are opened and closed.
LEMMA OtherStepsKeep ==
  ASSUME FinalizerInv, UNCHANGED <<kind, called>>, SameLists,
         DOMAIN openAt' = Obj,
         \A o \in Obj : openAt'[o] # Nil => kind[o] = "upval"
  PROVE  FinalizerInv'
BY DEF FinalizerInv, Waiting, SameLists

\* The marks of a barrier leave the lists of userdata alone.
LEMMA SetMarksKeepsLists ==
  ASSUME FinalizerInv, NEW h, SetMarks(h)
  PROVE  SameLists
BY DEF FinalizerInv, SetMarks, SameLists

\* A step of the collector.
LEMMA OneStepKeeps ==
  ASSUME FinalizerInv, OneStep
  PROVE  FinalizerInv'
<1>0. UNCHANGED kind
  BY DEF OneStep
<1>1. CASE /\ MarkStart \/ Propagate \/ EndPropagate
           /\ UNCHANGED <<kind, openAt, called>>
  <2>1. SameLists
    <3>1. CASE MarkStart
      BY <3>1 DEF MarkStart, FinalizerInv, SameLists
    <3>2. CASE Propagate
      <4>1. PICK h : gc' = [gc EXCEPT !.gray = h.gray, !.grayagain = h.grayagain, !.weak = h.weak]
        BY <3>2, Zenon DEF Propagate
      <4> QED
        BY <4>1 DEF FinalizerInv, SameLists
    <3>3. CASE EndPropagate
      BY <3>3 DEF EndPropagate, FinalizerInv, SameLists
    <3> QED
      BY <1>1, <3>1, <3>2, <3>3
  <2> QED
    BY <1>1, <2>1, OtherStepsKeep DEF FinalizerInv
<1>2. CASE Atomic /\ UNCHANGED <<kind, openAt, called>>
  BY <1>2, AtomicKeeps
<1>3. CASE SweepString \/ SweepRoot
  <2>1. CASE \E o \in gc.unswept : Sweep({o})
    BY <1>0, <2>1, SweepKeeps
  <2>2. CASE /\ \E state : gc' = [gc EXCEPT !.state = state]
             /\ UNCHANGED <<kind, openAt, called>>
    <3>1. SameLists
      BY <2>2 DEF FinalizerInv, SameLists
    <3> QED
      BY <2>2, <3>1, OtherStepsKeep DEF FinalizerInv
  <2> QED
    BY <1>0, <1>3, <2>1, <2>2, Zenon DEF SweepString, SweepRoot, UnsweptStrings
<1>4. CASE (Finalize \/ EndFinalize) /\ UNCHANGED <<kind, openAt>>
  <2>1. CASE Finalize
    BY <1>4, <2>1, FinalizeKeeps
  <2>2. CASE EndFinalize
    <3>1. SameLists /\ UNCHANGED called
      BY <2>2 DEF EndFinalize, FinalizerInv, SameLists
    <3> QED
      BY <1>4, <3>1, OtherStepsKeep DEF FinalizerInv
  <2> QED
    BY <1>4, <2>1, <2>2
<1> QED
  BY <1>0, <1>1, <1>2, <1>3, <1>4 DEF OneStep

\* A step of the program.
LEMMA ProgramKeeps ==
  ASSUME FinalizerInv, Program
  PROVE  FinalizerInv'
<1>1. UNCHANGED <<kind, called>>
  BY DEF Program
<1>2. CASE UNCHANGED <<openAt, gc>>
  <2>1. SameLists
    BY <1>2 DEF FinalizerInv, SameLists
  <2> QED
    BY <1>1, <1>2, <2>1, OtherStepsKeep DEF FinalizerInv
<1>3. CASE \E s \in Slots : Closure(s)
  <2>1. PICK u, where :
          /\ u \in Obj
          /\ kind[u] = "upval"
          /\ openAt' = [openAt EXCEPT ![u] = where]
          /\ UNCHANGED gc
    <3>1. PICK s \in Slots : Closure(s)
      BY <1>3
    <3>2. PICK u, where :
            /\ u \in Obj
            /\ kind[u] = "upval"
            /\ openAt' = [openAt EXCEPT ![u] = where]
            /\ UNCHANGED gc
      BY <3>1, Zenon DEF Closure
    <3> QED
      BY <3>2
  <2>2. SameLists
    BY <2>1 DEF FinalizerInv, SameLists
  <2> QED
    BY <1>1, <2>1, <2>2, OtherStepsKeep DEF FinalizerInv
<1>4. CASE Assign
  <2>1. UNCHANGED openAt /\ (UNCHANGED gc \/ \E h : SetMarks(h))
    BY <1>4 DEF Assign, StoreInt, SetUpval, Store, SetEnv, DebugSetUpval
  <2>2. SameLists
    BY <2>1, SetMarksKeepsLists DEF FinalizerInv, SameLists
  <2> QED
    BY <1>1, <2>1, <2>2, OtherStepsKeep DEF FinalizerInv
<1>5. CASE CloseUpvals
  <2>1. PICK left, h :
          /\ SetMarks(h)
          /\ openAt' = [o \in Obj |-> IF o \in left THEN Nil ELSE openAt[o]]
    BY <1>5, Zenon DEF CloseUpvals
  <2>2. SameLists
    BY <2>1, SetMarksKeepsLists
  <2> QED
    BY <1>1, <2>1, <2>2, OtherStepsKeep DEF FinalizerInv
<1> QED
  BY <1>2, <1>3, <1>4, <1>5 DEF Program, New, Intern, InnerClosure, Load, Resume

\* The invariant holds when the program starts, ...
LEMMA FinalizerInit ==
  ASSUME Init
  PROVE  FinalizerInv
BY HeapAssumption DEF Init, FinalizerInv, Waiting

\* ... and every step keeps it.
LEMMA FinalizerStep ==
  ASSUME FinalizerInv, [Next]_vars
  PROVE  FinalizerInv'
<1>1. CASE OneStep
  BY <1>1, OneStepKeeps
<1>2. CASE FinalizerReturns
  <2>1. UNCHANGED <<kind, openAt, called>> /\ SameLists
    BY <1>2 DEF FinalizerReturns, FinalizerInv, SameLists
  <2> QED
    BY <2>1, OtherStepsKeep DEF FinalizerInv
<1>3. CASE FullGC
  <2>1. CASE gc' = gc
    BY <1>3, <2>1, RelistKeeps DEF FullGC, FinalizerInv
  <2>2. CASE gc' = [gc EXCEPT !.state = "sweepstring", !.gray = {}, !.grayagain = {},
                              !.weak = {}, !.unswept = Listed(Pending)]
    <3>1. /\ {"mmudata", "finalized", "unswept"} \subseteq DOMAIN gc'
          /\ gc'.mmudata = gc.mmudata
          /\ gc'.finalized = gc.finalized
          /\ gc'.unswept = Listed(Pending)
      BY <2>2 DEF FinalizerInv
    <3> QED
      BY <1>3, <3>1, RelistKeeps DEF FullGC
  <2> QED
    BY <1>3, <2>1, <2>2 DEF FullGC
<1>4. CASE FullCycle
  <2>1. UNCHANGED <<kind, openAt, called>> /\ SameLists
    BY <1>4 DEF FullCycle, MarkStart, FinalizerInv, SameLists
  <2> QED
    BY <2>1, OtherStepsKeep DEF FinalizerInv
<1>5. CASE FullReturns
  <2>1. UNCHANGED <<kind, openAt, called>> /\ SameLists
    BY <1>5 DEF FullReturns, FinalizerInv, SameLists
  <2> QED
    BY <2>1, OtherStepsKeep DEF FinalizerInv
<1>6. CASE Program
  BY <1>6, ProgramKeeps
<1>7. CASE UNCHANGED vars
  <2>1. UNCHANGED <<kind, openAt, called>> /\ SameLists
    BY <1>7 DEF vars, FinalizerInv, SameLists
  <2> QED
    BY <2>1, OtherStepsKeep DEF FinalizerInv
<1> QED
  BY <1>1, <1>2, <1>3, <1>4, <1>5, <1>6, <1>7 DEF Next

\* A finalizer is called once for its userdata, however long that lives, and
\* whether it is kept, found dead again, or caught by a full collection between
\* its separation and its finalization.
THEOREM FinalizersOnce == Spec => []FinalizedOnce
<1>1. FinalizerInv => FinalizedOnce
  BY DEF FinalizerInv, FinalizedOnce
<1> QED
  BY FinalizerInit, FinalizerStep, <1>1, PTL DEF Spec
-------------------------------------------------------------------------------
(***************************************************************************)
(* The invariant that keeps the collector safe, and what marking objects   *)
(* and traversing gray ones does to its parts about colors and lists.      *)
(***************************************************************************)

Colors == {"free", "gray", "black"} \cup Whites
Placed == [thread : Obj, slot : Slots]
States == {"pause", "propagate", "atomic", "sweepstring", "sweep", "finalize"}

TypeInv ==
  /\ kind \in Heaps
  /\ marked \in [Obj -> Colors]
  /\ DOMAIN fields = Obj
  /\ \A o \in Obj : fields[o] \in [FieldsOf(kind[o]) -> Obj \cup {Nil}]
  /\ openAt \in [Obj -> Placed \cup {Nil}]
  /\ gc \in [state : States, white : Whites,
             gray : SUBSET Obj, grayagain : SUBSET Obj, weak : SUBSET Obj,
             mmudata : Seq(Obj), finalized : SUBSET Obj, unswept : SUBSET Obj]
  /\ running \in Obj /\ kind[running] = "thread"
  /\ finalizing \in Obj \cup {Nil} /\ (finalizing # Nil => kind[finalizing] = "udata")
  /\ full \in {"no", "finish", "cycle"}
  /\ doomed \subseteq Obj

\* What can be in a field: a value of the program is no upvalue. An upvalue is
\* open at a thread that has not been freed.
Values == {o \in Obj : kind[o] \notin {"upval", "none"}}
FieldsInv ==
  \A o \in Obj :
    /\ kind[o] \in TabKinds \cup {"thread", "upval"} =>
         \A f \in FieldsOf(kind[o]) : fields[o][f] \in Values \cup {Nil}
    /\ kind[o] = "udata" => fields[o].env = Nil \/ kind[fields[o].env] \in TabKinds
    /\ kind[o] = "func" /\ marked[o] # "free" => fields[o].uv # Nil /\ kind[fields[o].uv] = "upval"
    /\ marked[o] = "free" => fields[o] = Empty(o) /\ openAt[o] = Nil
    /\ kind[o] = "none" => marked[o] = "free"
    /\ openAt[o] # Nil => /\ kind[o] = "upval" /\ kind[openAt[o].thread] = "thread"
                          /\ marked[openAt[o].thread] # "free"
-------------------------------------------------------------------------------
(* The invariant of a marking h. *)

IsMarking(h) == h \in [marked : [Obj -> Colors], gray : SUBSET Obj, grayagain : SUBSET Obj,
                       weak : SUBSET Obj]

\* Userdata and closed upvalues are never gray; weak tables, threads, strings and
\* open upvalues are never black.
ColorInv(m) ==
  \A o \in Obj :
    /\ m[o] = "gray" => kind[o] # "udata" /\ ~IsClosed(o)
    /\ m[o] = "black" => kind[o] \in {"func", "tab", "udata"} \/ IsClosed(o)

\* The lists are disjoint and have all the gray objects that are traversed.
ListsInv(h) ==
  /\ \A o \in h.gray \cup h.grayagain \cup h.weak : h.marked[o] = "gray" /\ IsTraversed(o)
  /\ \A o \in Obj : h.marked[o] = "gray" /\ IsTraversed(o) => o \in h.gray \cup h.grayagain \cup h.weak
  /\ \A o \in h.weak : kind[o] \in {"weakkey", "weakval"}
  /\ \A o \in h.grayagain : kind[o] \in {"thread", "tab"}
  /\ h.gray \cap h.grayagain = {} /\ h.gray \cap h.weak = {} /\ h.grayagain \cap h.weak = {}

\* What an object refers to is marked.
Done(m, o) == \A v \in Strong(o) : ~IsWhite(m, v)
BlackDone(m, objs) == \A o \in objs : m[o] = "black" => Done(m, o)

\* A marking in which no object is dead and the black objects outside of
\* "waived" are done.
MarkInv(h, waived) ==
  /\ IsMarking(h)
  /\ \A o \in Obj : h.marked[o] # OtherWhite(gc.white)
  /\ ColorInv(h.marked)
  /\ ListsInv(h)
  /\ BlackDone(h.marked, Obj \ waived)
-------------------------------------------------------------------------------
(* The shapes of objects. *)

\* The fields of an object of each type.
LEMMA KindFields ==
  ASSUME NEW k
  PROVE  /\ k = "thread" => FieldsOf(k) = Slots
         /\ k \in TabKinds => FieldsOf(k) = {"key", "val"}
         /\ k = "upval" => FieldsOf(k) = {"val"}
         /\ k = "udata" => FieldsOf(k) = {"env"}
         /\ k = "func" => FieldsOf(k) = {"uv"}
         /\ k \in {"str", "none"} => FieldsOf(k) = {}
  BY DEF FieldsOf, TabKinds

\* The main thread is a thread.
LEMMA KindType ==
  ASSUME TypeInv
  PROVE  kind \in [Obj -> Kinds] /\ kind[Main] = "thread" /\ Main \in Obj
  BY HeapAssumption DEF TypeInv

\* What an upvalue has is a value of the program.
LEMMA UpvalValType ==
  ASSUME TypeInv, FieldsInv, NEW o \in Obj, kind[o] = "upval"
  PROVE  UpvalVal(o) \in Values \cup {Nil}
<1>1. CASE openAt[o] = Nil
  BY <1>1, KindFields DEF UpvalVal, FieldsInv
<1>2. CASE openAt[o] # Nil
  <2>1. openAt[o].thread \in Obj /\ openAt[o].slot \in Slots /\ kind[openAt[o].thread] = "thread"
    BY <1>2 DEF TypeInv, FieldsInv, Placed
  <2> QED
    BY <1>2, <2>1, KindFields DEF UpvalVal, FieldsInv
<1> QED
  BY <1>1, <1>2

\* What an object of each type is marked with.
LEMMA StrongOf ==
  ASSUME TypeInv, NEW o \in Obj
  PROVE  /\ kind[o] = "thread" => Strong(o) = {fields[o][s] : s \in Slots}
         /\ kind[o] = "func" => Strong(o) = {fields[o].uv}
         /\ kind[o] = "udata" => Strong(o) = {fields[o].env}
         /\ kind[o] = "upval" => Strong(o) = {UpvalVal(o)}
         /\ kind[o] = "tab" => Strong(o) = IF fields[o].val = Nil THEN {} ELSE {fields[o].key, fields[o].val}
         /\ kind[o] \in TabKinds => Strong(o) \subseteq {fields[o].key, fields[o].val}
         /\ kind[o] \in {"str", "none"} => Strong(o) = {}
<1>1. kind[o] = "thread" => Strong(o) = {fields[o][s] : s \in Slots}
  BY DEF Strong, FieldsOf, TabKinds
<1>2. kind[o] = "func" => Strong(o) = {fields[o].uv}
  BY DEF Strong, FieldsOf, TabKinds
<1>3. kind[o] = "udata" => Strong(o) = {fields[o].env}
  BY DEF Strong, FieldsOf, TabKinds
<1>4. kind[o] = "upval" => Strong(o) = {UpvalVal(o)}
  BY DEF Strong, FieldsOf, TabKinds
<1>5. kind[o] \in TabKinds => /\ kind[o] = "tab" => Strong(o) = IF fields[o].val = Nil THEN {} ELSE {fields[o].key, fields[o].val}
                              /\ Strong(o) \subseteq {fields[o].key, fields[o].val}
  BY DEF Strong, FieldsOf, TabKinds
<1>6. kind[o] \in {"str", "none"} => Strong(o) = {}
  BY DEF Strong, FieldsOf, TabKinds
<1> QED
  BY <1>1, <1>2, <1>3, <1>4, <1>5, <1>6 DEF TabKinds

\* Objects are marked with objects.
LEMMA StrongType ==
  ASSUME TypeInv, FieldsInv, NEW o \in Obj
  PROVE  /\ Strong(o) \subseteq Obj \cup {Nil}
         /\ kind[o] # "func" => Strong(o) \subseteq Values \cup {Nil}
<1>1. kind[o] \in Kinds
  BY KindType
<1>2. CASE kind[o] = "upval"
  BY <1>2, UpvalValType, StrongOf DEF Values
<1>3. CASE kind[o] = "func"
  BY <1>3, StrongOf, KindFields DEF TypeInv
<1>4. CASE kind[o] = "udata"
  <2>1. fields[o].env \in Obj \cup {Nil}
    BY <1>4, KindFields DEF TypeInv
  <2> QED
    BY <1>4, <2>1, StrongOf DEF Values, FieldsInv, TabKinds
<1>5. CASE kind[o] = "thread"
  BY <1>5, StrongOf, KindFields DEF FieldsInv, Values
<1>6. CASE kind[o] \in TabKinds
  BY <1>6, StrongOf, KindFields DEF FieldsInv, Values
<1>7. CASE kind[o] \in {"str", "none"}
  BY <1>7, StrongOf
<1> QED
  BY <1>1, <1>2, <1>3, <1>4, <1>5, <1>6, <1>7 DEF Kinds, TabKinds
-------------------------------------------------------------------------------
(* Marking.                                                                *)

Inner == {o \in Obj : ~IsTraversed(o)}
NewlyMarked(h, objs) == MarkedWith(White(h), objs, Inner)

\* MarkedWith is the least set that is closed.
LEMMA MarkedWithLeast ==
  ASSUME NEW white, NEW objs, NEW through
  PROVE  LET new == MarkedWith(white, objs, through)
         IN  /\ new \subseteq white
             /\ objs \cap white \subseteq new
             /\ \A o \in new \cap through : Strong(o) \cap white \subseteq new
             /\ \A x \in SUBSET white :
                  /\ objs \cap white \subseteq x
                  /\ \A o \in x \cap through : Strong(o) \cap white \subseteq x
                  => new \subseteq x
<1> DEFINE new == MarkedWith(white, objs, through)
           closed == {x \in SUBSET white : /\ objs \cap white \subseteq x
                                           /\ \A o \in x \cap through : Strong(o) \cap white \subseteq x}
<1>1. new = {o \in white : \A x \in closed : o \in x}
  BY DEF MarkedWith
<1> HIDE DEF new
<1>2. new \subseteq white /\ objs \cap white \subseteq new /\ \A x \in closed : new \subseteq x
  BY <1>1
<1>3. ASSUME NEW o \in new \cap through, NEW v \in Strong(o) \cap white
      PROVE  v \in new
  <2>1. ASSUME NEW x \in closed
        PROVE  v \in x
    BY <1>1, <1>3
  <2> QED
    BY <1>1, <2>1
<1> QED
  BY <1>2, <1>3 DEF new

\* What MarkGray does to a marking.
LEMMA MarkGrayShape ==
  ASSUME NEW h, IsMarking(h), NEW objs \in SUBSET Obj
  PROVE  LET r == MarkGray(h, objs)
         IN  /\ IsMarking(r)
             /\ r.marked = [o \in Obj |-> IF o \in objs THEN MarkedColor[o] ELSE h.marked[o]]
             /\ r.gray = h.gray \cup {o \in objs : IsTraversed(o)}
             /\ r.weak = h.weak /\ r.grayagain = h.grayagain
<1>1. \A o \in Obj : MarkedColor[o] \in Colors
  BY DEF MarkedColor, Colors
<1> QED
  BY <1>1 DEF MarkGray, Colored, IsMarking

\* What marking some objects does: which white objects it marks, and how.
LEMMA MarkAllShape ==
  ASSUME NEW h, IsMarking(h), NEW objs
  PROVE  LET r == MarkAll(h, objs)
             new == NewlyMarked(h, objs)
         IN  /\ IsMarking(r)
             /\ new \subseteq {o \in Obj : IsWhite(h.marked, o)}
             /\ \A o \in Obj : o \in objs => o \in new \/ ~IsWhite(h.marked, o)
             /\ \A o \in new : ~IsTraversed(o) => \A v \in Strong(o) \cap Obj : v \in new \/ ~IsWhite(h.marked, v)
             /\ r.marked = [o \in Obj |-> IF o \in new THEN MarkedColor[o] ELSE h.marked[o]]
             /\ r.gray = h.gray \cup {o \in new : IsTraversed(o)}
             /\ r.weak = h.weak /\ r.grayagain = h.grayagain
<1>1. NewlyMarked(h, objs) \subseteq White(h) /\ White(h) \subseteq Obj
  BY MarkedWithLeast DEF NewlyMarked, White
<1>2. MarkAll(h, objs) = MarkGray(h, NewlyMarked(h, objs))
  BY DEF MarkAll, NewlyMarked, Inner
<1>3. objs \cap White(h) \subseteq NewlyMarked(h, objs)
  BY MarkedWithLeast DEF NewlyMarked
<1>4. \A o \in NewlyMarked(h, objs) \cap Inner : Strong(o) \cap White(h) \subseteq NewlyMarked(h, objs)
  BY MarkedWithLeast DEF NewlyMarked
<1> HIDE DEF NewlyMarked
<1>5. \A o \in NewlyMarked(h, objs) : ~IsTraversed(o) => o \in Inner
  BY <1>1 DEF Inner
<1>6. White(h) = {o \in Obj : IsWhite(h.marked, o)}
  BY DEF White
<1> QED
  BY <1>1, <1>2, <1>3, <1>4, <1>5, <1>6, MarkGrayShape

\* The color of a marked object.
LEMMA MarkedColorOf ==
  ASSUME NEW o \in Obj
  PROVE  /\ MarkedColor[o] \in {"gray", "black"}
         /\ MarkedColor[o] = "black" <=> kind[o] = "udata" \/ IsClosed(o)
         /\ TraversedColor[o] \in {"gray", "black"}
         /\ TraversedColor[o] = "black" <=> kind[o] \in {"func", "tab", "udata"} \/ IsClosed(o)
  BY DEF MarkedColor, TraversedColor

\* The colors differ.
LEMMA ColorFacts ==
  ASSUME TypeInv
  PROVE  /\ gc.white \in Whites /\ OtherWhite(gc.white) \in Whites /\ OtherWhite(gc.white) # gc.white
         /\ "gray" \notin Whites /\ "black" \notin Whites /\ "free" \notin Whites
         /\ \A c \in Whites : c = gc.white \/ c = OtherWhite(gc.white)
         /\ \A c \in Colors : c \in Whites \/ c \in {"free", "gray", "black"}
  BY DEF TypeInv, Whites, OtherWhite, Colors

\* What is marked stays as it is, and what is to be marked is marked.
LEMMA MarkAllMarks ==
  ASSUME TypeInv, NEW h, IsMarking(h), NEW objs
  PROVE  LET m == MarkAll(h, objs).marked
         IN  /\ m \in [Obj -> Colors]
             /\ \A o \in Obj : ~IsWhite(h.marked, o) => m[o] = h.marked[o]
             /\ \A o \in Obj : m[o] = h.marked[o] \/ (IsWhite(h.marked, o) /\ m[o] \in {"gray", "black"})
             /\ \A o \in objs \cap Obj : ~IsWhite(m, o)
             /\ \A o \in Obj : IsWhite(m, o) => IsWhite(h.marked, o)
<1> DEFINE r == MarkAll(h, objs)
           new == NewlyMarked(h, objs)
<1>1. Nil \notin Obj
  BY HeapAssumption
<1>2. /\ IsMarking(r)
      /\ new \subseteq {o \in Obj : IsWhite(h.marked, o)}
      /\ \A o \in Obj : o \in objs => o \in new \/ ~IsWhite(h.marked, o)
      /\ r.marked = [o \in Obj |-> IF o \in new THEN MarkedColor[o] ELSE h.marked[o]]
  BY MarkAllShape
<1> HIDE DEF r, new
<1>3. /\ \A o \in new : r.marked[o] \in {"gray", "black"}
      /\ \A o \in Obj \ new : r.marked[o] = h.marked[o]
  BY <1>2, MarkedColorOf
<1>4. r.marked \in [Obj -> Colors]
  BY <1>2 DEF IsMarking
<1>5. \A o \in Obj : o \in objs => ~IsWhite(r.marked, o)
  BY <1>2, <1>3, ColorFacts DEF IsWhite
<1> QED
  BY <1>1, <1>2, <1>3, <1>4, <1>5, ColorFacts DEF IsWhite, r

\* Marking allocates and frees nothing.
LEMMA FreeKept ==
  ASSUME TypeInv, NEW h, IsMarking(h), NEW objs, NEW o \in Obj
  PROVE  MarkAll(h, objs).marked[o] = "free" <=> h.marked[o] = "free"
<1>1. MarkAll(h, objs).marked[o] = h.marked[o]
      \/ (IsWhite(h.marked, o) /\ MarkAll(h, objs).marked[o] \in {"gray", "black"})
  BY MarkAllMarks
<1> QED
  BY <1>1, ColorFacts DEF IsWhite

\* Marking objects keeps the invariant of a marking.
LEMMA MarkAllKeeps ==
  ASSUME TypeInv, FieldsInv, NEW h, NEW waived, MarkInv(h, waived), NEW objs
  PROVE  MarkInv(MarkAll(h, objs), waived)
<1> DEFINE r == MarkAll(h, objs)
           new == NewlyMarked(h, objs)
<1>1. /\ IsMarking(h) /\ IsMarking(r)
      /\ new \subseteq {o \in Obj : IsWhite(h.marked, o)}
      /\ \A o \in new : ~IsTraversed(o) => \A v \in Strong(o) \cap Obj : v \in new \/ ~IsWhite(h.marked, v)
      /\ r.marked = [o \in Obj |-> IF o \in new THEN MarkedColor[o] ELSE h.marked[o]]
      /\ r.gray = h.gray \cup {o \in new : IsTraversed(o)}
      /\ r.weak = h.weak /\ r.grayagain = h.grayagain
  BY MarkAllShape DEF MarkInv
<1>2. /\ \A o \in new : r.marked[o] = MarkedColor[o] /\ h.marked[o] \in Whites
      /\ \A o \in Obj \ new : r.marked[o] = h.marked[o]
  BY <1>1 DEF IsWhite
<1> HIDE DEF r, new
<1>3. \A o \in Obj : r.marked[o] # OtherWhite(gc.white)
  BY <1>1, <1>2, MarkedColorOf, ColorFacts DEF MarkInv
<1>4. ColorInv(r.marked)
  BY <1>1, <1>2, MarkedColorOf DEF MarkInv, ColorInv
<1>5. ListsInv(r)
  <2>1. \A o \in new : IsTraversed(o) => r.marked[o] = "gray"
    BY <1>1, <1>2, MarkedColorOf DEF IsTraversed, TabKinds, IsClosed
  <2>2. \A o \in h.gray \cup h.grayagain \cup h.weak : o \in Obj /\ h.marked[o] = "gray" /\ o \notin new
    BY <1>1, <1>2, ColorFacts DEF MarkInv, ListsInv, IsMarking
  <2> QED
    BY <1>1, <1>2, <2>1, <2>2 DEF MarkInv, ListsInv, IsMarking
<1>6. ASSUME NEW o \in Obj \ waived, r.marked[o] = "black", NEW v \in Strong(o)
      PROVE  ~IsWhite(r.marked, v)
  <2>1. v \in Obj \cup {Nil}
    BY StrongType
  <2>2. CASE o \in new
    <3>1. ~IsTraversed(o)
      BY <1>2, <1>6, <2>2, MarkedColorOf DEF IsTraversed, TabKinds, IsClosed
    <3> QED
      BY <1>1, <1>2, <2>1, <2>2, <3>1, MarkedColorOf, ColorFacts DEF IsWhite
  <2>3. CASE o \notin new
    <3>1. ~IsWhite(h.marked, v)
      BY <1>2, <1>6, <2>3 DEF MarkInv, BlackDone, Done
    <3> QED
      BY <1>1, <1>2, <2>1, <3>1, MarkedColorOf, ColorFacts DEF IsWhite
  <2> QED
    BY <2>2, <2>3
<1> QED
  BY <1>1, <1>3, <1>4, <1>5, <1>6 DEF MarkInv, BlackDone, Done, r
-------------------------------------------------------------------------------
(* Traversing.                                                             *)

\* What Traversed does to a marking.
LEMMA TraversedShape ==
  ASSUME NEW h, IsMarking(h), NEW objs \in SUBSET Obj
  PROVE  LET r == Traversed(h, objs)
         IN  /\ IsMarking(r)
             /\ r.marked = [o \in Obj |-> IF o \in objs THEN TraversedColor[o] ELSE h.marked[o]]
             /\ r.gray = h.gray \ objs
             /\ r.weak = h.weak \cup {o \in objs : kind[o] \in {"weakkey", "weakval"}}
             /\ r.grayagain = h.grayagain \cup {o \in objs : kind[o] = "thread"}
<1>1. \A o \in Obj : TraversedColor[o] \in Colors
  BY DEF TraversedColor, Colors
<1> DEFINE c == Colored(h, objs, TraversedColor)
<1>2. /\ IsMarking(c)
      /\ c.marked = [o \in Obj |-> IF o \in objs THEN TraversedColor[o] ELSE h.marked[o]]
      /\ c.gray = h.gray /\ c.weak = h.weak /\ c.grayagain = h.grayagain
  BY <1>1 DEF Colored, IsMarking
<1> HIDE DEF c
<1>3. LET r == Requeued(c, objs)
      IN  /\ IsMarking(r)
          /\ r.marked = c.marked
          /\ r.gray = c.gray \ objs
          /\ r.weak = c.weak \cup {o \in objs : kind[o] \in {"weakkey", "weakval"}}
          /\ r.grayagain = c.grayagain \cup {o \in objs : kind[o] = "thread"}
  BY <1>2 DEF Requeued, IsMarking
<1> QED
  BY <1>2, <1>3 DEF Traversed, c

\* Objects that are gray or white can be traversed: they leave the gray list.
LEMMA TraversedKeeps ==
  ASSUME TypeInv, FieldsInv, NEW h, NEW waived, MarkInv(h, waived), NEW objs,
         objs \subseteq h.gray \cup {o \in Obj : IsWhite(h.marked, o)}
  PROVE  MarkInv(Traversed(h, objs), waived \cup objs)
<1> DEFINE r == Traversed(h, objs)
<1>0. IsMarking(h) /\ objs \in SUBSET Obj
  BY DEF MarkInv, IsMarking
<1>1. /\ IsMarking(r)
      /\ r.marked = [o \in Obj |-> IF o \in objs THEN TraversedColor[o] ELSE h.marked[o]]
      /\ r.gray = h.gray \ objs
      /\ r.weak = h.weak \cup {o \in objs : kind[o] \in {"weakkey", "weakval"}}
      /\ r.grayagain = h.grayagain \cup {o \in objs : kind[o] = "thread"}
  BY <1>0, TraversedShape
<1> HIDE DEF r
<1>2. \A o \in Obj : r.marked[o] = IF o \in objs THEN TraversedColor[o] ELSE h.marked[o]
  BY <1>1
<1>3. \A o \in objs : o \notin h.grayagain /\ o \notin h.weak
  BY ColorFacts DEF MarkInv, ListsInv, IsWhite
<1>4. \A o \in Obj : r.marked[o] # OtherWhite(gc.white)
  BY <1>2, MarkedColorOf, ColorFacts DEF MarkInv
<1>5. ColorInv(r.marked)
  <2>1. \A o \in Obj : TraversedColor[o] = "gray" => kind[o] # "udata" /\ ~IsClosed(o)
    BY MarkedColorOf
  <2> QED
    BY <1>2, <2>1, MarkedColorOf DEF MarkInv, ColorInv
<1>6. ListsInv(r)
  <2>1. \A o \in objs : kind[o] \in {"thread", "weakkey", "weakval"} => r.marked[o] = "gray" /\ IsTraversed(o)
    BY <1>0, <1>2, MarkedColorOf DEF IsTraversed, IsClosed, TabKinds
  <2>2. \A o \in objs : r.marked[o] = "gray" /\ IsTraversed(o) => kind[o] \in {"thread", "weakkey", "weakval"}
    BY <1>0, <1>2, MarkedColorOf DEF IsTraversed, IsClosed, TabKinds
  <2>3. \A o \in r.gray \cup r.grayagain \cup r.weak : r.marked[o] = "gray" /\ IsTraversed(o)
    BY <1>0, <1>1, <1>2, <1>3, <2>1 DEF MarkInv, ListsInv, IsMarking
  <2>4. \A o \in Obj : r.marked[o] = "gray" /\ IsTraversed(o) => o \in r.gray \cup r.grayagain \cup r.weak
    BY <1>0, <1>1, <1>2, <2>2 DEF MarkInv, ListsInv
  <2>5. /\ \A o \in r.weak : kind[o] \in {"weakkey", "weakval"}
        /\ \A o \in r.grayagain : kind[o] \in {"thread", "tab"}
    BY <1>1 DEF MarkInv, ListsInv
  <2>6. r.gray \cap r.grayagain = {} /\ r.gray \cap r.weak = {} /\ r.grayagain \cap r.weak = {}
    BY <1>1, <1>3, <2>5 DEF MarkInv, ListsInv
  <2> QED
    BY <2>3, <2>4, <2>5, <2>6 DEF ListsInv
<1>7. ASSUME NEW o \in Obj \ (waived \cup objs), r.marked[o] = "black", NEW v \in Strong(o)
      PROVE  ~IsWhite(r.marked, v)
  <2>1. ~IsWhite(h.marked, v)
    BY <1>2, <1>7 DEF MarkInv, BlackDone, Done
  <2>2. v \in Obj \cup {Nil}
    BY StrongType
  <2> QED
    BY <1>2, <2>1, <2>2, MarkedColorOf, ColorFacts DEF IsWhite
<1> QED
  BY <1>1, <1>4, <1>5, <1>6, <1>7 DEF MarkInv, BlackDone, Done, r

\* propagatemark keeps the invariant: the traversed object is done.
LEMMA PropagateMarkKeeps ==
  ASSUME TypeInv, FieldsInv, NEW h, NEW waived, MarkInv(h, waived), NEW o \in h.gray
  PROVE  MarkInv(PropagateMark(h, o), waived)
<1> DEFINE t == Traversed(h, {o})
           r == MarkAll(t, Strong(o))
<1>1. o \in Obj
  BY DEF MarkInv, IsMarking
<1>2. MarkInv(t, waived \cup {o})
  BY TraversedKeeps
<1> HIDE DEF t
<1>3. MarkInv(r, waived \cup {o})
  BY <1>2, MarkAllKeeps
<1>4. Done(r.marked, o)
  BY <1>1, <1>2, StrongType, MarkAllMarks DEF Done, MarkInv, IsWhite
<1> HIDE DEF r
<1>5. MarkInv(r, waived)
  BY <1>3, <1>4 DEF MarkInv, BlackDone
<1> QED
  BY <1>5 DEF PropagateMark, r, t

\* gc_propagate_gray empties the gray list. Every object that was on it, or is
\* newly marked, is done.
LEMMA PropagateGrayKeeps ==
  ASSUME TypeInv, FieldsInv, NEW h, NEW waived, MarkInv(h, waived)
  PROVE  LET r == PropagateGray(h)
         IN  /\ MarkInv(r, waived)
             /\ r.gray = {}
             /\ h.weak \subseteq r.weak
             /\ \A o \in h.gray : kind[o] \in {"weakkey", "weakval"} => o \in r.weak
             /\ h.grayagain \subseteq r.grayagain
             /\ \A o \in Obj : ~IsWhite(h.marked, o) /\ o \notin h.gray => r.marked[o] = h.marked[o]
             /\ \A o \in Obj : (IsWhite(h.marked, o) /\ ~IsWhite(r.marked, o)) \/ o \in h.gray => Done(r.marked, o)
             /\ \A o \in Obj \cup {Nil} : IsWhite(r.marked, o) => IsWhite(h.marked, o) /\ r.marked[o] = h.marked[o]
             /\ \A o \in Obj : r.marked[o] = "free" <=> h.marked[o] = "free"
<1> DEFINE r == PropagateGray(h)
           start == UNION {Strong(o) : o \in h.gray}
           new == MarkedWith(White(h), start, Obj)
           all == h.gray \cup new
<1>1. r = Traversed(h, all)
  BY Zenon DEF PropagateGray
<1> HIDE DEF start, r
<1>2. /\ new \subseteq White(h)
      /\ start \cap White(h) \subseteq new
      /\ \A o \in new \cap Obj : Strong(o) \cap White(h) \subseteq new
  BY MarkedWithLeast
<1> HIDE DEF new
<1>3. White(h) = {o \in Obj : IsWhite(h.marked, o)}
  BY DEF White
<1>4. \A o \in all : \A v \in Strong(o) : v \in White(h) => v \in new
  BY <1>2, <1>3 DEF start
<1>5. IsMarking(h) /\ all \in SUBSET Obj
  BY <1>2, <1>3 DEF MarkInv, IsMarking
<1>6. MarkInv(r, waived \cup all)
  BY <1>2, <1>3, <1>1, TraversedKeeps
<1>7. /\ r.marked = [o \in Obj |-> IF o \in all THEN TraversedColor[o] ELSE h.marked[o]]
      /\ r.gray = h.gray \ all
      /\ r.weak = h.weak \cup {o \in all : kind[o] \in {"weakkey", "weakval"}}
      /\ r.grayagain = h.grayagain \cup {o \in all : kind[o] = "thread"}
  BY <1>1, <1>5, TraversedShape
<1>8. \A o \in Obj : r.marked[o] = IF o \in all THEN TraversedColor[o] ELSE h.marked[o]
  BY <1>7
<1>9. ASSUME NEW o \in all, NEW v \in Strong(o)
      PROVE  ~IsWhite(r.marked, v)
  <2>1. v \in Obj \cup {Nil}
    BY <1>5, StrongType
  <2>2. v \in all \/ ~IsWhite(h.marked, v)
    BY <1>3, <1>4, <1>9, <2>1 DEF IsWhite
  <2> QED
    BY <1>8, <2>1, <2>2, MarkedColorOf, ColorFacts DEF IsWhite
<1>10. MarkInv(r, waived)
  BY <1>6, <1>9 DEF MarkInv, BlackDone, Done
<1>11. \A o \in Obj \cup {Nil} : IsWhite(r.marked, o) => IsWhite(h.marked, o) /\ r.marked[o] = h.marked[o]
  BY <1>8, MarkedColorOf, ColorFacts DEF IsWhite
<1>12. \A o \in Obj : ~IsWhite(h.marked, o) /\ o \notin h.gray => r.marked[o] = h.marked[o]
  BY <1>2, <1>3, <1>8
<1>13. \A o \in Obj : (IsWhite(h.marked, o) /\ ~IsWhite(r.marked, o)) \/ o \in h.gray => Done(r.marked, o)
  <2>1. \A o \in Obj : IsWhite(h.marked, o) /\ ~IsWhite(r.marked, o) => o \in all
    BY <1>8 DEF IsWhite
  <2> QED
    BY <1>9, <2>1 DEF Done
<1>14. \A o \in Obj : r.marked[o] = "free" <=> h.marked[o] = "free"
  <2>1. \A o \in all : h.marked[o] # "free"
    BY <1>2, <1>3, ColorFacts DEF MarkInv, ListsInv, IsWhite
  <2> QED
    BY <1>5, <1>8, <2>1, MarkedColorOf
<1> QED
  BY <1>7, <1>10, <1>11, <1>12, <1>13, <1>14 DEF r
-------------------------------------------------------------------------------
(* The atomic phase.                                                       *)

\* Every marked object is done or among "rest".
Covered(h, rest) == \A o \in Obj : h.marked[o] \in {"gray", "black"} => Done(h.marked, o) \/ o \in rest

\* What MarkAll marks is done, or on the gray list.
LEMMA MarkAllCovers ==
  ASSUME TypeInv, FieldsInv, NEW h, IsMarking(h), NEW rest, Covered(h, rest), NEW objs
  PROVE  Covered(MarkAll(h, objs), rest \cup MarkAll(h, objs).gray)
<1> DEFINE r == MarkAll(h, objs)
           new == NewlyMarked(h, objs)
<1>1. /\ new \subseteq {o \in Obj : IsWhite(h.marked, o)}
      /\ \A o \in new : ~IsTraversed(o) => \A v \in Strong(o) \cap Obj : v \in new \/ ~IsWhite(h.marked, v)
      /\ r.marked = [o \in Obj |-> IF o \in new THEN MarkedColor[o] ELSE h.marked[o]]
      /\ r.gray = h.gray \cup {o \in new : IsTraversed(o)}
  BY MarkAllShape
<1>2. \A o \in Obj : r.marked[o] = IF o \in new THEN MarkedColor[o] ELSE h.marked[o]
  BY <1>1
<1> HIDE DEF r, new
<1>3. ASSUME NEW o \in Obj, r.marked[o] \in {"gray", "black"}, o \notin rest \cup r.gray, NEW v \in Strong(o)
      PROVE  ~IsWhite(r.marked, v)
  <2>1. v \in Obj \cup {Nil}
    BY StrongType
  <2>2. v \in new \/ ~IsWhite(h.marked, v)
    <3>1. CASE o \in new
      BY <1>1, <1>3, <2>1, <3>1 DEF IsWhite
    <3>2. CASE o \notin new
      BY <1>2, <1>3, <3>2 DEF Covered, Done
    <3> QED
      BY <3>1, <3>2
  <2> QED
    BY <1>2, <2>1, <2>2, MarkedColorOf, ColorFacts DEF IsWhite
<1> QED
  BY <1>3 DEF Covered, Done, r

\* gc_propagate_gray leaves nothing to be done of the gray list.
LEMMA PropagateGrayCovers ==
  ASSUME TypeInv, FieldsInv, NEW h, NEW waived, MarkInv(h, waived),
         NEW rest, Covered(h, rest \cup h.gray)
  PROVE  Covered(PropagateGray(h), rest)
<1> DEFINE r == PropagateGray(h)
<1>1. /\ \A o \in Obj : ~IsWhite(h.marked, o) /\ o \notin h.gray => r.marked[o] = h.marked[o]
      /\ \A o \in Obj : (IsWhite(h.marked, o) /\ ~IsWhite(r.marked, o)) \/ o \in h.gray => Done(r.marked, o)
      /\ \A o \in Obj \cup {Nil} : IsWhite(r.marked, o) => IsWhite(h.marked, o)
  BY PropagateGrayKeeps
<1> HIDE DEF r
<1>2. ASSUME NEW o \in Obj, r.marked[o] \in {"gray", "black"}, o \notin rest
      PROVE  Done(r.marked, o)
  <2>1. CASE IsWhite(h.marked, o) \/ o \in h.gray
    BY <1>1, <1>2, <2>1, ColorFacts DEF IsWhite
  <2>2. CASE ~IsWhite(h.marked, o) /\ o \notin h.gray
    <3>1. Done(h.marked, o)
      BY <1>1, <1>2, <2>2 DEF Covered
    <3> QED
      BY <1>1, <3>1, StrongType DEF Done
  <2> QED
    BY <2>1, <2>2
<1> QED
  BY <1>2 DEF Covered, r

\* The userdata to be finalized are marked afresh: white at first, they are
\* marked again together with what they refer to.
LEMMA MarkPendingKeeps ==
  ASSUME TypeInv, FieldsInv, NEW h, NEW objs \in SUBSET Obj, MarkInv(h, objs),
         \A o \in objs : kind[o] = "udata" /\ h.marked[o] # "free",
         Covered(h, objs)
  PROVE  LET r == MarkPending(h, objs)
         IN  /\ MarkInv(r, {})
             /\ Covered(r, r.gray)
             /\ r.weak = h.weak
             /\ \A o \in objs : ~IsWhite(r.marked, o)
             /\ \A o \in Obj \cup {Nil} : IsWhite(r.marked, o) => IsWhite(h.marked, o) /\ r.marked[o] = h.marked[o]
             /\ \A o \in Obj : r.marked[o] = "free" <=> h.marked[o] = "free"
<1> DEFINE w == [h EXCEPT !.marked = [o \in Obj |-> IF o \in objs THEN gc.white ELSE @[o]]]
           r == MarkAll(w, objs)
           new == NewlyMarked(w, objs)
<1>1. MarkPending(h, objs) = r
  BY Zenon DEF MarkPending
<1>2. /\ IsMarking(w)
      /\ \A o \in Obj : w.marked[o] = IF o \in objs THEN gc.white ELSE h.marked[o]
      /\ w.gray = h.gray /\ w.weak = h.weak /\ w.grayagain = h.grayagain
  BY ColorFacts DEF MarkInv, IsMarking, Colors
<1> HIDE DEF w
<1>3. /\ IsMarking(r)
      /\ new \subseteq {o \in Obj : IsWhite(w.marked, o)}
      /\ \A o \in Obj : o \in objs => o \in new \/ ~IsWhite(w.marked, o)
      /\ \A o \in new : ~IsTraversed(o) => \A v \in Strong(o) \cap Obj : v \in new \/ ~IsWhite(w.marked, v)
      /\ r.marked = [o \in Obj |-> IF o \in new THEN MarkedColor[o] ELSE w.marked[o]]
      /\ r.gray = w.gray \cup {o \in new : IsTraversed(o)}
      /\ r.weak = w.weak /\ r.grayagain = w.grayagain
  BY <1>2, MarkAllShape
<1>4. \A o \in Obj : r.marked[o] = IF o \in new THEN MarkedColor[o] ELSE w.marked[o]
  BY <1>3
<1> HIDE DEF r, new
<1>5. Nil \notin Obj
  BY HeapAssumption
<1>6. objs \subseteq new
  BY <1>2, <1>3, <1>5, ColorFacts DEF IsWhite
<1>7. \A o \in Obj \cup {Nil} : IsWhite(r.marked, o) => IsWhite(h.marked, o) /\ r.marked[o] = h.marked[o] /\ o \notin new
  BY <1>2, <1>4, <1>6, MarkedColorOf, ColorFacts DEF IsWhite
<1>8. MarkInv(w, Obj)
  <2>1. ColorInv(w.marked)
    BY <1>2, ColorFacts DEF MarkInv, ColorInv
  <2>2. \A o \in objs : ~IsTraversed(o)
    BY DEF IsTraversed, TabKinds
  <2>3. ListsInv(w)
    BY <1>2, <2>2 DEF MarkInv, ListsInv, IsMarking
  <2> QED
    BY <1>2, <2>1, <2>3, ColorFacts DEF MarkInv, BlackDone
<1>9. MarkInv(r, Obj)
  BY <1>8, MarkAllKeeps DEF r
<1>10. ASSUME NEW o \in Obj, r.marked[o] \in {"gray", "black"}, o \notin r.gray
       PROVE  Done(r.marked, o)
  <2>1. CASE o \in new
    <3>1. ~IsTraversed(o)
      BY <1>3, <1>10, <2>1
    <3>2. ASSUME NEW v \in Strong(o), IsWhite(r.marked, v)
          PROVE  FALSE
      <4>1. v \in Obj
        BY <3>2, StrongType DEF IsWhite
      <4>2. v \in new \/ ~IsWhite(w.marked, v)
        BY <1>3, <2>1, <3>1, <4>1
      <4> QED
        BY <1>4, <1>7, <3>2, <4>1, <4>2 DEF IsWhite
    <3> QED
      BY <3>2 DEF Done
  <2>2. CASE o \notin new
    <3>1. o \notin objs /\ h.marked[o] = r.marked[o]
      BY <1>2, <1>4, <1>6, <2>2
    <3>2. Done(h.marked, o)
      BY <1>10, <3>1 DEF Covered
    <3> QED
      BY <1>7, <3>2, StrongType DEF Done
  <2> QED
    BY <2>1, <2>2
<1>11. \A o \in Obj : r.marked[o] = "black" => o \notin r.gray
  BY <1>9 DEF MarkInv, ListsInv
<1>12. MarkInv(r, {})
  BY <1>9, <1>10, <1>11 DEF MarkInv, BlackDone
<1>13. \A o \in Obj : r.marked[o] = "free" <=> h.marked[o] = "free"
  BY <1>2, <1>3, <1>4, <1>6, MarkedColorOf, ColorFacts DEF IsWhite
<1>14. \A o \in objs : ~IsWhite(r.marked, o)
  BY <1>6, <1>7
<1> QED
  BY <1>1, <1>2, <1>3, <1>7, <1>10, <1>12, <1>13, <1>14 DEF Covered

\* The markings an atomic phase goes through.
AtomicMarks(h0, h1, h2, h3, h4, h5, pending) ==
  /\ h1 = PropagateGray(MarkOpenUpvals(h0))
  /\ h2 = PropagateGray(MarkAll([h1 EXCEPT !.gray = h1.weak, !.weak = {}], {running, Main}))
  /\ h3 = PropagateGray([h2 EXCEPT !.gray = h2.grayagain, !.grayagain = {}])
  /\ h4 = PropagateGray(MarkPending(h3, pending))
  /\ h5 = MarkAll(h4, WeakStrings(h4.weak))

\* A list that is worked off again in the atomic phase becomes the gray list.
LEMMA RequeueKeeps ==
  ASSUME NEW h, NEW waived, MarkInv(h, waived), h.gray = {}
  PROVE  /\ MarkInv([h EXCEPT !.gray = h.weak, !.weak = {}], waived)
         /\ MarkInv([h EXCEPT !.gray = h.grayagain, !.grayagain = {}], waived)
<1> DEFINE a == [h EXCEPT !.gray = h.weak, !.weak = {}]
           b == [h EXCEPT !.gray = h.grayagain, !.grayagain = {}]
<1>1. /\ IsMarking(a) /\ a.marked = h.marked /\ a.gray = h.weak /\ a.grayagain = h.grayagain /\ a.weak = {}
      /\ IsMarking(b) /\ b.marked = h.marked /\ b.gray = h.grayagain /\ b.grayagain = {} /\ b.weak = h.weak
  BY DEF MarkInv, IsMarking
<1> HIDE DEF a, b
<1>2. ListsInv(a) /\ ListsInv(b)
  BY <1>1 DEF MarkInv, ListsInv
<1>3. MarkInv(a, waived) /\ MarkInv(b, waived)
  BY <1>1, <1>2 DEF MarkInv
<1> QED
  BY <1>3 DEF a, b

\* After the atomic phase all that has been marked is done: the lists have been
\* worked off, the values of open upvalues have been marked, and so have the
\* userdata to be finalized.
LEMMA AtomicCovers ==
  ASSUME TypeInv, FieldsInv, NEW h0, NEW h1, NEW h2, NEW h3, NEW h4, NEW h5, NEW old, NEW pending,
         AtomicMarks(h0, h1, h2, h3, h4, h5, pending),
         MarkInv(h0, old), h0.marked = marked,
         old \subseteq pending, pending \in SUBSET Obj,
         \A o \in pending : kind[o] = "udata" /\ marked[o] # "free"
  PROVE  /\ MarkInv(h4, {}) /\ h4.gray = {} /\ Covered(h4, {})
         /\ \A o \in pending \cup {running, Main} : ~IsWhite(h4.marked, o)
         /\ \A o \in Obj \cup {Nil} : IsWhite(h4.marked, o) => IsWhite(marked, o) /\ h4.marked[o] = marked[o]
         /\ \A o \in Obj : h4.marked[o] = "free" <=> marked[o] = "free"
<1> DEFINE g0 == MarkOpenUpvals(h0)
           w1 == [h1 EXCEPT !.gray = h1.weak, !.weak = {}]
           g1 == MarkAll(w1, {running, Main})
           w2 == [h2 EXCEPT !.gray = h2.grayagain, !.grayagain = {}]
           g3 == MarkPending(h3, pending)
           open == {UpvalVal(o) : o \in {u \in Allocated : openAt[u] # Nil /\ h0.marked[u] = "gray"}}
<1>0. h1 = PropagateGray(g0) /\ h2 = PropagateGray(g1) /\ h3 = PropagateGray(w2) /\ h4 = PropagateGray(g3)
  BY Zenon DEF AtomicMarks
<1>1. g0 = MarkAll(h0, open)
  BY Zenon DEF MarkOpenUpvals
<1>2. Covered(h0, pending \cup {o \in Obj : openAt[o] # Nil /\ h0.marked[o] = "gray"}
                          \cup h0.gray \cup h0.weak \cup h0.grayagain)
  <2> SUFFICES ASSUME NEW o \in Obj, h0.marked[o] \in {"gray", "black"}, o \notin pending,
                      ~(openAt[o] # Nil /\ h0.marked[o] = "gray"),
                      o \notin h0.gray \cup h0.weak \cup h0.grayagain
               PROVE  Done(h0.marked, o)
    BY DEF Covered
  <2>1. CASE h0.marked[o] = "black"
    BY <2>1 DEF MarkInv, BlackDone
  <2>2. CASE h0.marked[o] = "gray"
    <3>1. kind[o] # "udata" /\ ~IsClosed(o) /\ ~IsTraversed(o)
      BY <2>2 DEF MarkInv, ColorInv, ListsInv
    <3>2. kind[o] \in {"str", "none"}
      BY <2>2, <3>1, KindType DEF IsClosed, IsTraversed, Kinds, TabKinds
    <3> QED
      BY <3>2, StrongOf DEF Done
  <2> QED
    BY <2>1, <2>2
<1> HIDE DEF g0, w1, g1, w2, g3, open
<1>3. MarkInv(g0, old) /\ IsMarking(g0) /\ IsMarking(h0)
  BY <1>1, MarkAllKeeps DEF MarkInv
<1>4. g0.weak = h0.weak /\ g0.grayagain = h0.grayagain /\ h0.gray \subseteq g0.gray
  <2>1. g0.gray = h0.gray \cup {o \in NewlyMarked(h0, open) : IsTraversed(o)}
    BY <1>1, <1>3, MarkAllShape
  <2> QED
    BY <1>1, <1>3, <2>1, MarkAllShape
<1>5. Covered(g0, pending \cup g0.gray \cup g0.weak \cup g0.grayagain)
  <2>1. Covered(g0, pending \cup {o \in Obj : openAt[o] # Nil /\ h0.marked[o] = "gray"}
                            \cup h0.gray \cup h0.weak \cup h0.grayagain \cup g0.gray)
    BY <1>1, <1>2, <1>3, MarkAllCovers
  <2>2. ASSUME NEW o \in Obj, openAt[o] # Nil, h0.marked[o] = "gray"
        PROVE  Done(g0.marked, o)
    <3>1. UpvalVal(o) \in open
      BY <2>2 DEF open, Allocated
    <3>2. ~IsWhite(g0.marked, UpvalVal(o))
      BY <1>1, <1>3, <2>2, <3>1, UpvalValType, MarkAllMarks DEF IsWhite, FieldsInv, Values
    <3> QED
      BY <2>2, <3>2, StrongOf DEF Done, FieldsInv
  <2> QED
    BY <1>4, <2>1, <2>2 DEF Covered
<1>6. MarkInv(h1, old) /\ h1.gray = {} /\ g0.weak \subseteq h1.weak /\ g0.grayagain \subseteq h1.grayagain
  BY <1>0, <1>3, PropagateGrayKeeps
<1>7. Covered(h1, pending \cup h1.weak \cup h1.grayagain)
  <2>1. Covered(g0, (pending \cup g0.weak \cup g0.grayagain) \cup g0.gray)
    BY <1>5 DEF Covered
  <2>2. Covered(h1, pending \cup g0.weak \cup g0.grayagain)
    BY <1>0, <1>3, <2>1, PropagateGrayCovers
  <2> QED
    BY <1>6, <2>2 DEF Covered
<1>8. MarkInv(w1, old)
  BY <1>6, RequeueKeeps DEF w1
<1>9. IsMarking(w1) /\ w1.marked = h1.marked /\ w1.gray = h1.weak /\ w1.grayagain = h1.grayagain
  BY <1>6 DEF w1, MarkInv, IsMarking
<1>10. MarkInv(g1, old) /\ IsMarking(g1)
  BY <1>8, MarkAllKeeps DEF g1, MarkInv
<1>11. w1.gray \subseteq g1.gray /\ g1.grayagain = w1.grayagain
  <2>1. g1.gray = w1.gray \cup {o \in NewlyMarked(w1, {running, Main}) : IsTraversed(o)}
    BY <1>9, MarkAllShape DEF g1
  <2> QED
    BY <1>9, <2>1, MarkAllShape DEF g1
<1>12. Covered(g1, (pending \cup g1.grayagain) \cup g1.gray)
  <2>1. Covered(w1, pending \cup w1.gray \cup w1.grayagain)
    BY <1>7, <1>9 DEF Covered
  <2>2. Covered(g1, pending \cup w1.gray \cup w1.grayagain \cup g1.gray)
    BY <1>9, <2>1, MarkAllCovers DEF g1
  <2> QED
    BY <1>11, <2>2 DEF Covered
<1>13. MarkInv(h2, old) /\ h2.gray = {} /\ g1.grayagain \subseteq h2.grayagain
  BY <1>0, <1>10, PropagateGrayKeeps
<1>14. Covered(h2, pending \cup h2.grayagain)
  <2>1. Covered(h2, pending \cup g1.grayagain)
    BY <1>0, <1>10, <1>12, PropagateGrayCovers
  <2> QED
    BY <1>13, <2>1 DEF Covered
<1>15. MarkInv(w2, old) /\ w2.marked = h2.marked /\ w2.gray = h2.grayagain
  BY <1>13, RequeueKeeps DEF w2, MarkInv, IsMarking
<1>16. Covered(w2, pending \cup w2.gray)
  BY <1>14, <1>15 DEF Covered
<1>17. MarkInv(h3, old) /\ h3.gray = {} /\ Covered(h3, pending)
  BY <1>0, <1>15, <1>16, PropagateGrayKeeps, PropagateGrayCovers
<1>18. /\ \A o \in Obj : g0.marked[o] = "free" <=> marked[o] = "free"
       /\ \A o \in Obj : h1.marked[o] = "free" <=> g0.marked[o] = "free"
       /\ \A o \in Obj : g1.marked[o] = "free" <=> h1.marked[o] = "free"
       /\ \A o \in Obj : h2.marked[o] = "free" <=> g1.marked[o] = "free"
       /\ \A o \in Obj : h3.marked[o] = "free" <=> h2.marked[o] = "free"
  <2>1. \A o \in Obj : g0.marked[o] = "free" <=> marked[o] = "free"
    BY <1>1, <1>3, FreeKept
  <2>2. \A o \in Obj : h1.marked[o] = "free" <=> g0.marked[o] = "free"
    BY <1>0, <1>3, PropagateGrayKeeps
  <2>3. \A o \in Obj : g1.marked[o] = "free" <=> h1.marked[o] = "free"
    BY <1>9, FreeKept DEF g1
  <2>4. \A o \in Obj : h2.marked[o] = "free" <=> g1.marked[o] = "free"
    BY <1>0, <1>10, PropagateGrayKeeps
  <2>5. \A o \in Obj : h3.marked[o] = "free" <=> w2.marked[o] = "free"
    <3>1. h3 = PropagateGray(w2) /\ MarkInv(w2, old)
      BY <1>0, <1>15
    <3> QED
      BY <3>1, PropagateGrayKeeps
  <2> QED
    BY <1>15, <2>1, <2>2, <2>3, <2>4, <2>5
<1>19. MarkInv(h3, pending)
  BY <1>17 DEF MarkInv, BlackDone
<1>20. /\ MarkInv(g3, {}) /\ Covered(g3, g3.gray)
       /\ \A o \in pending : ~IsWhite(g3.marked, o)
       /\ \A o \in Obj \cup {Nil} : IsWhite(g3.marked, o) => IsWhite(h3.marked, o) /\ g3.marked[o] = h3.marked[o]
       /\ \A o \in Obj : g3.marked[o] = "free" <=> h3.marked[o] = "free"
  BY <1>17, <1>19, <1>18, MarkPendingKeeps DEF g3
<1>21. MarkInv(h4, {}) /\ h4.gray = {}
  BY <1>0, <1>20, PropagateGrayKeeps
<1>22. Covered(h4, {})
  <2>1. Covered(g3, {} \cup g3.gray)
    BY <1>20 DEF Covered
  <2> QED
    BY <1>0, <1>20, <2>1, PropagateGrayCovers
<1>23. \A o \in Obj \cup {Nil} : IsWhite(h4.marked, o) => IsWhite(g3.marked, o) /\ h4.marked[o] = g3.marked[o]
  BY <1>0, <1>20, PropagateGrayKeeps
<1>24. \A o \in Obj \cup {Nil} : IsWhite(h3.marked, o) => IsWhite(w2.marked, o) /\ h3.marked[o] = w2.marked[o]
  <2>1. h3 = PropagateGray(w2) /\ MarkInv(w2, old)
    BY <1>0, <1>15
  <2> QED
    BY <2>1, PropagateGrayKeeps
<1>25. \A o \in Obj \cup {Nil} : IsWhite(h2.marked, o) => IsWhite(g1.marked, o) /\ h2.marked[o] = g1.marked[o]
  BY <1>0, <1>10, PropagateGrayKeeps
<1>26. \A o \in Obj \cup {Nil} : IsWhite(h1.marked, o) => IsWhite(g0.marked, o) /\ h1.marked[o] = g0.marked[o]
  BY <1>0, <1>3, PropagateGrayKeeps
<1>27. \A o \in Obj \cup {Nil} : IsWhite(g1.marked, o) => IsWhite(w1.marked, o) /\ g1.marked[o] = w1.marked[o]
  BY <1>9, MarkAllMarks, ColorFacts DEF g1, IsWhite
<1>28. \A o \in Obj \cup {Nil} : IsWhite(g0.marked, o) => IsWhite(h0.marked, o) /\ g0.marked[o] = h0.marked[o]
  BY <1>1, <1>3, MarkAllMarks, ColorFacts DEF IsWhite
<1>29. ~IsWhite(g1.marked, running) /\ ~IsWhite(g1.marked, Main)
  BY <1>9, MarkAllMarks, KindType DEF g1, TypeInv
<1>30. \A o \in Obj \cup {Nil} : IsWhite(h4.marked, o) => IsWhite(g1.marked, o) /\ h4.marked[o] = g1.marked[o]
  BY <1>15, <1>20, <1>23, <1>24, <1>25
<1>31. \A o \in pending \cup {running, Main} : ~IsWhite(h4.marked, o)
  BY <1>20, <1>23, <1>29, <1>30, KindType DEF TypeInv
<1>32. \A o \in Obj \cup {Nil} : IsWhite(h4.marked, o) => IsWhite(marked, o) /\ h4.marked[o] = marked[o]
  BY <1>9, <1>26, <1>27, <1>28, <1>30
<1>33. \A o \in Obj : h4.marked[o] = "free" <=> marked[o] = "free"
  <2>1. \A o \in Obj : h4.marked[o] = "free" <=> g3.marked[o] = "free"
    BY <1>0, <1>20, PropagateGrayKeeps
  <2> QED
    BY <1>20, <1>18, <2>1
<1> QED
  BY <1>21, <1>22, <1>31, <1>32, <1>33
-------------------------------------------------------------------------------
(* What a marking does not reach.                                          *)

\* White objects that are neither the threads that are marked first nor userdata
\* to be finalized, and that nothing else keeps alive.
Garbage(d) ==
  /\ d \subseteq Obj /\ \A o \in d : IsWhite(marked, o)
  /\ d \cap ({Main, running} \cup ToFinalize) = {}
  /\ \A o \in Allocated \ d : KeptBy(o) \cap d = {}

\* A marking that has not reached them.
Spares(h, d) ==
  /\ IsMarking(h)
  /\ \A o \in d : h.marked[o] = marked[o]
  /\ h.gray \cup h.grayagain \cup h.weak \subseteq Allocated \ d
  /\ \A o \in Obj : marked[o] = "free" => h.marked[o] = "free"

\* Marking what is not garbage spares the garbage.
LEMMA MarkAllSpares ==
  ASSUME TypeInv, NEW d, Garbage(d), NEW h, Spares(h, d), NEW objs, objs \cap d = {}
  PROVE  Spares(MarkAll(h, objs), d)
<1> DEFINE r == MarkAll(h, objs)
           new == NewlyMarked(h, objs)
           x == White(h) \ d
<1>1. IsMarking(h) /\ d \subseteq Obj
  BY DEF Spares, Garbage
<1>2. \A o \in White(h) : o \in Allocated
  BY ColorFacts DEF Spares, White, IsWhite, Allocated
<1>3. new \subseteq x
  <2>1. \A o \in x \cap Inner : Strong(o) \cap White(h) \subseteq x
    BY <1>2 DEF Garbage, KeptBy
  <2>2. x \in SUBSET White(h) /\ objs \cap White(h) \subseteq x
    OBVIOUS
  <2> HIDE DEF x
  <2> QED
    BY <2>1, <2>2, MarkedWithLeast DEF NewlyMarked
<1>4. /\ IsMarking(r)
      /\ r.marked = [o \in Obj |-> IF o \in new THEN MarkedColor[o] ELSE h.marked[o]]
      /\ r.gray = h.gray \cup {o \in new : IsTraversed(o)}
      /\ r.weak = h.weak /\ r.grayagain = h.grayagain
  BY <1>1, MarkAllShape
<1> HIDE DEF r, new
<1>5. \A o \in new : o \in Allocated /\ o \notin d
  BY <1>2, <1>3
<1>6. \A o \in Obj : r.marked[o] = IF o \in new THEN MarkedColor[o] ELSE h.marked[o]
  BY <1>4
<1> QED
  BY <1>1, <1>4, <1>5, <1>6 DEF Spares, Allocated, r

\* Traversing what is not garbage spares it, too.
LEMMA TraversedSpares ==
  ASSUME TypeInv, NEW d, Garbage(d), NEW h, Spares(h, d), NEW objs, objs \subseteq Allocated \ d
  PROVE  Spares(Traversed(h, objs), d)
<1> DEFINE r == Traversed(h, objs)
<1>1. IsMarking(h) /\ d \subseteq Obj /\ objs \in SUBSET Obj
  BY DEF Spares, Garbage, Allocated
<1>2. /\ IsMarking(r)
      /\ r.marked = [o \in Obj |-> IF o \in objs THEN TraversedColor[o] ELSE h.marked[o]]
      /\ r.gray = h.gray \ objs
      /\ r.weak = h.weak \cup {o \in objs : kind[o] \in {"weakkey", "weakval"}}
      /\ r.grayagain = h.grayagain \cup {o \in objs : kind[o] = "thread"}
  BY <1>1, TraversedShape
<1> HIDE DEF r
<1>3. \A o \in Obj : r.marked[o] = IF o \in objs THEN TraversedColor[o] ELSE h.marked[o]
  BY <1>2
<1> QED
  BY <1>1, <1>2, <1>3 DEF Spares, Allocated, r

\* So do the steps of the propagate phase, and gc_propagate_gray.
LEMMA PropagateSpares ==
  ASSUME TypeInv, NEW d, Garbage(d), NEW h, Spares(h, d)
  PROVE  /\ \A o \in h.gray : Spares(PropagateMark(h, o), d)
         /\ Spares(PropagateGray(h), d)
<1>1. h.gray \subseteq Allocated \ d /\ \A o \in Allocated \ d : Strong(o) \cap d = {}
  BY DEF Spares, Garbage, KeptBy
<1>2. ASSUME NEW o \in h.gray
      PROVE  Spares(PropagateMark(h, o), d)
  <2>1. Spares(Traversed(h, {o}), d)
    BY <1>1, TraversedSpares
  <2> QED
    BY <1>1, <2>1, MarkAllSpares DEF PropagateMark
<1>3. Spares(PropagateGray(h), d)
  <2> DEFINE start == UNION {Strong(o) : o \in h.gray}
             new == MarkedWith(White(h), start, Obj)
             x == White(h) \ d
  <2>1. \A o \in White(h) : o \in Allocated
    BY ColorFacts DEF Spares, White, IsWhite, Allocated
  <2>2. new \subseteq x
    <3>1. start \cap White(h) \subseteq x /\ x \in SUBSET White(h)
      BY <1>1
    <3>2. \A o \in x \cap Obj : Strong(o) \cap White(h) \subseteq x
      BY <1>1, <2>1
    <3> HIDE DEF x, start
    <3> QED
      BY <3>1, <3>2, MarkedWithLeast
  <2>3. h.gray \cup new \subseteq Allocated \ d
    BY <1>1, <2>1, <2>2
  <2>4. PropagateGray(h) = Traversed(h, h.gray \cup new)
    BY DEF PropagateGray
  <2> HIDE DEF new
  <2> QED
    BY <2>3, <2>4, TraversedSpares
<1> QED
  BY <1>2, <1>3

\* The userdata to be finalized are no garbage, nor are those that come to be.
LEMMA MarkPendingSpares ==
  ASSUME TypeInv, NEW d, Garbage(d), NEW h, Spares(h, d), NEW objs, objs \subseteq Allocated \ d
  PROVE  Spares(MarkPending(h, objs), d)
<1> DEFINE w == [h EXCEPT !.marked = [o \in Obj |-> IF o \in objs THEN gc.white ELSE @[o]]]
<1>1. MarkPending(h, objs) = MarkAll(w, objs)
  BY Zenon DEF MarkPending
<1>2. /\ IsMarking(w)
      /\ \A o \in Obj : w.marked[o] = IF o \in objs THEN gc.white ELSE h.marked[o]
      /\ w.gray = h.gray /\ w.weak = h.weak /\ w.grayagain = h.grayagain
  BY ColorFacts DEF Spares, IsMarking, Colors
<1> HIDE DEF w
<1>3. Spares(w, d)
  BY <1>2 DEF Spares, Garbage, Allocated
<1> QED
  BY <1>1, <1>3, MarkAllSpares

\* The atomic phase does not reach the garbage.
LEMMA AtomicSpares ==
  ASSUME TypeInv, FieldsInv, NEW d, Garbage(d), NEW h0, Spares(h0, d), h0.marked = marked,
         NEW h1, NEW h2, NEW h3, NEW h4, NEW h5, NEW pending,
         AtomicMarks(h0, h1, h2, h3, h4, h5, pending),
         pending \subseteq Allocated \ d, \A t \in h4.weak : kind[t] \in TabKinds
  PROVE  \A o \in d : h5.marked[o] = marked[o]
<1> DEFINE open == {UpvalVal(o) : o \in {u \in Allocated : openAt[u] # Nil /\ h0.marked[u] = "gray"}}
           w1 == [h1 EXCEPT !.gray = h1.weak, !.weak = {}]
           w2 == [h2 EXCEPT !.gray = h2.grayagain, !.grayagain = {}]
<1>1. Spares(h1, d)
  <2>1. ASSUME NEW u \in Allocated, openAt[u] # Nil, h0.marked[u] = "gray"
        PROVE  UpvalVal(u) \notin d
    <3>1. u \notin d
      BY <2>1, ColorFacts DEF Garbage, IsWhite
    <3>2. UpvalVal(u) \in KeptBy(u)
      BY <2>1, StrongOf DEF KeptBy, FieldsInv, Allocated
    <3> QED
      BY <3>1, <3>2 DEF Garbage
  <2>2. open \cap d = {}
    BY <2>1
  <2>3. h1 = PropagateGray(MarkAll(h0, open))
    BY Zenon DEF AtomicMarks, MarkOpenUpvals
  <2> HIDE DEF open
  <2>4. Spares(MarkAll(h0, open), d)
    BY <2>2, MarkAllSpares
  <2> QED
    BY <2>3, <2>4, PropagateSpares
<1>2. Spares(h2, d)
  <2>1. Spares(w1, d)
    BY <1>1 DEF Spares, IsMarking
  <2>2. h2 = PropagateGray(MarkAll(w1, {running, Main}))
    BY Zenon DEF AtomicMarks
  <2> HIDE DEF w1
  <2>3. Spares(MarkAll(w1, {running, Main}), d)
    BY <2>1, MarkAllSpares DEF Garbage
  <2> QED
    BY <2>2, <2>3, PropagateSpares
<1>3. Spares(h3, d)
  <2>1. Spares(w2, d)
    BY <1>2 DEF Spares, IsMarking
  <2>2. h3 = PropagateGray(w2)
    BY Zenon DEF AtomicMarks
  <2> HIDE DEF w2
  <2> QED
    BY <2>1, <2>2, PropagateSpares
<1>4. Spares(h4, d)
  <2>1. h4 = PropagateGray(MarkPending(h3, pending))
    BY Zenon DEF AtomicMarks
  <2>2. Spares(MarkPending(h3, pending), d)
    BY <1>3, MarkPendingSpares
  <2> QED
    BY <2>1, <2>2, PropagateSpares
<1>5. Spares(h5, d)
  <2>1. WeakStrings(h4.weak) \cap d = {}
    <3> SUFFICES ASSUME NEW v \in WeakStrings(h4.weak)
                 PROVE  v \notin d
      OBVIOUS
    <3>1. PICK t \in h4.weak : v \in WeakStrings({t})
      BY DEF WeakStrings
    <3>2. t \in Allocated \ d /\ kind[t] \in TabKinds
      BY <1>4 DEF Spares
    <3> QED
      BY <3>1, <3>2 DEF KeptBy, Garbage
  <2>2. h5 = MarkAll(h4, WeakStrings(h4.weak))
    BY Zenon DEF AtomicMarks
  <2> QED
    BY <1>4, <2>1, <2>2, MarkAllSpares
<1> QED
  BY <1>5 DEF Spares
-------------------------------------------------------------------------------
(***************************************************************************)
(* The steps of the collector.                                             *)
(***************************************************************************)

IsLive(o) == marked[o] # "free" /\ ~IsDead(o)
Sweeping == gc.state \in {"sweepstring", "sweep"}
Between == gc.state \in {"pause", "finalize"}

\* What is live refers to what is live only, between any two steps. Userdata to
\* be finalized are live.
LiveInv ==
  /\ IsLive(Main) /\ IsLive(running) /\ (finalizing # Nil => IsLive(finalizing))
  /\ \A o \in Pending : IsLive(o)
  /\ \A o \in Obj : IsLive(o) => \A v \in Refs(o) \ {Nil} : IsLive(v)

\* What has not been swept is allocated, and everything that does not have the
\* current white is to be swept yet.
SweepInv ==
  /\ \A o \in gc.unswept : marked[o] # "free" /\ openAt[o] = Nil
  /\ \A o \in Allocated \ Pending : marked[o] # gc.white =>
       o \in gc.unswept \/ (openAt[o] # Nil /\ openAt[o].thread \in gc.unswept)

\* What holds of the colors in each phase.
PhaseInv ==
  /\ ColorInv(marked)
  /\ Marking => MarkInv(Marks, Pending)
  /\ Between => \A o \in Allocated \ Pending : marked[o] = gc.white
  /\ ~Sweeping => \A o \in Obj : marked[o] # OtherWhite(gc.white)
  /\ Sweeping => SweepInv

CoreInv == TypeInv /\ FieldsInv /\ LiveInv /\ PhaseInv
SafeInv == CoreInv /\ FinalizerInv /\ kind \notin Debug
-------------------------------------------------------------------------------
(* Steps that change no fields.                                            *)

LEMMA SameShape ==
  ASSUME UNCHANGED <<kind, fields, openAt>>, NEW o
  PROVE  /\ Strong(o)' = Strong(o) /\ Refs(o)' = Refs(o) /\ UpvalVal(o)' = UpvalVal(o)
         /\ IsTraversed(o)' = IsTraversed(o) /\ IsClosed(o)' = IsClosed(o)
         /\ Empty(o)' = Empty(o)
<1>1. UpvalVal(o)' = UpvalVal(o)
  BY DEF UpvalVal
<1>2. Strong(o)' = Strong(o)
  BY <1>1 DEF Strong
<1>3. Readable(o)' = Readable(o)
  BY DEF Readable, UpvalVal
<1>4. Refs(o)' = Refs(o)
  BY <1>2, <1>3 DEF Refs
<1> QED
  BY <1>1, <1>2, <1>4 DEF IsTraversed, IsClosed, Empty

\* The fields of a closed upvalue, as a function.
LEMMA OneField ==
  ASSUME NEW S, NEW v \in S
  PROVE  [val |-> v] \in [{"val"} -> S] /\ [val |-> v]["val"] = v
OBVIOUS

\* The collector is in one phase.
LEMMA PhaseFacts ==
  ASSUME TypeInv
  PROVE  /\ Marking \/ Sweeping \/ Between
         /\ ~(Marking /\ Sweeping) /\ ~(Marking /\ Between) /\ ~(Sweeping /\ Between)
BY DEF TypeInv, States, Marking, Sweeping, Between

\* What an object refers to are objects.
LEMMA RefsType ==
  ASSUME TypeInv, FieldsInv, NEW o \in Obj
  PROVE  /\ Refs(o) \subseteq Obj \cup {Nil}
         /\ kind[o] \in TabKinds =>
              Refs(o) = IF fields[o].val = Nil THEN {} ELSE {fields[o].key, fields[o].val}
         /\ kind[o] \notin TabKinds => Refs(o) = Strong(o)
<1>1. CASE kind[o] \in TabKinds
  <2>1. fields[o] \in [{"key", "val"} -> Obj \cup {Nil}]
    BY <1>1, KindFields DEF TypeInv
  <2>2. Refs(o) = IF fields[o].val = Nil THEN {} ELSE {fields[o].key, fields[o].val}
    BY <1>1 DEF Refs, Readable, TabKinds
  <2> QED
    BY <1>1, <2>1, <2>2
<1>2. CASE kind[o] \notin TabKinds
  BY <1>2, StrongType DEF Refs
<1> QED
  BY <1>1, <1>2

\* A step that changes at most colors of what is live.
LEMMA ColorsOnly ==
  ASSUME SafeInv, UNCHANGED <<kind, fields, openAt, running>>,
         marked' \in [Obj -> Colors],
         gc' \in [state : States, white : Whites,
                  gray : SUBSET Obj, grayagain : SUBSET Obj, weak : SUBSET Obj,
                  mmudata : Seq(Obj), finalized : SUBSET Obj, unswept : SUBSET Obj],
         full' \in {"no", "finish", "cycle"}, doomed' \subseteq Obj,
         \A o \in Obj : marked'[o] = "free" <=> marked[o] = "free",
         \A o \in Obj : IsLive(o)' <=> IsLive(o),
         finalizing' = Nil \/ finalizing' \in {o \in Obj : IsLive(o) /\ kind[o] = "udata"},
         Pending' \subseteq Pending
  PROVE  TypeInv' /\ FieldsInv' /\ LiveInv'
<1>1. TypeInv'
  BY DEF SafeInv, CoreInv, TypeInv, Placed
<1>2. FieldsInv'
  <2>1. \A o \in Obj : openAt[o] # Nil => openAt[o].thread \in Obj
    BY DEF SafeInv, CoreInv, TypeInv, Placed
  <2> QED
    BY <2>1, SameShape DEF SafeInv, CoreInv, FieldsInv, Values
<1>3. LiveInv'
  <2>1. Pending \subseteq Obj
    BY DEF SafeInv, CoreInv, TypeInv, Pending, ToSet
  <2>2. \A o \in Obj : Refs(o)' = Refs(o) /\ Refs(o) \subseteq Obj \cup {Nil}
    BY RefsType, SameShape DEF SafeInv, CoreInv
  <2>3. Main \in Obj /\ running \in Obj
    BY HeapAssumption DEF SafeInv, CoreInv, TypeInv
  <2>4. ASSUME NEW o \in Obj, IsLive(o)', NEW v \in Refs(o)' \ {Nil}
        PROVE  IsLive(v)'
    BY <2>2, <2>4 DEF SafeInv, CoreInv, LiveInv
  <2>5. IsLive(Main)' /\ IsLive(running)'
    BY <2>3 DEF SafeInv, CoreInv, LiveInv
  <2>6. \A o \in Pending' : IsLive(o)'
    BY <2>1 DEF SafeInv, CoreInv, LiveInv
  <2>7. (finalizing # Nil => IsLive(finalizing))'
    OBVIOUS
  <2> QED
    BY <2>4, <2>5, <2>6, <2>7 DEF LiveInv
<1> QED
  BY <1>1, <1>2, <1>3

\* The marks are a marking.
LEMMA MarksType ==
  ASSUME TypeInv
  PROVE  /\ IsMarking(Marks)
         /\ Marks.marked = marked /\ Marks.gray = gc.gray
         /\ Marks.grayagain = gc.grayagain /\ Marks.weak = gc.weak
BY DEF TypeInv, IsMarking, Marks

\* The same marking, in the next state.
LEMMA SameMarking ==
  ASSUME UNCHANGED <<kind, fields, openAt>>, gc'.white = gc.white, Pending' = Pending,
         NEW h, MarkInv(h, Pending),
         (Marks)' = h
  PROVE  MarkInv(Marks, Pending)'
<1>1. \A o : /\ Strong(o)' = Strong(o)
             /\ IsTraversed(o)' = IsTraversed(o) /\ IsClosed(o)' = IsClosed(o)
  BY SameShape
<1>2. IsMarking(Marks)'
  BY DEF MarkInv, IsMarking
<1>3. ColorInv(Marks.marked)'
  BY <1>1 DEF MarkInv, ColorInv
<1>4. ListsInv(Marks)'
  BY <1>1 DEF MarkInv, ListsInv
<1>5. BlackDone(Marks.marked, Obj \ Pending)'
  BY <1>1 DEF MarkInv, BlackDone, Done, IsWhite
<1> QED
  BY <1>2, <1>3, <1>4, <1>5 DEF MarkInv, OtherWhite

\* In a marking without dead objects, what is allocated is live.
LEMMA AllocatedIsLive ==
  ASSUME TypeInv, ~Sweeping, PhaseInv, NEW o \in Obj
  PROVE  IsLive(o) <=> marked[o] # "free"
BY DEF PhaseInv, IsLive, IsDead

\* A step that sets the marks to those of h, in the mark phase or at its start.
LEMMA SetMarksSafe ==
  ASSUME SafeInv, UNCHANGED <<kind, fields, openAt, running, finalizing>>,
         ~Sweeping, NEW h, MarkInv(h, Pending),
         \A o \in Obj : h.marked[o] = "free" <=> marked[o] = "free",
         NEW state \in {"propagate", "atomic"},
         marked' = h.marked,
         gc' = [gc EXCEPT !.state = state, !.gray = h.gray, !.grayagain = h.grayagain, !.weak = h.weak],
         full' \in {"no", "finish", "cycle"}, doomed' \subseteq Obj
  PROVE  CoreInv'
<1>1. /\ h.marked \in [Obj -> Colors] /\ h.gray \subseteq Obj /\ h.grayagain \subseteq Obj /\ h.weak \subseteq Obj
      /\ h = [marked |-> h.marked, gray |-> h.gray, grayagain |-> h.grayagain, weak |-> h.weak]
  BY DEF MarkInv, IsMarking
<1>2. /\ gc' \in [state : States, white : Whites,
                  gray : SUBSET Obj, grayagain : SUBSET Obj, weak : SUBSET Obj,
                  mmudata : Seq(Obj), finalized : SUBSET Obj, unswept : SUBSET Obj]
      /\ gc'.state = state /\ gc'.white = gc.white /\ gc'.mmudata = gc.mmudata
      /\ gc'.gray = h.gray /\ gc'.grayagain = h.grayagain /\ gc'.weak = h.weak
  BY <1>1 DEF SafeInv, CoreInv, TypeInv, States
<1>3. (Marks)' = h
  BY <1>1, <1>2 DEF Marks
<1>4. Pending' = Pending
  BY <1>2 DEF Pending
<1>5. MarkInv(Marks, Pending)'
  BY <1>2, <1>3, <1>4, SameMarking
<1>6. \A o \in Obj : marked'[o] # OtherWhite(gc'.white)
  BY <1>2 DEF MarkInv
<1>7. \A o \in Obj : IsLive(o)' <=> IsLive(o)
  BY <1>6, AllocatedIsLive DEF SafeInv, CoreInv, IsLive, IsDead
<1>8. TypeInv' /\ FieldsInv' /\ LiveInv'
  BY <1>1, <1>2, <1>4, <1>7, ColorsOnly DEF SafeInv, CoreInv, TypeInv, LiveInv
<1>9. PhaseInv'
  BY <1>2, <1>3, <1>5, <1>6 DEF PhaseInv, Marking, Sweeping, Between, MarkInv, Marks
<1> QED
  BY <1>8, <1>9 DEF CoreInv
-------------------------------------------------------------------------------
(* The mark phase.                                                         *)

\* Userdata are what waits to be finalized.
LEMMA PendingType ==
  ASSUME TypeInv, FinalizerInv
  PROVE  /\ Pending \subseteq Obj
         /\ \A o \in Pending : kind[o] = "udata" /\ o \notin gc.unswept
BY DEF TypeInv, FinalizerInv, Waiting, Pending, ToSet

\* gc_mark_start, from a state in which everything is white.
LEMMA MarkStartSafe ==
  ASSUME SafeInv, Between, MarkStart, UNCHANGED <<kind, fields, openAt, running, finalizing>>,
         full' \in {"no", "finish", "cycle"}, doomed' \subseteq Obj
  PROVE  CoreInv'
<1> DEFINE h0 == [marked |-> marked, gray |-> {}, grayagain |-> {}, weak |-> {}]
           h == MarkAll(h0, {Main})
<1>0. TypeInv /\ FieldsInv /\ FinalizerInv
  BY DEF SafeInv, CoreInv
<1>1. /\ marked' = h.marked
      /\ gc' = [gc EXCEPT !.state = "propagate", !.gray = h.gray, !.grayagain = {}, !.weak = {}]
  BY Zenon DEF MarkStart
<1>2. IsMarking(h0) /\ h0.marked = marked /\ h0.gray = {} /\ h0.grayagain = {} /\ h0.weak = {}
  BY <1>0 DEF TypeInv, IsMarking
<1> HIDE DEF h0
<1>3. ~Sweeping /\ (\A o \in Obj : marked[o] # OtherWhite(gc.white)) /\ ColorInv(marked)
      /\ \A o \in Obj : marked[o] # "free" /\ o \notin Pending => marked[o] = gc.white
  BY <1>0, PhaseFacts DEF SafeInv, CoreInv, PhaseInv, Allocated
<1>4. MarkInv(h0, Pending)
  <2>1. \A o \in Obj : IsTraversed(o) => marked[o] # "gray"
    BY <1>0, <1>3, PendingType, ColorFacts DEF IsTraversed, TabKinds
  <2>2. ListsInv(h0)
    BY <1>2, <2>1 DEF ListsInv
  <2>3. \A o \in Obj \ Pending : marked[o] # "black"
    BY <1>0, <1>3, ColorFacts
  <2> QED
    BY <1>2, <1>3, <2>2, <2>3 DEF MarkInv, BlackDone
<1>5. MarkInv(h, Pending)
  BY <1>0, <1>4, MarkAllKeeps
<1>6. h.grayagain = {} /\ h.weak = {} /\ \A o \in Obj : h.marked[o] = "free" <=> marked[o] = "free"
  <2>1. h.grayagain = {} /\ h.weak = {}
    BY <1>2, MarkAllShape
  <2>2. \A o \in Obj : h.marked[o] = "free" <=> marked[o] = "free"
    BY <1>0, <1>2, FreeKept
  <2> QED
    BY <2>1, <2>2
<1> HIDE DEF h
<1>7. gc' = [gc EXCEPT !.state = "propagate", !.gray = h.gray, !.grayagain = h.grayagain, !.weak = h.weak]
  BY <1>1, <1>6
<1> QED
  BY <1>1, <1>3, <1>5, <1>6, <1>7, SetMarksSafe

\* A step of the propagate phase.
LEMMA PropagateSafe ==
  ASSUME SafeInv, gc.state = "propagate", Propagate,
         UNCHANGED <<kind, fields, openAt, running, finalizing, full, doomed>>
  PROVE  CoreInv'
<1>0. TypeInv /\ FieldsInv /\ MarkInv(Marks, Pending) /\ ~Sweeping
  BY DEF SafeInv, CoreInv, PhaseInv, Marking, Sweeping
<1>1. PICK o \in gc.gray :
        LET h == PropagateMark(Marks, o)
        IN  /\ marked' = h.marked
            /\ gc' = [gc EXCEPT !.gray = h.gray, !.grayagain = h.grayagain, !.weak = h.weak]
  BY Zenon DEF Propagate
<1> DEFINE t == Traversed(Marks, {o})
           h == PropagateMark(Marks, o)
<1>2. o \in Marks.gray /\ IsMarking(Marks) /\ Marks.marked = marked /\ o \in Obj
  BY <1>0, <1>1, MarksType DEF TypeInv
<1>3. MarkInv(h, Pending)
  BY <1>0, <1>2, PropagateMarkKeeps
<1>4. marked[o] = "gray"
  BY <1>0, <1>2 DEF MarkInv, ListsInv
<1>5. IsMarking(t) /\ t.marked = [x \in Obj |-> IF x \in {o} THEN TraversedColor[x] ELSE marked[x]]
  BY <1>2, TraversedShape
<1>6. \A x \in Obj : t.marked[x] = "free" <=> marked[x] = "free"
  BY <1>4, <1>5, MarkedColorOf
<1>7. h = MarkAll(t, Strong(o))
  BY DEF PropagateMark
<1> HIDE DEF t
<1>8. \A x \in Obj : h.marked[x] = "free" <=> marked[x] = "free"
  BY <1>0, <1>5, <1>6, <1>7, FreeKept
<1>9. gc' = [gc EXCEPT !.state = "propagate", !.gray = h.gray, !.grayagain = h.grayagain, !.weak = h.weak]
  BY <1>0, <1>1 DEF TypeInv
<1>10. full' \in {"no", "finish", "cycle"} /\ doomed' \subseteq Obj
  BY <1>0 DEF TypeInv
<1> HIDE DEF h
<1> QED
  BY <1>0, <1>1, <1>3, <1>8, <1>9, <1>10, SetMarksSafe DEF h

\* Its end.
LEMMA EndPropagateSafe ==
  ASSUME SafeInv, gc.state = "propagate", EndPropagate,
         UNCHANGED <<kind, fields, openAt, running, finalizing, full, doomed>>
  PROVE  CoreInv'
<1>0. TypeInv /\ MarkInv(Marks, Pending) /\ ~Sweeping
  BY DEF SafeInv, CoreInv, PhaseInv, Marking, Sweeping
<1>1. Marks.marked = marked /\ Marks.gray = gc.gray /\ Marks.grayagain = gc.grayagain /\ Marks.weak = gc.weak
  BY <1>0, MarksType
<1>2. /\ marked' = Marks.marked
      /\ gc' = [gc EXCEPT !.state = "atomic", !.gray = Marks.gray, !.grayagain = Marks.grayagain,
                          !.weak = Marks.weak]
  BY <1>0, <1>1 DEF EndPropagate, TypeInv
<1>3. full' \in {"no", "finish", "cycle"} /\ doomed' \subseteq Obj
  BY <1>0 DEF TypeInv
<1> QED
  BY <1>0, <1>1, <1>2, <1>3, SetMarksSafe
-------------------------------------------------------------------------------
(* Finalizers and full collections.                                        *)

\* The phase facts when colors and what they depend on are the same.
LEMMA SamePhase ==
  ASSUME SafeInv, UNCHANGED <<kind, marked, fields, openAt, gc>>
  PROVE  PhaseInv'
<1>1. \A o \in Obj : IsClosed(o)' = IsClosed(o)
  BY SameShape
<1>2. ColorInv(marked)'
  BY <1>1 DEF SafeInv, CoreInv, PhaseInv, ColorInv
<1>3. (Marks)' = Marks /\ Pending' = Pending /\ Allocated' = Allocated
  BY DEF Marks, Pending, Allocated
<1>4. Marking' => MarkInv(Marks, Pending)'
  BY <1>3, SameMarking DEF SafeInv, CoreInv, PhaseInv, Marking
<1>5. SweepInv' <=> SweepInv
  BY <1>3 DEF SweepInv
<1> QED
  BY <1>2, <1>3, <1>4, <1>5 DEF SafeInv, CoreInv, PhaseInv, Marking, Sweeping, Between

\* gc_finalize: the userdata is white again, and live.
LEMMA FinalizeSafe ==
  ASSUME SafeInv, gc.state = "finalize", Finalize,
         UNCHANGED <<kind, fields, openAt, running, full, doomed>>
  PROVE  CoreInv'
<1>0. TypeInv /\ FinalizerInv /\ LiveInv /\ PhaseInv /\ ~Sweeping /\ ~Marking /\ Between
  BY DEF SafeInv, CoreInv, Sweeping, Marking, Between
<1>1. PICK o : /\ o = Head(gc.mmudata)
               /\ marked' = [marked EXCEPT ![o] = gc.white]
               /\ finalizing' = o
               /\ gc.mmudata # <<>>
               /\ gc' = [gc EXCEPT !.mmudata = Tail(@)]
  BY DEF Finalize
<1>2. /\ gc' \in [state : States, white : Whites,
                  gray : SUBSET Obj, grayagain : SUBSET Obj, weak : SUBSET Obj,
                  mmudata : Seq(Obj), finalized : SUBSET Obj, unswept : SUBSET Obj]
      /\ gc'.state = gc.state /\ gc'.white = gc.white /\ gc'.mmudata = Tail(gc.mmudata)
  <2>1. gc.mmudata \in Seq(Obj)
    BY <1>0 DEF TypeInv
  <2>2. Tail(gc.mmudata) \in Seq(Obj)
    BY <1>1, <2>1
  <2> QED
    BY <1>0, <1>1, <2>2 DEF TypeInv
<1>3. o \in Pending /\ Pending' \subseteq Pending /\ Pending \subseteq Pending' \cup {o}
  <2> DEFINE s == gc.mmudata
  <2>1. s \in Seq(Obj) /\ s # <<>>
    BY <1>0, <1>1 DEF TypeInv
  <2>2. /\ 1 \in 1..Len(s) /\ o = s[1]
        /\ \A n \in 1..Len(Tail(s)) : n + 1 \in 1..Len(s) /\ Tail(s)[n] = s[n + 1]
        /\ \A n \in 1..Len(s) : n = 1 \/ (n - 1 \in 1..Len(Tail(s)) /\ Tail(s)[n - 1] = s[n])
    BY <1>1, <2>1
  <2>3. DOMAIN s = 1..Len(s) /\ DOMAIN Tail(s) = 1..Len(Tail(s))
    BY <2>1
  <2>4. Pending = {s[n] : n \in 1..Len(s)}
    BY <2>3 DEF Pending, ToSet
  <2>5. Pending' = {Tail(s)[n] : n \in 1..Len(Tail(s))}
    BY <1>2, <2>3 DEF Pending, ToSet
  <2> HIDE DEF s
  <2>6. ASSUME NEW x \in Pending'
        PROVE  x \in Pending
    <3>1. PICK n \in 1..Len(Tail(s)) : x = Tail(s)[n]
      BY <2>5, <2>6
    <3> QED
      BY <2>2, <2>4, <3>1
  <2>7. ASSUME NEW x \in Pending, x # o
        PROVE  x \in Pending'
    <3>1. PICK n \in 1..Len(s) : x = s[n]
      BY <2>4, <2>7
    <3> QED
      BY <2>2, <2>5, <2>7, <3>1
  <2> QED
    BY <2>2, <2>4, <2>6, <2>7
<1>4. o \in Obj /\ IsLive(o) /\ kind[o] = "udata"
  BY <1>0, <1>3, PendingType DEF LiveInv
<1>5. /\ marked' \in [Obj -> Colors]
      /\ \A x \in Obj : marked'[x] = IF x = o THEN gc.white ELSE marked[x]
  BY <1>0, <1>1, <1>4, ColorFacts DEF TypeInv, Colors
<1>6. \A x \in Obj : (marked'[x] = "free" <=> marked[x] = "free") /\ (IsLive(x)' <=> IsLive(x))
  BY <1>0, <1>2, <1>4, <1>5, ColorFacts DEF IsLive, IsDead
<1>7. TypeInv' /\ FieldsInv' /\ LiveInv'
  <2>1. full' \in {"no", "finish", "cycle"} /\ doomed' \subseteq Obj
    BY <1>0 DEF TypeInv
  <2> QED
    BY <1>1, <1>2, <1>3, <1>4, <1>5, <1>6, <2>1, ColorsOnly
<1>8. \A x \in Obj : IsClosed(x)' = IsClosed(x)
  BY SameShape
<1>9. ColorInv(marked)'
  BY <1>0, <1>5, <1>8, ColorFacts DEF PhaseInv, ColorInv
<1>10. \A x \in Obj : marked'[x] # OtherWhite(gc.white)
  BY <1>0, <1>5, ColorFacts DEF PhaseInv
<1>11. \A x \in (Allocated \ Pending)' : marked'[x] = gc.white
  BY <1>0, <1>3, <1>5, <1>6 DEF PhaseInv, Allocated
<1>12. Between' /\ ~Marking' /\ ~Sweeping'
  BY <1>0, <1>2 DEF Between, Marking, Sweeping
<1>13. PhaseInv'
  BY <1>2, <1>9, <1>10, <1>11, <1>12 DEF PhaseInv
<1> QED
  BY <1>7, <1>13 DEF CoreInv

\* A step that changes the collector's state from one between two cycles to
\* another, or that only notes where a full collection or a finalizer is.
LEMMA BetweenSafe ==
  ASSUME SafeInv, UNCHANGED <<kind, marked, fields, openAt, running>>,
         finalizing' \in {Nil, finalizing},
         gc' = gc \/ (Between /\ \E state \in {"pause", "finalize"} : gc' = [gc EXCEPT !.state = state]),
         full' \in {"no", "finish", "cycle"}, doomed' \subseteq Obj
  PROVE  CoreInv'
<1>0. TypeInv /\ FieldsInv /\ LiveInv /\ PhaseInv
  BY DEF SafeInv, CoreInv
<1>1. /\ gc' \in [state : States, white : Whites,
                  gray : SUBSET Obj, grayagain : SUBSET Obj, weak : SUBSET Obj,
                  mmudata : Seq(Obj), finalized : SUBSET Obj, unswept : SUBSET Obj]
      /\ gc'.white = gc.white /\ gc'.mmudata = gc.mmudata
  BY <1>0 DEF TypeInv, States
<1>2. Pending' = Pending /\ \A o \in Obj : IsLive(o)' <=> IsLive(o)
  BY <1>1 DEF Pending, IsLive, IsDead
<1>3. TypeInv' /\ FieldsInv' /\ LiveInv'
  BY <1>0, <1>1, <1>2, ColorsOnly DEF TypeInv, LiveInv
<1>4. CASE gc' = gc
  BY <1>3, <1>4, SamePhase DEF CoreInv
<1>5. CASE Between /\ \E state \in {"pause", "finalize"} : gc' = [gc EXCEPT !.state = state]
  <2>1. gc'.state \in {"pause", "finalize"}
    BY <1>0, <1>5 DEF TypeInv
  <2>2. Between' /\ ~Marking' /\ ~Sweeping' /\ ~Sweeping
    BY <1>5, <2>1 DEF Between, Marking, Sweeping
  <2>3. \A o \in Obj : IsClosed(o)' = IsClosed(o)
    BY SameShape
  <2>4. ColorInv(marked)'
    BY <1>0, <2>3 DEF PhaseInv, ColorInv
  <2>5. PhaseInv'
    BY <1>0, <1>1, <1>2, <1>5, <2>2, <2>4 DEF PhaseInv, Allocated
  <2> QED
    BY <1>3, <2>5 DEF CoreInv
<1> QED
  BY <1>4, <1>5

\* lj_gc_fullgc lists everything to be swept; nothing is dead.
LEMMA FullGCSafe ==
  ASSUME SafeInv, FullGC
  PROVE  CoreInv'
<1>0. TypeInv /\ FieldsInv /\ FinalizerInv /\ LiveInv /\ PhaseInv
  BY DEF SafeInv, CoreInv
<1>1. CASE gc' = gc
  <2>1. full' \in {"no", "finish", "cycle"} /\ doomed' \subseteq Obj
    BY <1>0 DEF FullGC, TypeInv
  <2> QED
    BY <1>1, <2>1, BetweenSafe DEF FullGC
<1>2. CASE /\ gc.state \in {"pause", "propagate", "atomic"}
           /\ gc' = [gc EXCEPT !.state = "sweepstring", !.gray = {}, !.grayagain = {}, !.weak = {},
                               !.unswept = Listed(Pending)]
  <2>1. Listed(Pending) \subseteq Obj
    BY DEF Listed, Allocated
  <2>2. /\ gc' \in [state : States, white : Whites,
                    gray : SUBSET Obj, grayagain : SUBSET Obj, weak : SUBSET Obj,
                    mmudata : Seq(Obj), finalized : SUBSET Obj, unswept : SUBSET Obj]
        /\ gc'.state = "sweepstring" /\ gc'.white = gc.white /\ gc'.mmudata = gc.mmudata
        /\ gc'.unswept = Listed(Pending)
    BY <1>0, <1>2, <2>1 DEF TypeInv, States
  <2>3. Pending' = Pending /\ \A o \in Obj : IsLive(o)' <=> IsLive(o)
    BY <2>2 DEF Pending, IsLive, IsDead, FullGC
  <2>4. TypeInv' /\ FieldsInv' /\ LiveInv'
    BY <1>0, <2>2, <2>3, ColorsOnly DEF TypeInv, LiveInv, FullGC
  <2>5. ColorInv(marked)'
    <3>1. \A o \in Obj : IsClosed(o)' = IsClosed(o)
      BY SameShape DEF FullGC
    <3> QED
      BY <1>0, <3>1 DEF PhaseInv, ColorInv, FullGC
  <2>6. SweepInv'
    <3>1. \A o \in Listed(Pending) : marked[o] # "free" /\ openAt[o] = Nil
      BY <1>0 DEF Listed, Allocated, FieldsInv
    <3>2. ASSUME NEW o \in Allocated \ Pending, o \notin Listed(Pending)
          PROVE  openAt[o] # Nil /\ openAt[o].thread \in Listed(Pending)
      <4>1. openAt[o] # Nil /\ o \in Obj
        BY <3>2 DEF Listed, Allocated
      <4>2. /\ openAt[o].thread \in Obj /\ kind[openAt[o].thread] = "thread"
            /\ marked[openAt[o].thread] # "free"
        BY <1>0, <4>1 DEF TypeInv, FieldsInv, Placed
      <4> QED
        BY <1>0, <4>1, <4>2, PendingType DEF Listed, Allocated
    <3> QED
      BY <2>2, <2>3, <3>1, <3>2 DEF SweepInv, Allocated, FullGC
  <2>7. PhaseInv'
    BY <2>2, <2>5, <2>6 DEF PhaseInv, Marking, Between, Sweeping
  <2> QED
    BY <2>4, <2>7 DEF CoreInv
<1> QED
  BY <1>1, <1>2 DEF FullGC
-------------------------------------------------------------------------------
(* The atomic phase.                                                       *)

\* What an atomic phase makes of a marking h5, of its weak tables, and of the
\* userdata it finds.
LEMMA AtomicShape ==
  ASSUME Atomic
  PROVE  \E h1, h2, h3, h4, h5, mmudata, finalized :
           /\ AtomicMarks(Marks, h1, h2, h3, h4, h5, ToSet(mmudata))
           /\ mmudata = gc.mmudata \o SetToSeq(Separated(h3))
           /\ finalized = gc.finalized \cup Separated(h3)
           /\ marked' = h5.marked
           /\ fields' = [t \in Obj |-> IF t \in h4.weak THEN Cleared(h4, finalized, t) ELSE fields[t]]
           /\ gc' = [state |-> "sweepstring", white |-> OtherWhite(gc.white),
                     gray |-> h5.gray, grayagain |-> h5.grayagain, weak |-> h5.weak,
                     mmudata |-> mmudata, finalized |-> finalized, unswept |-> Listed(ToSet(mmudata))]
<1> DEFINE h1 == PropagateGray(MarkOpenUpvals(Marks))
           h2 == PropagateGray(MarkAll([h1 EXCEPT !.gray = h1.weak, !.weak = {}], {running, Main}))
           h3 == PropagateGray([h2 EXCEPT !.gray = h2.grayagain, !.grayagain = {}])
           mmudata == gc.mmudata \o SetToSeq(Separated(h3))
           finalized == gc.finalized \cup Separated(h3)
           h4 == PropagateGray(MarkPending(h3, ToSet(mmudata)))
           h5 == MarkAll(h4, WeakStrings(h4.weak))
<1>1. /\ marked' = h5.marked
      /\ fields' = [t \in Obj |-> IF t \in h4.weak THEN Cleared(h4, finalized, t) ELSE fields[t]]
      /\ gc' = [state |-> "sweepstring", white |-> OtherWhite(gc.white),
                gray |-> h5.gray, grayagain |-> h5.grayagain, weak |-> h5.weak,
                mmudata |-> mmudata, finalized |-> finalized, unswept |-> Listed(ToSet(mmudata))]
  BY Zenon DEF Atomic
<1>2. AtomicMarks(Marks, h1, h2, h3, h4, h5, ToSet(mmudata))
  BY Zenon DEF AtomicMarks
<1> HIDE DEF h1, h2, h3, h4, h5, mmudata, finalized
<1>3. mmudata = gc.mmudata \o SetToSeq(Separated(h3)) /\ finalized = gc.finalized \cup Separated(h3)
  BY DEF mmudata, finalized
<1> QED
  BY <1>1, <1>2, <1>3

\* An entry of a weak table that is not cleared has neither a key nor a value
\* that is white, unless it is a string.
LEMMA ClearedShape ==
  ASSUME TypeInv, NEW h, NEW finalized, NEW t \in Obj, kind[t] \in {"weakkey", "weakval"}
  PROVE  LET entry == Cleared(h, finalized, t)
         IN  /\ entry \in [{"key", "val"} -> Obj \cup {Nil}]
             /\ entry.key = fields[t].key
             /\ entry.val \in {Nil, fields[t].val}
             /\ entry.val # Nil => \A v \in {entry.key, entry.val} \ {Nil} :
                                     kind[v] = "str" \/ ~IsWhite(h.marked, v)
<1>1. fields[t] \in [{"key", "val"} -> Obj \cup {Nil}]
  BY KindFields DEF TypeInv, TabKinds
<1>2. CASE MayClear(h, finalized, fields[t].key, FALSE) \/ MayClear(h, finalized, fields[t].val, TRUE)
  <2>1. Cleared(h, finalized, t) = [fields[t] EXCEPT !.val = Nil]
    BY <1>2 DEF Cleared
  <2> QED
    BY <1>1, <2>1
<1>3. CASE ~(MayClear(h, finalized, fields[t].key, FALSE) \/ MayClear(h, finalized, fields[t].val, TRUE))
  <2>1. Cleared(h, finalized, t) = fields[t]
    BY <1>3 DEF Cleared
  <2> QED
    BY <1>1, <1>3, <2>1 DEF MayClear
<1> QED
  BY <1>2, <1>3

\* All that is left to do for weak tables is to mark strings.
LEMMA WeakStringsMarked ==
  ASSUME TypeInv, FieldsInv, NEW h, MarkInv(h, {}), NEW tabs
  PROVE  LET r == MarkAll(h, WeakStrings(tabs))
         IN  /\ MarkInv(r, {})
             /\ \A o \in Obj : r.marked[o] = h.marked[o] \/ (kind[o] = "str" /\ r.marked[o] = "gray")
             /\ \A o \in WeakStrings(tabs) \cap Obj : ~IsWhite(r.marked, o)
             /\ \A o \in Obj : r.marked[o] = "free" <=> h.marked[o] = "free"
<1> DEFINE objs == WeakStrings(tabs)
           r == MarkAll(h, objs)
           new == NewlyMarked(h, objs)
<1>1. \A o \in objs : kind[o] = "str"
  BY DEF WeakStrings
<1> HIDE DEF objs
<1>2. \A x \in SUBSET White(h) : /\ objs \cap White(h) \subseteq x
                                 /\ \A o \in x \cap Inner : Strong(o) \cap White(h) \subseteq x
                                 => new \subseteq x
  BY MarkedWithLeast DEF NewlyMarked
<1>3. new \subseteq objs
  <2> DEFINE x == objs \cap White(h)
  <2>1. x \in SUBSET White(h) /\ objs \cap White(h) \subseteq x
    OBVIOUS
  <2>2. \A o \in x \cap Inner : Strong(o) \subseteq {}
    BY <1>1, StrongOf DEF Inner
  <2>3. \A o \in x \cap Inner : Strong(o) \cap White(h) \subseteq x
    BY <2>2
  <2> HIDE DEF x, new
  <2>4. new \subseteq x
    BY <1>2, <2>1, <2>3
  <2> QED
    BY <2>4 DEF x
<1>4. IsMarking(h) /\ MarkInv(r, {})
  BY MarkAllKeeps DEF MarkInv
<1>5. r.marked = [o \in Obj |-> IF o \in new THEN MarkedColor[o] ELSE h.marked[o]]
  BY <1>4, MarkAllShape
<1>6. \A o \in Obj \cap objs : MarkedColor[o] = "gray"
  BY <1>1, MarkedColorOf DEF IsClosed
<1>7. \A o \in Obj : r.marked[o] = "free" <=> h.marked[o] = "free"
  BY <1>4, FreeKept
<1>8. \A o \in objs \cap Obj : ~IsWhite(r.marked, o)
  BY <1>4, MarkAllMarks
<1> HIDE DEF r, new
<1>9. \A o \in Obj : r.marked[o] = h.marked[o] \/ (kind[o] = "str" /\ r.marked[o] = "gray")
  BY <1>1, <1>3, <1>5, <1>6
<1> QED
  BY <1>4, <1>7, <1>8, <1>9 DEF r, objs

\* An atomic phase: which userdata are to be finalized, and what holds of its
\* markings when they have been marked.
AtomicResult(h1, h2, h3, h4, h5, mmudata, finalized) ==
  /\ AtomicMarks(Marks, h1, h2, h3, h4, h5, ToSet(mmudata))
  /\ mmudata = gc.mmudata \o SetToSeq(Separated(h3))
  /\ finalized = gc.finalized \cup Separated(h3)
  /\ marked' = h5.marked
  /\ fields' = [t \in Obj |-> IF t \in h4.weak THEN Cleared(h4, finalized, t) ELSE fields[t]]
  /\ gc' = [state |-> "sweepstring", white |-> OtherWhite(gc.white),
            gray |-> h5.gray, grayagain |-> h5.grayagain, weak |-> h5.weak,
            mmudata |-> mmudata, finalized |-> finalized, unswept |-> Listed(ToSet(mmudata))]
  /\ mmudata \in Seq(Obj)
  /\ Pending \subseteq ToSet(mmudata) /\ ToSet(mmudata) \subseteq Pending \cup Separated(h3)
  /\ \A o \in ToSet(mmudata) : o \in Obj /\ kind[o] = "udata" /\ marked[o] # "free"
  /\ MarkInv(h4, {}) /\ h4.gray = {} /\ Covered(h4, {})
  /\ \A o \in ToSet(mmudata) \cup {running, Main} : ~IsWhite(h4.marked, o)
  /\ \A o \in Obj \cup {Nil} : IsWhite(h4.marked, o) => IsWhite(marked, o) /\ h4.marked[o] = marked[o]
  /\ \A o \in Obj : h4.marked[o] = "free" <=> marked[o] = "free"

\* The lists have been worked off, and all that has been marked is done.
LEMMA AtomicFacts ==
  ASSUME SafeInv, gc.state = "atomic", Atomic
  PROVE  \E h1, h2, h3, h4, h5, mmudata, finalized :
           AtomicResult(h1, h2, h3, h4, h5, mmudata, finalized)
<1>0. /\ TypeInv /\ FieldsInv /\ LiveInv /\ PhaseInv /\ FinalizerInv
      /\ MarkInv(Marks, Pending) /\ ~Sweeping
  BY DEF SafeInv, CoreInv, PhaseInv, Marking, Sweeping
<1>1. PICK h1, h2, h3, h4, h5, mmudata, finalized :
        /\ AtomicMarks(Marks, h1, h2, h3, h4, h5, ToSet(mmudata))
        /\ mmudata = gc.mmudata \o SetToSeq(Separated(h3))
        /\ finalized = gc.finalized \cup Separated(h3)
        /\ marked' = h5.marked
        /\ fields' = [t \in Obj |-> IF t \in h4.weak THEN Cleared(h4, finalized, t) ELSE fields[t]]
        /\ gc' = [state |-> "sweepstring", white |-> OtherWhite(gc.white),
                  gray |-> h5.gray, grayagain |-> h5.grayagain, weak |-> h5.weak,
                  mmudata |-> mmudata, finalized |-> finalized, unswept |-> Listed(ToSet(mmudata))]
  BY Zenon, AtomicShape
<1> DEFINE pending == ToSet(mmudata)
<1>2. Separated(h3) \subseteq Obj /\ IsFiniteSet(Separated(h3))
      /\ \A o \in Separated(h3) : kind[o] = "udata" /\ marked[o] # "free"
  BY FS_Subset, HeapAssumption DEF Separated, Allocated
<1>3. /\ mmudata \in Seq(Obj)
      /\ Pending \subseteq pending /\ pending \subseteq Pending \cup Separated(h3)
  <2>1. gc.mmudata \in Seq(Obj) /\ SetToSeq(Separated(h3)) \in Seq(Separated(h3))
    BY <1>0, <1>2, SetToSeqOnce DEF TypeInv
  <2> DEFINE a == gc.mmudata
             b == SetToSeq(Separated(h3))
  <2>2. /\ mmudata = a \o b /\ a \in Seq(Obj) /\ b \in Seq(Separated(h3))
    BY <1>1, <2>1
  <2>3. b \in Seq(Obj)
    BY <1>2, <2>2
  <2>4. Pending = {a[n] : n \in DOMAIN a} /\ pending = {mmudata[n] : n \in DOMAIN mmudata}
    BY DEF Pending, ToSet
  <2> HIDE DEF a, b
  <2>5. /\ mmudata \in Seq(Obj)
        /\ \A n \in DOMAIN a : n \in DOMAIN mmudata /\ mmudata[n] = a[n]
        /\ \A n \in DOMAIN mmudata : (n \in DOMAIN a /\ mmudata[n] = a[n]) \/ mmudata[n] \in Separated(h3)
    BY <2>2, <2>3
  <2> HIDE DEF pending
  <2>6. ASSUME NEW x \in Pending
        PROVE  x \in pending
    BY <2>4, <2>5, <2>6
  <2>7. ASSUME NEW x \in pending
        PROVE  x \in Pending \cup Separated(h3)
    BY <2>4, <2>5, <2>7
  <2> QED
    BY <2>5, <2>6, <2>7
<1>4. pending \in SUBSET Obj /\ \A o \in pending : kind[o] = "udata" /\ marked[o] # "free"
  BY <1>0, <1>2, <1>3, PendingType, AllocatedIsLive DEF LiveInv
<1>5. /\ MarkInv(h4, {}) /\ h4.gray = {} /\ Covered(h4, {})
      /\ \A o \in pending \cup {running, Main} : ~IsWhite(h4.marked, o)
      /\ \A o \in Obj \cup {Nil} : IsWhite(h4.marked, o) => IsWhite(marked, o) /\ h4.marked[o] = marked[o]
      /\ \A o \in Obj : h4.marked[o] = "free" <=> marked[o] = "free"
  <2>1. Marks.marked = marked
    BY <1>0, MarksType
  <2>2. AtomicMarks(Marks, h1, h2, h3, h4, h5, pending)
    BY <1>1
  <2> HIDE DEF pending
  <2> QED
    BY <1>0, <1>3, <1>4, <2>1, <2>2, AtomicCovers
<1>6. AtomicResult(h1, h2, h3, h4, h5, mmudata, finalized)
  BY <1>1, <1>3, <1>4, <1>5 DEF AtomicResult
<1> QED
  BY <1>6

\* The atomic phase: what is white when it ends is dead, and nothing live refers
\* to it: the references of weak tables are cleared, or to strings, which are
\* marked.
LEMMA AtomicSafe ==
  ASSUME SafeInv, gc.state = "atomic", finalizing = Nil, Atomic,
         UNCHANGED <<kind, openAt, running, finalizing, full, called, doomed>>
  PROVE  CoreInv'
<1>0. /\ TypeInv /\ FieldsInv /\ LiveInv /\ PhaseInv /\ FinalizerInv
      /\ MarkInv(Marks, Pending) /\ ~Sweeping
  BY DEF SafeInv, CoreInv, PhaseInv, Marking, Sweeping
<1>1. PICK h1, h2, h3, h4, h5, mmudata, finalized : AtomicResult(h1, h2, h3, h4, h5, mmudata, finalized)
  BY AtomicFacts
<1>2. /\ AtomicMarks(Marks, h1, h2, h3, h4, h5, ToSet(mmudata))
      /\ mmudata = gc.mmudata \o SetToSeq(Separated(h3))
      /\ finalized = gc.finalized \cup Separated(h3)
      /\ marked' = h5.marked
      /\ fields' = [t \in Obj |-> IF t \in h4.weak THEN Cleared(h4, finalized, t) ELSE fields[t]]
      /\ gc' = [state |-> "sweepstring", white |-> OtherWhite(gc.white),
                gray |-> h5.gray, grayagain |-> h5.grayagain, weak |-> h5.weak,
                mmudata |-> mmudata, finalized |-> finalized, unswept |-> Listed(ToSet(mmudata))]
      /\ mmudata \in Seq(Obj)
      /\ Pending \subseteq ToSet(mmudata) /\ ToSet(mmudata) \subseteq Pending \cup Separated(h3)
      /\ \A o \in ToSet(mmudata) : o \in Obj /\ kind[o] = "udata" /\ marked[o] # "free"
      /\ MarkInv(h4, {}) /\ h4.gray = {} /\ Covered(h4, {})
      /\ \A o \in ToSet(mmudata) \cup {running, Main} : ~IsWhite(h4.marked, o)
      /\ \A o \in Obj \cup {Nil} : IsWhite(h4.marked, o) => IsWhite(marked, o) /\ h4.marked[o] = marked[o]
      /\ \A o \in Obj : h4.marked[o] = "free" <=> marked[o] = "free"
  BY <1>1 DEF AtomicResult
<1> DEFINE pending == ToSet(mmudata)
<1>3. /\ gc'.state = "sweepstring" /\ gc'.white = OtherWhite(gc.white) /\ gc'.mmudata = mmudata
      /\ gc'.unswept = Listed(pending)
      /\ Pending' = pending
  BY <1>2 DEF Pending
<1>4. Separated(h3) \subseteq Obj /\ \A o \in Separated(h3) : kind[o] = "udata" /\ marked[o] # "free"
  BY DEF Separated, Allocated
<1>5. /\ mmudata \in Seq(Obj)
      /\ Pending \subseteq pending /\ pending \subseteq Pending \cup Separated(h3)
  BY <1>2
<1>6. pending \in SUBSET Obj /\ \A o \in pending : kind[o] = "udata" /\ marked[o] # "free"
  BY <1>2
<1>7. /\ MarkInv(h4, {}) /\ h4.gray = {} /\ Covered(h4, {})
      /\ \A o \in pending \cup {running, Main} : ~IsWhite(h4.marked, o)
      /\ \A o \in Obj \cup {Nil} : IsWhite(h4.marked, o) => IsWhite(marked, o) /\ h4.marked[o] = marked[o]
      /\ \A o \in Obj : h4.marked[o] = "free" <=> marked[o] = "free"
  BY <1>2
<1>8. h5 = MarkAll(h4, WeakStrings(h4.weak))
  BY <1>2, Zenon DEF AtomicMarks
<1>9. /\ MarkInv(h5, {})
      /\ \A o \in Obj : h5.marked[o] = h4.marked[o] \/ (kind[o] = "str" /\ h5.marked[o] = "gray")
      /\ \A o \in WeakStrings(h4.weak) \cap Obj : ~IsWhite(h5.marked, o)
      /\ \A o \in Obj : h5.marked[o] = "free" <=> h4.marked[o] = "free"
  BY <1>0, <1>7, <1>8, WeakStringsMarked
<1>10. /\ h4.weak \subseteq Obj /\ \A t \in h4.weak : kind[t] \in {"weakkey", "weakval"} /\ marked[t] # "free"
      /\ \A t \in Obj : kind[t] \in {"weakkey", "weakval"} /\ h4.marked[t] \in {"gray", "black"} => t \in h4.weak
  <2>1. h4.weak \subseteq Obj /\ \A t \in h4.weak : kind[t] \in {"weakkey", "weakval"} /\ h4.marked[t] = "gray"
    BY <1>7 DEF MarkInv, IsMarking, ListsInv
  <2>2. \A t \in Obj : kind[t] \in {"weakkey", "weakval"} /\ h4.marked[t] \in {"gray", "black"} => t \in h4.weak
    BY <1>7 DEF MarkInv, ColorInv, ListsInv, IsTraversed, IsClosed, TabKinds
  <2> QED
    BY <1>7, <2>1, <2>2
<1> HIDE DEF pending
<1>11. \A o \in Obj : IsLive(o)' <=> h5.marked[o] \in {"gray", "black"}
  <2>1. OtherWhite(OtherWhite(gc.white)) = gc.white
    BY <1>0 DEF TypeInv, Whites, OtherWhite
  <2>2. \A o \in Obj : h5.marked[o] \in Colors /\ h5.marked[o] # OtherWhite(gc.white)
    BY <1>9 DEF MarkInv, IsMarking
  <2> QED
    BY <1>0, <1>2, <1>3, <2>1, <2>2, ColorFacts DEF IsLive, IsDead
<1>12. \A o \in Obj : IsLive(o)' <=> marked[o] # "free" /\ ~IsWhite(h5.marked, o)
  <2>1. \A o \in Obj : h5.marked[o] \in Colors /\ (h5.marked[o] = "free" <=> marked[o] = "free") /\ o # Nil
    BY <1>7, <1>9, HeapAssumption DEF MarkInv, IsMarking
  <2> QED
    BY <1>0, <1>11, <2>1, ColorFacts DEF IsWhite
<1>13. \A o \in Obj : IsWhite(h5.marked, o) => IsWhite(h4.marked, o)
  BY <1>0, <1>9, ColorFacts DEF IsWhite
<1>14. \A t \in h4.weak : /\ fields'[t] = Cleared(h4, finalized, t)
                          /\ fields'[t] \in [{"key", "val"} -> Obj \cup {Nil}]
                          /\ fields'[t].key = fields[t].key
                          /\ fields'[t].val \in {Nil, fields[t].val}
                          /\ fields'[t].val # Nil => \A v \in {fields'[t].key, fields'[t].val} \ {Nil} :
                                                       kind[v] = "str" \/ ~IsWhite(h4.marked, v)
  BY <1>0, <1>2, <1>10, ClearedShape
<1>15. \A o \in Obj \ h4.weak : fields'[o] = fields[o]
  BY <1>2
<1>16. TypeInv'
  <2>1. marked' \in [Obj -> Colors]
    BY <1>2, <1>9 DEF MarkInv, IsMarking
  <2>2. DOMAIN fields' = Obj /\ \A o \in Obj : fields'[o] \in [FieldsOf(kind[o]) -> Obj \cup {Nil}]
    <3>1. DOMAIN fields' = Obj
      BY <1>2
    <3>2. \A t \in h4.weak : FieldsOf(kind[t]) = {"key", "val"}
      BY <1>10, KindFields DEF TabKinds
    <3> QED
      BY <1>0, <1>14, <1>15, <3>1, <3>2 DEF TypeInv
  <2>3. gc' \in [state : States, white : Whites,
                 gray : SUBSET Obj, grayagain : SUBSET Obj, weak : SUBSET Obj,
                 mmudata : Seq(Obj), finalized : SUBSET Obj, unswept : SUBSET Obj]
    <3>1. h5.gray \subseteq Obj /\ h5.grayagain \subseteq Obj /\ h5.weak \subseteq Obj
      BY <1>9 DEF MarkInv, IsMarking
    <3>2. Listed(pending) \subseteq Obj
      BY DEF Listed, Allocated
    <3>3. finalized \subseteq Obj
      BY <1>0, <1>2, <1>4 DEF TypeInv
    <3> QED
      BY <1>0, <1>2, <1>5, <3>1, <3>2, <3>3, ColorFacts DEF States, pending
  <2> QED
    BY <1>0, <2>1, <2>2, <2>3 DEF TypeInv
<1>17. \A o \in Obj : openAt[o] # Nil => /\ openAt[o].thread \in Obj /\ openAt[o].thread \notin h4.weak
                                        /\ kind[openAt[o].thread] = "thread"
                                        /\ marked[openAt[o].thread] # "free"
  BY <1>0, <1>10 DEF TypeInv, FieldsInv, Placed
<1>18. \A o \in Obj : marked'[o] = "free" <=> marked[o] = "free"
  BY <1>2, <1>7, <1>9
<1>19. FieldsInv'
  <2>1. ASSUME NEW o \in Obj \ h4.weak
        PROVE  /\ kind[o] \in TabKinds \cup {"thread", "upval"} =>
                    \A f \in FieldsOf(kind[o]) : fields'[o][f] \in Values \cup {Nil}
               /\ kind[o] = "udata" => fields'[o].env = Nil \/ kind[fields'[o].env] \in TabKinds
               /\ kind[o] = "func" /\ marked'[o] # "free" => fields'[o].uv # Nil /\ kind[fields'[o].uv] = "upval"
               /\ marked'[o] = "free" => fields'[o] = Empty(o) /\ openAt[o] = Nil
    BY <1>0, <1>15, <1>18 DEF FieldsInv
  <2>2. ASSUME NEW o \in h4.weak
        PROVE  /\ kind[o] \in {"weakkey", "weakval"} /\ marked'[o] # "free"
               /\ \A f \in {"key", "val"} : fields'[o][f] \in Values \cup {Nil}
    <3>1. \A f \in {"key", "val"} : fields[o][f] \in Values \cup {Nil}
      BY <1>0, <1>10, KindFields DEF FieldsInv, TabKinds
    <3> QED
      BY <1>10, <1>14, <1>18, <3>1
  <2>3. \A o \in Obj : /\ kind[o] = "none" => marked'[o] = "free"
                       /\ openAt[o] # Nil => kind[o] = "upval"
    BY <1>0, <1>18 DEF FieldsInv
  <2>4. Values' = Values /\ \A o \in Obj : Empty(o)' = Empty(o)
    BY DEF Values, Empty
  <2>5. ASSUME NEW o \in Obj
        PROVE  /\ kind[o] \in TabKinds \cup {"thread", "upval"} =>
                    \A f \in FieldsOf(kind[o]) : fields'[o][f] \in Values \cup {Nil}
               /\ kind[o] = "udata" => fields'[o].env = Nil \/ kind[fields'[o].env] \in TabKinds
               /\ kind[o] = "func" /\ marked'[o] # "free" => fields'[o].uv # Nil /\ kind[fields'[o].uv] = "upval"
               /\ marked'[o] = "free" => fields'[o] = Empty(o) /\ openAt[o] = Nil
    <3>1. CASE o \in h4.weak
      BY <2>2, <3>1, KindFields DEF TabKinds
    <3>2. CASE o \notin h4.weak
      BY <2>1, <3>2
    <3> QED
      BY <3>1, <3>2
  <2> QED
    BY <1>17, <1>18, <2>3, <2>4, <2>5 DEF FieldsInv
<1>20. ASSUME NEW o \in Obj, IsLive(o)', NEW v \in Refs(o)' \ {Nil}
       PROVE  IsLive(v)'
  <2>1. marked[o] # "free" /\ h5.marked[o] \in {"gray", "black"} /\ IsLive(o)
    BY <1>0, <1>11, <1>12, <1>20, AllocatedIsLive
  <2>2. CASE o \in h4.weak
    <3>1. Refs(o)' = IF fields'[o].val = Nil THEN {} ELSE {fields'[o].key, fields'[o].val}
      BY <1>10, <2>2 DEF Refs, Readable, TabKinds
    <3>2. Refs(o) = IF fields[o].val = Nil THEN {} ELSE {fields[o].key, fields[o].val}
      BY <1>0, <1>10, <2>2, RefsType DEF TabKinds
    <3>3. fields[o].val # Nil /\ v \in {fields[o].key, fields[o].val} /\ v \in Refs(o) /\ v \in Obj
      BY <1>14, <1>20, <2>2, <3>1, <3>2
    <3>4. kind[v] = "str" \/ ~IsWhite(h4.marked, v)
      BY <1>14, <1>20, <2>2, <3>1
    <3>5. kind[v] = "str" => v \in WeakStrings(h4.weak)
      BY <1>20, <2>2, <3>3 DEF WeakStrings
    <3>6. ~IsWhite(h5.marked, v)
      BY <1>9, <1>13, <3>3, <3>4, <3>5
    <3>7. marked[v] # "free"
      BY <1>0, <1>20, <2>1, <3>3 DEF LiveInv, IsLive
    <3> QED
      BY <1>12, <3>3, <3>6, <3>7
  <2>3. CASE o \notin h4.weak
    <3>1. UpvalVal(o)' = UpvalVal(o)
      BY <1>15, <1>17, <2>3 DEF UpvalVal
    <3>2. Refs(o)' = Refs(o)
      <4>1. CASE kind[o] \in TabKinds
        BY <1>15, <2>3, <4>1 DEF Refs, Readable, TabKinds
      <4>2. CASE kind[o] \notin TabKinds
        <5>1. Strong(o)' = Strong(o)
          BY <1>15, <2>3, <3>1, <4>2 DEF Strong
        <5> QED
          BY <4>2, <5>1 DEF Refs
      <4> QED
        BY <4>1, <4>2
    <3>3. v \in Refs(o) /\ v \in Obj /\ marked[v] # "free"
      BY <1>0, <1>20, <2>1, <3>2, RefsType DEF LiveInv, IsLive
    <3>4. kind[o] # "str"
      BY <1>0, <3>3, RefsType, StrongOf DEF TabKinds
    <3>5. h4.marked[o] \in {"gray", "black"} /\ kind[o] \notin {"weakkey", "weakval"}
      BY <1>9, <1>10, <2>1, <2>3, <3>4
    <3>6. v \in Strong(o)
      BY <1>0, <3>3, <3>5, RefsType, StrongOf DEF TabKinds
    <3>7. ~IsWhite(h4.marked, v)
      BY <1>7, <3>5, <3>6 DEF Covered, Done
    <3> QED
      BY <1>12, <1>13, <3>3, <3>7
  <2> QED
    BY <2>2, <2>3
<1>21. LiveInv'
  <2>1. ASSUME NEW o \in pending \cup {running, Main}
        PROVE  IsLive(o)'
    <3>1. o \in Obj /\ ~IsWhite(h5.marked, o)
      BY <1>6, <1>7, <1>13, KindType, <1>0 DEF TypeInv
    <3>2. marked[o] # "free"
      BY <1>0, <1>6 DEF LiveInv, IsLive
    <3> QED
      BY <1>12, <3>1, <3>2
  <2>2. IsLive(Main)' /\ IsLive(running)' /\ (\A o \in Pending' : IsLive(o)')
    BY <1>3, <2>1
  <2> QED
    BY <1>20, <2>2 DEF LiveInv
<1>22. ColorInv(marked)'
  <2>1. \A o : IsClosed(o)' = IsClosed(o)
    BY DEF IsClosed
  <2> QED
    BY <1>2, <1>9, <2>1 DEF MarkInv, ColorInv
<1>23. SweepInv'
  <2>1. \A o \in Listed(pending) : o \in Obj /\ marked[o] # "free" /\ openAt[o] = Nil
    BY <1>0 DEF Listed, Allocated, FieldsInv
  <2>2. ASSUME NEW o \in Obj, marked[o] # "free", o \notin pending, o \notin Listed(pending)
        PROVE  openAt[o] # Nil /\ openAt[o].thread \in Listed(pending)
    <3>1. openAt[o] # Nil
      BY <2>2 DEF Listed, Allocated
    <3>2. /\ openAt[o].thread \in Obj /\ kind[openAt[o].thread] = "thread"
          /\ marked[openAt[o].thread] # "free"
      BY <1>17, <3>1
    <3> QED
      BY <1>6, <3>1, <3>2 DEF Listed, Allocated
  <2> QED
    BY <1>3, <1>18, <2>1, <2>2 DEF SweepInv, Allocated
<1>24. PhaseInv'
  <2>1. Sweeping' /\ ~Marking' /\ ~Between'
    BY <1>3 DEF Sweeping, Marking, Between
  <2> QED
    BY <1>22, <1>23, <2>1 DEF PhaseInv
<1> QED
  BY <1>16, <1>19, <1>21, <1>24 DEF CoreInv
-------------------------------------------------------------------------------
(* The sweep phase.                                                        *)

\* Sweeping an object frees it when it is dead, and else makes it white. What is
\* live stays so and refers to the same objects, a closed upvalue to its value.
LEMMA SweepSafe ==
  ASSUME SafeInv, Sweeping, NEW o \in gc.unswept, Sweep({o}),
         UNCHANGED <<kind, running, finalizing, full>>
  PROVE  CoreInv'
<1> DEFINE upvals == UNION {OpenUpvals(t) : t \in {x \in {o} : kind[x] = "thread"}}
           swept == {o} \cup upvals
           freed == {x \in swept : IsDead(x)}
           closed == {u \in upvals \ freed : openAt[u].thread \in freed}
<1>0. TypeInv /\ FieldsInv /\ FinalizerInv /\ LiveInv /\ PhaseInv /\ SweepInv
  BY DEF SafeInv, CoreInv, PhaseInv
<1>1. /\ marked' = [x \in Obj |-> IF x \in swept THEN SweptColor(x) ELSE marked[x]]
      /\ fields' = [x \in Obj |-> IF x \in freed THEN Empty(x)
                                  ELSE IF x \in closed THEN [val |-> UpvalVal(x)] ELSE fields[x]]
      /\ openAt' = [x \in Obj |-> IF x \in freed \cup closed THEN Nil ELSE openAt[x]]
      /\ doomed' = doomed \ freed
      /\ gc' = [gc EXCEPT !.unswept = @ \ {o}, !.finalized = @ \ freed]
  BY Zenon DEF Sweep
<1>2. /\ o \in Obj /\ marked[o] # "free" /\ openAt[o] = Nil
      /\ \A x \in Obj : x \in upvals <=> marked[x] # "free" /\ openAt[x] # Nil /\ openAt[x].thread = o
      /\ upvals \subseteq Obj
  <2>1. o \in Obj /\ marked[o] # "free" /\ openAt[o] = Nil
    BY <1>0 DEF SweepInv, TypeInv
  <2>2. \A x \in Obj : openAt[x] # Nil /\ openAt[x].thread = o => kind[o] = "thread"
    BY <1>0 DEF FieldsInv
  <2>3. upvals = IF kind[o] = "thread" THEN OpenUpvals(o) ELSE {}
    OBVIOUS
  <2> QED
    BY <2>1, <2>2, <2>3 DEF OpenUpvals, Allocated
<1>3. freed \subseteq swept /\ \A x \in swept : x \in freed <=> IsDead(x)
  OBVIOUS
<1>4. closed \subseteq upvals \ freed /\ \A u \in upvals \ freed : u \in closed <=> openAt[u].thread \in freed
  OBVIOUS
<1> HIDE DEF upvals, freed, closed
<1>5. /\ swept \subseteq Obj /\ freed \subseteq Obj /\ closed \subseteq Obj
      /\ \A x \in upvals : kind[x] = "upval" /\ openAt[x] # Nil /\ marked[x] # "free" /\ x # o
  BY <1>0, <1>2, <1>3, <1>4 DEF FieldsInv
<1>6. /\ gc' \in [state : States, white : Whites,
                  gray : SUBSET Obj, grayagain : SUBSET Obj, weak : SUBSET Obj,
                  mmudata : Seq(Obj), finalized : SUBSET Obj, unswept : SUBSET Obj]
      /\ gc'.state = gc.state /\ gc'.white = gc.white /\ gc'.mmudata = gc.mmudata
      /\ gc'.unswept = gc.unswept \ {o}
  BY <1>0, <1>1 DEF TypeInv
<1>7. \A x \in Obj : /\ x \in freed => marked'[x] = "free"
                     /\ x \in swept /\ x \notin freed => marked'[x] = gc.white
                     /\ x \notin swept => marked'[x] = marked[x]
  BY <1>1, <1>3 DEF SweptColor
<1>8. \A x \in Obj : /\ x \in freed => fields'[x] = Empty(x)
                     /\ x \in closed => fields'[x] = [val |-> UpvalVal(x)]
                     /\ x \notin freed /\ x \notin closed => fields'[x] = fields[x]
  BY <1>1, <1>4
<1>9. \A x \in Obj : openAt'[x] = IF x \in freed \cup closed THEN Nil ELSE openAt[x]
  BY <1>1
<1>10. \A x \in Obj : marked'[x] = "free" <=> marked[x] = "free" \/ x \in freed
  BY <1>0, <1>2, <1>5, <1>7, ColorFacts
<1>11. \A x \in Obj : Empty(x) \in [FieldsOf(kind[x]) -> Obj \cup {Nil}]
  BY DEF Empty
<1>12. TypeInv'
  <2>1. marked' \in [Obj -> Colors]
    BY <1>0, <1>1, <1>7, ColorFacts DEF TypeInv, Colors
  <2>2. ASSUME NEW x \in Obj
        PROVE  fields'[x] \in [FieldsOf(kind[x]) -> Obj \cup {Nil}]
    <3>1. CASE x \in closed
      <4>1. kind[x] = "upval" /\ UpvalVal(x) \in Obj \cup {Nil}
        BY <1>0, <1>4, <1>5, <3>1, UpvalValType DEF Values
      <4>2. FieldsOf(kind[x]) = {"val"} /\ fields'[x] = [val |-> UpvalVal(x)]
        BY <1>8, <3>1, <4>1, KindFields
      <4> QED
        BY <4>1, <4>2, OneField
    <3> QED
      BY <1>0, <1>8, <1>11, <3>1 DEF TypeInv
  <2>3. DOMAIN fields' = Obj /\ openAt' \in [Obj -> Placed \cup {Nil}] /\ doomed' \subseteq Obj
    BY <1>0, <1>1 DEF TypeInv
  <2> QED
    BY <1>0, <1>6, <2>1, <2>2, <2>3 DEF TypeInv, Placed
\* An upvalue that is open in the next state has the same thread, unchanged.
<1>13. ASSUME NEW x \in Obj, openAt'[x] # Nil
       PROVE  /\ openAt'[x] = openAt[x] /\ openAt[x].thread \in Obj
              /\ kind[openAt[x].thread] = "thread" /\ marked'[openAt[x].thread] # "free"
              /\ fields'[openAt[x].thread] = fields[openAt[x].thread]
  <2> DEFINE t == openAt[x].thread
  <2>1. openAt'[x] = openAt[x] /\ x \notin freed /\ x \notin closed
    BY <1>9, <1>13
  <2>2. t \in Obj /\ kind[t] = "thread" /\ marked[t] # "free" /\ marked[x] # "free"
    BY <1>0, <1>13, <2>1 DEF TypeInv, FieldsInv, Placed
  <2>3. t \notin upvals
    BY <1>5, <2>2
  <2>4. t \notin freed
    <3> SUFFICES ASSUME t \in freed PROVE FALSE
      OBVIOUS
    <3>1. t = o
      BY <1>3, <2>3
    <3>2. x \in upvals
      BY <1>2, <1>13, <2>1, <2>2, <3>1
    <3> QED
      BY <1>4, <2>1, <3>2
  <2> QED
    BY <1>4, <1>8, <1>10, <2>1, <2>2, <2>3, <2>4
<1>14. FieldsInv'
  <2>1. Values' = Values /\ \A x \in Obj : Empty(x)' = Empty(x)
    BY DEF Values, Empty
  <2>2. ASSUME NEW x \in Obj, NEW f \in FieldsOf(kind[x]), kind[x] \in TabKinds \cup {"thread", "upval"}
        PROVE  fields'[x][f] \in Values \cup {Nil}
    <3>1. CASE x \in closed
      <4>1. kind[x] = "upval" /\ UpvalVal(x) \in Values \cup {Nil}
        BY <1>0, <1>4, <1>5, <3>1, UpvalValType
      <4>2. f = "val" /\ fields'[x] = [val |-> UpvalVal(x)]
        BY <1>8, <2>2, <3>1, <4>1, KindFields
      <4> QED
        BY <4>1, <4>2, OneField
    <3>2. CASE x \in freed
      <4>1. fields'[x][f] = Nil
        BY <1>8, <2>2, <3>2 DEF Empty
      <4> QED
        BY <4>1
    <3>3. CASE x \notin freed /\ x \notin closed
      BY <1>0, <1>8, <2>2, <3>3 DEF FieldsInv
    <3> QED
      BY <3>1, <3>2, <3>3
  <2>3. ASSUME NEW x \in Obj
        PROVE  /\ kind[x] = "udata" => fields'[x].env = Nil \/ kind[fields'[x].env] \in TabKinds
               /\ kind[x] = "func" /\ marked'[x] # "free" => fields'[x].uv # Nil /\ kind[fields'[x].uv] = "upval"
    <3>1. kind[x] \in {"udata", "func"} => x \notin closed
      BY <1>4, <1>5
    <3>2. kind[x] = "udata" => Empty(x).env = Nil
      BY KindFields DEF Empty
    <3>3. CASE kind[x] = "udata"
      <4>1. fields'[x] = Empty(x) \/ fields'[x] = fields[x]
        BY <1>8, <3>1, <3>3
      <4> QED
        BY <1>0, <3>2, <3>3, <4>1 DEF FieldsInv
    <3>4. CASE kind[x] = "func" /\ marked'[x] # "free"
      <4>1. fields'[x] = fields[x] /\ marked[x] # "free"
        BY <1>7, <1>8, <1>10, <3>1, <3>4
      <4> QED
        BY <1>0, <3>4, <4>1 DEF FieldsInv
    <3> QED
      BY <3>3, <3>4
  <2>4. ASSUME NEW x \in Obj, marked'[x] = "free"
        PROVE  fields'[x] = Empty(x) /\ openAt'[x] = Nil
    <3>1. x \in closed => marked[x] # "free" /\ x \notin freed
      BY <1>4, <1>5
    <3>2. CASE x \in freed
      BY <1>8, <1>9, <3>2
    <3>3. CASE x \notin freed
      <4>1. marked[x] = "free" /\ x \notin closed
        BY <1>10, <2>4, <3>1, <3>3
      <4>2. fields[x] = Empty(x) /\ openAt[x] = Nil
        BY <1>0, <4>1 DEF FieldsInv
      <4> QED
        BY <1>8, <1>9, <3>3, <4>1, <4>2
    <3> QED
      BY <3>2, <3>3
  <2>5. \A x \in Obj : kind[x] = "none" => marked'[x] = "free"
    BY <1>0, <1>10 DEF FieldsInv
  <2>6. \A x \in Obj : openAt'[x] # Nil => /\ kind[x] = "upval" /\ kind[openAt'[x].thread] = "thread"
                                          /\ marked'[openAt'[x].thread] # "free"
    BY <1>0, <1>13 DEF FieldsInv
  <2> QED
    BY <2>1, <2>2, <2>3, <2>4, <2>5, <2>6 DEF FieldsInv
<1>15. \A x \in Obj : IsLive(x)' <=> IsLive(x)
  BY <1>0, <1>2, <1>3, <1>5, <1>6, <1>7, ColorFacts DEF IsLive, IsDead
<1>16. ASSUME NEW x \in Obj, IsLive(x)
       PROVE  Refs(x)' = Refs(x)
  <2>1. x \notin freed
    BY <1>3, <1>16 DEF IsLive
  <2>2. CASE kind[x] = "upval"
    <3>1. UpvalVal(x)' = UpvalVal(x)
      <4>1. CASE x \in closed
        <5>1. fields'[x] = [val |-> UpvalVal(x)]
          BY <1>8, <4>1
        <5>2. openAt'[x] = Nil
          BY <1>9, <4>1
        <5>3. UpvalVal(x)' = fields'[x].val
          BY <5>2 DEF UpvalVal
        <5> QED
          BY <5>1, <5>3
      <4>2. CASE x \notin closed
        BY <1>8, <1>9, <1>13, <2>1, <4>2 DEF UpvalVal
      <4> QED
        BY <4>1, <4>2
    <3> QED
      BY <2>2, <3>1 DEF Refs, Strong, FieldsOf, TabKinds
  <2>3. CASE kind[x] # "upval"
    <3>1. fields'[x] = fields[x]
      BY <1>4, <1>5, <1>8, <2>1, <2>3
    <3>2. Strong(x)' = Strong(x)
      BY <2>3, <3>1 DEF Strong
    <3>3. kind[x] \in TabKinds => Readable(x)' = Readable(x)
      BY <3>1 DEF Readable
    <3> QED
      BY <3>2, <3>3 DEF Refs
  <2> QED
    BY <2>2, <2>3
<1>17. Pending' = Pending
  BY <1>6 DEF Pending
<1>18. LiveInv'
  <2>1. Main \in Obj /\ running \in Obj /\ Pending \subseteq Obj /\ finalizing \in Obj \cup {Nil}
    BY <1>0, PendingType, KindType DEF TypeInv
  <2>2. IsLive(Main)' /\ IsLive(running)' /\ (finalizing # Nil => IsLive(finalizing)')
    BY <1>0, <1>15, <2>1 DEF LiveInv
  <2>3. \A x \in Pending' : IsLive(x)'
    BY <1>0, <1>15, <1>17, <2>1 DEF LiveInv
  <2>4. ASSUME NEW x \in Obj, IsLive(x)', NEW v \in Refs(x)' \ {Nil}
        PROVE  IsLive(v)'
    <3>1. v \in Refs(x) /\ v \in Obj /\ IsLive(x)
      BY <1>0, <1>15, <1>16, <2>4, RefsType
    <3> QED
      BY <1>0, <1>15, <2>4, <3>1 DEF LiveInv
  <2>5. (finalizing # Nil => IsLive(finalizing))'
    BY <2>1, <2>2
  <2> QED
    BY <2>2, <2>3, <2>4, <2>5 DEF LiveInv
<1>19. ColorInv(marked)'
  <2>1. \A x \in Obj \ swept : IsClosed(x)' = IsClosed(x)
    BY <1>3, <1>4, <1>9 DEF IsClosed
  <2> QED
    BY <1>0, <1>7, <2>1, ColorFacts DEF PhaseInv, ColorInv
<1>20. SweepInv'
  <2>1. \A x \in gc'.unswept : marked'[x] # "free" /\ openAt'[x] = Nil
    <3> SUFFICES ASSUME NEW x \in gc.unswept, x # o
                 PROVE  marked'[x] # "free" /\ openAt'[x] = Nil
      BY <1>6
    <3>1. x \in Obj /\ marked[x] # "free" /\ openAt[x] = Nil
      BY <1>0 DEF SweepInv, TypeInv
    <3> QED
      BY <1>2, <1>7, <1>9, <3>1
  <2>2. ASSUME NEW x \in Obj, marked'[x] # "free", x \notin Pending, marked'[x] # gc.white
        PROVE  x \in gc'.unswept \/ (openAt'[x] # Nil /\ openAt'[x].thread \in gc'.unswept)
    <3>1. x \notin swept /\ marked'[x] = marked[x]
      BY <1>7, <2>2
    <3>2. openAt'[x] = openAt[x]
      BY <1>3, <1>4, <1>9, <3>1
    <3>3. x \in gc.unswept \/ (openAt[x] # Nil /\ openAt[x].thread \in gc.unswept)
      BY <1>0, <2>2, <3>1 DEF SweepInv, Allocated
    <3> QED
      BY <1>2, <1>6, <2>2, <3>1, <3>2, <3>3
  <2> QED
    BY <1>6, <1>17, <2>1, <2>2 DEF SweepInv, Allocated
<1>21. PhaseInv'
  <2>1. Sweeping' /\ ~Marking' /\ ~Between'
    BY <1>6 DEF Sweeping, Marking, Between
  <2> QED
    BY <1>19, <1>20, <2>1 DEF PhaseInv
<1> QED
  BY <1>12, <1>14, <1>18, <1>21 DEF CoreInv

\* A step of the sweep phase. When nothing is left to be swept, all that is
\* allocated is white.
LEMMA SweepStepSafe ==
  ASSUME SafeInv, (gc.state = "sweepstring" /\ SweepString) \/ (gc.state = "sweep" /\ SweepRoot),
         UNCHANGED <<kind, running, finalizing, full>>
  PROVE  CoreInv'
<1>0. TypeInv /\ FieldsInv /\ FinalizerInv /\ LiveInv /\ PhaseInv /\ SweepInv /\ Sweeping
  BY DEF SafeInv, CoreInv, PhaseInv, Sweeping
<1>1. CASE \E o \in gc.unswept : Sweep({o})
  BY <1>0, <1>1, SweepSafe
<1>2. ASSUME NEW state \in {"sweep", "pause", "finalize"}, state # "sweep" => gc.unswept = {},
             gc' = [gc EXCEPT !.state = state],
             UNCHANGED <<marked, fields, openAt, called, doomed>>
      PROVE  CoreInv'
  <2>1. /\ gc' \in [state : States, white : Whites,
                    gray : SUBSET Obj, grayagain : SUBSET Obj, weak : SUBSET Obj,
                    mmudata : Seq(Obj), finalized : SUBSET Obj, unswept : SUBSET Obj]
        /\ gc'.state = state /\ gc'.white = gc.white /\ gc'.mmudata = gc.mmudata /\ gc'.unswept = gc.unswept
    BY <1>0, <1>2 DEF TypeInv, States
  <2>2. Pending' = Pending /\ \A o \in Obj : IsLive(o)' <=> IsLive(o)
    BY <1>2, <2>1 DEF Pending, IsLive, IsDead
  <2>3. TypeInv' /\ FieldsInv' /\ LiveInv'
    BY <1>0, <1>2, <2>1, <2>2, ColorsOnly DEF TypeInv, LiveInv
  <2>4. ColorInv(marked)'
    <3>1. \A o \in Obj : IsClosed(o)' = IsClosed(o)
      BY <1>2, SameShape
    <3> QED
      BY <1>0, <1>2, <3>1 DEF PhaseInv, ColorInv
  <2>5. CASE state = "sweep"
    <3>1. Sweeping' /\ ~Marking' /\ ~Between' /\ SweepInv'
      BY <1>0, <1>2, <2>1, <2>2, <2>5 DEF Sweeping, Marking, Between, SweepInv, Allocated
    <3> QED
      BY <2>3, <2>4, <3>1 DEF CoreInv, PhaseInv
  <2>6. CASE state # "sweep"
    <3>1. ~Sweeping' /\ ~Marking' /\ Between'
      BY <1>2, <2>1, <2>6 DEF Sweeping, Marking, Between
    <3>2. \A o \in Allocated \ Pending : marked[o] = gc.white
      BY <1>0, <1>2, <2>6 DEF SweepInv
    <3>3. \A o \in Obj : marked[o] # OtherWhite(gc.white)
      BY <1>0, <3>2, ColorFacts DEF Allocated, LiveInv, IsLive, IsDead
    <3> QED
      BY <1>2, <2>1, <2>2, <2>3, <2>4, <3>1, <3>2, <3>3 DEF CoreInv, PhaseInv, Allocated
  <2> QED
    BY <2>5, <2>6
<1>3. CASE gc.state = "sweepstring" /\ SweepString
  <2>1. UnsweptStrings \subseteq gc.unswept
    BY DEF UnsweptStrings
  <2>2. (\E o \in gc.unswept : Sweep({o}))
        \/ (gc' = [gc EXCEPT !.state = "sweep"] /\ UNCHANGED <<marked, fields, openAt, called, doomed>>)
    BY <1>3, <2>1, Zenon DEF SweepString
  <2> QED
    BY <1>1, <1>2, <2>2
<1>4. CASE gc.state = "sweep" /\ SweepRoot
  <2>1. (\E o \in gc.unswept : Sweep({o}))
        \/ (/\ gc.unswept = {}
            /\ \E state \in {"pause", "finalize"} : gc' = [gc EXCEPT !.state = state]
            /\ UNCHANGED <<marked, fields, openAt, called, doomed>>)
    <3> HIDE DEF Sweep
    <3> QED
      BY <1>4 DEF SweepRoot
  <2> QED
    BY <1>1, <1>2, <2>1
<1> QED
  BY <1>3, <1>4
-------------------------------------------------------------------------------
(* The program: steps that write to a stack.                               *)

\* What is in the stack of a live thread is live.
LEMMA StackLive ==
  ASSUME SafeInv, NEW t \in Obj, IsLive(t), kind[t] = "thread", NEW s \in Slots
  PROVE  /\ fields[t][s] \in Values \cup {Nil}
         /\ fields[t][s] # Nil => IsLive(fields[t][s])
<1>1. fields[t][s] \in Values \cup {Nil}
  BY KindFields DEF SafeInv, CoreInv, FieldsInv
<1>2. fields[t][s] \in Refs(t)
  BY StrongOf, RefsType DEF SafeInv, CoreInv, TabKinds
<1> QED
  BY <1>1, <1>2 DEF SafeInv, CoreInv, LiveInv

\* An object that a step may allocate or bring back: what it refers to is nothing,
\* or in the stack of the running thread.
IsFresh(o) ==
  /\ kind[o] # "none"
  /\ marked[o] = "free" \/ kind[o] = "str" \/ (openAt[o] # Nil /\ openAt[o].thread = running)

\* A step that puts a live value into a slot of a thread, and may allocate
\* objects, among them a function and an upvalue that is open at the running
\* thread.
StackStep(t, s, v) ==
  /\ t \in Obj /\ kind[t] = "thread" /\ marked[t] # "free" /\ s \in Slots
  /\ v \in Values \cup {Nil} /\ (v # Nil => IsLive(v)')
  /\ DOMAIN fields' = Obj /\ fields'[t] = [fields[t] EXCEPT ![s] = v]
  /\ \A o \in Obj \ {t} :
       IF kind[o] = "func" /\ marked'[o] # marked[o]
       THEN \E u \in Obj : kind[u] = "upval" /\ IsLive(u)' /\ fields'[o] \in [{"uv"} -> {u}]
       ELSE fields'[o] = fields[o]
  /\ marked' \in [Obj -> Colors]
  /\ \A o \in Obj : marked'[o] = marked[o] \/ (~IsLive(o) /\ marked'[o] = gc.white /\ IsFresh(o))
  /\ openAt' \in [Obj -> Placed \cup {Nil}]
  /\ \A o \in Obj : \/ openAt'[o] = openAt[o]
                    \/ /\ kind[o] = "upval" /\ marked[o] = "free" /\ marked'[o] # "free"
                       /\ openAt'[o] # Nil /\ openAt'[o].thread = running
  /\ running' \in Obj /\ kind[running'] = "thread" /\ IsLive(running)'

\* Such a step keeps the invariant: stacks are never black, and what is new has
\* the current white.
LEMMA StackSafe ==
  ASSUME SafeInv, UNCHANGED <<kind, gc, finalizing, full, doomed>>,
         NEW t, NEW s, NEW v, StackStep(t, s, v)
  PROVE  CoreInv'
<1>0. /\ TypeInv /\ FieldsInv /\ FinalizerInv /\ LiveInv /\ PhaseInv
      /\ Main \in Obj /\ running \in Obj /\ kind[running] = "thread" /\ IsLive(running)
  BY KindType DEF SafeInv, CoreInv, TypeInv, LiveInv
<1>1. /\ t \in Obj /\ kind[t] = "thread" /\ marked[t] # "free" /\ s \in Slots
      /\ v \in Values \cup {Nil} /\ (v # Nil => IsLive(v)')
      /\ fields'[t] = [fields[t] EXCEPT ![s] = v]
  BY DEF StackStep
<1>2. \A o \in Obj : marked'[o] = marked[o] \/ (~IsLive(o) /\ marked'[o] = gc.white /\ IsFresh(o))
  BY DEF StackStep
<1>3. \A o \in Obj : \/ openAt'[o] = openAt[o]
                     \/ /\ kind[o] = "upval" /\ marked[o] = "free" /\ marked'[o] # "free"
                        /\ openAt'[o] # Nil /\ openAt'[o].thread = running
  BY DEF StackStep
<1>4. \A o \in Obj \ {t} :
        IF kind[o] = "func" /\ marked'[o] # marked[o]
        THEN \E u \in Obj : kind[u] = "upval" /\ IsLive(u)' /\ fields'[o] \in [{"uv"} -> {u}]
        ELSE fields'[o] = fields[o]
  BY DEF StackStep
<1>5. /\ fields'[t] \in [Slots -> Values \cup {Nil}]
      /\ \A x \in Slots : fields'[t][x] = IF x = s THEN v ELSE fields[t][x]
  <2>1. fields[t] \in [Slots -> Obj \cup {Nil}]
    BY <1>0, <1>1, KindFields DEF TypeInv
  <2>2. \A x \in Slots : fields[t][x] \in Values \cup {Nil}
    BY <1>0, <1>1, KindFields DEF FieldsInv
  <2> QED
    BY <1>1, <2>1, <2>2
<1>6. \A o \in Obj : (IsLive(o) => IsLive(o)' /\ marked'[o] = marked[o]) /\ (marked'[o] = "free" => marked[o] = "free")
  BY <1>0, <1>2, ColorFacts DEF IsLive, IsDead
<1>7. v \in Obj \cup {Nil} /\ Values \subseteq Obj /\ Values' = Values
  BY <1>1 DEF Values
<1>8. TypeInv'
  <2>1. ASSUME NEW o \in Obj
        PROVE  fields'[o] \in [FieldsOf(kind[o]) -> Obj \cup {Nil}]
    <3>1. CASE o = t
      BY <1>1, <1>5, <1>7, <3>1, KindFields
    <3>2. CASE o # t /\ kind[o] = "func"
      <4>1. CASE marked'[o] # marked[o]
        <5>1. PICK u \in Obj : fields'[o] \in [{"uv"} -> {u}]
          BY <1>4, <3>2, <4>1
        <5>2. FieldsOf(kind[o]) = {"uv"}
          BY <3>2, KindFields
        <5> QED
          BY <5>1, <5>2
      <4>2. CASE marked'[o] = marked[o]
        BY <1>0, <1>4, <3>2, <4>2 DEF TypeInv
      <4> QED
        BY <4>1, <4>2
    <3>3. CASE o # t /\ kind[o] # "func"
      BY <1>0, <1>4, <3>3 DEF TypeInv
    <3> QED
      BY <3>1, <3>2, <3>3
  <2>2. Placed' = Placed
    BY DEF Placed
  <2> QED
    BY <1>0, <2>1, <2>2 DEF TypeInv, StackStep
<1>9. ASSUME NEW o \in Obj, openAt'[o] # Nil
      PROVE  /\ kind[o] = "upval" /\ openAt'[o] \in Placed
             /\ kind[openAt'[o].thread] = "thread" /\ marked[openAt'[o].thread] # "free"
  <2>1. openAt'[o] \in Placed
    BY <1>9 DEF StackStep
  <2> QED
    BY <1>0, <1>3, <1>9, <2>1 DEF FieldsInv, IsLive
<1>10. FieldsInv'
  <2>1. \A o \in Obj : Empty(o)' = Empty(o)
    BY DEF Empty
  <2>2. ASSUME NEW o \in Obj, NEW f \in FieldsOf(kind[o]), kind[o] \in TabKinds \cup {"thread", "upval"}
        PROVE  fields'[o][f] \in Values \cup {Nil}
    <3>1. CASE o = t
      BY <1>1, <1>5, <2>2, <3>1, KindFields
    <3>2. CASE o # t
      BY <1>0, <1>4, <2>2, <3>2 DEF FieldsInv, TabKinds
    <3> QED
      BY <3>1, <3>2
  <2>3. ASSUME NEW o \in Obj
        PROVE  /\ kind[o] = "udata" => fields'[o].env = Nil \/ kind[fields'[o].env] \in TabKinds
               /\ kind[o] = "func" /\ marked'[o] # "free" => fields'[o].uv # Nil /\ kind[fields'[o].uv] = "upval"
    <3>1. kind[o] = "udata" => fields'[o] = fields[o]
      BY <1>1, <1>4
    <3>2. CASE kind[o] = "func" /\ marked'[o] # marked[o]
      <4>1. PICK u \in Obj : kind[u] = "upval" /\ fields'[o] \in [{"uv"} -> {u}]
        BY <1>1, <1>4, <3>2
      <4>2. fields'[o].uv = u /\ u # Nil
        BY <4>1, HeapAssumption
      <4> QED
        BY <3>2, <4>1, <4>2
    <3>3. CASE kind[o] = "func" /\ marked'[o] = marked[o]
      BY <1>0, <1>1, <1>4, <3>3 DEF FieldsInv
    <3> QED
      BY <1>0, <3>1, <3>2, <3>3 DEF FieldsInv
  <2>4. ASSUME NEW o \in Obj, marked'[o] = "free"
        PROVE  fields'[o] = Empty(o) /\ openAt'[o] = Nil
    <3>1. marked[o] = "free" /\ o # t
      BY <1>1, <1>6, <2>4 DEF IsLive
    <3> QED
      BY <1>0, <1>3, <1>4, <2>4, <3>1 DEF FieldsInv
  <2>5. \A o \in Obj : kind[o] = "none" => marked'[o] = "free"
    BY <1>0, <1>2 DEF FieldsInv, IsFresh
  <2>6. ASSUME NEW o \in Obj, openAt'[o] # Nil
        PROVE  kind[o] = "upval" /\ kind[openAt'[o].thread] = "thread" /\ marked'[openAt'[o].thread] # "free"
    BY <1>6, <1>9, <2>6 DEF Placed
  <2> QED
    BY <1>7, <2>1, <2>2, <2>3, <2>4, <2>5, <2>6 DEF FieldsInv
\* What is in a slot of a live thread.
<1>11. ASSUME NEW o \in Obj, IsLive(o), kind[o] = "thread", NEW x \in Slots, NEW w, w = fields'[o][x], w # Nil
       PROVE  IsLive(w)'
  <2>1. CASE o = t /\ x = s
    <3>1. w = v
      BY <1>5, <1>11, <2>1
    <3> QED
      BY <1>1, <1>11, <3>1
  <2>2. CASE ~(o = t /\ x = s)
    <3>1. w = fields[o][x]
      BY <1>4, <1>5, <1>11, <2>2
    <3>2. w \in Obj /\ IsLive(w)
      BY <1>7, <1>11, <3>1, StackLive
    <3> QED
      BY <1>6, <3>2
  <2> QED
    BY <2>1, <2>2
<1>12. ASSUME NEW o \in Obj, IsLive(o)', NEW w \in Refs(o)' \ {Nil}
       PROVE  IsLive(w)'
  <2>1. CASE kind[o] = "upval" /\ openAt'[o] # Nil /\ IsLive(openAt'[o].thread)
    <3>1. Refs(o)' = {fields'[openAt'[o].thread][openAt'[o].slot]}
      BY <2>1 DEF Refs, Strong, UpvalVal, FieldsOf, TabKinds
    <3>2. openAt'[o].thread \in Obj /\ openAt'[o].slot \in Slots /\ kind[openAt'[o].thread] = "thread"
      BY <1>9, <2>1 DEF Placed
    <3> QED
      BY <1>11, <1>12, <2>1, <3>1, <3>2
  <2>2. CASE IsLive(o) /\ kind[o] = "thread"
    <3>1. Refs(o)' = {fields'[o][f] : f \in Slots}
      BY <2>2 DEF Refs, Strong, FieldsOf, TabKinds
    <3> QED
      BY <1>11, <1>12, <2>2, <3>1
  <2>3. CASE IsLive(o) /\ kind[o] = "upval" /\ ~(openAt'[o] # Nil /\ IsLive(openAt'[o].thread))
    <3>1. openAt'[o] = openAt[o] /\ fields'[o] = fields[o]
      BY <1>0, <1>1, <1>3, <1>4, <2>3 DEF IsLive
    <3>2. /\ openAt[o] # Nil =>
               fields'[openAt[o].thread][openAt[o].slot] \in {fields[openAt[o].thread][openAt[o].slot], v}
      <4>1. openAt[o] # Nil => openAt[o].thread \in Obj /\ kind[openAt[o].thread] = "thread" /\ openAt[o].slot \in Slots
        BY <1>0 DEF FieldsInv, TypeInv, Placed
      <4> QED
        BY <1>4, <1>5, <4>1
    <3>3. Refs(o)' = {UpvalVal(o)'} /\ UpvalVal(o)' \in {UpvalVal(o), v} /\ Refs(o) = {UpvalVal(o)}
      BY <2>3, <3>1, <3>2 DEF Refs, Strong, UpvalVal, FieldsOf, TabKinds
    <3>4. CASE w = v
      BY <1>1, <1>12, <3>4
    <3>5. CASE w # v
      <4>1. IsLive(w) /\ w \in Obj
        BY <1>0, <1>12, <2>3, <3>3, <3>5, RefsType DEF LiveInv
      <4> QED
        BY <1>6, <4>1
    <3> QED
      BY <3>4, <3>5
  <2>4. CASE IsLive(o) /\ kind[o] \notin {"thread", "upval"}
    <3>1. fields'[o] = fields[o]
      BY <1>1, <1>4, <1>6, <2>4
    <3>2. Strong(o)' = Strong(o)
      BY <2>4, <3>1 DEF Strong
    <3>3. kind[o] \in TabKinds => Readable(o)' = Readable(o)
      BY <3>1 DEF Readable
    <3>4. Refs(o)' = Refs(o)
      BY <3>2, <3>3 DEF Refs
    <3>5. IsLive(w) /\ w \in Obj
      BY <1>0, <1>12, <2>4, <3>4, RefsType DEF LiveInv
    <3> QED
      BY <1>6, <3>5
  <2>5. CASE ~IsLive(o) /\ kind[o] = "str"
    BY <1>12, <2>5 DEF Refs, Strong, FieldsOf, TabKinds
  <2>6. CASE ~IsLive(o) /\ kind[o] # "str" /\ ~(kind[o] = "upval" /\ openAt'[o] # Nil /\ IsLive(openAt'[o].thread))
    <3>1. marked'[o] # marked[o] /\ IsFresh(o)
      BY <1>2, <1>12, <2>6 DEF IsLive, IsDead
    <3>2. openAt'[o] = Nil
      BY <1>0, <1>3, <1>9, <2>6, <3>1 DEF IsFresh, FieldsInv
    <3>3. marked[o] = "free" /\ fields[o] = Empty(o) /\ o # t
      BY <1>0, <1>1, <1>3, <2>6, <3>1, <3>2 DEF IsFresh, FieldsInv
    <3>4. CASE kind[o] = "func"
      <4>1. PICK u \in Obj : IsLive(u)' /\ fields'[o] \in [{"uv"} -> {u}]
        BY <1>4, <3>1, <3>3, <3>4
      <4>2. Refs(o)' = {u}
        BY <3>4, <4>1, KindFields DEF Refs, Strong, TabKinds
      <4> QED
        BY <1>12, <4>1, <4>2
    <3>5. CASE kind[o] # "func"
      <4>1. fields'[o] = [f \in FieldsOf(kind[o]) |-> Nil]
        BY <1>4, <3>3, <3>5 DEF Empty
      <4>2. kind[o] \in Kinds
        BY <1>0, KindType
      <4>3. Refs(o)' \subseteq {Nil}
        BY <3>2, <3>5, <4>1, <4>2 DEF Refs, Strong, Readable, UpvalVal, FieldsOf, TabKinds, Kinds
      <4> QED
        BY <1>12, <4>3
    <3> QED
      BY <3>4, <3>5
  <2> QED
    BY <2>1, <2>2, <2>3, <2>4, <2>5, <2>6
<1>13. Pending' = Pending /\ Pending \subseteq Obj
  BY <1>0, PendingType DEF Pending
<1>14. LiveInv'
  <2>1. IsLive(Main)' /\ IsLive(running)'
    BY <1>0, <1>6 DEF LiveInv, StackStep
  <2>2. (finalizing # Nil => IsLive(finalizing))'
    BY <1>0, <1>6 DEF LiveInv, TypeInv
  <2>3. \A o \in Pending' : IsLive(o)'
    BY <1>0, <1>6, <1>13 DEF LiveInv
  <2> QED
    BY <1>12, <2>1, <2>2, <2>3 DEF LiveInv
<1>15. ASSUME NEW o \in Obj, marked'[o] \in {"gray", "black"}
       PROVE  /\ marked'[o] = marked[o] /\ IsLive(o)
              /\ openAt'[o] = openAt[o] /\ IsClosed(o)' = IsClosed(o)
  <2>1. marked'[o] = marked[o]
    BY <1>0, <1>2, <1>15, ColorFacts
  <2>2. openAt'[o] = openAt[o]
    BY <1>3, <1>15, <2>1
  <2> QED
    BY <1>0, <1>15, <2>1, <2>2, ColorFacts DEF IsLive, IsDead, IsClosed
<1>16. ColorInv(marked)'
  BY <1>0, <1>15 DEF PhaseInv, ColorInv
<1>17. ASSUME Marking
       PROVE  MarkInv(Marks, Pending)'
  <2>1. MarkInv(Marks, Pending) /\ ~Sweeping
    BY <1>0, <1>17 DEF PhaseInv, Marking, Sweeping
  <2>2. /\ (Marks)'.marked = marked' /\ (Marks)'.gray = gc.gray
        /\ (Marks)'.grayagain = gc.grayagain /\ (Marks)'.weak = gc.weak
        /\ Marks.marked = marked /\ Marks.gray = gc.gray
        /\ Marks.grayagain = gc.grayagain /\ Marks.weak = gc.weak
    BY DEF Marks
  <2>3. IsMarking(Marks)'
    BY <1>8 DEF TypeInv, IsMarking, Marks
  <2>4. \A o \in Obj : marked'[o] # OtherWhite(gc.white)
    BY <1>0, <1>2, <2>1, <2>2, ColorFacts DEF MarkInv
  <2>5. \A o \in Obj : marked'[o] = "gray" <=> marked[o] = "gray"
    BY <1>2, <1>15, <1>0, <1>6, <2>1, <2>2, ColorFacts DEF IsLive, IsDead
  <2>6. ListsInv(Marks)'
    <3>1. \A o \in Obj : IsTraversed(o)' = IsTraversed(o)
      BY DEF IsTraversed
    <3> QED
      BY <2>1, <2>2, <2>5, <3>1 DEF MarkInv, ListsInv, IsMarking
  <2>7. ASSUME NEW o \in Obj \ Pending, marked'[o] = "black", NEW w \in Strong(o)'
        PROVE  ~IsWhite(marked', w)
    <3>1. marked[o] = "black" /\ IsLive(o) /\ openAt'[o] = openAt[o]
      BY <1>15, <2>7
    <3>2. kind[o] \in {"func", "tab", "udata"} \/ (kind[o] = "upval" /\ openAt[o] = Nil)
      BY <1>0, <3>1 DEF PhaseInv, ColorInv, IsClosed
    <3>3. fields'[o] = fields[o]
      BY <1>1, <1>4, <2>7, <3>1, <3>2
    <3>4. Strong(o)' = Strong(o)
      BY <3>1, <3>2, <3>3 DEF Strong, UpvalVal, TabKinds
    <3>5. w \in Obj \cup {Nil} /\ ~IsWhite(marked, w)
      BY <1>0, <2>1, <2>2, <2>7, <3>1, <3>4, StrongType DEF MarkInv, BlackDone, Done
    <3>6. w # Nil => w \in Refs(o)
      BY <1>0, <2>7, <3>2, <3>4, RefsType, StrongOf DEF TabKinds
    <3>7. w # Nil => IsLive(w)
      BY <1>0, <2>7, <3>1, <3>6 DEF LiveInv
    <3> QED
      BY <1>6, <3>5, <3>7 DEF IsWhite
  <2>8. ColorInv(Marks.marked)'
    BY <1>16, <2>2 DEF ColorInv
  <2>9. BlackDone(Marks.marked, Obj \ Pending)'
    BY <1>13, <2>2, <2>7 DEF BlackDone, Done, IsWhite
  <2> QED
    BY <2>2, <2>3, <2>4, <2>6, <2>8, <2>9 DEF MarkInv, OtherWhite
<1>18. ASSUME Between
       PROVE  \A o \in (Allocated \ Pending)' : marked'[o] = gc.white
  BY <1>0, <1>2, <1>13, <1>18 DEF PhaseInv, Allocated
<1>19. ~Sweeping => \A o \in Obj : marked'[o] # OtherWhite(gc.white)
  BY <1>0, <1>2, ColorFacts DEF PhaseInv
<1>20. ASSUME SweepInv
       PROVE  SweepInv'
  <2>1. \A o \in gc.unswept : o \in Obj
    BY <1>0 DEF TypeInv
  <2>2. \A o \in gc.unswept : marked'[o] # "free" /\ openAt'[o] = Nil
    BY <1>3, <1>6, <1>20, <2>1 DEF SweepInv
  <2>3. ASSUME NEW o \in Obj, marked'[o] # "free", o \notin Pending, marked'[o] # gc.white
        PROVE  o \in gc.unswept \/ (openAt'[o] # Nil /\ openAt'[o].thread \in gc.unswept)
    <3>1. marked'[o] = marked[o] /\ openAt'[o] = openAt[o]
      BY <1>2, <1>3, <2>3
    <3> QED
      BY <1>20, <2>3, <3>1 DEF SweepInv, Allocated
  <2> QED
    BY <1>13, <2>2, <2>3 DEF SweepInv, Allocated
<1>21. PhaseInv'
  BY <1>0, <1>16, <1>17, <1>18, <1>19, <1>20 DEF PhaseInv, Marking, Sweeping, Between
<1> QED
  BY <1>8, <1>10, <1>14, <1>21 DEF CoreInv

\* The running thread, and the color of a new object.
LEMMA RunningLive ==
  ASSUME SafeInv
  PROVE  /\ running \in Obj /\ kind[running] = "thread" /\ IsLive(running)
         /\ \A s \in Slots : /\ Stack(s) \in Values \cup {Nil}
                             /\ Stack(s) # Nil => Stack(s) \in Obj /\ IsLive(Stack(s)) /\ kind[Stack(s)] \in Kinds \ {"upval", "none"}
         /\ gc.white \in Colors /\ gc.white # "free" /\ gc.white # OtherWhite(gc.white)
         /\ Nil \notin Obj
         /\ \A o \in Obj : ~IsLive(o) <=> marked[o] = "free" \/ IsDead(o)
<1>1. running \in Obj /\ kind[running] = "thread" /\ IsLive(running)
  BY DEF SafeInv, CoreInv, TypeInv, LiveInv
<1>2. ASSUME NEW s \in Slots
      PROVE  /\ Stack(s) \in Values \cup {Nil}
             /\ Stack(s) # Nil => Stack(s) \in Obj /\ IsLive(Stack(s)) /\ kind[Stack(s)] \in Kinds \ {"upval", "none"}
  BY <1>1, StackLive, KindType DEF Stack, Values, SafeInv, CoreInv
<1>3. gc.white \in Colors /\ gc.white # "free" /\ gc.white # OtherWhite(gc.white)
  BY ColorFacts DEF SafeInv, CoreInv, Colors
<1> QED
  BY <1>1, <1>2, <1>3, HeapAssumption DEF IsLive

\* The steps that write to a stack.
LEMMA NewSafe ==
  ASSUME SafeInv, UNCHANGED <<kind, finalizing, full, doomed>>, NEW s \in Slots, New(s)
  PROVE  CoreInv'
<1>0. TypeInv /\ DOMAIN fields = Obj /\ marked \in [Obj -> Colors]
  BY DEF SafeInv, CoreInv, TypeInv
<1>1. PICK o \in Unused({"thread", "udata"} \cup TabKinds) :
        /\ marked' = [marked EXCEPT ![o] = gc.white]
        /\ fields' = [fields EXCEPT ![running][s] = o]
        /\ UNCHANGED <<openAt, gc, running>>
  BY Zenon DEF New
<1>2. o \in Obj /\ kind[o] \in {"thread", "udata"} \cup TabKinds /\ marked[o] = "free"
  BY <1>1 DEF Unused
<1>3. \A x \in Obj : marked'[x] = IF x = o THEN gc.white ELSE marked[x]
  BY <1>0, <1>1
<1>4. o \in Values /\ IsLive(o)' /\ ~IsLive(o) /\ IsFresh(o) /\ o # running
  BY <1>1, <1>2, <1>3, RunningLive DEF Values, IsLive, IsDead, IsFresh, TabKinds
<1>5. /\ DOMAIN fields' = Obj /\ fields'[running] = [fields[running] EXCEPT ![s] = o]
      /\ \A x \in Obj \ {running} : fields'[x] = fields[x]
  BY <1>0, <1>1, RunningLive
<1>6. marked' \in [Obj -> Colors]
  BY <1>0, <1>1, <1>2, RunningLive
<1>7. IsLive(running)'
  BY <1>1, <1>3, <1>4, RunningLive DEF IsLive, IsDead
<1>8. StackStep(running, s, o)
  BY <1>0, <1>1, <1>2, <1>3, <1>4, <1>5, <1>6, <1>7, RunningLive DEF StackStep, TypeInv, TabKinds
<1> QED
  BY <1>1, <1>8, StackSafe

\* lj_str_new brings a dead string back.
LEMMA InternSafe ==
  ASSUME SafeInv, UNCHANGED <<kind, finalizing, full, doomed>>, NEW s \in Slots, Intern(s)
  PROVE  CoreInv'
<1>0. TypeInv /\ DOMAIN fields = Obj /\ marked \in [Obj -> Colors]
  BY DEF SafeInv, CoreInv, TypeInv
<1>1. PICK o \in Obj :
        /\ kind[o] = "str"
        /\ marked' = [marked EXCEPT ![o] = IF @ = "free" \/ IsDead(o) THEN gc.white ELSE @]
        /\ fields' = [fields EXCEPT ![running][s] = o]
        /\ UNCHANGED <<openAt, gc, running>>
  BY Zenon DEF Intern
<1>2. /\ \A x \in Obj : x # o => marked'[x] = marked[x]
      /\ marked'[o] = IF marked[o] = "free" \/ IsDead(o) THEN gc.white ELSE marked[o]
  BY <1>0, <1>1
<1>3. o \in Values /\ IsLive(o)' /\ IsFresh(o) /\ o # running
  BY <1>1, <1>2, RunningLive DEF Values, IsLive, IsDead, IsFresh
<1>4. /\ DOMAIN fields' = Obj /\ fields'[running] = [fields[running] EXCEPT ![s] = o]
      /\ \A x \in Obj \ {running} : fields'[x] = fields[x]
  BY <1>0, <1>1, RunningLive
<1>5. marked' \in [Obj -> Colors]
  BY <1>0, <1>1, RunningLive
<1>6. IsLive(running)'
  BY <1>1, <1>2, <1>3, RunningLive DEF IsLive, IsDead
<1>7. \A x \in Obj : marked'[x] = marked[x] \/ (x = o /\ ~IsLive(x) /\ marked'[x] = gc.white /\ IsFresh(x))
  BY <1>2, <1>3, RunningLive
<1>8. StackStep(running, s, o)
  BY <1>0, <1>1, <1>3, <1>4, <1>5, <1>6, <1>7, RunningLive DEF StackStep, TypeInv
<1> QED
  BY <1>1, <1>8, StackSafe

\* What is read from a live object is live.
LEMMA LoadSafe ==
  ASSUME SafeInv, UNCHANGED <<kind, finalizing, full, doomed>>, NEW s \in Slots, Load(s)
  PROVE  CoreInv'
<1>0. TypeInv /\ FieldsInv /\ LiveInv /\ DOMAIN fields = Obj /\ marked \in [Obj -> Colors]
  BY DEF SafeInv, CoreInv, TypeInv
<1>1. PICK v \in {Nil, finalizing} \cup UNION {Readable(o) : o \in {Stack(p) : p \in Slots} \ {Nil}} :
        fields' = [fields EXCEPT ![running][s] = v]
  BY Zenon DEF Load
<1>2. UNCHANGED <<marked, openAt, gc, running>>
  BY Zenon DEF Load
<1>3. v \in Values \cup {Nil} /\ (v # Nil => IsLive(v))
  <2>1. CASE v \in {Nil, finalizing}
    BY <1>0, <2>1 DEF TypeInv, LiveInv, Values
  <2>2. ASSUME NEW p \in Slots, Stack(p) # Nil, v \in Readable(Stack(p))
        PROVE  v \in Values \cup {Nil} /\ (v # Nil => IsLive(v))
    <3>1. PICK o : o = Stack(p)
      OBVIOUS
    <3>2. o \in Obj /\ IsLive(o) /\ kind[o] \in Kinds \ {"upval", "none"} /\ v \in Readable(o)
      BY <2>2, <3>1, RunningLive
    <3>3. CASE kind[o] \in TabKinds
      <4>1. v \in Refs(o) /\ v \in {fields[o].key, fields[o].val}
        BY <1>0, <3>2, <3>3 DEF Refs, Readable, TabKinds
      <4>2. v \in Values \cup {Nil}
        BY <1>0, <3>2, <3>3, <4>1, KindFields DEF FieldsInv
      <4> QED
        BY <1>0, <3>2, <4>1, <4>2 DEF LiveInv
    <3>4. CASE kind[o] = "udata"
      <4>1. v = fields[o].env
        BY <3>2, <3>4 DEF Readable, TabKinds
      <4>2. v \in Refs(o) /\ v \in Obj \cup {Nil}
        BY <1>0, <3>2, <3>4, <4>1, StrongOf, RefsType DEF TabKinds
      <4> QED
        BY <1>0, <3>2, <3>4, <4>1, <4>2 DEF LiveInv, FieldsInv, Values, TabKinds
    <3>5. CASE kind[o] = "func"
      <4>1. PICK u : u = fields[o].uv
        OBVIOUS
      <4>2. v = UpvalVal(u)
        BY <3>2, <3>5, <4>1 DEF Readable, TabKinds
      <4>3. u \in Obj /\ kind[u] = "upval" /\ u \in Refs(o) /\ u # Nil
        BY <1>0, <3>2, <3>5, <4>1, StrongOf, RefsType DEF FieldsInv, IsLive, TabKinds
      <4>4. IsLive(u) /\ v \in Refs(u)
        BY <1>0, <3>2, <4>2, <4>3, StrongOf, RefsType DEF LiveInv, TabKinds
      <4> QED
        BY <1>0, <4>2, <4>3, <4>4, UpvalValType DEF LiveInv
    <3>6. CASE kind[o] \in {"thread", "str"}
      BY <3>2, <3>6 DEF Readable, TabKinds
    <3> QED
      BY <3>2, <3>3, <3>4, <3>5, <3>6 DEF Kinds, TabKinds
  <2> QED
    BY <1>1, <2>1, <2>2
<1>4. IsLive(running)' /\ (v # Nil => IsLive(v)')
  BY <1>2, <1>3, RunningLive DEF IsLive, IsDead
<1>5. /\ DOMAIN fields' = Obj /\ fields'[running] = [fields[running] EXCEPT ![s] = v]
      /\ \A x \in Obj \ {running} : fields'[x] = fields[x]
  BY <1>0, <1>1, RunningLive
<1>6. StackStep(running, s, v)
  BY <1>0, <1>2, <1>3, <1>4, <1>5, RunningLive DEF StackStep, TypeInv
<1> QED
  BY <1>2, <1>6, StackSafe

\* A new function with its upvalue.
LEMMA ClosureSafe ==
  ASSUME SafeInv, UNCHANGED <<kind, finalizing, full, doomed>>, NEW s \in Slots, Closure(s)
  PROVE  CoreInv'
<1>0. TypeInv /\ FieldsInv /\ LiveInv /\ DOMAIN fields = Obj /\ marked \in [Obj -> Colors]
      /\ openAt \in [Obj -> Placed \cup {Nil}]
  BY DEF SafeInv, CoreInv, TypeInv
<1>1. PICK o \in Unused({"func"}), u \in {x \in Obj : kind[x] = "upval"}, local \in Slots :
        LET open == {x \in OpenUpvals(running) : openAt[x].slot = local}
        IN  /\ IF open = {} THEN marked[u] = "free" ELSE u \in open
            /\ marked' = [marked EXCEPT ![o] = gc.white,
                                        ![u] = IF @ = "free" \/ IsDead(u) THEN gc.white ELSE @]
            /\ fields' = [fields EXCEPT ![o].uv = u, ![running][s] = o]
            /\ openAt' = [openAt EXCEPT ![u] = [thread |-> running, slot |-> local]]
            /\ UNCHANGED <<gc, running>>
  BY Zenon DEF Closure
<1>2. /\ o \in Obj /\ kind[o] = "func" /\ marked[o] = "free" /\ u \in Obj /\ kind[u] = "upval" /\ local \in Slots
      /\ o # u /\ o # running /\ u # running
  BY <1>1, RunningLive DEF Unused
<1>3. marked[u] = "free" \/ (openAt[u] # Nil /\ openAt[u].thread = running /\ openAt[u].slot = local)
  BY <1>1 DEF OpenUpvals
<1>4. /\ \A x \in Obj \ {o, u} : marked'[x] = marked[x]
      /\ marked'[o] = gc.white
      /\ marked'[u] = IF marked[u] = "free" \/ IsDead(u) THEN gc.white ELSE marked[u]
  BY <1>0, <1>1, <1>2
<1>5. marked' \in [Obj -> Colors]
  BY <1>0, <1>1, <1>2, <1>4, RunningLive
<1>6. fields[o] \in [{"uv"} -> Obj \cup {Nil}]
  BY <1>0, <1>2, KindFields DEF TypeInv
<1>7. /\ DOMAIN fields' = Obj /\ fields'[running] = [fields[running] EXCEPT ![s] = o]
      /\ fields'[o] = [fields[o] EXCEPT !.uv = u]
      /\ \A x \in Obj \ {running, o} : fields'[x] = fields[x]
  BY <1>0, <1>1, <1>2, RunningLive
<1>8. fields'[o] \in [{"uv"} -> {u}]
  BY <1>6, <1>7
<1>9. [thread |-> running, slot |-> local] \in Placed
  BY <1>2, RunningLive DEF Placed
<1>10. /\ openAt' \in [Obj -> Placed \cup {Nil}]
       /\ \A x \in Obj \ {u} : openAt'[x] = openAt[x]
       /\ openAt'[u] = [thread |-> running, slot |-> local]
  BY <1>0, <1>1, <1>2, <1>9
<1>11. marked[u] # "free" => openAt'[u] = openAt[u]
  <2>1. openAt[u] # Nil => openAt[u] \in Placed
    BY <1>0, <1>2
  <2> QED
    BY <1>3, <1>10, <2>1 DEF Placed
<1>12. openAt'[u] # Nil /\ openAt'[u].thread = running
  BY <1>9, <1>10, HeapAssumption DEF Placed
<1>13. /\ ~IsLive(o) /\ IsFresh(o) /\ IsFresh(u) /\ o \in Values
       /\ IsLive(o)' /\ IsLive(u)' /\ IsLive(running)'
  BY <1>1, <1>2, <1>3, <1>4, RunningLive DEF IsLive, IsDead, IsFresh, Values
<1>14. \A x \in Obj : marked'[x] = marked[x] \/ (~IsLive(x) /\ marked'[x] = gc.white /\ IsFresh(x))
  BY <1>2, <1>4, <1>13, RunningLive
<1>15. marked'[u] # "free" /\ \A x \in Obj : kind[x] = "func" /\ marked'[x] # marked[x] => x = o
  BY <1>2, <1>4, RunningLive
<1>16. /\ \A x \in Obj \ {running} :
            IF kind[x] = "func" /\ marked'[x] # marked[x]
            THEN \E y \in Obj : kind[y] = "upval" /\ IsLive(y)' /\ fields'[x] \in [{"uv"} -> {y}]
            ELSE fields'[x] = fields[x]
  BY <1>2, <1>4, <1>7, <1>8, <1>13, <1>15, RunningLive
<1>17. \A x \in Obj : \/ openAt'[x] = openAt[x]
                      \/ /\ kind[x] = "upval" /\ marked[x] = "free" /\ marked'[x] # "free"
                         /\ openAt'[x] # Nil /\ openAt'[x].thread = running
  BY <1>2, <1>10, <1>11, <1>12, <1>15
<1>18. StackStep(running, s, o)
  BY <1>1, <1>5, <1>7, <1>10, <1>13, <1>14, <1>16, <1>17, RunningLive DEF StackStep
<1> QED
  BY <1>1, <1>18, StackSafe

\* A new function with the upvalue of its parent.
LEMMA InnerClosureSafe ==
  ASSUME SafeInv, UNCHANGED <<kind, finalizing, full, doomed>>, NEW s \in Slots, InnerClosure(s)
  PROVE  CoreInv'
<1>0. TypeInv /\ FieldsInv /\ LiveInv /\ DOMAIN fields = Obj /\ marked \in [Obj -> Colors]
  BY DEF SafeInv, CoreInv, TypeInv
<1>1. PICK o \in Unused({"func"}), p \in Slots :
        LET parent == Stack(p)
        IN  /\ parent # Nil /\ kind[parent] = "func"
            /\ marked' = [marked EXCEPT ![o] = gc.white]
            /\ fields' = [fields EXCEPT ![o].uv = fields[parent].uv, ![running][s] = o]
            /\ UNCHANGED <<openAt, gc, running>>
  BY Zenon DEF InnerClosure
<1>2. o \in Obj /\ kind[o] = "func" /\ marked[o] = "free" /\ o # running
  BY <1>1, RunningLive DEF Unused
<1>3. PICK parent, u : parent = Stack(p) /\ u = fields[parent].uv
  OBVIOUS
<1>4. /\ parent \in Obj /\ IsLive(parent) /\ kind[parent] = "func"
      /\ fields' = [fields EXCEPT ![o].uv = u, ![running][s] = o]
  BY <1>1, <1>3, RunningLive
<1>5. u \in Obj /\ kind[u] = "upval" /\ IsLive(u)
  <2>1. u # Nil /\ kind[u] = "upval" /\ u \in Refs(parent)
    BY <1>0, <1>3, <1>4, StrongOf, RefsType DEF FieldsInv, IsLive, TabKinds
  <2> QED
    BY <1>0, <1>4, <2>1, RefsType DEF LiveInv
<1>6. \A x \in Obj : marked'[x] = IF x = o THEN gc.white ELSE marked[x]
  BY <1>0, <1>1
<1>7. marked' \in [Obj -> Colors]
  BY <1>0, <1>1, <1>2, RunningLive
<1>8. fields[o] \in [{"uv"} -> Obj \cup {Nil}]
  BY <1>0, <1>2, KindFields DEF TypeInv
<1>9. /\ DOMAIN fields' = Obj /\ fields'[running] = [fields[running] EXCEPT ![s] = o]
      /\ fields'[o] = [fields[o] EXCEPT !.uv = u]
      /\ \A x \in Obj \ {running, o} : fields'[x] = fields[x]
  BY <1>0, <1>2, <1>4, RunningLive
<1>10. fields'[o] \in [{"uv"} -> {u}]
  BY <1>8, <1>9
<1>11. /\ ~IsLive(o) /\ IsFresh(o) /\ o \in Values
       /\ IsLive(o)' /\ IsLive(u)' /\ IsLive(running)'
  BY <1>1, <1>2, <1>5, <1>6, RunningLive DEF IsLive, IsDead, IsFresh, Values
<1>12. /\ \A x \in Obj \ {running} :
            IF kind[x] = "func" /\ marked'[x] # marked[x]
            THEN \E y \in Obj : kind[y] = "upval" /\ IsLive(y)' /\ fields'[x] \in [{"uv"} -> {y}]
            ELSE fields'[x] = fields[x]
  BY <1>2, <1>5, <1>6, <1>9, <1>10, <1>11, RunningLive
<1>13. StackStep(running, s, o)
  BY <1>0, <1>1, <1>2, <1>6, <1>7, <1>9, <1>11, <1>12, RunningLive DEF StackStep, TypeInv
<1> QED
  BY <1>1, <1>13, StackSafe

\* The thread that goes on running is live.
LEMMA ResumeSafe ==
  ASSUME SafeInv, UNCHANGED <<kind, finalizing, full, doomed>>, Resume
  PROVE  CoreInv'
<1>0. TypeInv /\ LiveInv /\ DOMAIN fields = Obj /\ Main \in Obj
  BY KindType DEF SafeInv, CoreInv, TypeInv
<1>1. PICK s \in Slots, p \in Slots :
        LET to == IF running = Main THEN Stack(s) ELSE Main
        IN  /\ to # Nil /\ kind[to] = "thread" /\ to # running
            /\ running' = to
            /\ fields' = [fields EXCEPT ![to][p] = Stack(p)]
            /\ UNCHANGED <<marked, openAt, gc>>
  BY Zenon DEF Resume
<1>2. PICK to, v : to = (IF running = Main THEN Stack(s) ELSE Main) /\ v = Stack(p)
  OBVIOUS
<1>3. /\ to \in Obj /\ kind[to] = "thread" /\ IsLive(to)
      /\ running' = to /\ fields' = [fields EXCEPT ![to][p] = v] /\ UNCHANGED <<marked, openAt, gc>>
      /\ v \in Values \cup {Nil} /\ (v # Nil => IsLive(v))
  BY <1>0, <1>1, <1>2, RunningLive DEF LiveInv
<1>4. IsLive(running)' /\ (v # Nil => IsLive(v)')
  BY <1>3 DEF IsLive, IsDead
<1>5. /\ DOMAIN fields' = Obj /\ fields'[to] = [fields[to] EXCEPT ![p] = v]
      /\ \A x \in Obj \ {to} : fields'[x] = fields[x]
  BY <1>0, <1>3
<1>6. StackStep(to, p, v)
  BY <1>0, <1>1, <1>3, <1>4, <1>5 DEF StackStep, TypeInv, IsLive
<1> QED
  BY <1>3, <1>6, StackSafe
-------------------------------------------------------------------------------
(* The program: steps that write to the heap.                              *)

\* The references from other objects are the same.
LEMMA OthersShape ==
  ASSUME TypeInv, FieldsInv, UNCHANGED <<kind, openAt>>, NEW o \in Obj, kind[o] # "thread",
         NEW new, fields' = [fields EXCEPT ![o] = new], NEW x \in Obj, x # o
  PROVE  /\ fields'[x] = fields[x] /\ Strong(x)' = Strong(x) /\ Refs(x)' = Refs(x)
         /\ UpvalVal(x)' = UpvalVal(x)
<1>1. \A y \in Obj \ {o} : fields'[y] = fields[y]
  BY DEF TypeInv
<1>2. UpvalVal(x)' = UpvalVal(x)
  <2>1. openAt[x] # Nil => openAt[x].thread \in Obj \ {o}
    BY DEF TypeInv, FieldsInv, Placed
  <2> QED
    BY <1>1, <2>1 DEF UpvalVal
<1>3. Strong(x)' = Strong(x)
  BY <1>1, <1>2 DEF Strong
<1>4. ASSUME kind[x] \in TabKinds
      PROVE  Readable(x)' = Readable(x)
  BY <1>1, <1>4 DEF Readable, TabKinds
<1> QED
  BY <1>1, <1>2, <1>3, <1>4 DEF Refs

\* A store of live values into a live object that is no stack.
HeapWrite(o, new) ==
  /\ o \in Obj /\ IsLive(o)
  /\ kind[o] \in TabKinds \cup {"udata"} \/ IsClosed(o)
  /\ new \in [FieldsOf(kind[o]) -> Values \cup {Nil}]
  /\ \A f \in FieldsOf(kind[o]) : new[f] # Nil => IsLive(new[f])
  /\ kind[o] = "udata" => new.env = Nil \/ kind[new.env] \in TabKinds
  /\ fields' = [fields EXCEPT ![o] = new]

\* A barrier for it, that makes of the marks what r is: it keeps the marking
\* without the object, and leaves the object black only if the values are marked.
\* Outside of the mark phase it recolors the object at most.
IsBarrier(r, o, new) ==
  /\ IsMarking(r)
  /\ \A x \in Obj : r.marked[x] = "free" <=> marked[x] = "free"
  /\ Marking => /\ MarkInv(r, Pending \cup {o})
                /\ r.marked[o] = "black" => \A f \in FieldsOf(kind[o]) : ~IsWhite(r.marked, new[f])
  /\ ~Marking => \A x \in Obj :
       \/ r.marked[x] = marked[x]
       \/ x = o /\ marked[x] = "black" /\ (r.marked[x] = gc.white \/ (r.marked[x] = "gray" /\ kind[x] \in TabKinds))

\* A store with its barrier keeps the invariant.
LEMMA StoreSafe ==
  ASSUME SafeInv, UNCHANGED <<kind, openAt, running, finalizing, full, doomed>>,
         NEW o, NEW new, HeapWrite(o, new),
         NEW r, SetMarks(r), IsBarrier(r, o, new)
  PROVE  CoreInv'
<1> USE DEF HeapWrite, IsBarrier
<1>0. /\ TypeInv /\ FieldsInv /\ FinalizerInv /\ LiveInv /\ PhaseInv
      /\ kind[o] # "thread" /\ Values \subseteq Obj /\ Values' = Values
  BY DEF SafeInv, CoreInv, IsClosed, TabKinds, Values
<1>1. /\ marked' = r.marked
      /\ gc' = [gc EXCEPT !.gray = r.gray, !.grayagain = r.grayagain, !.weak = r.weak]
  BY DEF SetMarks
<1>2. /\ gc' \in [state : States, white : Whites,
                  gray : SUBSET Obj, grayagain : SUBSET Obj, weak : SUBSET Obj,
                  mmudata : Seq(Obj), finalized : SUBSET Obj, unswept : SUBSET Obj]
      /\ gc'.state = gc.state /\ gc'.white = gc.white /\ gc'.mmudata = gc.mmudata /\ gc'.unswept = gc.unswept
      /\ (Marks)' = r
  BY <1>0, <1>1 DEF TypeInv, IsMarking, Marks
<1>3. /\ DOMAIN fields' = Obj /\ fields'[o] = new
      /\ \A x \in Obj \ {o} : fields'[x] = fields[x]
  BY <1>0 DEF TypeInv
<1>4. \A x \in Obj : IsLive(x)' <=> IsLive(x)
  <2>1. CASE Marking
    <3>1. \A x \in Obj : r.marked[x] # OtherWhite(gc.white) /\ marked[x] # OtherWhite(gc.white)
      BY <1>0, <2>1 DEF MarkInv, PhaseInv, Marks
    <3> QED
      BY <1>1, <1>2, <3>1 DEF IsLive, IsDead
  <2>2. CASE ~Marking
    BY <1>0, <1>1, <1>2, <2>2, ColorFacts DEF IsLive, IsDead
  <2> QED
    BY <2>1, <2>2
<1>5. TypeInv'
  <2>1. ASSUME NEW x \in Obj
        PROVE  fields'[x] \in [FieldsOf(kind[x]) -> Obj \cup {Nil}]
    BY <1>0, <1>3 DEF TypeInv
  <2>2. marked' \in [Obj -> Colors]
    BY <1>1 DEF IsMarking
  <2> QED
    BY <1>0, <1>2, <1>3, <2>1, <2>2 DEF TypeInv, Placed
<1>6. FieldsInv'
  <2>1. \A x \in Obj : Empty(x)' = Empty(x)
    BY DEF Empty
  <2>2. ASSUME NEW x \in Obj, x # o
        PROVE  /\ kind[x] \in TabKinds \cup {"thread", "upval"} =>
                    \A f \in FieldsOf(kind[x]) : fields'[x][f] \in Values \cup {Nil}
               /\ kind[x] = "udata" => fields'[x].env = Nil \/ kind[fields'[x].env] \in TabKinds
               /\ kind[x] = "func" /\ marked'[x] # "free" => fields'[x].uv # Nil /\ kind[fields'[x].uv] = "upval"
               /\ marked'[x] = "free" => fields'[x] = Empty(x) /\ openAt[x] = Nil
    BY <1>0, <1>1, <1>3, <2>2 DEF FieldsInv
  <2>3. /\ \A f \in FieldsOf(kind[o]) : fields'[o][f] \in Values \cup {Nil}
        /\ kind[o] = "udata" => fields'[o].env = Nil \/ kind[fields'[o].env] \in TabKinds
        /\ kind[o] # "func" /\ marked'[o] # "free"
    BY <1>1, <1>3 DEF IsLive, IsClosed, TabKinds
  <2>4. \A x \in Obj : /\ kind[x] = "none" => marked'[x] = "free"
                       /\ openAt[x] # Nil => /\ kind[x] = "upval" /\ kind[openAt[x].thread] = "thread"
                                             /\ marked'[openAt[x].thread] # "free"
    BY <1>0, <1>1 DEF FieldsInv, TypeInv, Placed
  <2> QED
    BY <1>0, <2>1, <2>2, <2>3, <2>4 DEF FieldsInv
<1>7. /\ Strong(o)' \subseteq {new[f] : f \in FieldsOf(kind[o])}
      /\ Refs(o)' \subseteq {new[f] : f \in FieldsOf(kind[o])}
  <2>1. CASE kind[o] \in TabKinds
    <3>1. Refs(o)' \subseteq {new.key, new.val}
      BY <1>3, <2>1 DEF Refs, Readable, TabKinds
    <3>2. Strong(o)' \subseteq {new.key, new.val}
      BY <1>3, <2>1 DEF Strong, FieldsOf, TabKinds
    <3> QED
      BY <2>1, <3>1, <3>2, KindFields
  <2>2. CASE kind[o] = "udata"
    BY <1>3, <2>2 DEF Refs, Strong, FieldsOf, TabKinds
  <2>3. CASE IsClosed(o)
    <3>1. kind[o] = "upval" /\ UpvalVal(o)' = new.val
      BY <1>3, <2>3 DEF IsClosed, UpvalVal
    <3> QED
      BY <3>1 DEF Refs, Strong, FieldsOf, TabKinds
  <2> QED
    BY <2>1, <2>2, <2>3
<1>8. \A x \in Obj \ {o} : Strong(x)' = Strong(x) /\ Refs(x)' = Refs(x)
  BY <1>0, OthersShape
<1>9. Pending' = Pending /\ Pending \subseteq Obj
  BY <1>0, <1>2, PendingType DEF Pending
<1>10. LiveInv'
  <2>1. ASSUME NEW x \in Obj, IsLive(x)', NEW v \in Refs(x)' \ {Nil}
        PROVE  IsLive(v)'
    <3>1. CASE x = o
      <4>1. v \in Obj /\ IsLive(v)
        BY <1>0, <1>7, <2>1, <3>1
      <4> QED
        BY <1>4, <4>1
    <3>2. CASE x # o
      <4>1. v \in Obj /\ IsLive(v)
        BY <1>0, <1>4, <1>8, <2>1, <3>2, RefsType DEF LiveInv
      <4> QED
        BY <1>4, <4>1
    <3> QED
      BY <3>1, <3>2
  <2>2. IsLive(Main)' /\ IsLive(running)'
    BY <1>0, <1>4, KindType DEF LiveInv, TypeInv
  <2>3. (finalizing # Nil => IsLive(finalizing))'
    BY <1>0, <1>4 DEF LiveInv, TypeInv
  <2>4. \A x \in Pending' : IsLive(x)'
    BY <1>0, <1>4, <1>9 DEF LiveInv
  <2> QED
    BY <2>1, <2>2, <2>3, <2>4 DEF LiveInv
<1>11. \A x : IsClosed(x)' = IsClosed(x) /\ IsTraversed(x)' = IsTraversed(x)
  BY DEF IsClosed, IsTraversed
<1>12. ColorInv(marked)'
  <2>1. CASE Marking
    BY <1>1, <1>11, <2>1 DEF MarkInv, ColorInv
  <2>2. CASE ~Marking
    <3>1. ASSUME NEW x \in Obj
          PROVE  /\ r.marked[x] = "gray" => kind[x] # "udata" /\ ~IsClosed(x)
                 /\ r.marked[x] = "black" => kind[x] \in {"func", "tab", "udata"} \/ IsClosed(x)
      BY <1>0, <2>2, ColorFacts DEF PhaseInv, ColorInv, IsClosed, TabKinds
    <3> QED
      BY <1>1, <1>11, <3>1 DEF ColorInv
  <2> QED
    BY <2>1, <2>2
<1>13. ASSUME Marking
       PROVE  MarkInv(Marks, Pending)'
  <2>1. MarkInv(r, Pending \cup {o})
    BY <1>13
  <2>2. IsMarking(Marks)' /\ ColorInv(Marks.marked)' /\ ListsInv(Marks)'
    BY <1>2, <1>11, <2>1 DEF MarkInv, IsMarking, ColorInv, ListsInv
  <2>3. ASSUME NEW x \in Obj \ Pending, r.marked[x] = "black", NEW v \in Strong(x)'
        PROVE  ~IsWhite(r.marked, v)
    <3>1. CASE x = o
      BY <1>7, <1>13, <2>3, <3>1
    <3>2. CASE x # o
      BY <1>8, <2>1, <2>3, <3>2 DEF MarkInv, BlackDone, Done
    <3> QED
      BY <3>1, <3>2
  <2>4. BlackDone(Marks.marked, Obj \ Pending)'
    BY <1>2, <1>9, <2>3 DEF BlackDone, Done, IsWhite
  <2> QED
    BY <1>2, <2>1, <2>2, <2>4 DEF MarkInv, OtherWhite
<1>14. ~Sweeping => \A x \in Obj : marked'[x] # OtherWhite(gc.white)
  <2>1. CASE Marking
    BY <1>1, <2>1 DEF MarkInv
  <2>2. CASE ~Marking
    BY <1>0, <1>1, <2>2, ColorFacts DEF PhaseInv
  <2> QED
    BY <2>1, <2>2
<1>15. ASSUME Between
       PROVE  \A x \in (Allocated \ Pending)' : marked'[x] = gc.white
  <2>1. ~Marking
    BY <1>0, <1>15, PhaseFacts
  <2>2. o \notin Pending => marked[o] = gc.white
    BY <1>0, <1>15 DEF PhaseInv, Allocated, IsLive
  <2>3. kind[o] \in TabKinds => o \notin Pending
    BY <1>0, PendingType DEF TabKinds
  <2> QED
    BY <1>0, <1>1, <1>9, <1>15, <2>1, <2>2, <2>3, ColorFacts DEF PhaseInv, Allocated
<1>16. ASSUME Sweeping
       PROVE  SweepInv'
  <2>1. SweepInv /\ ~Marking
    BY <1>0, <1>16, PhaseFacts DEF PhaseInv
  <2>2. gc.unswept \subseteq Obj
    BY <1>0 DEF TypeInv
  <2>3. \A x \in gc.unswept : marked'[x] # "free" /\ openAt[x] = Nil
    BY <1>1, <2>1, <2>2 DEF SweepInv
  <2>4. ASSUME NEW x \in Obj, marked'[x] # "free", x \notin Pending, marked'[x] # gc.white
        PROVE  x \in gc.unswept \/ (openAt[x] # Nil /\ openAt[x].thread \in gc.unswept)
    <3>1. marked[x] # "free" /\ marked[x] # gc.white
      BY <1>0, <1>1, <2>1, <2>4, ColorFacts
    <3> QED
      BY <2>1, <2>4, <3>1 DEF SweepInv, Allocated
  <2> QED
    BY <1>2, <1>9, <2>3, <2>4 DEF SweepInv, Allocated
<1>17. PhaseInv'
  BY <1>1, <1>2, <1>12, <1>13, <1>14, <1>15, <1>16 DEF PhaseInv, Marking, Sweeping, Between
<1> QED
  BY <1>5, <1>6, <1>10, <1>17 DEF CoreInv

\* lj_gc_anybarriert keeps the invariant of a marking, and the table is not black
\* afterwards.
LEMMA BarrierBackKeeps ==
  ASSUME TypeInv, FieldsInv, NEW h, IsMarking(h), NEW t \in Obj, kind[t] \in TabKinds
  PROVE  LET r == BarrierBack(h, t)
         IN  /\ IsMarking(r) /\ r.marked[t] # "black"
             /\ \A x \in Obj : \/ r.marked[x] = h.marked[x]
                               \/ x = t /\ h.marked[x] = "black" /\ r.marked[x] = "gray"
             /\ \A waived : MarkInv(h, waived) => MarkInv(r, waived)
<1> DEFINE r == BarrierBack(h, t)
<1>1. CASE h.marked[t] # "black"
  <2>1. r = h
    BY <1>1 DEF BarrierBack, IsBlack
  <2> QED
    BY <1>1, <2>1
<1>2. CASE h.marked[t] = "black"
  <2>1. r = [h EXCEPT !.marked[t] = "gray", !.grayagain = @ \cup {t}]
    BY <1>2 DEF BarrierBack, IsBlack
  <2> HIDE DEF r
  <2>2. /\ IsMarking(r) /\ r.gray = h.gray /\ r.weak = h.weak /\ r.grayagain = h.grayagain \cup {t}
        /\ \A x \in Obj : r.marked[x] = IF x = t THEN "gray" ELSE h.marked[x]
    <3>1. /\ r.gray = h.gray /\ r.weak = h.weak /\ r.grayagain = h.grayagain \cup {t}
          /\ r.marked = [h.marked EXCEPT ![t] = "gray"]
          /\ r = [marked |-> r.marked, gray |-> r.gray, grayagain |-> r.grayagain, weak |-> r.weak]
      BY <2>1 DEF IsMarking
    <3>2. h.marked \in [Obj -> Colors] /\ "gray" \in Colors
      BY DEF IsMarking, Colors
    <3> QED
      BY <3>1, <3>2 DEF IsMarking
  <2>3. ASSUME NEW waived, MarkInv(h, waived)
        PROVE  MarkInv(r, waived)
    <3>1. kind[t] = "tab" /\ IsTraversed(t) /\ ~IsClosed(t)
      BY <1>2, <2>3 DEF MarkInv, ColorInv, TabKinds, IsTraversed, IsClosed
    <3>2. \A x \in Obj : r.marked[x] # OtherWhite(gc.white)
      BY <2>2, <2>3, ColorFacts DEF MarkInv
    <3>3. ColorInv(r.marked)
      BY <2>2, <2>3, <3>1 DEF MarkInv, ColorInv
    <3>4. t \notin h.gray /\ t \notin h.weak
      BY <1>2, <2>3 DEF MarkInv, ListsInv
    <3>5. ListsInv(r)
      BY <2>2, <2>3, <3>1, <3>4 DEF MarkInv, ListsInv, IsMarking
    <3>6. \A v : IsWhite(r.marked, v) /\ v \in Obj \cup {Nil} => IsWhite(h.marked, v)
      BY <2>2, ColorFacts DEF IsWhite
    <3>7. BlackDone(r.marked, Obj \ waived)
      BY <2>2, <2>3, <3>6, StrongType DEF MarkInv, BlackDone, Done
    <3> QED
      BY <2>2, <3>2, <3>3, <3>5, <3>7 DEF MarkInv
  <2> QED
    BY <1>2, <2>2, <2>3 DEF r
<1> QED
  BY <1>1, <1>2

\* The fields of a table, as a function.
LEMMA TwoFields ==
  ASSUME NEW S, NEW k \in S, NEW v \in S
  PROVE  /\ [key |-> k, val |-> v] \in [{"key", "val"} -> S]
         /\ [key |-> k, val |-> v]["key"] = k /\ [key |-> k, val |-> v]["val"] = v
OBVIOUS

\* A store to a table, when its barrier is lj_gc_anybarriert or the table is not
\* black or the values are marked.
LEMMA TableStoreSafe ==
  ASSUME SafeInv, UNCHANGED <<kind, openAt, running, finalizing, full, doomed>>,
         NEW t \in Obj, IsLive(t), kind[t] \in TabKinds,
         NEW k \in Values \cup {Nil}, k # Nil => IsLive(k),
         NEW v \in Values \cup {Nil}, v # Nil => IsLive(v),
         fields' = [fields EXCEPT ![t] = [key |-> k, val |-> v]],
         NEW r, SetMarks(r), r = Marks \/ r = BarrierBack(Marks, t),
         r.marked[t] = "black" => ~IsWhite(r.marked, k) /\ ~IsWhite(r.marked, v)
  PROVE  CoreInv'
<1> DEFINE new == [key |-> k, val |-> v]
<1>0. TypeInv /\ FieldsInv /\ IsMarking(Marks) /\ Marks.marked = marked
      /\ (Marking => MarkInv(Marks, Pending))
  BY MarksType DEF SafeInv, CoreInv, PhaseInv
<1>1. /\ IsMarking(r)
      /\ \A x \in Obj : \/ r.marked[x] = marked[x]
                        \/ x = t /\ marked[x] = "black" /\ r.marked[x] = "gray"
      /\ Marking => MarkInv(r, Pending)
  <2>1. CASE r = Marks
    BY <1>0, <2>1
  <2>2. CASE r = BarrierBack(Marks, t)
    BY <1>0, <2>2, BarrierBackKeeps
  <2> QED
    BY <2>1, <2>2
<1>2. FieldsOf(kind[t]) = {"key", "val"} /\ kind[t] # "udata"
  BY KindFields DEF TabKinds
<1>3. new \in [FieldsOf(kind[t]) -> Values \cup {Nil}] /\ new["key"] = k /\ new["val"] = v
  BY <1>2, TwoFields
<1>4. fields' = [fields EXCEPT ![t] = new]
  OBVIOUS
<1> HIDE DEF new
<1>5. HeapWrite(t, new)
  BY <1>2, <1>3, <1>4 DEF HeapWrite
<1>6. IsBarrier(r, t, new)
  BY <1>1, <1>2, <1>3 DEF IsBarrier, MarkInv, BlackDone
<1> QED
  BY <1>5, <1>6, StoreSafe

\* A store to userdata or to a closed upvalue, with lj_gc_barrierf.
LEMMA ForwardStoreSafe ==
  ASSUME SafeInv, UNCHANGED <<kind, openAt, running, finalizing, full, doomed>>,
         NEW o \in Obj, IsLive(o), kind[o] = "udata" \/ IsClosed(o),
         NEW v \in Values \cup {Nil}, v # Nil => IsLive(v), kind[o] = "udata" => kind[v] \in TabKinds,
         NEW new \in [FieldsOf(kind[o]) -> {v}], fields' = [fields EXCEPT ![o] = new],
         SetMarks(BarrierF(Marks, o, v))
  PROVE  CoreInv'
<1> DEFINE r == BarrierF(Marks, o, v)
<1>0. TypeInv /\ FieldsInv /\ IsMarking(Marks) /\ Marks.marked = marked
      /\ (Marking => MarkInv(Marks, Pending)) /\ v \in Obj \cup {Nil}
  BY MarksType DEF SafeInv, CoreInv, PhaseInv, Values
<1>1. HeapWrite(o, new) /\ \A f \in FieldsOf(kind[o]) : new[f] = v
  <2>1. kind[o] = "udata" => new.env = v
    BY KindFields
  <2> QED
    BY <2>1 DEF HeapWrite
<1> HIDE DEF r
<1>2. CASE ~(IsBlack(marked, o) /\ IsWhite(marked, v))
  <2>1. r = Marks
    BY <1>0, <1>2 DEF BarrierF, r
  <2>2. IsBarrier(r, o, new)
    BY <1>0, <1>1, <1>2, <2>1 DEF IsBarrier, MarkInv, BlackDone, IsBlack
  <2> QED
    BY <1>1, <2>2, StoreSafe DEF r
<1>3. CASE IsBlack(marked, o) /\ IsWhite(marked, v) /\ Marking
  <2>1. r = MarkAll(Marks, {v})
    BY <1>0, <1>3 DEF BarrierF, r
  <2>2. IsMarking(r) /\ MarkInv(r, Pending)
    BY <1>0, <1>3, <2>1, MarkAllKeeps DEF MarkInv
  <2>3. ~IsWhite(r.marked, v)
    BY <1>0, <2>1, MarkAllMarks DEF IsWhite
  <2>4. \A x \in Obj : r.marked[x] = "free" <=> marked[x] = "free"
    BY <1>0, <2>1, FreeKept
  <2>5. IsBarrier(r, o, new)
    BY <1>1, <1>3, <2>2, <2>3, <2>4 DEF IsBarrier, MarkInv, BlackDone
  <2> QED
    BY <1>1, <2>5, StoreSafe DEF r
<1>4. CASE IsBlack(marked, o) /\ IsWhite(marked, v) /\ ~Marking
  <2>1. r = [Marks EXCEPT !.marked[o] = gc.white]
    BY <1>0, <1>4 DEF BarrierF, r
  <2>2. IsMarking(r) /\ \A x \in Obj : r.marked[x] = IF x = o THEN gc.white ELSE marked[x]
    BY <1>0, <2>1, RunningLive DEF IsMarking
  <2>3. \A x \in Obj : r.marked[x] = "free" <=> marked[x] = "free"
    BY <1>4, <2>2, RunningLive DEF IsBlack
  <2>4. IsBarrier(r, o, new)
    BY <1>4, <2>2, <2>3 DEF IsBarrier, IsBlack
  <2> QED
    BY <1>1, <2>4, StoreSafe DEF r
<1> QED
  BY <1>2, <1>3, <1>4

\* The assignments of the program.
LEMMA AssignSafe ==
  ASSUME SafeInv, UNCHANGED <<kind, finalizing, full, doomed>>, Assign
  PROVE  CoreInv'
<1>0. TypeInv /\ FieldsInv /\ LiveInv /\ IsMarking(Marks) /\ Marks.marked = marked
  BY MarksType DEF SafeInv, CoreInv
<1>1. PICK s \in Slots, p \in Slots :
        /\ Stack(s) # Nil
        /\ \/ \E v \in {Nil, Stack(p)} : StoreInt(Stack(s), v) \/ SetUpval(Stack(s), v)
           \/ \E v \in {Nil, Stack(s), Stack(p)} : Store(Stack(s), Stack(p), v)
           \/ SetEnv(Stack(s), Stack(p))
           \/ DebugSetUpval(Stack(s), Stack(p))
  BY Zenon DEF Assign
<1>2. PICK t, k : t = Stack(s) /\ k = Stack(p)
  OBVIOUS
<1>3. /\ t \in Obj /\ IsLive(t) /\ Nil \notin Obj
      /\ \A v \in {Nil, t, k} : v \in Values \cup {Nil} /\ (v # Nil => IsLive(v))
  BY <1>1, <1>2, RunningLive
<1>4. CASE \E v \in {Nil, t, k} : Store(t, k, v)
  <2>1. PICK v \in {Nil, t, k} : Store(t, k, v)
    BY <1>4
  <2>2. /\ kind[t] \in TabKinds /\ UNCHANGED <<openAt, running>>
        /\ fields' = [fields EXCEPT ![t] = [key |-> k, val |-> v]]
        /\ SetMarks(BarrierBack(Marks, t))
    BY <2>1, Zenon DEF Store
  <2>3. BarrierBack(Marks, t).marked[t] # "black"
    BY <1>0, <1>3, <2>2, BarrierBackKeeps
  <2> QED
    BY <1>3, <2>2, <2>3, TableStoreSafe
<1>5. CASE \E v \in {Nil, k} : StoreInt(t, v)
  <2>1. PICK v \in {Nil, k} : StoreInt(t, v)
    BY <1>5
  <2> DEFINE h == IF fields[t].key = Nil THEN Marks ELSE BarrierBack(Marks, t)
             r == BarrierT(h, t, v)
  <2>2. /\ kind[t] \in TabKinds /\ UNCHANGED <<openAt, running>>
        /\ fields' = [fields EXCEPT ![t] = [key |-> Nil, val |-> v]]
        /\ SetMarks(r)
    BY <2>1, Zenon DEF StoreInt
  <2>3. BarrierBack(Marks, t).marked[t] # "black"
    BY <1>0, <1>3, <2>2, BarrierBackKeeps
  <2>4. h = Marks \/ h = BarrierBack(Marks, t)
    OBVIOUS
  <2>5. r = h \/ r = BarrierBack(h, t)
    BY DEF BarrierT
  <2>6. ~IsWhite(h.marked, v) \/ r = BarrierBack(h, t)
    BY DEF BarrierT
  <2>7. h # Marks => BarrierBack(h, t) = h
    <3>1. BarrierBack(BarrierBack(Marks, t), t) = BarrierBack(Marks, t)
      BY <2>3 DEF BarrierBack, IsBlack
    <3> QED
      BY <2>4, <3>1
  <2> HIDE DEF h, r
  <2>8. /\ r = Marks \/ r = BarrierBack(Marks, t)
        /\ r.marked[t] = "black" => ~IsWhite(r.marked, Nil) /\ ~IsWhite(r.marked, v)
    BY <2>3, <2>4, <2>5, <2>6, <2>7 DEF IsWhite
  <2> QED
    BY <1>3, <2>2, <2>8, TableStoreSafe
<1>6. CASE SetEnv(t, k)
  <2>1. /\ kind[t] = "udata" /\ k # Nil /\ kind[k] \in TabKinds /\ UNCHANGED <<openAt, running>>
        /\ fields' = [fields EXCEPT ![t].env = k]
        /\ SetMarks(BarrierF(Marks, t, k))
    BY <1>6, Zenon DEF SetEnv
  <2>2. fields[t] \in [{"env"} -> Obj \cup {Nil}] /\ FieldsOf(kind[t]) = {"env"}
    BY <1>0, <1>3, <2>1, KindFields DEF TypeInv
  <2> DEFINE new == [fields[t] EXCEPT !.env = k]
  <2>3. new \in [FieldsOf(kind[t]) -> {k}]
    BY <2>2
  <2>4. fields' = [fields EXCEPT ![t] = new]
    BY <2>1
  <2> HIDE DEF new
  <2> QED
    BY <1>3, <2>1, <2>3, <2>4, ForwardStoreSafe
<1>7. CASE \E v \in {Nil, k} : SetUpval(t, v)
  <2>1. PICK v \in {Nil, k} : SetUpval(t, v)
    BY <1>7
  <2>2. PICK u : u = fields[t].uv
    OBVIOUS
  <2>3. /\ kind[t] = "func" /\ UNCHANGED <<openAt, running>>
        /\ IF openAt[u] = Nil
           THEN fields' = [fields EXCEPT ![u].val = v] /\ SetMarks(BarrierF(Marks, u, v))
           ELSE /\ fields' = [fields EXCEPT ![openAt[u].thread][openAt[u].slot] = v]
                /\ UNCHANGED <<marked, gc>>
    BY <2>1, <2>2, Zenon DEF SetUpval
  <2>4. u \in Obj /\ kind[u] = "upval" /\ IsLive(u)
    <3>1. u # Nil /\ kind[u] = "upval" /\ u \in Refs(t)
      BY <1>0, <1>3, <2>2, <2>3, StrongOf, RefsType DEF FieldsInv, IsLive, TabKinds
    <3> QED
      BY <1>0, <1>3, <3>1, RefsType DEF LiveInv
  <2>5. v \in Values \cup {Nil} /\ (v # Nil => IsLive(v))
    BY <1>3
  <2>6. CASE openAt[u] = Nil
    <3>1. fields[u] \in [{"val"} -> Obj \cup {Nil}] /\ FieldsOf(kind[u]) = {"val"}
      BY <1>0, <2>4, KindFields DEF TypeInv
    <3> DEFINE new == [fields[u] EXCEPT !.val = v]
    <3>2. new \in [FieldsOf(kind[u]) -> {v}]
      BY <3>1
    <3>3. fields' = [fields EXCEPT ![u] = new] /\ SetMarks(BarrierF(Marks, u, v))
      BY <2>3, <2>6
    <3>4. IsClosed(u) /\ kind[u] # "udata"
      BY <2>4, <2>6 DEF IsClosed
    <3> HIDE DEF new
    <3> QED
      BY <2>3, <2>4, <2>5, <3>2, <3>3, <3>4, ForwardStoreSafe
  <2>7. CASE openAt[u] # Nil
    <3>1. PICK thread, slot : thread = openAt[u].thread /\ slot = openAt[u].slot
      OBVIOUS
    <3>2. thread \in Obj /\ kind[thread] = "thread" /\ marked[thread] # "free" /\ slot \in Slots
      BY <1>0, <2>4, <2>7, <3>1 DEF TypeInv, FieldsInv, Placed
    <3>3. /\ fields' = [fields EXCEPT ![thread][slot] = v] /\ UNCHANGED <<marked, gc>>
      BY <2>3, <2>7, <3>1
    <3>4. IsLive(running)' /\ (v # Nil => IsLive(v)')
      BY <2>3, <2>5, <3>3, RunningLive DEF IsLive, IsDead
    <3>5. /\ DOMAIN fields' = Obj /\ fields'[thread] = [fields[thread] EXCEPT ![slot] = v]
          /\ \A x \in Obj \ {thread} : fields'[x] = fields[x]
      BY <1>0, <3>2, <3>3 DEF TypeInv
    <3>6. StackStep(thread, slot, v)
      BY <1>0, <2>3, <2>5, <3>2, <3>3, <3>4, <3>5, RunningLive DEF StackStep, TypeInv
    <3> QED
      BY <2>3, <3>3, <3>6, StackSafe
  <2> QED
    BY <2>6, <2>7
<1>8. ~DebugSetUpval(t, k)
  BY DEF DebugSetUpval, SafeInv
<1> QED
  BY <1>1, <1>2, <1>4, <1>5, <1>6, <1>7, <1>8
-------------------------------------------------------------------------------
(* The program: open upvalues that are closed.                             *)

\* Marking some values of the program marks no upvalue.
LEMMA ValuesMarked ==
  ASSUME TypeInv, FieldsInv, NEW h, IsMarking(h), NEW objs, objs \subseteq Values \cup {Nil}
  PROVE  NewlyMarked(h, objs) \subseteq Values
<1> DEFINE x == Values \cap White(h)
<1>1. \A y \in SUBSET White(h) : /\ objs \cap White(h) \subseteq y
                                 /\ \A o \in y \cap Inner : Strong(o) \cap White(h) \subseteq y
                                 => NewlyMarked(h, objs) \subseteq y
  BY MarkedWithLeast DEF NewlyMarked
<1>2. White(h) \subseteq Obj /\ Nil \notin Obj
  BY HeapAssumption DEF White
<1>3. \A o \in x \cap Inner : Strong(o) \cap White(h) \subseteq x
  BY <1>2, StrongType DEF Inner, IsTraversed
<1> HIDE DEF NewlyMarked
<1> QED
  BY <1>1, <1>2, <1>3

\* The colors when upvalues that are gray are closed: in the mark phase they
\* become black and their values are marked.
LEMMA CloseMarks ==
  ASSUME SafeInv, Marking, NEW upvals \in SUBSET Obj, \A u \in upvals : kind[u] = "upval"
  PROVE  LET r == CloseUpval(Marks, upvals)
             gray == {u \in upvals : marked[u] = "gray"}
             r0 == MarkAll(Marks, {UpvalVal(u) : u \in gray})
         IN  /\ IsMarking(r)
             /\ r.gray = r0.gray /\ r.grayagain = r0.grayagain /\ r.weak = r0.weak
             /\ r.marked = [o \in Obj |-> IF o \in gray THEN "black" ELSE r0.marked[o]]
             /\ \A u \in gray : ~IsWhite(r0.marked, UpvalVal(u))
             /\ \A u \in upvals : r0.marked[u] = marked[u]
             /\ MarkInv(r0, Pending)
             /\ \A o \in Obj : r0.marked[o] = "free" <=> marked[o] = "free"
<1> DEFINE gray == {u \in upvals : marked[u] = "gray"}
           vals == {UpvalVal(u) : u \in gray}
           c == Colored(Marks, gray, [u \in Obj |-> "black"])
           r == CloseUpval(Marks, upvals)
           r0 == MarkAll(Marks, vals)
           new == NewlyMarked(Marks, vals)
<1>0. TypeInv /\ FieldsInv /\ MarkInv(Marks, Pending) /\ IsMarking(Marks) /\ Marks.marked = marked
  BY MarksType DEF SafeInv, CoreInv, PhaseInv
<1>1. r = MarkAll(c, vals)
  BY <1>0, Zenon DEF CloseUpval
<1>2. /\ IsMarking(c) /\ c.gray = Marks.gray /\ c.grayagain = Marks.grayagain /\ c.weak = Marks.weak
      /\ c.marked = [o \in Obj |-> IF o \in gray THEN "black" ELSE marked[o]]
  BY <1>0 DEF Colored, IsMarking, Colors
<1>3. White(c) = White(Marks)
  BY <1>0, <1>2, ColorFacts DEF White, IsWhite
<1> HIDE DEF c
<1>4. NewlyMarked(c, vals) = new
  BY <1>3 DEF NewlyMarked
<1>5. vals \subseteq Values \cup {Nil}
  BY <1>0, UpvalValType
<1>6. new \subseteq Values /\ new \subseteq {o \in Obj : IsWhite(marked, o)}
  <2>1. new \subseteq Values
    BY <1>0, <1>5, ValuesMarked
  <2>2. new \subseteq White(Marks)
    BY MarkedWithLeast DEF NewlyMarked
  <2> QED
    BY <1>0, <2>1, <2>2 DEF White
<1>7. /\ IsMarking(r)
      /\ r.marked = [o \in Obj |-> IF o \in new THEN MarkedColor[o] ELSE c.marked[o]]
      /\ r.gray = c.gray \cup {o \in new : IsTraversed(o)}
      /\ r.weak = c.weak /\ r.grayagain = c.grayagain
  <2> HIDE DEF vals, new
  <2>1. LET s == MarkAll(c, vals) IN
        /\ IsMarking(s)
        /\ s.marked = [o \in Obj |-> IF o \in new THEN MarkedColor[o] ELSE c.marked[o]]
        /\ s.gray = c.gray \cup {o \in new : IsTraversed(o)}
        /\ s.weak = c.weak /\ s.grayagain = c.grayagain
    BY <1>2, <1>4, MarkAllShape
  <2> QED
    BY <1>1, <2>1
<1>8. /\ r0.marked = [o \in Obj |-> IF o \in new THEN MarkedColor[o] ELSE marked[o]]
      /\ r0.gray = Marks.gray \cup {o \in new : IsTraversed(o)}
      /\ r0.weak = Marks.weak /\ r0.grayagain = Marks.grayagain
  <2> HIDE DEF vals
  <2> QED
    BY <1>0, MarkAllShape
<1>9. MarkInv(r0, Pending) /\ \A o \in Obj : r0.marked[o] = "free" <=> marked[o] = "free"
  <2> HIDE DEF vals
  <2> QED
    BY <1>0, MarkAllKeeps, FreeKept
<1>10. \A u \in gray : ~IsWhite(r0.marked, UpvalVal(u))
  <2>1. \A v \in vals : ~IsWhite(r0.marked, v)
    <3> HIDE DEF vals
    <3> QED
      BY <1>0, <1>5, MarkAllMarks DEF IsWhite, Values
  <2> QED
    BY <2>1
<1> HIDE DEF new, r, r0, vals
<1>11. \A u \in upvals : u \notin new
  BY <1>6 DEF Values
<1>12. r.marked = [o \in Obj |-> IF o \in gray THEN "black" ELSE r0.marked[o]]
  <2>1. \A o \in Obj : (IF o \in new THEN MarkedColor[o] ELSE c.marked[o])
                       = (IF o \in gray THEN "black" ELSE r0.marked[o])
    BY <1>2, <1>8, <1>11
  <2> QED
    BY <1>7, <2>1
<1>13. r.gray = r0.gray /\ r.grayagain = r0.grayagain /\ r.weak = r0.weak
  BY <1>2, <1>7, <1>8
<1>14. \A u \in upvals : r0.marked[u] = marked[u]
  BY <1>8, <1>11
<1> QED
  BY <1>7, <1>9, <1>10, <1>12, <1>13, <1>14 DEF r, r0, vals

\* lj_func_closeuv: the values move into the upvalues, and dead upvalues are
\* freed.
LEMMA CloseUpvalsSafe ==
  ASSUME SafeInv, UNCHANGED <<kind, finalizing, full, doomed>>, CloseUpvals
  PROVE  CoreInv'
<1>0. /\ TypeInv /\ FieldsInv /\ FinalizerInv /\ LiveInv /\ PhaseInv
      /\ Values \subseteq Obj /\ Values' = Values
      /\ IsMarking(Marks) /\ Marks.marked = marked
      /\ Marks.gray = gc.gray /\ Marks.grayagain = gc.grayagain /\ Marks.weak = gc.weak
  BY MarksType DEF SafeInv, CoreInv, Values
<1>1. PICK level \in Slots :
        LET left == {u \in OpenUpvals(running) : openAt[u].slot >= level}
            dead == {u \in left : IsDead(u)}
            h == CloseUpval(Marks, left \ dead)
        IN  /\ SetMarks([h EXCEPT !.marked = [o \in Obj |-> IF o \in dead THEN "free" ELSE @[o]]])
            /\ fields' = [o \in Obj |-> IF o \in dead THEN Empty(o)
                                        ELSE IF o \in left THEN [val |-> UpvalVal(o)] ELSE fields[o]]
            /\ openAt' = [o \in Obj |-> IF o \in left THEN Nil ELSE openAt[o]]
            /\ UNCHANGED running
  BY Zenon DEF CloseUpvals
<1> DEFINE left == {u \in OpenUpvals(running) : openAt[u].slot >= level}
           dead == {u \in left : IsDead(u)}
           alive == left \ dead
           h == CloseUpval(Marks, alive)
           r == [h EXCEPT !.marked = [o \in Obj |-> IF o \in dead THEN "free" ELSE @[o]]]
           gray == {u \in alive : marked[u] = "gray"}
<1>2. /\ SetMarks(r)
      /\ fields' = [o \in Obj |-> IF o \in dead THEN Empty(o)
                                  ELSE IF o \in left THEN [val |-> UpvalVal(o)] ELSE fields[o]]
      /\ openAt' = [o \in Obj |-> IF o \in left THEN Nil ELSE openAt[o]]
      /\ UNCHANGED running
  BY <1>1
<1>3. /\ left \subseteq Obj
      /\ \A u \in left : marked[u] # "free" /\ openAt[u] # Nil /\ kind[u] = "upval" /\ ~IsClosed(u)
      /\ \A u \in left : u \in dead <=> IsDead(u)
      /\ dead \subseteq left
  BY <1>0 DEF OpenUpvals, Allocated, FieldsInv, IsClosed
<1>4. gray \subseteq left /\ \A u \in left : u \in gray <=> marked[u] = "gray"
  BY <1>0, <1>3, ColorFacts DEF IsDead
<1> HIDE DEF left, dead
<1>5. alive \in SUBSET Obj /\ \A u \in alive : kind[u] = "upval"
  BY <1>3
\* The colors, in the mark phase and outside of it.
<1>6. PICK r0 : Marking =>
        /\ dead = {} /\ IsMarking(r)
        /\ r.gray = r0.gray /\ r.grayagain = r0.grayagain /\ r.weak = r0.weak
        /\ r.marked = [o \in Obj |-> IF o \in gray THEN "black" ELSE r0.marked[o]]
        /\ \A u \in gray : ~IsWhite(r0.marked, UpvalVal(u))
        /\ \A u \in left : r0.marked[u] = marked[u]
        /\ MarkInv(r0, Pending)
        /\ \A o \in Obj : r0.marked[o] = "free" <=> marked[o] = "free"
  <2>1. CASE Marking
    <3>1. dead = {}
      BY <1>0, <1>3, <2>1, PhaseFacts DEF PhaseInv, IsDead
    <3>2. PICK r0 : r0 = MarkAll(Marks, {UpvalVal(u) : u \in gray})
      OBVIOUS
    <3>3. /\ IsMarking(h)
          /\ h.gray = r0.gray /\ h.grayagain = r0.grayagain /\ h.weak = r0.weak
          /\ h.marked = [o \in Obj |-> IF o \in gray THEN "black" ELSE r0.marked[o]]
          /\ \A u \in gray : ~IsWhite(r0.marked, UpvalVal(u))
          /\ \A u \in alive : r0.marked[u] = marked[u]
          /\ MarkInv(r0, Pending)
          /\ \A o \in Obj : r0.marked[o] = "free" <=> marked[o] = "free"
      <4> HIDE DEF alive
      <4>1. LET x == CloseUpval(Marks, alive)
                g == {u \in alive : marked[u] = "gray"}
                x0 == MarkAll(Marks, {UpvalVal(u) : u \in g})
            IN  /\ IsMarking(x)
                /\ x.gray = x0.gray /\ x.grayagain = x0.grayagain /\ x.weak = x0.weak
                /\ x.marked = [o \in Obj |-> IF o \in g THEN "black" ELSE x0.marked[o]]
                /\ \A u \in g : ~IsWhite(x0.marked, UpvalVal(u))
                /\ \A u \in alive : x0.marked[u] = marked[u]
                /\ MarkInv(x0, Pending)
                /\ \A o \in Obj : x0.marked[o] = "free" <=> marked[o] = "free"
        BY <1>5, <2>1, CloseMarks
      <4> QED
        BY <3>2, <4>1, Zenon
    <3> HIDE DEF h, gray
    <3>4. r.marked = h.marked /\ r.gray = h.gray /\ r.grayagain = h.grayagain /\ r.weak = h.weak /\ IsMarking(r)
      <4>1. [o \in Obj |-> IF o \in dead THEN "free" ELSE h.marked[o]] = h.marked
        BY <3>1, <3>3 DEF IsMarking
      <4> QED
        BY <3>3, <4>1 DEF IsMarking
    <3> HIDE DEF r
    <3> QED
      BY <3>1, <3>3, <3>4
  <2> QED
    BY <2>1
<1>7. ~Marking =>
        /\ IsMarking(r)
        /\ r.gray = gc.gray /\ r.grayagain = gc.grayagain /\ r.weak = gc.weak
        /\ r.marked = [o \in Obj |-> IF o \in dead THEN "free" ELSE IF o \in gray THEN gc.white ELSE marked[o]]
  <2> SUFFICES ASSUME ~Marking
               PROVE  /\ IsMarking(r)
                      /\ r.gray = gc.gray /\ r.grayagain = gc.grayagain /\ r.weak = gc.weak
                      /\ r.marked = [o \in Obj |-> IF o \in dead THEN "free" ELSE IF o \in gray THEN gc.white ELSE marked[o]]
    OBVIOUS
  <2>1. h = Colored(Marks, gray, [u \in Obj |-> gc.white])
    BY <1>0, Zenon DEF CloseUpval
  <2> HIDE DEF h, gray
  <2>2. /\ h.gray = gc.gray /\ h.grayagain = gc.grayagain /\ h.weak = gc.weak
        /\ h.marked = [o \in Obj |-> IF o \in gray THEN gc.white ELSE marked[o]]
        /\ IsMarking(h)
    BY <1>0, <2>1, RunningLive DEF Colored, IsMarking
  <2> QED
    BY <2>2 DEF IsMarking, Colors
<1> HIDE DEF h, r, gray
<1>8. gc.white \in Whites /\ gc.white # "free" /\ gc.white # OtherWhite(gc.white) /\ gc.white \notin {"gray", "black"}
  BY <1>0, ColorFacts
<1>9. \A o \in Obj : /\ o \in dead <=> o \in left /\ IsDead(o)
                     /\ r.marked[o] = "free" <=> marked[o] = "free" \/ o \in dead
                     /\ r.marked[o] = OtherWhite(gc.white) => marked[o] = OtherWhite(gc.white)
                     /\ o \notin dead /\ marked[o] = OtherWhite(gc.white) => r.marked[o] = OtherWhite(gc.white)
                     /\ IsLive(o) => r.marked[o] # "free" /\ r.marked[o] # OtherWhite(gc.white)
  <2>1. CASE Marking
    <3>1. \A o \in Obj : r0.marked[o] # OtherWhite(gc.white) /\ marked[o] # OtherWhite(gc.white)
      BY <1>0, <2>1, <1>6, PhaseFacts DEF MarkInv, PhaseInv
    <3> QED
      BY <1>0, <1>3, <1>4, <1>6, <2>1, <3>1, ColorFacts DEF IsLive, IsDead
  <2>2. CASE ~Marking
    BY <1>0, <1>3, <1>4, <1>7, <1>8, <2>2, ColorFacts DEF IsLive, IsDead
  <2> QED
    BY <2>1, <2>2
<1>10. IsMarking(r)
  BY <1>6, <1>7
<1>11. /\ marked' = r.marked
       /\ gc' = [gc EXCEPT !.gray = r.gray, !.grayagain = r.grayagain, !.weak = r.weak]
  BY <1>2 DEF SetMarks
<1>12. /\ gc' \in [state : States, white : Whites,
                   gray : SUBSET Obj, grayagain : SUBSET Obj, weak : SUBSET Obj,
                   mmudata : Seq(Obj), finalized : SUBSET Obj, unswept : SUBSET Obj]
       /\ gc'.state = gc.state /\ gc'.white = gc.white /\ gc'.mmudata = gc.mmudata /\ gc'.unswept = gc.unswept
       /\ (Marks)' = r
  BY <1>0, <1>10, <1>11 DEF TypeInv, IsMarking, Marks
<1>13. \A o \in Obj : /\ o \in dead => fields'[o] = Empty(o)
                      /\ o \in left /\ o \notin dead => fields'[o] = [val |-> UpvalVal(o)]
                      /\ o \notin left => fields'[o] = fields[o]
                      /\ openAt'[o] = IF o \in left THEN Nil ELSE openAt[o]
  BY <1>2, <1>3
<1>14. \A o \in Obj : IsLive(o)' <=> IsLive(o)
  BY <1>3, <1>9, <1>11, <1>12 DEF IsLive, IsDead
<1>15. Pending' = Pending /\ Pending \subseteq Obj
  BY <1>0, <1>12, PendingType DEF Pending
<1>16. \A o \in Obj : marked'[o] = "free" <=> marked[o] = "free" \/ o \in dead
  BY <1>9, <1>11
<1>17. \A o \in Obj : Empty(o) \in [FieldsOf(kind[o]) -> Obj \cup {Nil}]
  BY DEF Empty
<1>18. \A o \in left : FieldsOf(kind[o]) = {"val"} /\ UpvalVal(o) \in Values \cup {Nil}
  BY <1>0, <1>3, KindFields, UpvalValType
<1>19. TypeInv'
  <2>1. marked' \in [Obj -> Colors]
    BY <1>10, <1>11 DEF IsMarking
  <2>2. ASSUME NEW o \in Obj
        PROVE  fields'[o] \in [FieldsOf(kind[o]) -> Obj \cup {Nil}]
    <3>1. CASE o \in left /\ o \notin dead
      <4>1. FieldsOf(kind[o]) = {"val"} /\ UpvalVal(o) \in Obj \cup {Nil} /\ fields'[o] = [val |-> UpvalVal(o)]
        BY <1>0, <1>13, <1>18, <3>1
      <4> QED
        BY <4>1, OneField
    <3>2. CASE o \in dead
      BY <1>13, <1>17, <3>2
    <3>3. CASE o \notin left
      BY <1>0, <1>13, <3>3 DEF TypeInv
    <3> QED
      BY <3>1, <3>2, <3>3
  <2>3. DOMAIN fields' = Obj /\ openAt' \in [Obj -> Placed \cup {Nil}]
    BY <1>0, <1>2 DEF TypeInv
  <2>4. running' = running
    BY <1>2
  <2> QED
    BY <1>0, <1>12, <2>1, <2>2, <2>3, <2>4 DEF TypeInv, Placed
\* An upvalue that stays open has the same thread, unchanged.
<1>20. ASSUME NEW o \in Obj, openAt'[o] # Nil
       PROVE  /\ openAt'[o] = openAt[o] /\ o \notin left /\ openAt[o].thread \in Obj
              /\ kind[openAt[o].thread] = "thread" /\ marked'[openAt[o].thread] # "free"
              /\ fields'[openAt[o].thread] = fields[openAt[o].thread]
  <2> DEFINE t == openAt[o].thread
  <2>1. openAt'[o] = openAt[o] /\ o \notin left
    BY <1>13, <1>20
  <2>2. t \in Obj /\ kind[t] = "thread" /\ marked[t] # "free"
    BY <1>0, <1>20, <2>1 DEF TypeInv, FieldsInv, Placed
  <2>3. t \notin left
    BY <1>3, <2>2
  <2> QED
    BY <1>3, <1>13, <1>16, <2>1, <2>2, <2>3
<1>21. FieldsInv'
  <2>1. \A o \in Obj : Empty(o)' = Empty(o)
    BY DEF Empty
  <2>2. ASSUME NEW o \in Obj, NEW f \in FieldsOf(kind[o]), kind[o] \in TabKinds \cup {"thread", "upval"}
        PROVE  fields'[o][f] \in Values \cup {Nil}
    <3>1. CASE o \in left /\ o \notin dead
      <4>1. f = "val" /\ fields'[o] = [val |-> UpvalVal(o)]
        BY <1>13, <1>18, <2>2, <3>1
      <4> QED
        BY <1>18, <3>1, <4>1, OneField
    <3>2. CASE o \in dead
      <4>1. fields'[o][f] = Nil
        BY <1>13, <2>2, <3>2 DEF Empty
      <4> QED
        BY <4>1
    <3>3. CASE o \notin left
      BY <1>0, <1>13, <2>2, <3>3 DEF FieldsInv
    <3> QED
      BY <3>1, <3>2, <3>3
  <2>3. ASSUME NEW o \in Obj, kind[o] \in {"udata", "func"}
        PROVE  /\ kind[o] = "udata" => fields'[o].env = Nil \/ kind[fields'[o].env] \in TabKinds
               /\ kind[o] = "func" /\ marked'[o] # "free" => fields'[o].uv # Nil /\ kind[fields'[o].uv] = "upval"
    <3>1. o \notin left
      BY <1>3, <2>3
    <3>2. fields'[o] = fields[o] /\ (marked'[o] # "free" => marked[o] # "free")
      BY <1>13, <1>16, <3>1
    <3> QED
      BY <1>0, <3>2 DEF FieldsInv
  <2>4. ASSUME NEW o \in Obj, marked'[o] = "free"
        PROVE  fields'[o] = Empty(o) /\ openAt'[o] = Nil
    <3>1. CASE o \in dead
      BY <1>3, <1>13, <3>1
    <3>2. CASE o \notin dead
      <4>1. marked[o] = "free" /\ o \notin left
        BY <1>3, <1>16, <2>4, <3>2
      <4>2. fields[o] = Empty(o) /\ openAt[o] = Nil
        BY <1>0, <4>1 DEF FieldsInv
      <4> QED
        BY <1>13, <4>1, <4>2
    <3> QED
      BY <3>1, <3>2
  <2>5. \A o \in Obj : kind[o] = "none" => marked'[o] = "free"
    BY <1>0, <1>16 DEF FieldsInv
  <2>6. \A o \in Obj : openAt'[o] # Nil => /\ kind[o] = "upval" /\ kind[openAt'[o].thread] = "thread"
                                           /\ marked'[openAt'[o].thread] # "free"
    BY <1>0, <1>20 DEF FieldsInv
  <2> QED
    BY <1>0, <2>1, <2>2, <2>3, <2>4, <2>5, <2>6 DEF FieldsInv
\* Closing an upvalue does not change what it refers to.
<1>22. ASSUME NEW o \in Obj, o \notin dead
       PROVE  Refs(o)' = Refs(o) /\ Strong(o)' = Strong(o)
  <2>1. CASE kind[o] = "upval"
    <3>1. UpvalVal(o)' = UpvalVal(o)
      <4>1. CASE o \in left
        <5>1. openAt'[o] = Nil /\ fields'[o] = [val |-> UpvalVal(o)]
          BY <1>13, <1>22, <4>1
        <5>2. UpvalVal(o)' = fields'[o].val
          BY <5>1 DEF UpvalVal
        <5> QED
          BY <5>1, <5>2
      <4>2. CASE o \notin left
        BY <1>13, <1>20, <4>2 DEF UpvalVal
      <4> QED
        BY <4>1, <4>2
    <3> QED
      BY <2>1, <3>1 DEF Refs, Strong, FieldsOf, TabKinds
  <2>2. CASE kind[o] # "upval"
    <3>1. fields'[o] = fields[o]
      BY <1>3, <1>13, <2>2
    <3>2. Strong(o)' = Strong(o)
      BY <2>2, <3>1 DEF Strong
    <3>3. kind[o] \in TabKinds => Readable(o)' = Readable(o)
      BY <3>1 DEF Readable, TabKinds
    <3> QED
      BY <3>2, <3>3 DEF Refs
  <2> QED
    BY <2>1, <2>2
<1>23. LiveInv'
  <2>1. Main \in Obj /\ running \in Obj /\ running' = running /\ finalizing \in Obj \cup {Nil}
    BY <1>0, <1>2, KindType DEF TypeInv
  <2>2. IsLive(Main)' /\ IsLive(running)'
    BY <1>0, <1>14, <2>1 DEF LiveInv
  <2>3. \A o \in Pending' : IsLive(o)'
    BY <1>0, <1>14, <1>15 DEF LiveInv
  <2>4. ASSUME NEW o \in Obj, IsLive(o)', NEW v \in Refs(o)' \ {Nil}
        PROVE  IsLive(v)'
    <3>1. IsLive(o) /\ o \notin dead
      BY <1>3, <1>14, <2>4 DEF IsLive
    <3>2. v \in Refs(o) /\ v \in Obj
      BY <1>0, <1>22, <2>4, <3>1, RefsType
    <3> QED
      BY <1>0, <1>14, <2>4, <3>1, <3>2 DEF LiveInv
  <2>5. (finalizing # Nil => IsLive(finalizing))'
    BY <1>0, <1>14, <2>1 DEF LiveInv
  <2> QED
    BY <2>2, <2>3, <2>4, <2>5 DEF LiveInv
<1>24. \A o \in Obj : /\ IsTraversed(o)' = IsTraversed(o)
                      /\ IsClosed(o)' <=> IsClosed(o) \/ o \in left
  BY <1>3, <1>13 DEF IsClosed, IsTraversed
\* An open upvalue is never black.
<1>25. \A o \in left : marked[o] # "black"
  BY <1>0, <1>3 DEF PhaseInv, ColorInv
<1>26. CASE Marking
  <2>1. Marking' /\ ~Sweeping' /\ ~Between'
    BY <1>0, <1>12, <1>26, PhaseFacts DEF Marking, Sweeping, Between
  <2>2. ASSUME NEW o \in Obj
        PROVE  /\ r.marked[o] = "gray" => kind[o] # "udata" /\ ~IsClosed(o)'
               /\ r.marked[o] = "black" => kind[o] \in {"func", "tab", "udata"} \/ IsClosed(o)'
    BY <1>0, <1>4, <1>6, <1>24, <1>26, ColorFacts DEF MarkInv, ColorInv
  <2>3. \A o \in Obj : r.marked[o] # OtherWhite(gc.white)
    BY <1>0, <1>6, <1>26, ColorFacts DEF MarkInv
  <2>4. \A o \in Obj : IsTraversed(o) => o \notin gray /\ r.marked[o] = r0.marked[o]
    BY <1>3, <1>4, <1>6, <1>26 DEF IsTraversed, TabKinds
  <2>5. ListsInv(r)
    <3>1. ListsInv(r0) /\ IsMarking(r0)
      BY <1>6, <1>26 DEF MarkInv
    <3> QED
      BY <1>6, <1>26, <2>4, <3>1 DEF ListsInv, IsMarking
  <2>6. ASSUME NEW o \in Obj \ Pending, r.marked[o] = "black", NEW v \in Strong(o)
        PROVE  ~IsWhite(r.marked, v)
    <3>1. ~IsWhite(r0.marked, v)
      <4>1. CASE o \in gray
        <5>1. Strong(o) = {UpvalVal(o)}
          BY <1>0, <1>3, <1>4, <4>1, StrongOf
        <5> QED
          BY <1>6, <1>26, <2>6, <4>1, <5>1
      <4>2. CASE o \notin gray
        <5>1. r0.marked[o] = "black"
          BY <1>6, <1>26, <2>6, <4>2
        <5> QED
          BY <1>6, <1>26, <2>6, <5>1 DEF MarkInv, BlackDone, Done
      <4> QED
        BY <4>1, <4>2
    <3>2. Strong(o) \subseteq Obj \cup {Nil}
      BY <1>0, StrongType
    <3> QED
      BY <1>6, <1>26, <2>6, <3>1, <3>2 DEF IsWhite, Whites
  <2>7. MarkInv(Marks, Pending)'
    <3>1. IsMarking(Marks)'
      BY <1>10, <1>12 DEF IsMarking
    <3>2. ColorInv(Marks.marked)'
      BY <1>12, <2>2 DEF ColorInv
    <3>3. ListsInv(Marks)'
      BY <1>10, <1>12, <1>24, <2>5 DEF ListsInv, IsMarking
    <3>4. BlackDone(Marks.marked, Obj \ Pending)'
      BY <1>4, <1>3, <1>12, <1>15, <1>22, <1>26, <1>6, <2>6 DEF BlackDone, Done, IsWhite
    <3> QED
      BY <1>12, <2>3, <3>1, <3>2, <3>3, <3>4 DEF MarkInv, OtherWhite
  <2>8. ColorInv(marked)'
    BY <1>11, <2>2 DEF ColorInv
  <2>9. \A o \in Obj : marked'[o] # OtherWhite(gc'.white)
    BY <1>11, <1>12, <2>3
  <2>10. PhaseInv'
    BY <2>1, <2>7, <2>8, <2>9 DEF PhaseInv, OtherWhite
  <2> QED
    BY <1>19, <1>21, <1>23, <2>10 DEF CoreInv
<1>27. CASE ~Marking
  <2>1. ~Marking' /\ (Sweeping' <=> Sweeping) /\ (Between' <=> Between)
    BY <1>12, <1>27 DEF Marking, Sweeping, Between
  <2>2. \A o \in Obj : marked'[o] = IF o \in dead THEN "free" ELSE IF o \in gray THEN gc.white ELSE marked[o]
    BY <1>7, <1>11, <1>27
  <2>3. ColorInv(marked)'
    <3> SUFFICES ASSUME NEW o \in Obj
                 PROVE  /\ marked'[o] = "gray" => kind[o] # "udata" /\ ~IsClosed(o)'
                        /\ marked'[o] = "black" => kind[o] \in {"func", "tab", "udata"} \/ IsClosed(o)'
      BY <1>0 DEF ColorInv
    <3> QED
      BY <1>0, <1>3, <1>4, <1>8, <1>24, <2>2 DEF PhaseInv, ColorInv
  <2>4. ASSUME Between, NEW o \in Allocated' \ Pending
        PROVE  marked'[o] = gc.white
    <3>1. o \in Obj /\ marked'[o] # "free" /\ o \notin dead
      BY <1>8, <2>2, <2>4 DEF Allocated
    <3> QED
      BY <1>0, <2>2, <2>4, <3>1 DEF PhaseInv, Allocated
  <2>5. ~Sweeping => \A o \in Obj : marked'[o] # OtherWhite(gc.white)
    BY <1>0, <1>9, <1>11 DEF PhaseInv
  <2>6. ASSUME Sweeping
        PROVE  SweepInv'
    <3>1. SweepInv
      BY <1>0, <2>6 DEF PhaseInv
    <3>2. \A o \in gc.unswept : marked'[o] # "free" /\ openAt'[o] = Nil
      <4> SUFFICES ASSUME NEW o \in gc.unswept PROVE marked'[o] # "free" /\ openAt'[o] = Nil
        OBVIOUS
      <4>1. o \in Obj /\ marked[o] # "free" /\ openAt[o] = Nil
        BY <1>0, <3>1 DEF SweepInv, TypeInv
      <4>2. o \notin left /\ o \notin dead
        BY <1>3, <4>1
      <4> QED
        BY <1>13, <1>16, <4>1, <4>2
    <3>3. ASSUME NEW o \in Obj, marked'[o] # "free", o \notin Pending, marked'[o] # gc.white
          PROVE  o \in gc.unswept \/ (openAt'[o] # Nil /\ openAt'[o].thread \in gc.unswept)
      <4>1. o \notin gray /\ o \notin dead /\ marked'[o] = marked[o]
        BY <2>2, <3>3
      <4>2. o \notin left
        BY <1>0, <1>3, <1>4, <1>25, <3>3, <4>1, ColorFacts DEF IsDead, TypeInv, Colors, OtherWhite, Whites
      <4> QED
        BY <1>13, <3>1, <3>3, <4>1, <4>2 DEF SweepInv, Allocated
    <3> QED
      BY <1>12, <1>15, <3>2, <3>3 DEF SweepInv, Allocated
  <2>7. PhaseInv'
    BY <1>12, <1>15, <2>1, <2>3, <2>4, <2>5, <2>6 DEF PhaseInv, OtherWhite
  <2> QED
    BY <1>19, <1>21, <1>23, <2>7 DEF CoreInv
<1> QED
  BY <1>26, <1>27
-------------------------------------------------------------------------------
(* Every step, and what the invariant implies.                             *)

\* A step of the program.
LEMMA ProgramSafe ==
  ASSUME SafeInv, Program
  PROVE  CoreInv'
<1>1. UNCHANGED <<kind, finalizing, full, doomed>>
  BY DEF Program
<1>2. CASE \E s \in Slots : New(s) \/ Intern(s) \/ Closure(s) \/ InnerClosure(s) \/ Load(s)
  <2>1. PICK s \in Slots : New(s) \/ Intern(s) \/ Closure(s) \/ InnerClosure(s) \/ Load(s)
    BY <1>2
  <2>2. CASE New(s)
    BY <1>1, <2>2, NewSafe
  <2>3. CASE Intern(s)
    BY <1>1, <2>3, InternSafe
  <2>4. CASE Closure(s)
    BY <1>1, <2>4, ClosureSafe
  <2>5. CASE InnerClosure(s)
    BY <1>1, <2>5, InnerClosureSafe
  <2>6. CASE Load(s)
    BY <1>1, <2>6, LoadSafe
  <2> QED
    BY <2>1, <2>2, <2>3, <2>4, <2>5, <2>6
<1>3. CASE Assign
  BY <1>1, <1>3, AssignSafe
<1>4. CASE CloseUpvals
  BY <1>1, <1>4, CloseUpvalsSafe
<1>5. CASE Resume
  BY <1>1, <1>5, ResumeSafe
<1> QED
  BY <1>2, <1>3, <1>4, <1>5, Zenon DEF Program

\* A step of the collector.
LEMMA OneStepSafe ==
  ASSUME SafeInv, OneStep
  PROVE  CoreInv'
<1>0. /\ UNCHANGED <<kind, running, full>> /\ finalizing = Nil
      /\ full' \in {"no", "finish", "cycle"} /\ doomed \subseteq Obj /\ TypeInv
  BY DEF OneStep, SafeInv, CoreInv, TypeInv
<1>1. CASE gc.state = "pause" /\ MarkStart /\ UNCHANGED <<fields, openAt, finalizing, called, doomed>>
  <2>1. Between
    BY <1>1 DEF Between
  <2> QED
    BY <1>0, <1>1, <2>1, MarkStartSafe
<1>2. CASE gc.state = "propagate" /\ Propagate /\ UNCHANGED <<fields, openAt, finalizing, called, doomed>>
  BY <1>0, <1>2, PropagateSafe
<1>3. CASE gc.state = "propagate" /\ EndPropagate /\ UNCHANGED <<fields, openAt, finalizing, called, doomed>>
  BY <1>0, <1>3, EndPropagateSafe
<1>4. CASE gc.state = "atomic" /\ Atomic /\ UNCHANGED <<openAt, finalizing, called, doomed>>
  BY <1>0, <1>4, AtomicSafe
<1>5. CASE gc.state = "sweepstring" /\ SweepString /\ UNCHANGED finalizing
  BY <1>0, <1>5, SweepStepSafe
<1>6. CASE gc.state = "sweep" /\ SweepRoot /\ UNCHANGED finalizing
  BY <1>0, <1>6, SweepStepSafe
<1>7. CASE gc.state = "finalize" /\ Finalize /\ UNCHANGED <<fields, openAt, doomed>>
  BY <1>0, <1>7, FinalizeSafe
<1>8. CASE gc.state = "finalize" /\ EndFinalize /\ UNCHANGED <<fields, openAt, doomed>>
  <2>1. Between /\ gc' = [gc EXCEPT !.state = "pause"] /\ UNCHANGED <<marked, finalizing>> /\ doomed' \subseteq Obj
    BY <1>0, <1>8 DEF EndFinalize, Between
  <2> QED
    BY <1>0, <1>8, <2>1, BetweenSafe
<1> QED
  BY <1>1, <1>2, <1>3, <1>4, <1>5, <1>6, <1>7, <1>8, Zenon DEF OneStep

\* When the program starts there is the main thread, and nothing is marked.
LEMMA SafeInit ==
  ASSUME Init, kind \notin Debug
  PROVE  SafeInv
<1>1. FinalizerInv
  BY FinalizerInit
<1>2. kind \in [Obj -> Kinds] /\ kind[Main] = "thread" /\ Main \in Obj /\ Nil \notin Obj
  BY HeapAssumption DEF Init
<1>3. /\ \A o \in Obj : openAt[o] = Nil /\ fields[o] = Empty(o)
      /\ \A o \in Obj : marked[o] = IF o = Main THEN "white0" ELSE "free"
      /\ gc.mmudata = <<>> /\ gc.white = "white0" /\ gc.state = "pause" /\ gc.unswept = {}
      /\ running = Main /\ finalizing = Nil /\ full = "no" /\ doomed = {}
  BY DEF Init
<1>4. \A o \in Obj : Empty(o) \in [FieldsOf(kind[o]) -> {Nil}]
  BY DEF Empty
<1>5. TypeInv
  <2>1. marked \in [Obj -> Colors] /\ openAt \in [Obj -> Placed \cup {Nil}] /\ DOMAIN fields = Obj /\ kind \in Heaps
    BY DEF Init, Colors, Whites
  <2>2. \A o \in Obj : fields[o] \in [FieldsOf(kind[o]) -> Obj \cup {Nil}]
    BY <1>3, <1>4
  <2>3. gc \in [state : States, white : Whites,
                gray : SUBSET Obj, grayagain : SUBSET Obj, weak : SUBSET Obj,
                mmudata : Seq(Obj), finalized : SUBSET Obj, unswept : SUBSET Obj]
    BY DEF Init, States, Whites
  <2> QED
    BY <1>2, <1>3, <2>1, <2>2, <2>3 DEF TypeInv
<1>6. FieldsInv
  <2>1. ASSUME NEW o \in Obj, NEW f \in FieldsOf(kind[o])
        PROVE  fields[o][f] = Nil
    BY <1>3, <1>4
  <2>2. \A o \in Obj : kind[o] = "udata" => fields[o].env = Nil
    BY <2>1, KindFields
  <2>3. \A o \in Obj : marked[o] # "free" => kind[o] = "thread"
    BY <1>2, <1>3
  <2> QED
    BY <1>3, <2>1, <2>2, <2>3 DEF FieldsInv
<1>7. LiveInv
  <2>1. Pending = {}
    BY <1>3 DEF Pending, ToSet
  <2>2. IsLive(Main)
    BY <1>2, <1>3 DEF IsLive, IsDead, OtherWhite
  <2>3. ASSUME NEW o \in Obj, IsLive(o)
        PROVE  Refs(o) \subseteq {Nil}
    <3>1. kind[o] = "thread"
      BY <1>2, <1>3, <2>3 DEF IsLive
    <3>2. \A s \in Slots : fields[o][s] = Nil
      BY <1>3, <1>4, <3>1, KindFields
    <3>3. Refs(o) = {fields[o][s] : s \in Slots}
      BY <1>5, <1>6, <3>1, RefsType, StrongOf DEF TabKinds
    <3> QED
      BY <3>2, <3>3
  <2> QED
    BY <1>3, <2>1, <2>2, <2>3 DEF LiveInv
<1>8. PhaseInv
  <2>1. ~Marking /\ ~Sweeping /\ Between
    BY <1>3 DEF Marking, Sweeping, Between
  <2>2. ColorInv(marked)
    BY <1>3 DEF ColorInv
  <2> QED
    BY <1>3, <2>1, <2>2 DEF PhaseInv, OtherWhite, Allocated
<1> QED
  BY <1>1, <1>5, <1>6, <1>7, <1>8 DEF SafeInv, CoreInv

\* The invariant is inductive.
LEMMA SafeStep ==
  ASSUME SafeInv, [Next]_vars
  PROVE  SafeInv'
<1>0. TypeInv /\ full \in {"no", "finish", "cycle"} /\ doomed \subseteq Obj
  BY DEF SafeInv, CoreInv, TypeInv
<1>1. CASE OneStep
  <2>1. UNCHANGED kind
    BY <1>1 DEF OneStep
  <2> QED
    BY <1>1, <2>1, OneStepSafe, FinalizerStep DEF SafeInv
<1>2. CASE Program
  <2>1. UNCHANGED kind
    BY <1>2 DEF Program
  <2> QED
    BY <1>2, <2>1, ProgramSafe, FinalizerStep DEF SafeInv
<1>3. CASE FullGC
  <2>1. UNCHANGED kind
    BY <1>3 DEF FullGC
  <2> QED
    BY <1>3, <2>1, FullGCSafe, FinalizerStep DEF SafeInv
<1>4. CASE FullCycle
  <2>1. /\ Between /\ MarkStart /\ UNCHANGED <<kind, fields, openAt, running, finalizing>>
        /\ full' = "cycle" /\ doomed' \subseteq Obj
    BY <1>4 DEF FullCycle, Between, Allocated
  <2> QED
    BY <1>4, <2>1, MarkStartSafe, FinalizerStep DEF SafeInv
<1>5. CASE FinalizerReturns \/ FullReturns \/ UNCHANGED vars
  <2>1. /\ UNCHANGED <<kind, marked, fields, openAt, gc, running, doomed>>
        /\ finalizing' \in {Nil, finalizing} /\ full' \in {"no", "finish", "cycle"}
    BY <1>0, <1>5 DEF FinalizerReturns, FullReturns, vars
  <2>2. CoreInv'
    BY <1>0, <2>1, BetweenSafe
  <2> QED
    BY <2>1, <2>2, FinalizerStep DEF SafeInv
<1> QED
  BY <1>1, <1>2, <1>3, <1>4, <1>5 DEF Next

\* What is reached lies in any set that has the objects one starts from and is
\* closed under the references.
LEMMA ReachedLeast ==
  ASSUME NEW refs, NEW from, NEW s, from \subseteq s, \A r \in refs : r[1] \in s => r[2] \in s
  PROVE  Reached(refs, from) \subseteq s
<1> DEFINE targets == {r[2] : r \in refs}
           x == from \cup (targets \cap s)
<1>1. x \in {from \cup y : y \in SUBSET targets} /\ \A r \in refs : r[1] \in x => r[2] \in x
  OBVIOUS
<1>2. Reached(refs, from) \subseteq x
  BY <1>1 DEF Reached
<1> QED
  BY <1>2

\* What the program can reach is live.
LEMMA ReachableIsLive ==
  ASSUME SafeInv
  PROVE  Reachable \subseteq {o \in Obj : IsLive(o)}
<1> DEFINE live == {o \in Obj : IsLive(o)}
           refs == UNION {{o} \X (Refs(o) \ {Nil}) : o \in Allocated}
           from == {Main, running, finalizing} \ {Nil}
<1>0. TypeInv /\ FieldsInv /\ LiveInv /\ Main \in Obj
  BY KindType DEF SafeInv, CoreInv
<1>1. from \subseteq live
  BY <1>0 DEF TypeInv, LiveInv
<1>2. ASSUME NEW r \in refs, r[1] \in live
      PROVE  r[2] \in live
  <2>1. PICK o \in Allocated : r \in {o} \X (Refs(o) \ {Nil})
    OBVIOUS
  <2>2. r[1] = o /\ r[2] \in Refs(o) \ {Nil}
    BY <2>1
  <2>3. o \in Obj /\ IsLive(o)
    BY <1>2, <2>2
  <2>4. r[2] \in Obj
    BY <1>0, <2>2, <2>3, RefsType
  <2> QED
    BY <1>0, <2>2, <2>3, <2>4 DEF LiveInv
<1> HIDE DEF refs, from, live
<1>3. Reached(refs, from) \subseteq live
  BY <1>1, <1>2, ReachedLeast
<1> QED
  BY <1>3 DEF refs, from, live, Reachable

\* The collector frees nothing that the program can still reach, in every heap
\* and whatever the program does between its steps, if it does not call
\* debug.setupvalue.
THEOREM NothingDangles == (kind \notin Debug) /\ Spec => []NoDangling
<1>1. SafeInv => NoDangling
  <2> SUFFICES ASSUME SafeInv, NEW o \in Reachable
               PROVE  marked[o] # "free" /\ (openAt[o] # Nil => marked[openAt[o].thread] # "free")
    BY DEF NoDangling
  <2>1. o \in Obj /\ IsLive(o)
    BY ReachableIsLive
  <2> QED
    BY <2>1 DEF IsLive, SafeInv, CoreInv, FieldsInv
<1> QED
  BY SafeInit, SafeStep, <1>1, PTL DEF Spec

\* In the mark phase no black object refers to a white one.
THEOREM BlackIsDone == (kind \notin Debug) /\ Spec => []TriColor
<1>1. SafeInv => TriColor
  <2> SUFFICES ASSUME SafeInv, Marking, NEW o \in Obj \ Pending, marked[o] = "black", NEW v \in Refs(o) \ {Nil}
               PROVE  ~IsWhite(marked, v)
    BY DEF TriColor
  <2>0. TypeInv /\ FieldsInv /\ MarkInv(Marks, Pending) /\ Marks.marked = marked
    BY MarksType DEF SafeInv, CoreInv, PhaseInv
  <2>1. kind[o] \in {"func", "tab", "udata"} \/ IsClosed(o)
    BY <2>0 DEF MarkInv, ColorInv
  <2>2. Refs(o) = Strong(o)
    <3>1. CASE kind[o] = "tab"
      BY <2>0, <3>1, RefsType, StrongOf DEF TabKinds
    <3>2. CASE kind[o] # "tab"
      BY <2>0, <2>1, <3>2, RefsType DEF TabKinds, IsClosed
    <3> QED
      BY <3>1, <3>2
  <2> QED
    BY <2>0, <2>2 DEF MarkInv, BlackDone, Done
<1> QED
  BY SafeInit, SafeStep, <1>1, PTL DEF Spec

\* In the mark phase a gray object that is to be traversed is in one list.
THEOREM GrayIsListed == (kind \notin Debug) /\ Spec => []GrayListed
<1>1. SafeInv => GrayListed
  <2> SUFFICES ASSUME SafeInv, Marking, NEW o \in Obj, marked[o] = "gray", kind[o] \notin {"str", "upval"}
               PROVE  Cardinality({list \in {"gray", "grayagain", "weak"} : o \in gc[list]}) = 1
    BY DEF GrayListed
  <2>0. /\ TypeInv /\ FieldsInv /\ MarkInv(Marks, Pending) /\ Marks.marked = marked
        /\ Marks.gray = gc.gray /\ Marks.grayagain = gc.grayagain /\ Marks.weak = gc.weak
        /\ kind \in [Obj -> Kinds]
    BY MarksType, KindType DEF SafeInv, CoreInv, PhaseInv
  <2>1. IsTraversed(o)
    <3>1. kind[o] # "udata" /\ kind[o] # "none" /\ kind[o] \in Kinds
      BY <2>0 DEF MarkInv, ColorInv, FieldsInv
    <3> QED
      BY <3>1 DEF IsTraversed, Kinds, TabKinds
  <2>2. PICK list \in {"gray", "grayagain", "weak"} :
          {l \in {"gray", "grayagain", "weak"} : o \in gc[l]} = {list}
    BY <2>0, <2>1 DEF MarkInv, ListsInv
  <2> QED
    BY <2>2, FS_Singleton
<1> QED
  BY SafeInit, SafeStep, <1>1, PTL DEF Spec

\* Between two cycles everything has the current white.
THEOREM AllWhiteBetween == (kind \notin Debug) /\ Spec => []WhiteBetween
<1>1. SafeInv => WhiteBetween
  BY DEF SafeInv, CoreInv, PhaseInv, Between, WhiteBetween
<1> QED
  BY SafeInit, SafeStep, <1>1, PTL DEF Spec

-------------------------------------------------------------------------------
(* Full collections.                                                       *)

\* What must be freed by the full collection that is running: all that its mark
\* phase does not reach, which is dead when its sweep phase begins. Between the
\* two phases no finalizer runs, and so no program.
DoomedInv ==
  /\ full # "cycle" \/ Between => doomed = {}
  /\ full = "finish" \/ (full = "cycle" /\ ~Between) => finalizing = Nil
  /\ full = "cycle" /\ Marking => Garbage(doomed)
  /\ full = "cycle" /\ Sweeping => \A o \in doomed : IsDead(o)

\* Garbage stays garbage while it is spared.
LEMMA GarbageKept ==
  ASSUME UNCHANGED <<kind, fields, openAt, running, doomed>>,
         gc'.mmudata = gc.mmudata, gc'.finalized = gc.finalized,
         TypeInv, Garbage(doomed), NEW h, Spares(h, doomed), marked' = h.marked
  PROVE  Garbage(doomed)'
<1>1. /\ doomed \subseteq Obj /\ \A o \in doomed : IsWhite(marked, o)'
      /\ Allocated' \subseteq Allocated
  BY DEF Spares, Garbage, IsWhite, Allocated
<1>2. ToFinalize' \subseteq ToFinalize
  BY <1>1 DEF ToFinalize, Pending
<1>3. ASSUME NEW o
      PROVE  KeptBy(o)' = KeptBy(o)
  BY SameShape DEF KeptBy, WeakStrings
<1> QED
  BY <1>1, <1>2, <1>3 DEF Garbage

\* What is reached has the objects one starts from and what they refer to.
LEMMA ReachedClosed ==
  ASSUME NEW refs, NEW from
  PROVE  /\ from \subseteq Reached(refs, from)
         /\ \A r \in refs : r[1] \in Reached(refs, from) => r[2] \in Reached(refs, from)
<1> DEFINE targets == {r[2] : r \in refs}
           closed == {s \in {from \cup x : x \in SUBSET targets} : \A r \in refs : r[1] \in s => r[2] \in s}
<1>1. Reached(refs, from) = {o \in from \cup targets : \A s \in closed : o \in s}
  BY DEF Reached
<1>2. \A s \in closed : from \subseteq s /\ \A r \in refs : r[1] \in s => r[2] \in s
  OBVIOUS
<1>3. \A r \in refs : r[2] \in targets
  OBVIOUS
<1> HIDE DEF closed, targets
<1> QED
  BY <1>1, <1>2, <1>3

\* The mark phase of a full collection begins: what it must free is garbage.
LEMMA FullCycleDooms ==
  ASSUME SafeInv, FullCycle
  PROVE  Garbage(doomed)'
<1> DEFINE refs == UNION {{o} \X (KeptBy(o) \ {Nil}) : o \in Allocated}
           from == {Main, running} \cup ToFinalize
           d == Allocated \ Reached(refs, from)
           h0 == [marked |-> marked, gray |-> {}, grayagain |-> {}, weak |-> {}]
           h == MarkAll(h0, {Main})
<1>0. TypeInv /\ FieldsInv /\ FinalizerInv /\ LiveInv /\ PhaseInv /\ Between
  BY DEF SafeInv, CoreInv, FullCycle, Between
<1>1. /\ doomed' = d
      /\ marked' = h.marked
      /\ gc' = [gc EXCEPT !.state = "propagate", !.gray = h.gray, !.grayagain = {}, !.weak = {}]
      /\ UNCHANGED <<kind, fields, openAt, running>>
  BY Zenon DEF FullCycle, MarkStart
<1>2. d \subseteq Obj /\ Nil \notin Obj /\ Pending \subseteq ToFinalize
  <2>1. \A o \in Pending : o \in Obj /\ kind[o] = "udata" /\ marked[o] # "free"
    BY <1>0, PendingType DEF LiveInv, IsLive
  <2> QED
    BY <2>1, HeapAssumption DEF Allocated, ToFinalize
<1>3. from \cap d = {} /\ \A o \in Allocated \ d : KeptBy(o) \cap d = {}
  <2> HIDE DEF refs, from
  <2>1. /\ from \subseteq Reached(refs, from)
        /\ \A r \in refs : r[1] \in Reached(refs, from) => r[2] \in Reached(refs, from)
    BY ReachedClosed
  <2>2. ASSUME NEW o \in Allocated \ d, NEW v \in KeptBy(o), v \in d
        PROVE  FALSE
    <3>1. <<o, v>> \in refs
      BY <1>2, <2>2 DEF refs
    <3>2. v \in Reached(refs, from)
      BY <2>1, <2>2, <3>1
    <3> QED
      BY <2>2, <3>2
  <2> QED
    BY <2>1, <2>2
<1>4. \A o \in d : IsWhite(marked, o)
  BY <1>0, <1>2, <1>3, ColorFacts DEF PhaseInv, IsWhite, Allocated
<1>5. Garbage(d)
  BY <1>2, <1>3, <1>4 DEF Garbage
<1>6. Spares(h0, d)
  BY <1>0 DEF Spares, IsMarking, TypeInv
<1> HIDE DEF h0
<1>7. Spares(h, d)
  <2>1. {Main} \cap d = {}
    BY <1>5 DEF Garbage
  <2> HIDE DEF d
  <2> QED
    BY <1>0, <1>5, <1>6, <2>1, MarkAllSpares
<1> HIDE DEF d, h
<1>8. Allocated' \subseteq Allocated /\ \A o \in d : IsWhite(marked, o)'
  BY <1>1, <1>2, <1>4, <1>7 DEF Spares, IsWhite, Allocated
<1>9. gc'.mmudata = gc.mmudata /\ gc'.finalized = gc.finalized
  BY <1>0, <1>1 DEF TypeInv
<1>10. ToFinalize' \subseteq ToFinalize
  BY <1>1, <1>8, <1>9 DEF ToFinalize, Pending
<1>11. ASSUME NEW o
       PROVE  KeptBy(o)' = KeptBy(o)
  BY <1>1, SameShape DEF KeptBy, WeakStrings
<1> QED
  BY <1>1, <1>5, <1>8, <1>10, <1>11 DEF Garbage

\* When the atomic phase is over, it is dead.
LEMMA AtomicDooms ==
  ASSUME SafeInv, gc.state = "atomic", Atomic, Garbage(doomed), UNCHANGED <<kind, doomed>>
  PROVE  \A o \in doomed : IsDead(o)'
<1>0. /\ TypeInv /\ FieldsInv /\ FinalizerInv /\ LiveInv /\ PhaseInv
      /\ MarkInv(Marks, Pending) /\ Marks.marked = marked /\ ~Sweeping
      /\ doomed \subseteq Obj
  BY MarksType DEF SafeInv, CoreInv, PhaseInv, Marking, Sweeping, Garbage
<1>1. PICK h1, h2, h3, h4, h5, mmudata, finalized : AtomicResult(h1, h2, h3, h4, h5, mmudata, finalized)
  BY AtomicFacts
<1> DEFINE pending == ToSet(mmudata)
<1>2. /\ AtomicMarks(Marks, h1, h2, h3, h4, h5, pending)
      /\ marked' = h5.marked /\ gc'.white = OtherWhite(gc.white)
      /\ pending \subseteq Pending \cup Separated(h3)
      /\ MarkInv(h4, {})
  BY <1>1 DEF AtomicResult
<1>3. pending \subseteq Allocated \ doomed
  <2>1. Pending \subseteq ToFinalize
    BY <1>0, PendingType DEF LiveInv, IsLive, ToFinalize, Allocated
  <2>2. Separated(h3) \subseteq ToFinalize
    BY DEF Separated, ToFinalize
  <2> HIDE DEF pending
  <2> QED
    BY <1>2, <2>1, <2>2 DEF Garbage, ToFinalize
<1> HIDE DEF pending
<1>4. Spares(Marks, doomed)
  <2>1. IsMarking(Marks) /\ \A o \in Marks.gray \cup Marks.grayagain \cup Marks.weak : marked[o] = "gray" /\ o \in Obj
    BY <1>0 DEF MarkInv, ListsInv, IsMarking
  <2> QED
    BY <1>0, <2>1, ColorFacts DEF Spares, Garbage, IsWhite, Allocated
<1>5. \A o \in doomed : h5.marked[o] = marked[o]
  <2>1. \A t \in h4.weak : kind[t] \in TabKinds
    BY <1>2 DEF MarkInv, ListsInv, TabKinds
  <2>2. PICK d : d = doomed
    OBVIOUS
  <2> QED
    BY <1>0, <1>2, <1>3, <1>4, <2>1, <2>2, AtomicSpares
<1>6. \A o \in doomed : marked[o] = gc.white
  BY <1>0, ColorFacts DEF Garbage, IsWhite, PhaseInv
<1>7. OtherWhite(OtherWhite(gc.white)) = gc.white
  BY <1>0 DEF OtherWhite, TypeInv, Whites
<1> QED
  BY <1>2, <1>5, <1>6, <1>7 DEF IsDead, OtherWhite

\* A step of the program changes the marks and the lists of the collector at most.
LEMMA ProgramKeepsPhase ==
  ASSUME TypeInv, Program
  PROVE  gc'.state = gc.state
<1>1. CASE UNCHANGED gc
  BY <1>1
<1>2. CASE \E h : SetMarks(h)
  BY <1>2 DEF SetMarks, TypeInv
<1>3. CASE \E s \in Slots : Closure(s)
  BY <1>1, <1>3, Zenon DEF Closure
<1>4. CASE Assign
  <2>1. UNCHANGED gc \/ \E h : SetMarks(h)
    BY <1>4 DEF Assign, StoreInt, SetUpval, Store, SetEnv, DebugSetUpval
  <2> QED
    BY <1>1, <1>2, <2>1
<1>5. CASE CloseUpvals
  BY <1>2, <1>5, Zenon DEF CloseUpvals
<1> QED
  BY <1>1, <1>3, <1>4, <1>5 DEF Program, New, Intern, InnerClosure, Load, Resume

\* The sweep frees the dead, and what must be freed is among them.
LEMMA SweepDooms ==
  ASSUME SafeInv, DoomedInv, full = "cycle", UNCHANGED full, finalizing' = finalizing,
         (gc.state = "sweepstring" /\ SweepString) \/ (gc.state = "sweep" /\ SweepRoot)
  PROVE  DoomedInv'
<1>0. /\ TypeInv /\ PhaseInv /\ SweepInv /\ LiveInv /\ Sweeping /\ ~Between /\ finalizing = Nil
      /\ \A o \in doomed : IsDead(o)
      /\ doomed \subseteq Obj
  BY DEF SafeInv, CoreInv, PhaseInv, Sweeping, Between, DoomedInv, TypeInv
<1>1. CASE \E o \in gc.unswept : Sweep({o})
  <2>1. PICK o \in gc.unswept : Sweep({o})
    BY <1>1
  <2>2. PICK swept, freed :
          /\ \A x \in swept : IsDead(x) => x \in freed
          /\ marked' = [x \in Obj |-> IF x \in swept THEN SweptColor(x) ELSE marked[x]]
          /\ doomed' = doomed \ freed
          /\ gc' = [gc EXCEPT !.unswept = @ \ {o}, !.finalized = @ \ freed]
    <3> DEFINE upvals == UNION {OpenUpvals(t) : t \in {x \in {o} : kind[x] = "thread"}}
               swept == {o} \cup upvals
               freed == {x \in swept : IsDead(x)}
    <3>1. /\ marked' = [x \in Obj |-> IF x \in swept THEN SweptColor(x) ELSE marked[x]]
          /\ doomed' = doomed \ freed
          /\ gc' = [gc EXCEPT !.unswept = @ \ {o}, !.finalized = @ \ freed]
      BY <2>1, Zenon DEF Sweep
    <3>2. \A x \in swept : IsDead(x) => x \in freed
      OBVIOUS
    <3> HIDE DEF swept, freed
    <3> QED
      BY <3>1, <3>2
  <2>3. gc'.state = gc.state /\ gc'.white = gc.white
    BY <1>0, <2>2 DEF TypeInv
  <2>4. \A x \in doomed' : IsDead(x)'
    BY <1>0, <2>2, <2>3 DEF IsDead
  <2>5. Sweeping' /\ ~Between' /\ ~Marking'
    BY <1>0, <2>3 DEF Sweeping, Between, Marking
  <2> QED
    BY <1>0, <2>4, <2>5 DEF DoomedInv
<1>2. ASSUME NEW state \in {"sweep", "pause", "finalize"}, state # "sweep" => gc.unswept = {},
             gc' = [gc EXCEPT !.state = state], UNCHANGED <<marked, doomed>>
      PROVE  DoomedInv'
  <2>1. gc'.state = state /\ gc'.white = gc.white /\ ~Marking'
    BY <1>0, <1>2 DEF TypeInv, Marking
  <2>2. ASSUME gc.unswept = {}
        PROVE  doomed = {}
    <3> SUFFICES ASSUME NEW o \in doomed PROVE FALSE
      OBVIOUS
    <3>1. o \in Allocated /\ marked[o] # gc.white /\ o \notin Pending
      BY <1>0, ColorFacts DEF IsDead, Allocated, LiveInv, IsLive
    <3> QED
      BY <1>0, <2>2, <3>1 DEF SweepInv
  <2>3. \A o \in doomed' : IsDead(o)'
    BY <1>0, <1>2, <2>1 DEF IsDead
  <2>4. Between' => doomed' = {}
    BY <1>2, <2>1, <2>2 DEF Between
  <2> QED
    BY <1>0, <2>1, <2>3, <2>4 DEF DoomedInv
<1>3. CASE gc.state = "sweepstring" /\ SweepString
  <2>1. UnsweptStrings \subseteq gc.unswept
    BY DEF UnsweptStrings
  <2>2. (\E o \in gc.unswept : Sweep({o}))
        \/ (gc' = [gc EXCEPT !.state = "sweep"] /\ UNCHANGED <<marked, fields, openAt, called, doomed>>)
    BY <1>3, <2>1, Zenon DEF SweepString
  <2> QED
    BY <1>1, <1>2, <2>2
<1>4. CASE gc.state = "sweep" /\ SweepRoot
  <2>1. (\E o \in gc.unswept : Sweep({o}))
        \/ (/\ gc.unswept = {}
            /\ \E state \in {"pause", "finalize"} : gc' = [gc EXCEPT !.state = state]
            /\ UNCHANGED <<marked, fields, openAt, called, doomed>>)
    <3> HIDE DEF Sweep
    <3> QED
      BY <1>4 DEF SweepRoot
  <2> QED
    BY <1>1, <1>2, <2>1
<1> QED
  BY <1>3, <1>4

\* A step of the collector in a full collection, outside of the finalize phase.
LEMMA CycleStepDooms ==
  ASSUME SafeInv, DoomedInv, full = "cycle", ~Between, OneStep
  PROVE  DoomedInv'
<1>0. /\ TypeInv /\ FieldsInv /\ finalizing = Nil /\ gc.state \notin {"pause", "finalize"}
      /\ Marking => Garbage(doomed) /\ MarkInv(Marks, Pending)
      /\ UNCHANGED <<kind, running, full>>
      /\ Marks.gray = gc.gray /\ Marks.marked = marked
  BY MarksType DEF SafeInv, CoreInv, PhaseInv, DoomedInv, Between, OneStep
<1>1. Marking => Spares(Marks, doomed)
  <2> SUFFICES ASSUME Marking PROVE Spares(Marks, doomed)
    OBVIOUS
  <2>1. IsMarking(Marks) /\ \A o \in Marks.gray \cup Marks.grayagain \cup Marks.weak : marked[o] = "gray" /\ o \in Obj
    BY <1>0 DEF MarkInv, ListsInv, IsMarking
  <2> QED
    BY <1>0, <2>1, ColorFacts DEF Spares, Garbage, IsWhite, Allocated
<1>2. ASSUME NEW h, Marking, Spares(h, doomed), marked' = h.marked, UNCHANGED <<fields, openAt, finalizing, doomed>>,
             gc'.state \in {"propagate", "atomic"}, gc'.mmudata = gc.mmudata, gc'.finalized = gc.finalized
      PROVE  DoomedInv'
  <2>1. Garbage(doomed)'
    BY <1>0, <1>2, GarbageKept
  <2>2. Marking' /\ ~Between' /\ ~Sweeping'
    BY <1>2 DEF Marking, Between, Sweeping
  <2> QED
    BY <1>0, <1>2, <2>1, <2>2 DEF DoomedInv
<1>3. CASE gc.state = "propagate" /\ Propagate /\ UNCHANGED <<fields, openAt, finalizing, called, doomed>>
  <2>0. Marking
    BY <1>3 DEF Marking
  <2>1. PICK o \in gc.gray :
          /\ marked' = PropagateMark(Marks, o).marked
          /\ gc' = [gc EXCEPT !.gray = PropagateMark(Marks, o).gray,
                              !.grayagain = PropagateMark(Marks, o).grayagain,
                              !.weak = PropagateMark(Marks, o).weak]
    BY <1>3, Zenon DEF Propagate
  <2>2. PICK d : d = doomed
    OBVIOUS
  <2>3. Spares(PropagateMark(Marks, o), doomed)
    BY <1>0, <1>1, <2>0, <2>1, <2>2, PropagateSpares
  <2>4. gc'.state = gc.state /\ gc'.mmudata = gc.mmudata /\ gc'.finalized = gc.finalized
    BY <1>0, <2>1 DEF TypeInv
  <2> QED
    BY <1>2, <1>3, <2>0, <2>1, <2>3, <2>4
<1>4. CASE gc.state = "propagate" /\ EndPropagate /\ UNCHANGED <<fields, openAt, finalizing, called, doomed>>
  <2>1. /\ gc'.state = "atomic" /\ gc'.mmudata = gc.mmudata /\ gc'.finalized = gc.finalized
        /\ marked' = Marks.marked /\ Marking
    BY <1>0, <1>4 DEF EndPropagate, TypeInv, Marking
  <2> QED
    BY <1>1, <1>2, <1>4, <2>1
<1>5. CASE gc.state = "atomic" /\ Atomic /\ UNCHANGED <<openAt, finalizing, called, doomed>>
  <2>1. Garbage(doomed)
    BY <1>0, <1>5 DEF Marking
  <2>2. \A o \in doomed : IsDead(o)'
    BY <1>0, <1>5, <2>1, AtomicDooms
  <2>3. gc'.state = "sweepstring"
    BY <1>5, Zenon DEF Atomic
  <2>4. ~Marking' /\ ~Between'
    BY <2>3 DEF Marking, Between
  <2> QED
    BY <1>0, <1>5, <2>2, <2>4 DEF DoomedInv
<1>6. CASE gc.state = "sweepstring" /\ SweepString /\ UNCHANGED finalizing
  BY <1>0, <1>6, SweepDooms
<1>7. CASE gc.state = "sweep" /\ SweepRoot /\ UNCHANGED finalizing
  BY <1>0, <1>7, SweepDooms
<1> QED
  BY <1>0, <1>3, <1>4, <1>5, <1>6, <1>7, Zenon DEF OneStep

\* When no object is doomed, none will be until the next full collection.
LEMMA NoneDoomed ==
  ASSUME doomed' = {}, full' = "finish" => finalizing' = Nil, full' = "cycle" => Between'
  PROVE  DoomedInv'
<1>1. ~Marking' \/ ~Between'
  BY DEF Marking, Between
<1> QED
  BY <1>1 DEF DoomedInv, Garbage

\* Every step keeps what must be freed among the dead.
LEMMA DoomedStep ==
  ASSUME SafeInv, DoomedInv, [Next]_vars
  PROVE  DoomedInv'
<1>0. /\ TypeInv /\ (full # "cycle" \/ Between => doomed = {})
      /\ (full = "finish" \/ (full = "cycle" /\ ~Between) => finalizing = Nil)
  BY DEF SafeInv, CoreInv, DoomedInv
<1>1. CASE OneStep
  <2>1. CASE full = "cycle" /\ ~Between
    BY <1>1, <2>1, CycleStepDooms
  <2>2. CASE ~(full = "cycle" /\ ~Between)
    <3>1. doomed = {} /\ UNCHANGED full /\ finalizing = Nil
      BY <1>0, <1>1, <2>2 DEF OneStep
    <3>2. doomed' = {}
      <4>1. CASE UNCHANGED doomed
        BY <3>1, <4>1
      <4>2. CASE \E o \in gc.unswept : Sweep({o})
        <5>1. PICK freed : doomed' = doomed \ freed
          BY <4>2, Zenon DEF Sweep
        <5> QED
          BY <3>1, <5>1
      <4>3. UnsweptStrings \subseteq gc.unswept
        BY DEF UnsweptStrings
      <4>4. SweepString \/ SweepRoot => UNCHANGED doomed \/ \E o \in gc.unswept : Sweep({o})
        BY <4>3, Zenon DEF SweepString, SweepRoot
      <4>5. UNCHANGED doomed \/ SweepString \/ SweepRoot
        BY <1>1, Zenon DEF OneStep
      <4> QED
        BY <4>1, <4>2, <4>4, <4>5
    <3>3. full = "finish" => UNCHANGED finalizing
      BY <1>1, Zenon DEF OneStep
    <3>4. full = "cycle" => Between'
      <4>1. CASE full = "cycle"
        <5>1. gc.state = "finalize"
          BY <1>1, <2>2, <4>1 DEF OneStep, Between
        <5>2. Finalize \/ EndFinalize
          BY <1>1, <5>1 DEF OneStep
        <5>3. gc'.state \in {"pause", "finalize"}
          BY <1>0, <5>1, <5>2 DEF Finalize, EndFinalize, TypeInv
        <5> QED
          BY <5>3 DEF Between
      <4> QED
        BY <4>1
    <3> QED
      BY <3>1, <3>2, <3>3, <3>4, NoneDoomed
  <2> QED
    BY <2>1, <2>2
<1>2. CASE Program
  <2>1. UNCHANGED <<finalizing, full, doomed>> /\ (full = "no" \/ finalizing # Nil)
    BY <1>2 DEF Program, Running
  <2>2. Between' = Between
    BY <1>0, <1>2, ProgramKeepsPhase DEF Between
  <2> QED
    BY <1>0, <2>1, <2>2, NoneDoomed DEF SafeInv, CoreInv, TypeInv
<1>3. CASE FullGC
  <2>1. full = "no" /\ finalizing' = Nil /\ full' = "finish" /\ UNCHANGED doomed
    BY <1>3 DEF FullGC
  <2> QED
    BY <1>0, <2>1, NoneDoomed
<1>4. CASE FullCycle
  <2>1. Garbage(doomed)'
    BY <1>4, FullCycleDooms
  <2>2. full' = "cycle" /\ full = "finish" /\ UNCHANGED finalizing /\ gc'.state = "propagate"
    BY <1>0, <1>4 DEF FullCycle, MarkStart, TypeInv
  <2>3. Marking' /\ ~Between' /\ ~Sweeping'
    BY <2>2 DEF Marking, Between, Sweeping
  <2> QED
    BY <1>0, <2>1, <2>2, <2>3 DEF DoomedInv
<1>5. CASE FinalizerReturns
  <2>1. finalizing # Nil /\ finalizing' = Nil /\ full' \in {full, "no"} /\ UNCHANGED <<gc, doomed>>
    BY <1>5 DEF FinalizerReturns
  <2>2. Between' = Between
    BY <2>1 DEF Between
  <2> QED
    BY <1>0, <2>1, <2>2, NoneDoomed
<1>6. CASE FullReturns
  <2>1. Between /\ full' = "no" /\ UNCHANGED doomed
    BY <1>6 DEF FullReturns, Between
  <2> QED
    BY <1>0, <2>1, NoneDoomed
<1>7. CASE UNCHANGED vars
  <2>1. UNCHANGED <<kind, marked, fields, openAt, gc, running, finalizing, full, doomed>>
    BY <1>7 DEF vars
  <2>2. Allocated' = Allocated /\ ToFinalize' = ToFinalize
    BY <2>1 DEF Allocated, ToFinalize, Pending
  <2>3. ASSUME NEW o
        PROVE  KeptBy(o)' = KeptBy(o)
    BY <2>1, SameShape DEF KeptBy, WeakStrings
  <2>4. Garbage(doomed) => Garbage(doomed)'
    BY <2>1, <2>2, <2>3 DEF Garbage, IsWhite
  <2> QED
    BY <2>1, <2>4 DEF DoomedInv, Between, Marking, Sweeping, IsDead
<1> QED
  BY <1>1, <1>2, <1>3, <1>4, <1>5, <1>6, <1>7 DEF Next

\* lj_gc_fullgc frees all the garbage there was when its cycle began.
THEOREM FullCollectionsFree == (kind \notin Debug) /\ Spec => []FullFreesGarbage
<1>1. DoomedInv => FullFreesGarbage
  BY DEF DoomedInv, FullFreesGarbage, Between
<1>2. Init => DoomedInv
  BY DEF Init, DoomedInv
<1> QED
  BY SafeInit, SafeStep, DoomedStep, <1>1, <1>2, PTL DEF Spec
===============================================================================
