------------------------------- MODULE Collector -------------------------------
(***************************************************************************)
(* The incremental mark and sweep collector of the interpreter (lj_gc.c),  *)
(* with the barriers of lj_gc.h, the open upvalues of lj_func.c and the    *)
(* resurrection of interned strings (lj_str.c), under a program that goes  *)
(* on running between any two of its steps.                                *)
(*                                                                         *)
(* An object is marked white (one of two whites), gray or black. A program *)
(* holds objects in the stack slots of its threads. The lists that link    *)
(* objects through their gclist field are sets here: in what order they    *)
(* are worked off is left open.                                            *)
(***************************************************************************)
EXTENDS Integers, Sequences, FiniteSets, FiniteSetsExt, SequencesExt

CONSTANTS
  Obj,      \* the places where an object can be allocated
  Main,     \* the main thread
  Heaps,    \* programs: the types of the objects they allocate at each place
  Debug,    \* those that call debug.setupvalue
  Slots,    \* the stack slots of a thread
  Nil

\* The types of objects, and of places that are not used.
Kinds == {"thread", "tab", "weakkey", "weakval", "udata", "func", "upval", "str", "none"}

ASSUME HeapAssumption ==
  /\ IsFiniteSet(Obj) /\ Main \in Obj
  /\ Heaps \subseteq {heap \in [Obj -> Kinds] : heap[Main] = "thread"} /\ Debug \subseteq Heaps
  /\ Slots \subseteq Nat /\ Slots # {}
  /\ Nil \notin Obj \cup [thread : Obj, slot : Slots]

VARIABLES
  kind,       \* the types of the program's objects
  marked,     \* the color of each object, or "free"
  fields,     \* what each object refers to
  openAt,     \* for an upvalue: the thread and slot it is open at, or Nil
  gc,         \* the state of the collector
  running,    \* the running thread
  finalizing, \* the userdata whose finalizer is running, or Nil
  full,       \* where lj_gc_fullgc is: "no", "finish" or "cycle"
  called,     \* history: finalizers called for the object at a place
  doomed      \* history: what the full cycle that is running must free

vars == <<kind, marked, fields, openAt, gc, running, finalizing, full, called, doomed>>

TabKinds == {"tab", "weakkey", "weakval"}
FieldsOf(k) ==
  CASE k = "thread" -> Slots
    [] k \in TabKinds -> {"key", "val"}  \* one entry, of a number if key is Nil
    [] k = "upval" -> {"val"}
    [] k = "udata" -> {"env"}
    [] k = "func" -> {"uv"}
    [] k \in {"str", "none"} -> {}
Empty(o) == [f \in FieldsOf(kind[o]) |-> Nil]

Allocated == {o \in Obj : marked[o] # "free"}

(* Colors. *)
Whites == {"white0", "white1"}
OtherWhite(white) == IF white = "white0" THEN "white1" ELSE "white0"
IsWhite(m, o) == o # Nil /\ m[o] \in Whites
IsDead(o) == marked[o] = OtherWhite(gc.white)
Marking == gc.state \in {"propagate", "atomic"}

UpvalVal(o) == IF openAt[o] = Nil THEN fields[o].val ELSE fields[openAt[o].thread][openAt[o].slot]

Init ==
  /\ kind \in Heaps
  /\ marked = [o \in Obj |-> IF o = Main THEN "white0" ELSE "free"]
  /\ fields = [o \in Obj |-> Empty(o)]
  /\ openAt = [o \in Obj |-> Nil]
  /\ gc = [state |-> "pause", white |-> "white0", gray |-> {}, grayagain |-> {}, weak |-> {},
           mmudata |-> <<>>, finalized |-> {}, unswept |-> {}]
  /\ running = Main
  /\ finalizing = Nil
  /\ full = "no"
  /\ called = [o \in Obj |-> 0]
  /\ doomed = {}
-------------------------------------------------------------------------------
(* Mark phase. A marking h has the colors and the lists of the collector.  *)

Marks == [marked |-> marked, gray |-> gc.gray, grayagain |-> gc.grayagain, weak |-> gc.weak]

\* What is reached from some objects by references, pairs of objects.
Reached(refs, from) ==
  LET targets == {r[2] : r \in refs}
      closed == {s \in {from \cup x : x \in SUBSET targets} : \A r \in refs : r[1] \in s => r[2] \in s}
  IN  {o \in from \cup targets : \A s \in closed : o \in s}

\* What is marked with an object: at once with userdata and upvalues, and when
\* they are traversed for the others.
Strong(o) ==
  CASE kind[o] \in {"thread", "func", "udata"} -> {fields[o][f] : f \in FieldsOf(kind[o])}
    [] kind[o] = "upval" -> {UpvalVal(o)}
    [] kind[o] \in TabKinds ->
         IF fields[o].val = Nil THEN {}
         ELSE (IF kind[o] = "weakkey" THEN {} ELSE {fields[o].key})
                \cup (IF kind[o] = "weakval" THEN {} ELSE {fields[o].val})
    [] kind[o] \in {"str", "none"} -> {}

\* The objects that wait in the gray list to be traversed.
IsTraversed(o) == kind[o] \in {"thread", "func"} \cup TabKinds
IsClosed(o) == kind[o] = "upval" /\ openAt[o] = Nil

White(h) == {o \in Obj : IsWhite(h.marked, o)}
Colored(h, objs, color) == [h EXCEPT !.marked = [o \in Obj |-> IF o \in objs THEN color[o] ELSE @[o]]]

\* The white objects that are marked with some objects, when those in "through"
\* pass the mark on to what they refer to.
MarkedWith(white, objs, through) ==
  LET closed == {x \in SUBSET white : /\ objs \cap white \subseteq x
                                      /\ \A o \in x \cap through : Strong(o) \cap white \subseteq x}
  IN  {o \in white : \A x \in closed : o \in x}

\* gc_mark: userdata and closed upvalues are never gray, open upvalues stay gray.
MarkedColor == [o \in Obj |-> IF kind[o] = "udata" \/ IsClosed(o) THEN "black" ELSE "gray"]
MarkGray(h, objs) ==
  [Colored(h, objs, MarkedColor) EXCEPT !.gray = @ \cup {o \in objs : IsTraversed(o)}]

\* gc_mark of some objects: userdata and upvalues are marked with what they refer
\* to.
MarkAll(h, objs) == MarkGray(h, MarkedWith(White(h), objs, {o \in Obj : ~IsTraversed(o)}))

\* propagatemark: weak tables and threads stay gray, on lists of their own.
Requeued(h, objs) ==
  [h EXCEPT !.gray = @ \ objs,
            !.weak = @ \cup {o \in objs : kind[o] \in {"weakkey", "weakval"}},
            !.grayagain = @ \cup {o \in objs : kind[o] = "thread"}]
TraversedColor ==
  [o \in Obj |-> IF kind[o] \in {"func", "tab", "udata"} \/ IsClosed(o) THEN "black" ELSE "gray"]
Traversed(h, objs) == Requeued(Colored(h, objs, TraversedColor), objs)
PropagateMark(h, o) == MarkAll(Traversed(h, {o}), Strong(o))

\* gc_propagate_gray.
PropagateGray(h) ==
  Traversed(h, h.gray \cup MarkedWith(White(h), UNION {Strong(o) : o \in h.gray}, Obj))

\* gc_mark_start.
MarkStart ==
  LET h == MarkAll([marked |-> marked, gray |-> {}, grayagain |-> {}, weak |-> {}], {Main})
  IN  /\ marked' = h.marked
      /\ gc' = [gc EXCEPT !.state = "propagate", !.gray = h.gray, !.grayagain = {}, !.weak = {}]

Propagate ==
  /\ gc.gray # {}
  /\ \E o \in gc.gray :
       LET h == PropagateMark(Marks, o)
       IN  /\ marked' = h.marked
           /\ gc' = [gc EXCEPT !.gray = h.gray, !.grayagain = h.grayagain, !.weak = h.weak]

EndPropagate ==
  /\ gc.gray = {}
  /\ gc' = [gc EXCEPT !.state = "atomic"]
  /\ UNCHANGED marked
-------------------------------------------------------------------------------
(* The atomic phase. *)

\* A bug: white open upvalues keep their values, too.
MarkEveryOpenUpval(h) == MarkAll(h, {UpvalVal(o) : o \in {u \in Allocated : openAt[u] # Nil}})

\* gc_mark_uv: the values of open upvalues, whose thread may be dead.
MarkOpenUpvals(h) ==
  MarkAll(h, {UpvalVal(o) : o \in {u \in Allocated : openAt[u] # Nil /\ h.marked[u] = "gray"}})

\* A bug: finalized userdata are finalized again.
SeparatedAgain(h) ==
  {o \in Allocated : kind[o] = "udata" /\ IsWhite(h.marked, o) /\ o \notin ToSet(gc.mmudata)}

\* lj_gc_separateudata: white userdata that have not been finalized.
Separated(h) ==
  {o \in Allocated : kind[o] = "udata" /\ IsWhite(h.marked, o)
                     /\ o \notin gc.finalized /\ o \notin ToSet(gc.mmudata)}

\* gc_mark_mmudata.
MarkPending(h, objs) ==
  MarkAll([h EXCEPT !.marked = [o \in Obj |-> IF o \in objs THEN gc.white ELSE @[o]]], objs)

\* gc_mayclear.
MayClear(h, finalized, o, isVal) ==
  /\ o # Nil /\ kind[o] # "str"
  /\ IsWhite(h.marked, o) \/ (isVal /\ o \in finalized)

\* gc_clearweak: the key of an entry stays when its value is cleared.
Cleared(h, finalized, t) ==
  IF \/ MayClear(h, finalized, fields[t].key, FALSE)
     \/ MayClear(h, finalized, fields[t].val, TRUE)
  THEN [fields[t] EXCEPT !.val = Nil] ELSE fields[t]

\* gc_clearweak marks the strings of weak tables.
WeakStrings(tabs) ==
  {v \in UNION {{fields[t].key, fields[t].val} : t \in {x \in tabs : fields[x].val # Nil}} :
     v # Nil /\ kind[v] = "str"}

\* The objects on the collector's lists; open upvalues are swept with their
\* thread, userdata to be finalized are on no list.
Listed(pending) ==
  {o \in Allocated : o \notin pending /\ (kind[o] = "upval" => openAt[o] = Nil)}

Atomic ==
  LET h1 == PropagateGray(MarkOpenUpvals(Marks))
      h2 == PropagateGray(MarkAll([h1 EXCEPT !.gray = h1.weak, !.weak = {}], {running, Main}))
      h3 == PropagateGray([h2 EXCEPT !.gray = h2.grayagain, !.grayagain = {}])
      separated == Separated(h3)
      mmudata == gc.mmudata \o SetToSeq(separated)
      finalized == gc.finalized \cup separated
      h4 == PropagateGray(MarkPending(h3, ToSet(mmudata)))
      h5 == MarkAll(h4, WeakStrings(h4.weak))
  IN  /\ marked' = h5.marked
      /\ fields' = [t \in Obj |-> IF t \in h4.weak THEN Cleared(h4, finalized, t) ELSE fields[t]]
      /\ gc' = [state |-> "sweepstring", white |-> OtherWhite(gc.white),
                gray |-> h5.gray, grayagain |-> h5.grayagain, weak |-> h5.weak,
                mmudata |-> mmudata, finalized |-> finalized,
                unswept |-> Listed(ToSet(mmudata))]
-------------------------------------------------------------------------------
(* Sweep phase. *)

\* gc_sweep of some objects: the dead are freed, the others become white.
SweptColor(o) == IF IsDead(o) THEN "free" ELSE gc.white

OpenUpvals(thread) == {u \in Allocated : openAt[u] # Nil /\ openAt[u].thread = thread}

\* A thread is swept with its open upvalues. A dead one is freed, and its open
\* upvalues that are alive are closed (lj_state_free).
Sweep(objs) ==
  LET upvals == UNION {OpenUpvals(t) : t \in {o \in objs : kind[o] = "thread"}}
      swept == objs \cup upvals
      freed == {o \in swept : IsDead(o)}
      closed == {u \in upvals \ freed : openAt[u].thread \in freed}
  IN  /\ marked' = [o \in Obj |-> IF o \in swept THEN SweptColor(o) ELSE marked[o]]
      /\ fields' = [o \in Obj |-> IF o \in freed THEN Empty(o)
                                  ELSE IF o \in closed THEN [val |-> UpvalVal(o)] ELSE fields[o]]
      /\ openAt' = [o \in Obj |-> IF o \in freed \cup closed THEN Nil ELSE openAt[o]]
      /\ called' = [o \in Obj |-> IF o \in freed THEN 0 ELSE called[o]]
      /\ doomed' = doomed \ freed
      /\ gc' = [gc EXCEPT !.unswept = @ \ objs, !.finalized = @ \ freed]

UnsweptStrings == {o \in gc.unswept : kind[o] = "str"}

\* One chain of the string table.
SweepString ==
  IF UnsweptStrings = {}
  THEN gc' = [gc EXCEPT !.state = "sweep"] /\ UNCHANGED <<marked, fields, openAt, called, doomed>>
  ELSE \E o \in UnsweptStrings : Sweep({o})

SweepRoot ==
  IF gc.unswept = {}
  THEN /\ gc' = [gc EXCEPT !.state = IF gc.mmudata # <<>> THEN "finalize" ELSE "pause"]
       /\ UNCHANGED <<marked, fields, openAt, called, doomed>>
  ELSE \E o \in gc.unswept : Sweep({o})
-------------------------------------------------------------------------------
(* The finalize phase and full collections. *)

Pending == ToSet(gc.mmudata)

\* gc_finalize: the userdata is put back on its list before its finalizer runs.
Finalize ==
  /\ gc.mmudata # <<>>
  /\ LET o == Head(gc.mmudata)
     IN  /\ marked' = [marked EXCEPT ![o] = gc.white]
         /\ finalizing' = o
         /\ called' = [called EXCEPT ![o] = @ + 1]
         /\ gc' = [gc EXCEPT !.mmudata = Tail(@)]

EndFinalize ==
  /\ gc.mmudata = <<>>
  /\ gc' = [gc EXCEPT !.state = "pause"]
  /\ UNCHANGED <<marked, finalizing, called>>

\* gc_onestep. No step is taken while a finalizer runs.
OneStep ==
  /\ finalizing = Nil
  /\ full = "finish" => gc.state \in {"sweepstring", "sweep"}
  /\ full = "cycle" => gc.state # "pause"
  /\ \/ /\ \/ gc.state = "pause" /\ MarkStart
           \/ gc.state = "propagate" /\ (Propagate \/ EndPropagate)
        /\ UNCHANGED <<fields, openAt, finalizing, called, doomed>>
     \/ gc.state = "atomic" /\ Atomic /\ UNCHANGED <<openAt, finalizing, called, doomed>>
     \/ gc.state = "sweepstring" /\ SweepString /\ UNCHANGED finalizing
     \/ gc.state = "sweep" /\ SweepRoot /\ UNCHANGED finalizing
     \/ gc.state = "finalize" /\ (Finalize \/ EndFinalize) /\ UNCHANGED <<fields, openAt, doomed>>
  /\ UNCHANGED <<kind, running, full>>

\* The finalizer returns. An error in it leaves lj_gc_fullgc, too.
FinalizerReturns ==
  /\ finalizing # Nil
  /\ finalizing' = Nil
  /\ full' \in {full, "no"}
  /\ UNCHANGED <<kind, marked, fields, openAt, gc, running, called, doomed>>

\* What an object keeps alive: strings even when the reference is weak.
KeptBy(o) == Strong(o) \cup (IF kind[o] \in TabKinds THEN WeakStrings({o}) ELSE {})

ToFinalize == {o \in Allocated : kind[o] = "udata" /\ (o \in Pending \/ o \notin gc.finalized)}

\* lj_gc_fullgc: the sweep of the cycle that is under way, ...
FullGC ==
  /\ full = "no" /\ finalizing = Nil
  /\ full' = "finish"
  /\ gc' = IF gc.state \in {"pause", "propagate", "atomic"}
           THEN [gc EXCEPT !.state = "sweepstring", !.gray = {}, !.grayagain = {}, !.weak = {},
                           !.unswept = Listed(Pending)]
           ELSE gc
  /\ UNCHANGED <<kind, marked, fields, openAt, running, finalizing, called, doomed>>

\* ... then a cycle of its own.
FullCycle ==
  /\ full = "finish" /\ gc.state \in {"pause", "finalize"}
  /\ MarkStart
  /\ full' = "cycle"
  /\ doomed' = Allocated \ Reached(UNION {{o} \X (KeptBy(o) \ {Nil}) : o \in Allocated}, {Main, running} \cup ToFinalize)
  /\ UNCHANGED <<kind, fields, openAt, running, finalizing, called>>

FullReturns ==
  /\ full = "cycle" /\ gc.state = "pause" /\ finalizing = Nil
  /\ full' = "no"
  /\ UNCHANGED <<kind, marked, fields, openAt, gc, running, finalizing, called, doomed>>
-------------------------------------------------------------------------------
(* Write barriers. *)

IsBlack(m, o) == m[o] = "black"

\* lj_gc_barrierf, lj_gc_barrieruv.
BarrierF(h, o, v) ==
  IF ~(IsBlack(h.marked, o) /\ IsWhite(h.marked, v)) THEN h
  ELSE IF Marking THEN MarkAll(h, {v}) ELSE [h EXCEPT !.marked[o] = gc.white]

\* A bug: the barrier does not ask whether the table is black.
BarrierBackAlways(h, t) == [h EXCEPT !.marked[t] = "gray", !.grayagain = @ \cup {t}]

\* lj_gc_anybarriert.
BarrierBack(h, t) ==
  IF IsBlack(h.marked, t) THEN [h EXCEPT !.marked[t] = "gray", !.grayagain = @ \cup {t}] ELSE h

\* lj_gc_barriert.
BarrierT(h, t, v) == IF IsWhite(h.marked, v) THEN BarrierBack(h, t) ELSE h

\* A bug: the copied value has no barrier.
CloseUpvalNoBarrier(h, upvals) ==
  LET gray == {u \in upvals : h.marked[u] = "gray"}
  IN  Colored(h, gray, [u \in Obj |-> IF Marking THEN "black" ELSE gc.white])

\* A bug: outside of the mark phase the upvalues stay gray.
CloseUpvalStaysGray(h, upvals) ==
  LET gray == {u \in upvals : h.marked[u] = "gray"}
  IN  IF Marking THEN MarkAll(Colored(h, gray, [u \in Obj |-> "black"]), {UpvalVal(u) : u \in gray}) ELSE h

\* lj_gc_closeuv: a closed upvalue is never gray, and its value is marked.
CloseUpval(h, upvals) ==
  LET gray == {u \in upvals : h.marked[u] = "gray"}
  IN  IF Marking THEN MarkAll(Colored(h, gray, [u \in Obj |-> "black"]), {UpvalVal(u) : u \in gray})
      ELSE Colored(h, gray, [u \in Obj |-> gc.white])
-------------------------------------------------------------------------------
(* The program, on the running thread. *)

Running == full = "no" \/ finalizing # Nil
Stack(s) == fields[running][s]
SetMarks(h) ==
  /\ marked' = h.marked
  /\ gc' = [gc EXCEPT !.gray = h.gray, !.grayagain = h.grayagain, !.weak = h.weak]

\* The places for a new object.
Unused(kinds) == {o \in Obj : kind[o] \in kinds /\ marked[o] = "free"}

\* lj_mem_newgco.
New(s) ==
  \E o \in Unused({"thread", "udata"} \cup TabKinds) :
    /\ marked' = [marked EXCEPT ![o] = gc.white]
    /\ fields' = [fields EXCEPT ![running][s] = o]
    /\ UNCHANGED <<openAt, gc, running>>

\* lj_str_new: the same string is the same object, even when it is dead.
Intern(s) ==
  \E o \in Obj :
    /\ kind[o] = "str"
    /\ marked' = [marked EXCEPT ![o] = IF @ = "free" \/ IsDead(o) THEN gc.white ELSE @]
    /\ fields' = [fields EXCEPT ![running][s] = o]
    /\ UNCHANGED <<openAt, gc, running>>

\* lj_func_newL_gc with one upvalue, a local of the running function. The open
\* upvalue of a slot is shared (func_finduv).
Closure(s) ==
  \E o \in Unused({"func"}), u \in {x \in Obj : kind[x] = "upval"}, local \in Slots :
    LET open == {x \in OpenUpvals(running) : openAt[x].slot = local}
    IN  /\ IF open = {} THEN marked[u] = "free" ELSE u \in open
        /\ marked' = [marked EXCEPT ![o] = gc.white,
                                    ![u] = IF @ = "free" \/ IsDead(u) THEN gc.white ELSE @]
        /\ fields' = [fields EXCEPT ![o].uv = u, ![running][s] = o]
        /\ openAt' = [openAt EXCEPT ![u] = [thread |-> running, slot |-> local]]
        /\ UNCHANGED <<gc, running>>

\* lj_func_newL_gc with the upvalue of its parent.
InnerClosure(s) ==
  \E o \in Unused({"func"}), p \in Slots :
    LET parent == Stack(p)
    IN  /\ parent # Nil /\ kind[parent] = "func"
        /\ marked' = [marked EXCEPT ![o] = gc.white]
        /\ fields' = [fields EXCEPT ![o].uv = fields[parent].uv, ![running][s] = o]
        /\ UNCHANGED <<openAt, gc, running>>

\* What the program reads from an object.
Readable(o) ==
  CASE kind[o] \in TabKinds -> IF fields[o].val = Nil THEN {} ELSE {fields[o].key, fields[o].val}
    [] kind[o] = "udata" -> {fields[o].env}
    [] kind[o] = "func" -> {UpvalVal(fields[o].uv)}
    [] kind[o] \in {"thread", "upval", "str"} -> {}

Load(s) ==
  /\ \E v \in {Nil, finalizing} \cup UNION {Readable(o) : o \in {Stack(p) : p \in Slots} \ {Nil}} :
       fields' = [fields EXCEPT ![running][s] = v]
  /\ UNCHANGED <<marked, openAt, gc, running>>

\* A store to the entry of a key, when it has one or there is room for it
\* (lj_tab_newkey): the key may be new to a traversed table, too.
HasRoom(t, k) == fields[t].key # k => fields[t].val = Nil

\* A bug: a key that is found in the table needs no barrier. It may be the dead
\* key of a string that has been interned again at the same place.
StoreNoKeyBarrier(t, k, v) ==
  /\ kind[t] \in TabKinds /\ HasRoom(t, k)
  /\ fields' = [fields EXCEPT ![t] = [key |-> k, val |-> v]]
  /\ SetMarks(BarrierT(IF fields[t].key = k THEN Marks ELSE BarrierBack(Marks, t), t, v))
  /\ UNCHANGED <<openAt, running>>

Store(t, k, v) ==
  /\ kind[t] \in TabKinds /\ HasRoom(t, k)
  /\ fields' = [fields EXCEPT ![t] = [key |-> k, val |-> v]]
  /\ SetMarks(BarrierBack(Marks, t))
  /\ UNCHANGED <<openAt, running>>

\* lua_rawseti: a store to the entry of a number.
StoreInt(t, v) ==
  /\ kind[t] \in TabKinds /\ HasRoom(t, Nil)
  /\ fields' = [fields EXCEPT ![t] = [key |-> Nil, val |-> v]]
  /\ SetMarks(BarrierT(IF fields[t].key = Nil THEN Marks ELSE BarrierBack(Marks, t), t, v))
  /\ UNCHANGED <<openAt, running>>

\* lua_setmetatable and lua_setfenv of userdata.
SetEnv(o, v) ==
  /\ kind[o] = "udata"
  /\ v # Nil /\ kind[v] \in TabKinds
  /\ fields' = [fields EXCEPT ![o].env = v]
  /\ SetMarks(BarrierF(Marks, o, v))
  /\ UNCHANGED <<openAt, running>>

\* USET: an open upvalue is a stack slot, a closed one has a barrier.
SetUpval(f, v) ==
  /\ kind[f] = "func"
  /\ LET u == fields[f].uv
     IN  IF openAt[u] = Nil
         THEN fields' = [fields EXCEPT ![u].val = v] /\ SetMarks(BarrierF(Marks, u, v))
         ELSE /\ fields' = [fields EXCEPT ![openAt[u].thread][openAt[u].slot] = v]
              /\ UNCHANGED <<marked, gc>>
  /\ UNCHANGED <<openAt, running>>

\* lua_setupvalue: the barrier is for the function, not for its upvalue.
DebugSetUpval(f, v) ==
  /\ kind \in Debug /\ kind[f] = "func"
  /\ LET u == fields[f].uv
     IN  fields' = IF openAt[u] = Nil THEN [fields EXCEPT ![u].val = v]
                   ELSE [fields EXCEPT ![openAt[u].thread][openAt[u].slot] = v]
  /\ SetMarks(BarrierF(Marks, f, v))
  /\ UNCHANGED <<openAt, running>>

Assign ==
  \E s, p \in Slots :
    /\ Stack(s) # Nil
    /\ \/ \E v \in {Nil, Stack(p)} : StoreInt(Stack(s), v) \/ SetUpval(Stack(s), v)
       \/ \E v \in {Nil, Stack(s), Stack(p)} : Store(Stack(s), Stack(p), v)
       \/ SetEnv(Stack(s), Stack(p))
       \/ DebugSetUpval(Stack(s), Stack(p))

\* lj_func_closeuv: a block or a function is left.
CloseUpvals ==
  \E level \in Slots :
    LET left == {u \in OpenUpvals(running) : openAt[u].slot >= level}
        dead == {u \in left : IsDead(u)}
        h == CloseUpval(Marks, left \ dead)
    IN  /\ left # {}
        /\ SetMarks([h EXCEPT !.marked = [o \in Obj |-> IF o \in dead THEN "free" ELSE @[o]]])
        /\ fields' = [o \in Obj |-> IF o \in dead THEN Empty(o)
                                    ELSE IF o \in left THEN [val |-> UpvalVal(o)] ELSE fields[o]]
        /\ openAt' = [o \in Obj |-> IF o \in left THEN Nil ELSE openAt[o]]
        /\ UNCHANGED running

\* A value is passed to a coroutine, or from it, and the other thread runs on.
Resume ==
  \E s, p \in Slots :
    LET to == IF running = Main THEN Stack(s) ELSE Main
    IN  /\ to # Nil /\ kind[to] = "thread" /\ to # running
        /\ running' = to
        /\ fields' = [fields EXCEPT ![to][p] = Stack(p)]
        /\ UNCHANGED <<marked, openAt, gc>>

Program ==
  /\ Running
  /\ \/ \E s \in Slots : New(s) \/ Intern(s) \/ Closure(s) \/ InnerClosure(s) \/ Load(s)
     \/ Assign
     \/ CloseUpvals
     \/ finalizing = Nil /\ Resume
  /\ UNCHANGED <<kind, finalizing, full, called, doomed>>

Next == OneStep \/ FinalizerReturns \/ FullGC \/ FullCycle \/ FullReturns \/ Program

Spec == Init /\ [][Next]_vars
-------------------------------------------------------------------------------
Refs(o) == IF kind[o] \in TabKinds THEN Readable(o) ELSE Strong(o)
Reachable == Reached(UNION {{o} \X (Refs(o) \ {Nil}) : o \in Allocated}, {Main, running, finalizing} \ {Nil})

\* Whatever a program can still reach has not been freed, whatever it does
\* between two steps of the collector: an object, a value of a weak table, or
\* the stack that an open upvalue points into.
NoDangling ==
  \A o \in Reachable :
    /\ marked[o] # "free"
    /\ openAt[o] # Nil => marked[openAt[o].thread] # "free"

\* No object that has been traversed refers to one that has not been marked.
\* Userdata to be finalized are marked afresh.
TriColor ==
  Marking => \A o \in Obj \ Pending : marked[o] = "black" =>
    \A v \in Refs(o) \ {Nil} : ~IsWhite(marked, v)

\* A gray object waits in exactly one list, whatever barriers it has run into.
GrayListed ==
  Marking => \A o \in Obj : marked[o] = "gray" /\ kind[o] \notin {"str", "upval"} =>
    Cardinality({list \in {"gray", "grayagain", "weak"} : o \in gc[list]}) = 1

\* Between two cycles everything is white, which the barriers assert.
WhiteBetween ==
  gc.state \in {"pause", "finalize"} => \A o \in Allocated \ Pending : marked[o] = gc.white

\* A finalizer is called once, also when the userdata is kept or a full
\* collection comes in between.
FinalizedOnce == \A o \in Obj : called[o] <= 1

\* lj_gc_fullgc frees all the garbage there was.
FullFreesGarbage == gc.state \in {"pause", "finalize"} => doomed = {}
===============================================================================
