----------------------------- MODULE TraceCompiler -----------------------------
(***************************************************************************)
(* The trace compiler's bookkeeping (lj_trace.c): hot loops and functions  *)
(* are recorded, the bytecode is patched to enter the compiled root trace, *)
(* hot exits get side traces, failing loops are penalized and blacklisted, *)
(* flushed traces wait for the collector, and numbers are used again.      *)
(***************************************************************************)
EXTENDS Integers, FiniteSets, FiniteSetsExt

CONSTANTS
  Loop, Func, Ret,  \* the bytecodes that may start root traces: loops, functions, returns
  Proto, ProtoOf,  \* the prototypes, and the prototype of each bytecode
  Switched,        \* the prototypes that the program switches off and on
  Exit,            \* the exits of a trace
  Program,         \* programs: their bytecodes "code", and the parameter "maxtrace"
  MaxSide, HotExit, TrySide,  \* parameters of the compiler
  PenaltySlots, PenaltyMin, PenaltyMax, PenaltyRandom,
  MaxDepth,        \* bound: side traces of side traces
  SidePc,          \* where a side trace starts, between these bytecodes
  Null, Cur        \* no trace, and the trace being recorded

Pc == Loop \cup Func \cup Ret \cup {SidePc}
MaxTrace == Max({prog.maxtrace : prog \in Program})
TraceNo == 1..MaxTrace
CountDone == HotExit + TrySide + 1   \* SNAPCOUNT_DONE

\* A compiled trace. There are as many side traces as numbers at most.
Trace == [pc : Pc, root : {0} \cup TraceNo, parent : {0} \cup TraceNo, exit : Exit \cup {Null},
          link : {0} \cup TraceNo, nchild : 0..MaxTrace,
          nextside : {0} \cup TraceNo, nextroot : {0} \cup TraceNo, count : [Exit -> 0..CountDone]]

ASSUME CompilerAssumption ==
  /\ Loop \cap Func = {} /\ (Loop \cup Func) \cap Ret = {}
  /\ ProtoOf \in [Pc -> Proto] /\ Switched \subseteq Proto
  /\ \A prog \in Program : prog.code \subseteq Loop \cup Func \cup Ret /\ prog.maxtrace \in Nat \ {0}
  /\ IsFiniteSet(Program) /\ Program # {}
  /\ {MaxSide, HotExit, PenaltySlots, PenaltyMin, PenaltyMax} \subseteq Nat \ {0}
  /\ {TrySide, MaxDepth} \subseteq Nat /\ PenaltyRandom \subseteq Nat
  /\ Exit # {} /\ SidePc \notin Loop \cup Func \cup Ret /\ Ret \cap {"error", "mcode"} = {}
  /\ Null # Cur /\ Null \notin Pc /\ {Null, Cur} \cap Trace = {}

VARIABLE jit  \* the bytecode, the prototypes and the compiler's state

Plain == [op |-> "plain", d |-> 0]      \* FORL, ITERL, LOOP, FUNCF, RET
Interp == [op |-> "interp", d |-> 0]    \* IFORL, IITERL, ILOOP, IFUNCF
Jit(n) == [op |-> "jit", d |-> n]       \* JFORL, JITERL, JLOOP, JFUNCF
Wrong == [op |-> "wrong", d |-> 0]      \* not the instruction it was
Absent == [op |-> "absent", d |-> 0]    \* not in this program

NoCur == [no |-> 0, pt |-> Null, pc |-> Null, parent |-> 0, exit |-> Null, root |-> 0]
NoPatch == [pc |-> Null, d |-> 0]

Init ==
  \E prog \in Program :
    jit =  [bc |-> [pc \in Pc |-> IF pc \in prog.code \cup {SidePc} THEN Plain ELSE Absent],
            maxtrace |-> prog.maxtrace,
            chain |-> [p \in Proto |-> 0],        \* pt->trace
            nojit |-> {}, iloop |-> {},           \* prototypes with these flags
            trace |-> [n \in TraceNo |-> Null],
            freetrace |-> 1,
            state |-> "idle",
            cur |-> NoCur,
            patch |-> NoPatch, bcskip |-> FALSE,
            penalty |-> [i \in 1..PenaltySlots |-> [pc |-> Null, val |-> 0]], slot |-> 1,
            dead |-> {}]                          \* found dead and not swept yet
-------------------------------------------------------------------------------
(* Traces and their chains.                                                *)

Real(j) == {n \in TraceNo : j.trace[n] \notin {Null, Cur}}
Roots(j) == {n \in Real(j) : j.trace[n].root = 0}

\* The numbers from n on along the links "next".
Along(next, n) ==
  LET step[i \in 0..MaxTrace] ==
        IF i = 0 THEN n ELSE LET k == step[i - 1] IN IF k = 0 THEN 0 ELSE next[k]
  IN  {step[i] : i \in 0..MaxTrace} \ {0}

NextRoot(j) == [n \in TraceNo |-> IF n \in Real(j) THEN j.trace[n].nextroot ELSE 0]
NextSide(j) == [n \in TraceNo |-> IF n \in Real(j) THEN j.trace[n].nextside ELSE 0]
Chained(j, p) == Along(NextRoot(j), j.chain[p])
Sides(j, root) == Along(NextSide(j), j.trace[root].nextside)

\* The traces reached from "from" by links that "to" gives.
Reached(from, to) ==
  LET step[i \in 0..MaxTrace] ==
        IF i = 0 THEN from
        ELSE LET s == step[i - 1] IN s \cup UNION {to[n] : n \in s \ {0}}
  IN  step[MaxTrace] \ {0}

Entered(j) == {j.bc[pc].d : pc \in {pc \in Pc : j.bc[pc].op = "jit"}}

\* The traces that may run: entered from bytecode, from a trace that links to
\* it, or from an exit of the parent.
Running(j) ==
  Reached(Entered(j),
          [n \in TraceNo |-> IF n \notin Real(j) THEN {}
                            ELSE {j.trace[n].link} \cup {s \in Real(j) : j.trace[s].parent = n}])

\* A bug: side traces are not marked.
MarkedNoSides(j) ==
  Reached({j.chain[p] : p \in Proto},
          [n \in TraceNo |-> IF n \notin Real(j) THEN {}
                            ELSE {j.trace[n].link, j.trace[n].nextroot}])

\* gc_traverse_proto, gc_traverse_trace, and gc_traverse_curtrace, which finds
\* no links in a trace that is being recorded.
Marked(j) ==
  Reached({j.chain[p] : p \in Proto},
          [n \in TraceNo |-> IF n \notin Real(j) THEN {}
                            ELSE {j.trace[n].link, j.trace[n].nextroot, j.trace[n].nextside}])
-------------------------------------------------------------------------------
(* Flushing.                                                               *)

\* trace_unpatch.
Unpatch(j, n) ==
  LET pc == j.trace[n].pc IN IF j.bc[pc].op = "jit" THEN [j EXCEPT !.bc[pc] = Plain] ELSE j

\* trace_flushroot.
FlushRoot(j0, n) ==
  LET j == Unpatch(j0, n)
      p == ProtoOf[j.trace[n].pc]
      next == j.trace[n].nextroot
      before == {m \in Chained(j, p) \cap Real(j) : j.trace[m].nextroot = n}
  IN  IF j.chain[p] = n THEN [j EXCEPT !.chain[p] = next]
      ELSE [j EXCEPT !.trace = [m \in TraceNo |->
              IF m \in before THEN [j.trace[m] EXCEPT !.nextroot = next] ELSE j.trace[m]]]

\* lj_trace_flush.
Flush(j, n) == IF n \in Roots(j) THEN FlushRoot(j, n) ELSE j

\* lj_trace_flushproto: until the chain is empty.
FlushProto(j, p) ==
  LET step[i \in 0..MaxTrace] ==
        IF i = 0 THEN j
        ELSE LET k == step[i - 1] IN IF k.chain[p] = 0 THEN k ELSE FlushRoot(k, k.chain[p])
  IN  step[MaxTrace]

\* A bug: the flushed traces keep their numbers until they are freed.
FlushAllKeepsNumbers(j) ==
  LET step[i \in 0..MaxTrace] ==
        IF i = 0 THEN j
        ELSE LET n == MaxTrace + 1 - i IN [Flush(step[i - 1], n) EXCEPT !.trace[n] = Null]
  IN  [step[MaxTrace] EXCEPT !.cur.no = 0, !.freetrace = 0,
                             !.penalty = [i \in 1..PenaltySlots |-> [pc |-> Null, val |-> 0]]]

\* lj_trace_flushall, from the highest number down.
FlushAll(j) ==
  LET step[i \in 0..MaxTrace] ==
        IF i = 0 THEN j
        ELSE LET n == MaxTrace + 1 - i IN [Flush(step[i - 1], n) EXCEPT !.trace[n] = Null]
  IN  [step[MaxTrace] EXCEPT !.cur.no = 0, !.freetrace = 0, !.dead = {},
                             !.penalty = [i \in 1..PenaltySlots |-> [pc |-> Null, val |-> 0]]]
-------------------------------------------------------------------------------
(* Penalties.                                                              *)

\* blacklist_pc adds to the opcode: any other instruction becomes a wrong one.
Blacklist(j, p, pc) ==
  [j EXCEPT !.bc[pc] = IF @ = Plain /\ pc \in Loop \cup Func THEN Interp ELSE Wrong,
            !.iloop = @ \cup {p}]

\* penalty_pc, with the random bits.
Penalize(j, p, pc, rnd) ==
  LET known == {i \in 1..PenaltySlots : j.penalty[i].pc = pc}
      i == Min(known)
      val == 2 * j.penalty[i].val + rnd
  IN  IF known = {}
        THEN [j EXCEPT !.penalty[j.slot] = [pc |-> pc, val |-> PenaltyMin],
                       !.slot = (@ % PenaltySlots) + 1]
      ELSE IF val > PenaltyMax THEN Blacklist(j, p, pc)
      ELSE [j EXCEPT !.penalty[i].val = val]
-------------------------------------------------------------------------------
(* Recording.                                                              *)

\* trace_findfree, in a trace array of the final size. 0: too many traces.
FindFree(j) ==
  LET free == {n \in 1..j.maxtrace : n >= j.freetrace /\ j.trace[n] = Null}
  IN  IF free = {} THEN 0 ELSE Min(free)

\* A side trace for an exit that failed too often, or of a root with too many,
\* goes to the interpreter at once (lj_record_setup).
GivesUp(j) ==
  LET c == j.cur
  IN  /\ c.parent # 0
      /\ \/ j.trace[c.root].nchild >= MaxSide
         \/ j.trace[c.parent].count[c.exit] >= HotExit + TrySide

\* trace_start, at the bytecode pc of a prototype p.
Start(j, p, pc, parent, exit) ==
  LET no == FindFree(j)
      root == IF parent = 0 THEN 0 ELSE IF j.trace[parent].root = 0 THEN parent ELSE j.trace[parent].root
      k == [j EXCEPT !.trace[no] = Cur, !.freetrace = no + 1, !.bcskip = FALSE,
                     !.cur = [no |-> no, pt |-> IF parent = 0 THEN p ELSE Null, pc |-> pc, parent |-> parent, exit |-> exit, root |-> root]]
  IN  IF p \in j.nojit
        THEN [IF parent # 0 THEN j ELSE Blacklist(j, p, pc) EXCEPT !.state = "idle"]
      ELSE IF no = 0 THEN [FlushAll(j) EXCEPT !.state = "idle"]
      ELSE [k EXCEPT !.state = IF GivesUp(k) THEN "end" ELSE "record"]

\* trace_pendpatch.
PendPatch(j) ==
  IF j.patch = NoPatch THEN j
  ELSE [j EXCEPT !.bc[j.patch.pc] = Jit(j.patch.d), !.patch = NoPatch]

\* A bug: the saved trace is still the one being recorded.
StopKeepsCurrent(j, link) ==
  LET c == j.cur
      new == [pc |-> c.pc, root |-> c.root, parent |-> c.parent, exit |-> c.exit,
              link |-> link, nchild |-> 0, nextside |-> 0, nextroot |-> 0,
              count |-> [e \in Exit |-> 0]]
  IN  [j EXCEPT !.trace[c.no] = new, !.state = "idle"]

\* A bug: the parent's exit stays hot.
StopCounts(j, link) ==
  LET c == j.cur
      new == [pc |-> c.pc, root |-> c.root, parent |-> c.parent, exit |-> c.exit,
              link |-> link, nchild |-> 0, nextside |-> 0, nextroot |-> 0,
              count |-> [e \in Exit |-> 0]]
      p == c.pt
      root == [j EXCEPT !.bc[c.pc] = Jit(c.no), !.chain[p] = c.no,
                        !.trace[c.no] = [new EXCEPT !.nextroot = j.chain[p]]]
      side == [j EXCEPT !.trace = [j.trace EXCEPT
                 ![c.root].nchild = j.trace[c.root].nchild + 1, ![c.root].nextside = c.no,
                 ![c.no] = [new EXCEPT !.nextside = j.trace[c.root].nextside]]]
  IN  [(IF c.root = 0 THEN root ELSE side) EXCEPT !.cur = NoCur, !.state = "idle"]

\* trace_stop and trace_save: the bytecode or the parent's exit is patched.
Stop(j, link) ==
  LET c == j.cur
      new == [pc |-> c.pc, root |-> c.root, parent |-> c.parent, exit |-> c.exit,
              link |-> link, nchild |-> 0, nextside |-> 0, nextroot |-> 0,
              count |-> [e \in Exit |-> 0]]
      p == c.pt
      root == [j EXCEPT !.bc[c.pc] = Jit(c.no), !.chain[p] = c.no,
                        !.trace[c.no] = [new EXCEPT !.nextroot = j.chain[p]]]
      side == [j EXCEPT !.trace = [j.trace EXCEPT
                 ![c.parent].count[c.exit] = CountDone,
                 ![c.root].nchild = j.trace[c.root].nchild + 1, ![c.root].nextside = c.no,
                 ![c.no] = [new EXCEPT !.nextside = j.trace[c.root].nextside]]]
  IN  [(IF c.root = 0 THEN root ELSE side) EXCEPT !.cur = NoCur, !.state = "idle"]

\* A bug: the free number is not remembered.
DroppedHighFree(j, parent, rnd) ==
  LET c == j.cur
      k == IF parent = 0 /\ c.pc \notin Ret THEN Penalize(j, c.pt, c.pc, rnd) ELSE j
  IN  IF c.no = 0 THEN k ELSE [k EXCEPT !.trace[c.no] = Null, !.cur.no = 0]

\* A bug: a trace that starts at a return is penalized, too.
DroppedAnyStart(j, parent, rnd) ==
  LET c == j.cur
      k == IF parent = 0 THEN Penalize(j, c.pt, c.pc, rnd) ELSE j
  IN  IF c.no = 0 THEN k
      ELSE [k EXCEPT !.trace[c.no] = Null, !.freetrace = Min({@, c.no}), !.cur.no = 0]

\* The penalty of trace_abort for a root trace, and the number that comes free.
Dropped(j, parent, rnd) ==
  LET c == j.cur
      k == IF parent = 0 /\ c.pc \notin Ret THEN Penalize(j, c.pt, c.pc, rnd) ELSE j
  IN  IF c.no = 0 THEN k
      ELSE [k EXCEPT !.trace[c.no] = Null, !.freetrace = Min({@, c.no}), !.cur.no = 0]

Idle(j) == [j EXCEPT !.cur = NoCur, !.state = "idle"]

\* The error state: the pending patch and trace_abort. The error "e" may be a
\* return, to record a root trace from (trace_downrec); when this start is
\* ignored it is aborted in turn, with no parent.
Abort(j, e, rnd) ==
  LET k == Dropped(PendPatch(j), j.cur.parent, rnd)
      down == Start(k, ProtoOf[e], e, 0, Null)
  IN  IF e \in Ret THEN IF down.state = "idle" THEN Idle(Dropped(down, 0, rnd)) ELSE down
      ELSE IF e = "mcode" THEN Idle(FlushAll(k))
      ELSE Idle(k)

\* From the end of recording on, with all that the assembler may do: a trace,
\* or an error.
Finish(j, link) ==
  LET k == PendPatch(j)
  IN  \/ jit' = Stop(k, link)
      \/ \E e \in {"error", "mcode"}, rnd \in PenaltyRandom : jit' = Abort(k, e, rnd)
-------------------------------------------------------------------------------
(* The events.                                                             *)

\* lj_trace_hot.
Hot ==
  /\ jit.state = "idle"
  /\ \E pc \in Loop \cup Func :
       /\ jit.bc[pc] = Plain
       /\ LET k == Start(jit, ProtoOf[pc], pc, 0, Null)
          IN  jit' = IF k.state = "record" THEN k ELSE Idle(k)

Depth(j, n) ==
  LET parent == [m \in TraceNo |-> IF m \in Real(j) THEN j.trace[m].parent ELSE 0]
  IN  Cardinality(Along(parent, n))

\* A pending patch: the return at pc is not to enter its trace while recorded.
PatchReturn(j, pc) == [j EXCEPT !.patch = [pc |-> pc, d |-> j.bc[pc].d], !.bc[pc] = Plain, !.bcskip = TRUE]

\* lj_trace_exit and trace_hotside: exit e of trace n, in a function of the
\* prototype p, to the instruction pc.
TraceExit ==
  /\ jit.state = "idle"
  /\ \E n \in Running(jit), e \in Exit :
       LET count == jit.trace[n].count[e]
           j == [jit EXCEPT !.trace[n].count[e] = count + 1]
       IN  /\ count # CountDone
           /\ Depth(jit, n) <= MaxDepth
           /\ \E p \in Proto, pc \in Ret \cup {SidePc} :
                LET k == Start(j, p, SidePc, n, e)
                IN  /\ pc \in Ret => jit.bc[pc].op = "jit"
                    /\ IF count + 1 < HotExit THEN jit' = j
                       ELSE CASE k.state = "record" -> jit' = IF pc \in Ret THEN PatchReturn(k, pc) ELSE k
                              [] k.state = "end" -> Finish(k, 0)
                              [] OTHER -> jit' = Idle(k)

\* The trace of a function that returns to the interpreter.
Returns(j, h) == j.bc[h].op = "jit" /\ j.trace[j.bc[h].d].link = 0

\* The traces that the instructions pcs enter.
Compiled(j, pcs) == {j.bc[pc].d : pc \in {pc \in pcs : j.bc[pc].op = "jit"}}

\* Looping back: without the loop optimization a side trace links to its root.
LoopsBack(j) == {j.cur.no} \cup (IF j.cur.parent = 0 THEN {} ELSE {j.cur.root})

\* Entering a compiled FORL loop at its JFORI, in any trace. Every loop may be one.
EntersLoop(j) == Compiled(j, Loop)

\* What a trace may link to. 0 is the interpreter, for a return out of the frame
\* it started in, also from a loop. Only side traces go on into a compiled loop
\* or a down-recursion at the instruction itself.
Links(j) ==
  {0} \cup LoopsBack(j) \cup EntersLoop(j) \cup Compiled(j, {h \in Func : ~Returns(j, h)})
      \cup (IF j.cur.parent = 0 THEN {} ELSE Compiled(j, Loop \cup Ret))

\* trace_state while recording: one instruction. An error may also come from
\* outside (lj_trace_abort, by a hook or a finalizer).
Record ==
  /\ jit.state = "record"
  /\ LET j == IF jit.bcskip THEN [jit EXCEPT !.bcskip = FALSE] ELSE PendPatch(jit)
     IN  \/ jit' = j
         \/ \E link \in Links(j) : Finish(j, link)
         \/ \E rnd \in PenaltyRandom : jit' = Abort(j, "error", rnd)
         \/ /\ j.patch = NoPatch
            /\ \/ \E h \in Func :  \* rec_func_jit
                    /\ Returns(j, h) /\ ProtoOf[h] \notin j.nojit
                    /\ \/ jit' = [j EXCEPT !.patch = [pc |-> h, d |-> j.bc[h].d], !.bc[h] = Plain]
                       \/ /\ j.cur.pc # h
                          /\ \E rnd \in PenaltyRandom : jit' = Abort(Flush(j, j.bc[h].d), "error", rnd)
               \* Down-recursion; the lower frames may be of any prototype.
               \/ /\ j.cur.pc \in Ret \cup {SidePc}
                  /\ \E r \in Ret \ {j.cur.pc}, rnd \in PenaltyRandom :
                       /\ j.bc[r] = Plain
                       /\ jit' = Abort(j, r, rnd)
-------------------------------------------------------------------------------
(* The jit library. Calls are not recorded: the compiler is idle.          *)

\* lj_trace_reenableproto.
Reenable(j, p) ==
  IF p \notin j.iloop THEN j
  ELSE [j EXCEPT !.iloop = @ \ {p},
                 !.bc = [pc \in Pc |-> IF ProtoOf[pc] = p /\ @[pc] = Interp THEN Plain ELSE @[pc]]]

\* jit.flush(), jit.flush(n), jit.off(f) and jit.on(f) of a function of the program.
Call ==
  /\ jit.state = "idle"
  /\ \/ jit' = FlushAll(jit)
     \/ \E n \in Roots(jit) : jit' = Flush(jit, n)
     \/ \E p \in Switched :
          /\ \E pc \in Pc : ProtoOf[pc] = p /\ jit.bc[pc] # Absent
          /\ \/ jit' = FlushProto([jit EXCEPT !.nojit = @ \cup {p}], p)
             \/ jit' = Reenable([jit EXCEPT !.nojit = @ \ {p}], p)
-------------------------------------------------------------------------------
(* The collector.                                                          *)

\* The end of the mark phase.
Atomic ==
  /\ jit.dead = {}
  /\ jit' = [jit EXCEPT !.dead = Real(jit) \ Marked(jit)]

\* lj_trace_free. The newest objects are swept first, so a trace goes before its
\* parent and the traces it links to.
Sweep ==
  /\ \E n \in jit.dead :
       /\ \A m \in jit.dead \ {n} : n \notin {jit.trace[m].parent, jit.trace[m].link, jit.trace[m].nextroot}
       /\ jit' = [jit EXCEPT !.trace[n] = Null, !.freetrace = Min({@, n}), !.dead = @ \ {n}]

Next == Hot \/ TraceExit \/ Record \/ Call \/ Atomic \/ Sweep
Spec == Init /\ [][Next]_jit
-------------------------------------------------------------------------------
TypeOK ==
  /\ jit.state \in {"idle", "record"}
  /\ \A n \in Real(jit) : jit.trace[n] \in Trace
  /\ \A n \in TraceNo : jit.trace[n] = Cur <=> n = jit.cur.no
  /\ jit.state = "idle" => jit.cur = NoCur /\ jit.patch = NoPatch
  /\ jit.freetrace \in 0..MaxTrace + 1
  /\ jit.chain \in [Proto -> {0} \cup TraceNo]

\* Bytecode never enters a trace that is not there or not its own: the operand
\* of a patched instruction, or of one that will be patched again, is the number
\* of a root trace that starts there, is in the chain of the prototype and has
\* not been found dead, whatever was flushed, aborted, collected or numbered
\* again in the meantime.
EntersItsTrace ==
  \A pc \in Pc :
    LET d == IF jit.patch.pc = pc THEN jit.patch.d ELSE jit.bc[pc].d
    IN  d # 0 => /\ d \in Roots(jit) \ jit.dead
                 /\ jit.trace[d].pc = pc
                 /\ d \in Chained(jit, ProtoOf[pc])

\* The collector keeps what may run: the traces entered from bytecode, those
\* they link to and their side traces, and the parent of the recorded trace.
RunningKept ==
  /\ Running(jit) \subseteq Real(jit) \ jit.dead
  /\ jit.cur.parent # 0 => {jit.cur.parent, jit.cur.root} \subseteq Real(jit) \ jit.dead

\* Trace numbers do not get lost: when none is found, all are in use, and only
\* then is everything flushed.
NumbersFound == FindFree(jit) = 0 => \A n \in 1..jit.maxtrace : jit.trace[n] # Null

\* The side traces of a root are chained and counted, and no exit is compiled
\* twice.
SidesChained ==
  \A n \in Roots(jit) \ jit.dead :
    LET sides == {m \in Real(jit) : jit.trace[m].root = n}
    IN  /\ Sides(jit, n) = sides
        /\ jit.trace[n].nchild = Cardinality(sides)
        /\ \A s, t \in sides :
             s # t => <<jit.trace[s].parent, jit.trace[s].exit>> # <<jit.trace[t].parent, jit.trace[t].exit>>

\* Only instructions that start loops and functions are taken out of
\* compilation, where jit.on finds them again: patching an opcode never makes
\* another instruction of it.
InstructionsKept ==
  \A pc \in Pc :
    /\ jit.bc[pc] # Wrong
    /\ jit.bc[pc] = Interp => ProtoOf[pc] \in jit.iloop
===============================================================================
