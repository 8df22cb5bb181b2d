--------------------------------- MODULE MemOpt ---------------------------------
(***************************************************************************)
(* What the trace compiler makes of accesses to tables: the instructions   *)
(* it records for them (lj_record.c) as the fold engine lets them through  *)
(* (lj_opt_fold.c), with alias analysis, forwarding of loads and stores    *)
(* and elimination of dead stores (lj_opt_mem.c). A program is recorded in *)
(* one run of it; the instructions are then executed in every other.       *)
(*                                                                         *)
(* Instructions are numbered from 1, constants from -1 down, and 0 is      *)
(* none. The traces have no loop and no write barriers.                    *)
(***************************************************************************)
EXTENDS Integers, Sequences, FiniteSets, FiniteSetsExt, SequencesExt

CONSTANTS
  Num,        \* the integers used
  StrSeq,     \* the strings used
  NumHash,    \* the hash of each integer
  StrHash,    \* the hash of each string
  Nil,
  Null,       \* no metatable
  NewTables,  \* the tables that a program allocates, in their order
  Template,   \* the table that TDUP copies
  xVar, yVar, nVar, zVar, sVar, iVar,  \* local variables of the program
  iNext,      \* the key i+1
  Left,       \* a run that has left the path that is recorded
  Index, NewIndex, Metatable,  \* the strings __index, __newindex, __metatable
  Scenes      \* sets of runs, of statements, and the length of programs of them

Str == ToSet(StrSeq)
Vars == {xVar, yVar, nVar, zVar, sVar, iVar}

ASSUME MemOptAssumption ==
  /\ Num \subseteq Nat
  /\ NumHash \in [Num -> Nat] /\ StrHash \in [Str -> Nat]
  /\ {Index, NewIndex, Metatable} \subseteq Str

VARIABLES
  scene,   \* the scene
  actual,  \* the run in which the program is recorded
  runs,    \* the interpreter's states in every run, before each statement and at the end
  J        \* the recorder

vars == <<scene, actual, runs, J>>

H == INSTANCE HashTable WITH
       strhash <- StrHash, FirstHashes <- {}, Hashes <- {}, MaxReuse <- 0,
       MaxAbits <- 28, MaxInt <- 2147483647, Done <- Left,
       tab <- Nil, iter <- Nil, visited <- Nil, reused <- 0
-------------------------------------------------------------------------------
(* The interpreter. A table of the heap is one of HashTable with its       *)
(* metatable and the number of times that its parts were reallocated.      *)

Fresh(asize, hbits) ==
  [array |-> [i \in 1..asize |-> Nil],
   node |-> IF hbits = 0 THEN H!NilNodes ELSE [n \in 0..(2 ^ hbits - 1) |-> H!EmptyNode],
   freetop |-> IF hbits = 0 THEN 0 ELSE 2 ^ hbits,
   fits |-> TRUE, meta |-> Null, gen |-> 0]

\* lj_tab_newkey, in a table with room: the table and the place of the new key.
PlaceKey(t, k) ==
  LET new == H!NewKey(t, k)
  IN  IF H!InArray(t, k) THEN [tab |-> t, part |-> "array", at |-> k]
      ELSE [tab |-> new.tab, part |-> "node", at |-> new.node]

\* lj_tab_newkey.
NewKeyAt(t, k) == PlaceKey(IF H!HasRoom(t, k) THEN t ELSE [H!Rehash(t, k) EXCEPT !.gen = @ + 1], k)

PutAt(t, part, i, v) ==
  IF part = "array" THEN [t EXCEPT !.array[i + 1] = v] ELSE [t EXCEPT !.node[i].val = v]

PutNew(new, v) == PutAt(new.tab, new.part, new.at, v)

RawSet(t, k, v) ==
  IF H!InArray(t, k) THEN PutAt(t, "array", k, v)
  ELSE IF H!FindNode(t, k) # Nil THEN PutAt(t, "node", H!FindNode(t, k), v)
  ELSE PutNew(NewKeyAt(t, k), v)

HasMetamethod(heap, t, mm) == heap[t].meta # Null /\ H!Get(heap[heap[t].meta], mm) # Nil

\* The value of an operand: a variable, i+1, or a constant.
Operand(run, e) ==
  IF e = iNext THEN run.var[iVar] + 1 ELSE IF e \in Vars THEN run.var[e] ELSE e

Allocate(run, t) ==
  LET id == NewTables[run.news + 1]
  IN  [run EXCEPT !.heap = [i \in DOMAIN @ \cup {id} |-> IF i = id THEN t ELSE @[i]],
                  !.var[nVar] = id, !.news = @ + 1]

\* The state after a statement on table t with key k and value v, or Left when a
\* metamethod is called or an error is raised.
Interpret(run, st, t, k, v) ==
  LET isTable == t \in DOMAIN run.heap
      old == H!Get(run.heap[t], k)
  IN  CASE st.op = "new" -> Allocate(run, Fresh(st.key, st.val))
        [] st.op = "dup" -> Allocate(run, Template)
        [] st.op = "get" ->
             IF ~isTable \/ (old = Nil /\ HasMetamethod(run.heap, t, Index)) THEN Left
             ELSE [run EXCEPT !.var[zVar] = old]
        [] st.op = "len" ->
             IF ~isTable THEN Left ELSE [run EXCEPT !.var[zVar] = H!TabLen(run.heap[t])]
        [] st.op = "set" ->
             IF ~isTable \/ (old = Nil /\ HasMetamethod(run.heap, t, NewIndex)) THEN Left
             ELSE [run EXCEPT !.heap[t] = RawSet(@, k, v)]
        [] st.op = "setmetatable" ->
             IF ~isTable \/ ~(v = Nil \/ v \in DOMAIN run.heap) \/ HasMetamethod(run.heap, t, Metatable)
             THEN Left
             ELSE [run EXCEPT !.heap[t].meta = IF v = Nil THEN Null ELSE v]
-------------------------------------------------------------------------------
(* Instructions and constants.                                             *)

KNil == -1
KNull == -2
KNilTV == -3
KTemplate == -4
KInt(n) == -(10 + n)
KNum(n) == -(40 + n)
KStr(s) == -(70 + CHOOSE i \in DOMAIN StrSeq : StrSeq[i] = s)

Konst(o, t, v) == [o |-> o, t |-> t, v |-> v, op1 |-> 0, op2 |-> 0]

\* The constant of a reference.
Constant(r) ==
  CASE r \in {KNil, 0} -> Konst("KPRI", "nil", Nil)
    [] r = KNull -> Konst("KNULL", "tab", Null)
    [] r = KNilTV -> Konst("KKPTR", "p32", Nil)
    [] r = KTemplate -> Konst("KGC", "tab", Nil)
    [] r \in -39..-10 -> Konst("KINT", "int", -r - 10)
    [] r \in -69..-40 -> Konst("KNUM", "num", -r - 40)
    [] r < -70 -> Konst("KGC", "str", StrSeq[-r - 70])
    [] OTHER -> Konst("KPRI", "nil", Nil)

\* IR(ref). The constants are below the instructions.
IR(j, r) == IF r > 0 THEN j.ir[r] ELSE j.konst[r]

IsK(r) == r < 0

\* A field is the literal operand of an instruction: the one that is loaded, the
\* slot of the KSLOT that is the key of an HREFK, the size of a new table.
Ins(o, t, guard, op1, op2, field) ==
  [o |-> o, t |-> t, guard |-> guard, op1 |-> op1, op2 |-> op2, field |-> field, at |-> 0]

TypeOf(v) ==
  IF v = Nil THEN "nil" ELSE IF v \in Num THEN "num" ELSE IF v \in Str THEN "str" ELSE "tab"

\* The constant for a value, number or string.
KValue(v) == IF v = Nil THEN KNil ELSE IF v \in Num THEN KNum(v) ELSE KStr(v)

\* The instructions of a kind that are younger than "lim": a chain.
Chain(j, o, lim) == {r \in DOMAIN j.ir : j.ir[r].o = o /\ r > lim}

\* What becomes of an instruction: it is appended, replaced by a reference, dropped,
\* or known to fail; or an assertion about it fails.
Emit(j, ins) ==
  [j EXCEPT !.ir = Append(@, [ins EXCEPT !.at = Len(j.snap)]), !.ref = Len(j.ir) + 1]
Fwd(j, r) == [j EXCEPT !.ref = r]
Drop(j) == [j EXCEPT !.ref = 0]
Fail(j) == [j EXCEPT !.failed = "guard"]
Broken(j) == [j EXCEPT !.failed = "assertion"]
CondFold(j, holds) == IF holds THEN Drop(j) ELSE Fail(j)

\* The youngest of some instructions, or 0.
Youngest(refs) == IF refs = {} THEN 0 ELSE Max(refs)

\* A reference to an instruction that is there, or the instruction.
FwdOrEmit(j, ins, r) == IF r # 0 THEN Fwd(j, r) ELSE Emit(j, ins)

\* lj_opt_cselim, lj_opt_cse.
CseLim(j, ins, lim) ==
  FwdOrEmit(j, ins,
            Youngest({r \in Chain(j, ins.o, lim) :
                        j.ir[r].op1 = ins.op1 /\ j.ir[r].op2 = ins.op2 /\ j.ir[r].field = ins.field}))
Cse(j, ins) == CseLim(j, ins, Max({ins.op1, ins.op2}))
-------------------------------------------------------------------------------
(* Alias analysis.                                                         *)

IsAllocation(j, r) == IR(j, r).o \in {"TNEW", "TDUP"}

Escapes(j, r, stop) ==
  \E s \in (r + 1)..(stop - 1) :
    j.ir[s].op2 = r /\ j.ir[s].o \in {"ASTORE", "HSTORE", "USTORE", "FSTORE"}

\* aa_table, aa_escape.
AaTable(j, ta, tb) ==
  IF ta = tb THEN "must"
  ELSE IF IsAllocation(j, ta) /\ IsAllocation(j, tb) THEN "no"
  ELSE IF IsAllocation(j, tb) THEN (IF Escapes(j, tb, ta) THEN "may" ELSE "no")
  ELSE IF IsAllocation(j, ta) /\ ~Escapes(j, ta, tb) THEN "no"
  ELSE "may"

\* The table that a reference is into.
TabOf(j, ref) == IF ref.o \in {"HREFK", "AREF"} THEN IR(j, ref.op1).op1 ELSE ref.op1

\* The base and the offset of a key t[base+ofs].
IsOffset(k) == k.o = "ADD" /\ IsK(k.op2)
BaseOf(ref, k) == IF IsOffset(k) THEN k.op1 ELSE ref
OfsOf(j, k) == IF IsOffset(k) THEN IR(j, k.op2).v ELSE 0

\* The keys ka and kb of the references a and b cannot be the same.
KeysDiffer(j, a, b, ka, kb) ==
  \/ IsK(a.op2) /\ IsK(b.op2)
  \/ IF a.o = "AREF" THEN BaseOf(a.op2, ka) = BaseOf(b.op2, kb) /\ OfsOf(j, ka) # OfsOf(j, kb)
     ELSE ka.t # kb.t

\* aa_ahref, from what is known of the tables.
AaKeys(j, a, b, tables) ==
  IF a.op2 = b.op2 THEN tables
  ELSE IF KeysDiffer(j, a, b, IR(j, a.op2), IR(j, b.op2)) THEN "no"
  ELSE IF tables = "no" THEN "no" ELSE "may"
AaAhref(j, a, b) == AaKeys(j, a, b, AaTable(j, TabOf(j, a), TabOf(j, b)))

\* aa_fref, for the field of the metatable.
AaFref(j, a, b) ==
  IF a.field # b.field THEN "no" ELSE AaTable(j, a.op1, b.op1)
-------------------------------------------------------------------------------
(* Forwarding.                                                             *)

StoreOf(loadop) == IF loadop = "ALOAD" THEN "ASTORE" ELSE "HSTORE"
LoadOf(ref) == IF ref.o = "AREF" THEN "ALOAD" ELSE "HLOAD"

\* The youngest of these stores that may be to the place of xr, or 0.
Conflict(j, stores, xr) ==
  Youngest({r \in stores : AaAhref(j, xr, IR(j, j.ir[r].op1)) # "no"})

\* cselim: the youngest matching load that is younger than "lim".
MatchingLoad(j, ins, lim) ==
  FwdOrEmit(j, ins, Youngest({r \in Chain(j, ins.o, lim) : j.ir[r].op1 = ins.op1}))

\* The stored value, or a load that is younger than "lim".
ForwardStore(j, ins, xr, store, lim) ==
  IF AaAhref(j, xr, IR(j, store.op1)) = "must" THEN Fwd(j, store.op2) ELSE MatchingLoad(j, ins, lim)

\* The contents "v" of the allocation, to which there was no store.
LoadContents(j, ins, v, isTemplate) ==
  IF ins.t = "nil" THEN Fwd(j, KNil)
  ELSE IF ~isTemplate THEN Broken(j)
  ELSE IF ins.t = "tab" THEN MatchingLoad(j, ins, ins.op1)
  ELSE IF ins.t = TypeOf(v) THEN Fwd(j, KValue(v))
  ELSE Broken(j)

\* A load from an allocation, without a store since the reference. "s" is the last
\* store since the allocation.
LoadAllocated(j, ins, xr, tab, s) ==
  IF xr.o = "AREF" /\ \E r \in Chain(j, "NEWREF", tab) : IR(j, j.ir[r].op2).t = "num"
  THEN MatchingLoad(j, ins, ins.op1)
  ELSE IF s # 0 THEN ForwardStore(j, ins, xr, j.ir[s], ins.op1)
  ELSE LoadContents(j, ins, H!Get(Template, IR(j, xr.op2).v), IR(j, tab).o = "TDUP")

\* fwd_ahload, for the reference xr into a table. "s" is the last store since the reference.
FwdLoad(j, ins, xr, tab, s) ==
  IF s # 0 THEN ForwardStore(j, ins, xr, j.ir[s], s)
  ELSE IF IR(j, tab).o = "TNEW" \/ (IR(j, tab).o = "TDUP" /\ IsK(xr.op2))
  THEN LoadAllocated(j, ins, xr, tab, Conflict(j, Chain(j, StoreOf(ins.o), tab), xr))
  ELSE MatchingLoad(j, ins, ins.op1)
FwdAhload(j, ins) ==
  LET xr == IR(j, ins.op1)
  IN  FwdLoad(j, ins, xr, TabOf(j, xr), Conflict(j, Chain(j, StoreOf(ins.o), ins.op1), xr))

\* lj_opt_fwd_hrefk. "new" is the last new key that may be in the table, or 0.
FwdKey(j, ins, tab, new) ==
  IF new = 0 THEN Cse(j, [ins EXCEPT !.guard = IR(j, tab).o # "TDUP"])
  ELSE IF j.ir[new].op1 = tab /\ j.ir[new].op2 = ins.op2 THEN Fwd(j, new)
  ELSE Cse(j, ins)
NewRefs(j, tab, lim) == {r \in Chain(j, "NEWREF", lim) : AaTable(j, tab, j.ir[r].op1) # "no"}
FwdHrefk(j, ins) ==
  LET tab == IR(j, ins.op1).op1 IN FwdKey(j, ins, tab, Youngest(NewRefs(j, tab, tab)))

\* lj_opt_fwd_href_nokey.
NoKey(j, ins) ==
  LET news == Chain(j, "NEWREF", ins.op1)
  IN  /\ ~( /\ IR(j, ins.op2).t = "num" /\ news # {}
            /\ \E r \in Chain(j, "ASTORE", ins.op1) : r < Max(news) )
      /\ Conflict(j, Chain(j, "HSTORE", ins.op1), ins) = 0

\* A bug: the table itself is the only one looked for.
NoNewrefSameTable(j, ta, lim) == \A r \in Chain(j, "NEWREF", lim) : j.ir[r].op1 # ta

\* lj_opt_fwd_tptr: no new key may have moved the parts of the table.
NoNewref(j, ta, lim) == NewRefs(j, ta, lim) = {}

\* fload_tab_ah: "k" is the recorder after CSE.
FieldIfValid(k, ins) == IF NoNewref(k, ins.op1, k.ref) THEN k ELSE Emit(k, ins)
LoadTabAh(j, ins) == FieldIfValid(Cse(j, ins), ins)

\* HREF TNEW, HREF TDUP with a constant key, HREF any.
FwdHref(j, ins) ==
  LET tab == IR(j, ins.op1).o
      k == IR(j, ins.op2).v
      absent == ~H!InArray(Template, k) /\ H!FindNode(Template, k) = Nil
  IN  IF (tab = "TNEW" \/ (tab = "TDUP" /\ IsK(ins.op2) /\ absent)) /\ NoKey(j, ins)
      THEN Fwd(j, KNilTV)
      ELSE LoadTabAh(j, ins)

\* A bug: what a new table has is taken for what it has now.
FwdFloadOfNew(j, ins) ==
  IF IsAllocation(j, ins.op1) THEN Fwd(j, KNull) ELSE CseLim(j, ins, ins.op1)

\* lj_opt_fwd_fload, for the field of the metatable. "s" is the last store that may
\* be to it, or 0.
FwdField(j, ins, s) ==
  IF s = 0 THEN IF IsAllocation(j, ins.op1) THEN Fwd(j, KNull) ELSE CseLim(j, ins, ins.op1)
  ELSE IF AaFref(j, ins, IR(j, j.ir[s].op1)) = "must" THEN Fwd(j, j.ir[s].op2)
  ELSE CseLim(j, ins, s)
FwdFload(j, ins) ==
  FwdField(j, ins,
           Youngest({r \in Chain(j, "FSTORE", ins.op1) : AaFref(j, ins, IR(j, j.ir[r].op1)) # "no"}))

\* fload_tab_tnew_asize and the like.
FwdSize(j, ins) ==
  LET tab == IR(j, ins.op1)
      asize == IF tab.o = "TNEW" THEN tab.field[1] ELSE H!Asize(Template)
      hmask == IF tab.o = "TNEW" THEN 2 ^ tab.field[2] - 1 ELSE H!Hmask(Template)
  IN  IF IsAllocation(j, ins.op1) /\ NoNewref(j, ins.op1, ins.op1)
      THEN Fwd(j, KInt(IF ins.field = "asize" THEN asize ELSE hmask))
      ELSE LoadTabAh(j, ins)

\* lj_opt_fwd_tab_len.
FwdTabLen(j, ins) ==
  LET stores == Chain(j, "ASTORE", ins.op1) \cup
                {r \in Chain(j, "HSTORE", ins.op1) : IR(j, IR(j, j.ir[r].op1).op2).t = "num"}
  IN  CseLim(j, ins, Max(stores \cup {ins.op1}))
-------------------------------------------------------------------------------
(* Dead stores.                                                            *)

Nop == Ins("NOP", "nil", FALSE, 0, 0, 0)

Alias(j, o, a, b) == IF o = "FSTORE" THEN AaFref(j, a, b) ELSE AaAhref(j, a, b)

\* What keeps the store before: a side exit, or a load of the field.
InBetween(j, r, ins) ==
  \E i \in (r + 1)..Len(j.ir) :
    \/ j.ir[i].guard
    \/ ins.o = "FSTORE" /\ j.ir[i].o = "FLOAD" /\ j.ir[i].field = IR(j, ins.op1).field

\* An earlier store r, known by "alias" to be to the same place or perhaps to it.
OverStore(j, ins, r, alias) ==
  IF alias = "may" THEN Emit(j, ins)
  ELSE IF j.ir[r].op2 = ins.op2 THEN Drop(j)
  ELSE IF InBetween(j, r, ins) THEN Emit(j, ins)
  ELSE Emit([j EXCEPT !.ir[r] = Nop], ins)

\* lj_opt_dse_ahstore, lj_opt_dse_fstore: the youngest store that is to the same
\* place, or may be and is not of the same value.
AliasAt(j, ins, r) == Alias(j, ins.o, IR(j, ins.op1), IR(j, j.ir[r].op1))
Stops(alias, sameValue) == alias = "must" \/ (alias = "may" /\ ~sameValue)
StoreAfter(j, ins, r) == IF r = 0 THEN Emit(j, ins) ELSE OverStore(j, ins, r, AliasAt(j, ins, r))
Eliminate(j, ins) ==
  StoreAfter(j, ins, Youngest({r \in Chain(j, ins.o, ins.op1) :
                            Stops(AliasAt(j, ins, r), j.ir[r].op2 = ins.op2)}))

\* lj_opt_fwd_wasnonnil.
KeyType(j, ref) == IF ref.o = "HREFK" THEN "p32" ELSE IR(j, ref.op2).t

\* A store of nil may be to the place of xr.
MayBeNil(j, loadop, xr, x) ==
  /\ loadop = "ALOAD" \/ KeyType(j, x) = KeyType(j, xr)
  /\ (x.op2 = xr.op2 /\ x.field = xr.field) \/ ~IsK(x.op2) \/ ~IsK(xr.op2)

NonNil(j, r, xref) == r # 0 /\ j.ir[r].op1 = xref /\ j.ir[r].t # "nil"

\* "s" is the last store that says so, "l" the last load.
WasNonNilBy(j, xref, s, l) == NonNil(j, IF s # 0 THEN s ELSE l, xref)
WasNonNil(j, loadop, xref) ==
  WasNonNilBy(j, xref,
    Youngest({r \in Chain(j, StoreOf(loadop), xref) :
                \/ j.ir[r].op1 = xref
                \/ j.ir[r].t = "nil" /\ MayBeNil(j, loadop, IR(j, xref), IR(j, j.ir[r].op1))}),
    Youngest({r \in Chain(j, loadop, xref) : j.ir[r].op1 = xref}))
-------------------------------------------------------------------------------
(* The fold engine.                                                        *)

\* abc_k: one bounds check for all constant keys. r is the last one, or 0.
OneCheck(j, ins, r) ==
  IF r = 0 THEN Emit(j, ins)
  ELSE IF IR(j, ins.op2).v > IR(j, j.ir[r].op2).v THEN Drop([j EXCEPT !.ir[r].op2 = ins.op2])
  ELSE Drop(j)
AbcK(j, ins) ==
  OneCheck(j, ins, Youngest({r \in Chain(j, "ABC", ins.op1) : j.ir[r].op1 = ins.op1 /\ IsK(j.ir[r].op2)}))

FoldCompare(j, ins) ==
  LET a == IR(j, ins.op1)
      b == IR(j, ins.op2)
      ints == a.o = "KINT" /\ b.o = "KINT"
  IN  CASE ins.o \in {"EQ", "NE"} ->
             IF ins.op2 = KNull /\ a.o = "FLOAD" THEN Cse(j, ins)
             ELSE IF ins.op2 = KNull \/ ints THEN CondFold(j, (ins.op1 = ins.op2) # (ins.o = "NE"))
             ELSE IF ins.op1 = ins.op2 THEN CondFold(j, ins.o = "EQ")
             ELSE Cse(j, ins)
        [] ins.o = "ULE" ->
             IF ints THEN CondFold(j, a.v <= b.v)
             ELSE IF ins.op1 = KInt(0) THEN Drop(j) ELSE Cse(j, ins)
        [] ins.o = "ABC" ->
             IF ints THEN CondFold(j, a.v > b.v)
             ELSE IF b.o = "KINT" THEN AbcK(j, ins) ELSE Cse(j, ins)

\* lj_opt_fold.
Fold(j, ins) ==
  CASE ins.o \in {"ALOAD", "HLOAD"} ->
         IF ins.op1 = KNilTV THEN Fwd(j, KNil) ELSE FwdAhload(j, ins)
    [] ins.o = "HREFK" -> FwdHrefk(j, ins)
    [] ins.o = "HREF" -> FwdHref(j, ins)
    [] ins.o = "FLOAD" ->
         IF ins.field = "meta" THEN FwdFload(j, ins)
         ELSE IF ins.field \in {"asize", "hmask"} THEN FwdSize(j, ins)
         ELSE LoadTabAh(j, ins)
    [] ins.o = "CALLL" -> FwdTabLen(j, ins)
    [] ins.o \in {"ASTORE", "HSTORE", "FSTORE"} -> Eliminate(j, ins)
    [] ins.o \in {"EQ", "NE", "ULE", "ABC"} -> FoldCompare(j, ins)
    [] ins.o = "CONV" ->
         IF IR(j, ins.op1).o = "KINT" THEN Fwd(j, KNum(IR(j, ins.op1).v)) ELSE Cse(j, ins)
    [] ins.o \in {"AREF", "FREF", "ADD", "ADDOV"} -> Cse(j, ins)
    [] ins.o \in {"NEWREF", "TNEW", "TDUP"} -> Emit(j, ins)
-------------------------------------------------------------------------------
(* The recorder. "run" is the state of the run that is recorded. The       *)
(* reference of the last instruction is j.ref.                             *)

Guard(j, o, t, op1, op2) == Fold(j, Ins(o, t, TRUE, op1, op2, 0))
Simple(j, o, t, op1, op2) == Fold(j, Ins(o, t, FALSE, op1, op2, 0))
GuardRef(j, o, t, op2) == Guard(j, o, t, j.ref, op2)
SimpleRef(j, o, t, op2) == Simple(j, o, t, j.ref, op2)

Field(j, tab, field) ==
  Fold(j, Ins("FLOAD", IF field = "meta" THEN "tab" ELSE IF field \in {"array", "node"} THEN "p32" ELSE "int",
              FALSE, tab, 0, field))

\* emitir(IRTN(IR_CONV), ..., IRCONV_NUM_INT), for integers.
ToNum(j, r) == IF IR(j, r).t = "int" THEN Simple(j, "CONV", "num", r, 0) ELSE Fwd(j, r)

Into(j, x) == [j EXCEPT !.slot[x] = j.ref]

\* getslot, sload: a variable is loaded when it is first used.
GetSlot(j, x) ==
  LET t == IF x \in {xVar, yVar} THEN "tab" ELSE IF x = sVar THEN "str" ELSE IF x = iVar THEN "int" ELSE "nil"
  IN  IF j.slot[x] # 0 THEN Fwd(j, j.slot[x])
      ELSE Into(Emit(j, Ins("SLOAD", t, TRUE, 0, 0, x)), x)

\* i+1: lj_opt_narrow_arith.
GetNext(j) == GuardRef(GetSlot(j, iVar), "ADDOV", "int", KInt(1))

GetOperand(j, e) ==
  IF e = iNext THEN GetNext(j) ELSE IF e \in Vars THEN GetSlot(j, e)
  ELSE IF e = Nil THEN Fwd(j, KNil) ELSE IF e \in Num THEN Fwd(j, KInt(e)) ELSE Fwd(j, KStr(e))

\* lj_opt_narrow_index: an index does not need the overflow check.
NarrowIndex(j, key) ==
  IF IR(j, key).o = "ADDOV" THEN Simple(j, "ADD", "int", IR(j, key).op1, IR(j, key).op2) ELSE Fwd(j, key)

\* rec_idx_key, the hash part. t is the table and k the key of the recorded run. A
\* constant key is looked for in the node n where it was, if the hash part has the size.
CheckHmask(j, t, tab) == GuardRef(Field(j, tab, "hmask"), "EQ", "int", KInt(H!Hmask(t)))
KeyInNode(j, key, n) == Fold(j, Ins("HREFK", "p32", TRUE, j.ref, key, n))
ConvertedKey(j, t, tab, k) ==
  IF IsK(j.ref) /\ H!FindNode(t, k) # Nil
  THEN KeyInNode(Field(CheckHmask(j, t, tab), tab, "node"), j.ref, H!FindNode(t, k))
  ELSE Simple(j, "HREF", "p32", tab, j.ref)
HashKey(j, t, tab, key, k) ==
  IF H!Hmask(t) = 0 THEN Fwd(CheckHmask(j, t, tab), KNilTV)
  ELSE ConvertedKey(ToNum(j, key), t, tab, k)

\* rec_idx_key, the array part. "index" is the key, narrowed.
InBounds(j, tab, index) == GuardRef(Field(j, tab, "asize"), "ABC", "int", index)
OutOfBounds(j, tab, index) == GuardRef(Field(j, tab, "asize"), "ULE", "int", index)
Element(j, tab, index) == SimpleRef(Field(InBounds(j, tab, index), tab, "array"), "AREF", "p32", index)
RecIdxInt(j, t, tab, key, k) ==
  IF H!InArray(t, k) THEN Element(j, tab, j.ref) ELSE HashKey(OutOfBounds(j, tab, j.ref), t, tab, key, k)

\* rec_idx_key.
RecIdxKey(j, t, tab, key, k) ==
  IF k \in Num THEN RecIdxInt(NarrowIndex(j, key), t, tab, key, k) ELSE HashKey(j, t, tab, key, k)

\* Is the place of the key niltv, that of no key?
Absent(t, k) == ~H!InArray(t, k) /\ H!FindNode(t, k) = Nil

LoadRef(j, v) == Fold(j, Ins(LoadOf(IR(j, j.ref)), TypeOf(v), TRUE, j.ref, 0, 0))

\* lj_record_idx, a load without metamethods: v is what the place j.ref holds.
LoadValue(j, t, k, v) ==
  IF j.ref = KNilTV \/ Absent(t, k) THEN GuardRef(j, "EQ", "p32", KNilTV) ELSE LoadRef(j, v)

ValueAt(j, t, k) == IF j.ref = KNilTV THEN Nil ELSE H!Get(t, k)
OrNil(j, v) == IF v = Nil THEN Fwd(j, KNil) ELSE j
LoadPlace(j, t, k, v) == OrNil(LoadValue(j, t, k, v), v)
RawLoad(j, t, k) == LoadPlace(j, t, k, ValueAt(j, t, k))
RecordRawGet(j, t, tab, key, k) == RawLoad(RecIdxKey(j, t, tab, key, k), t, k)

\* lj_record_mm_lookup: there is no such metamethod.
HasMeta(t) == IF t.meta = Null THEN "EQ" ELSE "NE"
NoMetamethodIn(j, heap, t, mm) ==
  IF t.meta = Null THEN j ELSE RecordRawGet(j, heap[t.meta], j.ref, KStr(mm), mm)
CheckedMeta(j, t) == Fwd(GuardRef(j, HasMeta(t), "tab", KNull), j.ref)
RecordNoMetamethod(j, heap, t, tab, mm) ==
  NoMetamethodIn(CheckedMeta(Field(j, tab, "meta"), t), heap, t, mm)

\* lj_record_idx, a load.
ThenNoIndex(j, heap, t, tab, k) ==
  IF H!Get(t, k) = Nil THEN Fwd(RecordNoMetamethod(j, heap, t, tab, Index), j.ref) ELSE j
RecordGet(j, heap, t, tab, key, k) == ThenNoIndex(RecordRawGet(j, t, tab, key, k), heap, t, tab, k)

\* The place x is or is not that of no key.
CheckPlace(j, x, o) == IF IR(j, x).o = "HREF" THEN Guard(j, o, "p32", x, KNilTV) ELSE j

\* lj_record_idx, a store to a key that has no value.
NewPlace(j, t, tab, k, x) ==
  IF Absent(t, k) \/ x = KNilTV THEN Simple(j, "NEWREF", "p32", tab, j.ref) ELSE Fwd(j, x)
ThenNoNewIndex(j, heap, t, tab, key) == ToNum(RecordNoMetamethod(j, heap, t, tab, NewIndex), key)
RecordAdd(j, heap, t, tab, key, k, x) ==
  NewPlace(ThenNoNewIndex(CheckPlace(j, x, IF Absent(t, k) THEN "EQ" ELSE "NE"), heap, t, tab, key),
           t, tab, k, x)

\* lj_record_idx, a store to a key that has a value.
RecordReplace(j, t, tab, k, x, loadop) ==
  IF WasNonNil(j, loadop, x) THEN j
  ELSE IF t.meta = Null THEN CheckedMeta(Field(CheckPlace(j, x, "NE"), tab, "meta"), t)
  ELSE LoadRef(Fwd(CheckPlace(j, x, "NE"), x), H!Get(t, k))

\* lj_record_idx, a store.
StoreRef(j, place, loadop) == Fold(j, Ins(StoreOf(loadop), IR(j, j.ref).t, FALSE, place, j.ref, 0))
StoreIn(j, val, loadop) == StoreRef(ToNum(j, val), j.ref, loadop)
Place(j, heap, t, tab, key, k, x) ==
  IF x = KNilTV \/ H!Get(t, k) = Nil THEN RecordAdd(j, heap, t, tab, key, k, x)
  ELSE Fwd(RecordReplace(j, t, tab, k, x, LoadOf(IR(j, x))), x)
StoreAt(j, heap, t, tab, key, k, val) ==
  StoreIn(Place(j, heap, t, tab, key, k, j.ref), val, LoadOf(IR(j, j.ref)))
RecordSet(j, heap, t, tab, key, k, val) == StoreAt(RecIdxKey(j, t, tab, key, k), heap, t, tab, key, k, val)

\* recff_setmetatable.
MetaField(j, tab) == Fold(j, Ins("FREF", "p32", FALSE, tab, 0, "meta"))
RecordSetMetatable(j, heap, t, tab, val) ==
  SimpleRef(MetaField(RecordNoMetamethod(j, heap, t, tab, Metatable), tab), "FSTORE", "tab",
            IF val = KNil THEN KNull ELSE val)

\* lj_record_ins: the operands are fetched in this order, the statement's i+1 first.
Fetched(j, f, operand) == [f EXCEPT !.j = j, ![operand] = j.ref]
FetchOperand(f, operand, e) == Fetched(GetOperand(f.j, e), f, operand)
Fetch(j, st) ==
  LET f == [j |-> IF st.key = iNext THEN GetNext(j) ELSE j, val |-> 0, tab |-> 0, key |-> 0]
  IN  FetchOperand(FetchOperand(FetchOperand(f, "val", st.val), "tab", st.tab), "key", st.key)

\* A statement on table t with key k.
Begin(j) == [j EXCEPT !.snap = Append(@, j.slot)]
RecordNew(j, st) ==
  Into(Emit(j, IF st.op = "new" THEN Ins("TNEW", "tab", TRUE, 0, 0, <<st.key, st.val>>)
               ELSE Ins("TDUP", "tab", TRUE, KTemplate, 0, 0)), nVar)
RecordLen(j, st) == Into(SimpleRef(GetOperand(j, st.tab), "CALLL", "int", 0), zVar)
RecordTGet(f, heap, t, k) == Into(RecordGet(f.j, heap, t, f.tab, f.key, k), zVar)
RecordTSet(f, heap, t, k) == RecordSet(f.j, heap, t, f.tab, f.key, k, f.val)
RecordCall(f, heap, t) == RecordSetMetatable(f.j, heap, t, f.tab, f.val)
-------------------------------------------------------------------------------
(* The compiled trace.                                                     *)

KVal(r) == IF r = KNull THEN Null ELSE J.konst[r].v

\* A pointer holds for as long as the parts of its table are not reallocated.
Pointer(t, part, at, gen) == [tab |-> t, part |-> part, at |-> at, gen |-> gen]
NilTV == Pointer(Null, "niltv", 0, 0)

Valid(t, p) ==
  /\ p.part # "niltv" /\ t.gen = p.gen
  /\ IF p.part = "array" THEN p.at < H!Asize(t) ELSE p.at \in DOMAIN t.node
Read(t, p) == IF p.part = "array" THEN t.array[p.at + 1] ELSE t.node[p.at].val

\* The contents of a place: FALSE if it is not one.
ReadAt(e, p) ==
  IF p.part = "niltv" THEN [ok |-> TRUE, val |-> Nil]
  ELSE IF Valid(e.heap[p.tab], p) THEN [ok |-> TRUE, val |-> Read(e.heap[p.tab], p)]
  ELSE [ok |-> FALSE, val |-> Nil]

InsertKey(e, r, tab, new) ==
  [e EXCEPT !.heap[tab] = new.tab, !.vals[r] = Pointer(tab, new.part, new.at, new.tab.gen)]

\* The execution of one instruction with operands a and b. A failing guard leaves the
\* trace at its statement.
Execute(e, r, ins, a, b) ==
  LET yields(v) == [e EXCEPT !.vals[r] = v]
      exit == [e EXCEPT !.exit = ins.at]
      guard(holds) == IF holds THEN e ELSE exit
      bad == [e EXCEPT !.bad = TRUE]
      load(v) == IF ~v.ok THEN bad ELSE IF TypeOf(v.val) = ins.t THEN yields(v.val) ELSE exit
      node(n) == yields(IF n = Nil THEN NilTV ELSE Pointer(a, "node", n, e.heap[a].gen))
      alloc(t) == LET id == NewTables[e.news + 1]
                  IN  [e EXCEPT !.heap = [i \in DOMAIN @ \cup {id} |-> IF i = id THEN t ELSE @[i]],
                                !.news = @ + 1, !.vals[r] = id]
  IN  CASE ins.o = "NOP" -> e
        [] ins.o = "SLOAD" -> yields(e.var[ins.field])
        [] ins.o = "CONV" -> yields(a)
        [] ins.o \in {"ADD", "ADDOV"} -> yields(a + b)
        [] ins.o = "TNEW" -> alloc(Fresh(ins.field[1], ins.field[2]))
        [] ins.o = "TDUP" -> alloc(Template)
        [] ins.o = "FLOAD" ->
             LET t == e.heap[a]
             IN  yields(CASE ins.field = "meta" -> t.meta
                          [] ins.field = "asize" -> H!Asize(t)
                          [] ins.field = "hmask" -> H!Hmask(t)
                          [] ins.field \in {"array", "node"} -> Pointer(a, ins.field, 0, t.gen))
        [] ins.o = "AREF" -> yields([a EXCEPT !.at = b])
        [] ins.o = "HREFK" ->
             LET t == e.heap[a.tab]
             IN  IF t.gen # a.gen \/ ins.field \notin DOMAIN t.node THEN bad
                 ELSE IF t.node[ins.field].key = b THEN yields([a EXCEPT !.at = ins.field])
                 ELSE IF ins.guard THEN exit ELSE bad
        [] ins.o = "HREF" -> node(H!FindNode(e.heap[a], b))
        [] ins.o = "NEWREF" ->
             IF Absent(e.heap[a], b) THEN InsertKey(e, r, a, NewKeyAt(e.heap[a], b)) ELSE bad
        [] ins.o \in {"ALOAD", "HLOAD"} -> load(ReadAt(e, a))
        [] ins.o \in {"ASTORE", "HSTORE"} ->
             IF a.part = "niltv" \/ ~Valid(e.heap[a.tab], a) THEN bad
             ELSE [e EXCEPT !.heap[a.tab] = PutAt(@, a.part, a.at, b)]
        [] ins.o = "FREF" -> yields(a)
        [] ins.o = "FSTORE" -> [e EXCEPT !.heap[a].meta = b]
        [] ins.o = "CALLL" -> yields(H!TabLen(e.heap[a]))
        [] ins.o = "EQ" -> guard(a = b)
        [] ins.o = "NE" -> guard(a # b)
        [] ins.o = "ULE" -> guard(a <= b)
        [] ins.o = "ABC" -> guard(a > b)

Trace(j, run) ==
  LET start == [vals |-> [r \in DOMAIN j.ir |-> Nil], heap |-> run.heap, var |-> run.var,
                news |-> 0, exit |-> 0, bad |-> FALSE]
      val(e, x) == IF x > 0 THEN e.vals[x] ELSE IF x = KNilTV THEN NilTV ELSE KVal(x)
      step(e, r) == IF e.exit # 0 \/ e.bad THEN e
                    ELSE Execute(e, r, j.ir[r], val(e, j.ir[r].op1), val(e, j.ir[r].op2))
  IN  FoldLeft(step, start, [r \in DOMAIN j.ir |-> r])
-------------------------------------------------------------------------------
Init ==
  /\ scene \in DOMAIN Scenes
  /\ actual \in DOMAIN Scenes[scene].runs
  /\ runs = [i \in DOMAIN Scenes[scene].runs |-> <<Scenes[scene].runs[i]>>]
  /\ J = [ir |-> <<>>, konst |-> [r \in -(70 + Len(StrSeq))..0 |-> Constant(r)], ref |-> 0,
          failed |-> "no", slot |-> [x \in Vars |-> 0], snap |-> <<>>]

Now(i) == Last(runs[i])

\* A variable that the program sets is used once it is set.
IsSet(e) == e \in {nVar, zVar} => J.slot[e] # 0

Statements(ops) == {st \in Scenes[scene].statements : st.op \in ops}

After(run, st) ==
  IF run = Left THEN Left
  ELSE Interpret(run, st, Operand(run, st.tab), Operand(run, st.key), Operand(run, st.val))

\* A statement is interpreted in every run, and recorded.
Statement(st, recorded) ==
  /\ J.failed = "no"
  /\ Len(J.snap) < Scenes[scene].length
  /\ IF st.op \in {"new", "dup"} THEN Now(actual).news < Len(NewTables) ELSE IsSet(st.tab)
  /\ IsSet(st.val) /\ IsSet(st.key)
  /\ runs' = [i \in DOMAIN runs |-> Append(runs[i], After(Now(i), st))]
  /\ Last(runs'[actual]) # Left
  /\ J' = recorded
  /\ UNCHANGED <<scene, actual>>

\* The table and the key of a statement.
Heap == Now(actual).heap
Tab(st) == Heap[Operand(Now(actual), st.tab)]
KeyOf(st) == Operand(Now(actual), st.key)

New == \E st \in Statements({"new", "dup"}) : Statement(st, RecordNew(Begin(J), st))
Get == \E st \in Statements({"get"}) : Statement(st, RecordTGet(Fetch(Begin(J), st), Heap, Tab(st), KeyOf(st)))
Length == \E st \in Statements({"len"}) : Statement(st, RecordLen(Begin(J), st))
Set == \E st \in Statements({"set"}) : Statement(st, RecordTSet(Fetch(Begin(J), st), Heap, Tab(st), KeyOf(st)))
SetMetatable ==
  \E st \in Statements({"setmetatable"}) : Statement(st, RecordCall(Fetch(Begin(J), st), Heap, Tab(st)))

Next == New \/ Get \/ Length \/ Set \/ SetMetatable
Spec == Init /\ [][Next]_vars
-------------------------------------------------------------------------------
Content(t) == [k \in Num \cup Str |-> H!Get(t, k)]

SameHeap(a, b) ==
  /\ DOMAIN a = DOMAIN b
  /\ \A i \in DOMAIN a : a[i].meta = b[i].meta /\ Content(a[i]) = Content(b[i])

\* Whatever the run, the trace leaves the heap and the variables as the interpreter has
\* them, at the statement where a guard fails or at the end: which accesses may be to the
\* same place is never guessed wrong, no store goes to freed memory or to the shared
\* nil, no metamethod is passed over.
AgreesAt(e, run, slot) ==
  /\ ~e.bad
  /\ run # Left
  /\ SameHeap(e.heap, run.heap)
  /\ \A x \in Vars : slot[x] # 0 => (IF slot[x] > 0 THEN e.vals[slot[x]] ELSE KVal(slot[x])) = run.var[x]
AgreesWith(e, i) ==
  IF e.exit = 0 THEN AgreesAt(e, Last(runs[i]), J.slot) ELSE AgreesAt(e, runs[i][e.exit], J.snap[e.exit])
Agrees(i) == AgreesWith(Trace(J, runs[i][1]), i)
TraceAgrees == J.failed = "no" => \A i \in DOMAIN runs : Agrees(i)

\* The run that was recorded stays in the trace to its end.
RecordedRunStays == J.failed = "no" /\ Trace(J, runs[actual][1]).exit = 0

\* "lua_assert(ir->o != IR_TNEW || irt_isnil(fins->t))" and the assertion on the type
\* of the template's value (lj_opt_mem.c:182, 193): what is folded to the contents of an
\* allocation was not stored since.
AssertionHolds == J.failed # "assertion"
===============================================================================
