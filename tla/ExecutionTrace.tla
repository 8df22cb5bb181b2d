---------------------------- MODULE ExecutionTrace ----------------------------
(***************************************************************************)
(* RandomExecutionTrace (probabilistic/trace.lua): the database of random  *)
(* choices made by one execution of a probabilistic program.               *)
(*                                                                         *)
(* A trace holds its variable records twice: vars maps structural names to *)
(* records, varlist lists the records in the order the execution met them. *)
(* Both hold references to the same Lua tables and may come apart, so the  *)
(* model keeps the records in a heap of their own, recs, and has vars and  *)
(* varlist hold indices into it.                                           *)
(*                                                                         *)
(* The program being traced is a function of what its calls have returned  *)
(* so far: Computation(p, h) is the call that program p makes next when    *)
(* its earlier calls returned the values of h.                             *)
(***************************************************************************)
EXTENDS LogProb, Sequences, Folds

CONSTANTS
  Prog,       \* the probabilistic programs
  Erp,        \* the random primitives (instances of RandomPrimitive)
  Params,     \* their parameter tables
  Value,      \* the values they return and the programs compute
  Site,       \* a stack frame's <fnprotoid, bytecodepos>
  None,       \* nil
  Computation(_, _),
  Histories(_),  \* the sequences of results that a program's calls can have
  SampleImpl(_, _),             \* the values erp:sample_impl(params) may return
  Proposal(_, _, _),            \* those erp:proposal(currval, params) may return
  ErpLogprob(_, _, _),          \* erp:logprob(val, params)
  LogProposalProb(_, _, _, _),  \* erp:logProposalProb(currval, propval, params)
  Log(_)                        \* math.log of a count

\* The calls a program can make: to a random primitive, from the stack of
\* frames below the trace's root frame; to factor and condition; to a nested
\* query, which returns one of several outcomes and leaves this trace alone;
\* and its return.
ErpCalls ==
  [op : {"erp"}, stack : Seq(Site) \ {<<>>}, erp : Erp, params : Params,
   structural : BOOLEAN \cup {None}, conditionedValue : Value \cup {None}]
Calls ==
  ErpCalls \cup [op : {"factor"}, num : LP] \cup [op : {"condition"}, holds : BOOLEAN]
           \cup [op : {"nested"}, outcomes : SUBSET Value] \cup [op : {"return"}, val : Value]

\* What a call can return: a random primitive, any value its variable has.
Results(call) ==
  CASE call.op = "erp"                     -> Value
    [] call.op \in {"factor", "condition"} -> {None}
    [] call.op = "nested"                  -> call.outcomes
    [] OTHER                               -> {}

ASSUME NoneAssumption == None \notin Value
ASSUME ComputationAssumption ==
  \A p \in Prog :
    /\ <<>> \in Histories(p) /\ Histories(p) \subseteq Seq(Value \cup {None})
    /\ \A h \in Histories(p) :
         /\ Computation(p, h) \in Calls
         /\ \A v \in Results(Computation(p, h)) : Append(h, v) \in Histories(p)
ASSUME ErpAssumption ==
  \A e \in Erp : \A p \in Params :
    /\ SampleImpl(e, p) \subseteq Value
    /\ \A v \in Value : /\ Proposal(e, v, p) \subseteq Value
                        /\ ErpLogprob(e, v, p) \in LP
                        /\ \A w \in Value : LogProposalProb(e, v, w, p) \in LP
-------------------------------------------------------------------------------
(* Records. *)

NewRecord(name, erp, params, val, logprob, structural, conditioned) ==
  [name |-> name, erp |-> erp, params |-> params, val |-> val, logprob |-> logprob,
   active |-> TRUE, structural |-> structural, conditioned |-> conditioned]

\* RandomVariableRecord:copy; a new record is active.
CopyRecord(rec) == [rec EXCEPT !.active = TRUE]

(* Traces. *)

EmptyTrace ==
  [recs |-> <<>>, vars |-> <<>>, varlist |-> <<>>, currVarIndex |-> 1,
   logprob |-> 0, newlogprob |-> 0, oldlogprob |-> 0, loopcounters |-> <<>>,
   conditionsSatisfied |-> FALSE, returnValue |-> None]

Listed(tr) == {tr.varlist[i] : i \in DOMAIN tr.varlist}
Stored(tr) == {tr.vars[n] : n \in DOMAIN tr.vars}

\* The record at position i of the flat list, and the one stored under a name
\* (getRecord).
ListRecord(tr, i) == tr.recs[tr.varlist[i]]
GetRecord(tr, name) == tr.recs[tr.vars[name]]

\* The copy is made from the flat list: each entry is copied, and stored under
\* its name, a later entry replacing an earlier one of the same name.
LastPosition(tr, name) ==
  CHOOSE i \in DOMAIN tr.varlist :
    /\ ListRecord(tr, i).name = name
    /\ \A j \in DOMAIN tr.varlist : ListRecord(tr, j).name = name => j <= i

DeepCopy(tr) ==
  [EmptyTrace EXCEPT
     !.logprob = tr.logprob, !.newlogprob = tr.newlogprob, !.oldlogprob = tr.oldlogprob,
     !.conditionsSatisfied = tr.conditionsSatisfied, !.returnValue = tr.returnValue,
     !.recs = [i \in DOMAIN tr.varlist |-> CopyRecord(ListRecord(tr, i))],
     !.varlist = [i \in DOMAIN tr.varlist |-> i],
     !.vars = [n \in {ListRecord(tr, i).name : i \in DOMAIN tr.varlist} |-> LastPosition(tr, n)]]

\* Mutant: the two kinds of variables confused.
FreeVarNamesConfused(tr, structural, nonstructural) ==
  {n \in DOMAIN tr.vars :
     /\ ~GetRecord(tr, n).conditioned
     /\ IF GetRecord(tr, n).structural = TRUE THEN nonstructural ELSE structural}

FreeVarNames(tr, structural, nonstructural) ==
  {n \in DOMAIN tr.vars :
     /\ ~GetRecord(tr, n).conditioned
     /\ IF GetRecord(tr, n).structural = TRUE THEN structural ELSE nonstructural}

\* Names that one trace has and another has not, and their log probability.
VarDiff(tr, other) == DOMAIN tr.vars \ DOMAIN other.vars
SumLogprobs(tr, names) ==
  MapThenFoldSet(Plus, 0, LAMBDA n : GetRecord(tr, n).logprob,
                 LAMBDA S : CHOOSE n \in S : TRUE, names)
LpDiff(tr, other) == SumLogprobs(tr, VarDiff(tr, other))

\* proposeChange gives a variable of the copy its new value.
SetVar(tr, name, val) ==
  LET rec == GetRecord(tr, name)
  IN  [tr EXCEPT !.recs[tr.vars[name]] =
         [rec EXCEPT !.val = val, !.logprob = ErpLogprob(rec.erp, val, rec.params)]]

\* util.cleartable(vars), before an update that clears varlist too: no record
\* remains reachable.
ClearVars(tr) == [tr EXCEPT !.vars = <<>>, !.varlist = <<>>, !.recs = <<>>]
-------------------------------------------------------------------------------
(* traceUpdate, up to the call of the computation and after its return.    *)

\* Mutant: the position in the flat list is not reset.
BeginUpdateInPlace(tr, structureIsFixed) ==
  [tr EXCEPT
     !.logprob = 0, !.newlogprob = 0, !.loopcounters = <<>>, !.conditionsSatisfied = TRUE,
     !.varlist = IF structureIsFixed THEN tr.varlist ELSE <<>>,
     !.recs = [id \in DOMAIN tr.recs |->
                 IF id \in Stored(tr) THEN [tr.recs[id] EXCEPT !.active = FALSE]
                                      ELSE tr.recs[id]]]

BeginUpdate(tr, structureIsFixed) ==
  [tr EXCEPT
     !.logprob = 0, !.newlogprob = 0, !.loopcounters = <<>>,
     !.conditionsSatisfied = TRUE, !.currVarIndex = 1,
     !.varlist = IF structureIsFixed THEN tr.varlist ELSE <<>>,
     !.recs = [id \in DOMAIN tr.recs |->
                 IF id \in Stored(tr) THEN [tr.recs[id] EXCEPT !.active = FALSE]
                                      ELSE tr.recs[id]]]

ActiveNames(tr) == {n \in DOMAIN tr.vars : GetRecord(tr, n).active}

\* Mutant: unreached variables are counted but stay.
EndUpdateKeeping(tr, val) ==
  [tr EXCEPT
     !.returnValue = val, !.loopcounters = <<>>,
     !.oldlogprob = SumLogprobs(tr, DOMAIN tr.vars \ ActiveNames(tr))]

\* The variables that this execution did not reach leave vars (not varlist).
EndUpdate(tr, val) ==
  [tr EXCEPT
     !.returnValue = val, !.loopcounters = <<>>,
     !.oldlogprob = SumLogprobs(tr, DOMAIN tr.vars \ ActiveNames(tr)),
     !.vars = [n \in ActiveNames(tr) |-> tr.vars[n]]]
-------------------------------------------------------------------------------
(* Structural names: the frames from the root to the caller, each with the *)
(* number of times this execution has completed a lookup at that position. *)

Count(counters, key) == IF key \in DOMAIN counters THEN counters[key] ELSE 0

\* The name of the frames below the topmost one; their counters are read only.
OuterName(stack, counters) ==
  LET prefix[i \in 0..Len(stack) - 1] ==
        IF i = 0 THEN <<>>
        ELSE LET key == <<prefix[i - 1], stack[i]>>
             IN  Append(prefix[i - 1], <<stack[i], Count(counters, key)>>)
  IN  prefix[Len(stack) - 1]

\* What the counter of the topmost frame is kept under.
CounterKey(call, counters) == <<OuterName(call.stack, counters), call.stack[Len(call.stack)]>>

CurrentName(call, counters) ==
  LET key == CounterKey(call, counters) IN <<key, Count(counters, key)>>

\* currentName increments the counter of the topmost frame.
Bump(counters, key) ==
  [k \in DOMAIN counters \cup {key} |->
     IF k = key THEN Count(counters, key) + 1 ELSE counters[k]]
-------------------------------------------------------------------------------
(* lookup. *)

IsConditioned(call) == call.conditionedValue # None

VarIsInFlatList(tr) == tr.currVarIndex <= Len(tr.varlist)

\* A stored record that the name lookup of this call accepts.
Matches(tr, name, call) ==
  /\ name \in DOMAIN tr.vars
  /\ GetRecord(tr, name).erp = call.erp
  /\ GetRecord(tr, name).structural = call.structural

\* The values a new variable can get.
InitialValues(call) ==
  IF IsConditioned(call) THEN {call.conditionedValue} ELSE SampleImpl(call.erp, call.params)

\* Mutant: the log probability is recomputed for a new value only.
RefreshValue(rec, call) ==
  LET val == IF IsConditioned(call) THEN call.conditionedValue ELSE rec.val
  IN  [rec EXCEPT !.params = call.params, !.val = val, !.active = TRUE,
                  !.conditioned = IsConditioned(call),
                  !.logprob = IF val # rec.val THEN ErpLogprob(call.erp, val, call.params)
                                               ELSE rec.logprob]

\* What reuse does to a record: parameters and conditioned value are brought
\* up to date, and the cached log probability when either has changed.
Refresh(rec, call) ==
  LET val == IF IsConditioned(call) THEN call.conditionedValue ELSE rec.val
      hasChanges == rec.params # call.params \/ val # rec.val
  IN  [rec EXCEPT !.params = call.params, !.val = val, !.active = TRUE,
                  !.conditioned = IsConditioned(call),
                  !.logprob = IF hasChanges THEN ErpLogprob(call.erp, val, call.params)
                                            ELSE rec.logprob]

\* The record at the current position of the flat list, whatever its name.
ReuseListed(tr, call) ==
  LET id == tr.varlist[tr.currVarIndex]
      rec == Refresh(tr.recs[id], call)
  IN  [tr EXCEPT !.recs[id] = rec, !.currVarIndex = @ + 1,
                 !.logprob = Plus(@, rec.logprob)]

\* The record found under the current name.
ReuseNamed(tr, call) ==
  LET name == CurrentName(call, tr.loopcounters)
      id == tr.vars[name]
      rec == Refresh(tr.recs[id], call)
  IN  [tr EXCEPT !.loopcounters = Bump(@, name[1]), !.recs[id] = rec,
                 !.varlist = Append(@, id), !.currVarIndex = @ + 1,
                 !.logprob = Plus(@, rec.logprob)]

\* Mutant: only the last new variable is counted in newlogprob.
CreateLast(tr, call, val) ==
  LET name == CurrentName(call, tr.loopcounters)
      ll == ErpLogprob(call.erp, val, call.params)
      rec == NewRecord(name, call.erp, call.params, val, ll, call.structural, IsConditioned(call))
      id == Len(tr.recs) + 1
  IN  [tr EXCEPT !.loopcounters = Bump(@, name[1]), !.recs = Append(@, rec),
                 !.vars = [n \in DOMAIN tr.vars \cup {name} |->
                             IF n = name THEN id ELSE tr.vars[n]],
                 !.varlist = Append(@, id), !.currVarIndex = @ + 1,
                 !.newlogprob = ll, !.logprob = Plus(@, ll)]

\* A new record, which replaces one of the same name that does not match.
Create(tr, call, val) ==
  LET name == CurrentName(call, tr.loopcounters)
      ll == ErpLogprob(call.erp, val, call.params)
      rec == NewRecord(name, call.erp, call.params, val, ll, call.structural, IsConditioned(call))
      id == Len(tr.recs) + 1
  IN  [tr EXCEPT !.loopcounters = Bump(@, name[1]), !.recs = Append(@, rec),
                 !.vars = [n \in DOMAIN tr.vars \cup {name} |->
                             IF n = name THEN id ELSE tr.vars[n]],
                 !.varlist = Append(@, id), !.currVarIndex = @ + 1,
                 !.newlogprob = Plus(@, ll), !.logprob = Plus(@, ll)]

AddFactor(tr, num) == [tr EXCEPT !.logprob = Plus(@, num)]
ConditionOn(tr, holds) == [tr EXCEPT !.conditionsSatisfied = @ /\ holds]
-------------------------------------------------------------------------------
(* Types. Structural names and the keys of loop counters are not typed.    *)

HasFields(r, fields) == DOMAIN r = fields /\ r = [f \in fields |-> r[f]]
IsSequence(s) == s \in Seq({s[k] : k \in DOMAIN s})

RecordFields == {"name", "erp", "params", "val", "logprob", "active", "structural", "conditioned"}

RecordOK(rec) ==
  /\ HasFields(rec, RecordFields)
  /\ rec.erp \in Erp
  /\ rec.params \in Params
  /\ rec.val \in Value
  /\ rec.logprob \in LP
  /\ rec.active \in BOOLEAN
  /\ rec.structural \in BOOLEAN \cup {None}
  /\ rec.conditioned \in BOOLEAN

TraceFields ==
  {"recs", "vars", "varlist", "currVarIndex", "logprob", "newlogprob", "oldlogprob",
   "loopcounters", "conditionsSatisfied", "returnValue"}

TraceOK(tr) ==
  /\ HasFields(tr, TraceFields)
  /\ IsSequence(tr.recs)
  /\ \A id \in DOMAIN tr.recs : RecordOK(tr.recs[id])
  /\ tr.vars \in [DOMAIN tr.vars -> DOMAIN tr.recs]
  /\ tr.varlist \in Seq(DOMAIN tr.recs)
  /\ tr.currVarIndex \in 1..Len(tr.varlist) + 1
  /\ tr.loopcounters \in [DOMAIN tr.loopcounters -> Nat]
  /\ {tr.logprob, tr.newlogprob} \subseteq LP
  /\ tr.conditionsSatisfied \in BOOLEAN
  /\ tr.returnValue \in Value \cup {None}

\* The flat list and the database of a trace that is not being updated hold the
\* same records, each listed once and stored under its own name: what
\* trace.lua:150-157 clears out of one is not left in the other.
FlatListIsDatabase(tr) ==
  /\ Listed(tr) = Stored(tr)
  /\ \A j, k \in DOMAIN tr.varlist : tr.varlist[j] = tr.varlist[k] => j = k
  /\ \A n \in DOMAIN tr.vars : GetRecord(tr, n).name = n
===============================================================================
