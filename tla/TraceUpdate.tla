----------------------------- MODULE TraceUpdate -----------------------------
(***************************************************************************)
(* traceUpdate as one step: the traces that an execution of the program    *)
(* can leave. RandomWalk takes the same operations one call at a time; a   *)
(* kernel that only looks at traces between executions uses this.          *)
(***************************************************************************)
EXTENDS ExecutionTrace

CONSTANT CallBound   \* no execution makes more calls, its return included

ASSUME CallBoundAssumption ==
  /\ CallBound \in Nat
  /\ \A p \in Prog : \A h \in Histories(p) : Len(h) <= CallBound

\* What a call does to the trace and what it returns to the program.
Lookups(tr, call) ==
  LET name == CurrentName(call, tr.loopcounters)
  IN  CASE VarIsInFlatList(tr) ->
             LET next == ReuseListed(tr, call)
             IN  {[trace |-> next, val |-> ListRecord(next, tr.currVarIndex).val]}
        [] ~VarIsInFlatList(tr) /\ Matches(tr, name, call) ->
             LET next == ReuseNamed(tr, call)
             IN  {[trace |-> next, val |-> GetRecord(next, name).val]}
        [] OTHER ->
             {[trace |-> Create(tr, call, val), val |-> val] : val \in InitialValues(call)}

CallResults(tr, call) ==
  CASE call.op = "erp"       -> Lookups(tr, call)
    [] call.op = "factor"    -> {[trace |-> AddFactor(tr, call.num), val |-> None]}
    [] call.op = "condition" -> {[trace |-> ConditionOn(tr, call.holds), val |-> None]}
    [] call.op = "nested"    -> {[trace |-> tr, val |-> val] : val \in call.outcomes}
    [] OTHER                 -> {}

\* The trace and the history after n calls, for every way the draws can fall;
\* an execution ends where the next call is the return.
TraceUpdates(p, tr, structureIsFixed) ==
  LET after[n \in 0..CallBound] ==
        IF n = 0 THEN {[trace |-> BeginUpdate(tr, structureIsFixed), hist |-> <<>>]}
        ELSE UNION {{[trace |-> r.trace, hist |-> Append(e.hist, r.val)] :
                       r \in CallResults(e.trace, Computation(p, e.hist))} : e \in after[n - 1]}
      ended == {e \in UNION {after[n] : n \in 0..CallBound} : Computation(p, e.hist).op = "return"}
  IN  {EndUpdate(e.trace, Computation(p, e.hist).val) : e \in ended}
===============================================================================
