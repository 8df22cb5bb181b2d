--------------------------- MODULE ProgramExecutions ---------------------------
(***************************************************************************)
(* The executions of a program, call by call and with neither flat list    *)
(* nor record nor cached log probability: what the traces of               *)
(* ExecutionTrace are compared with.                                       *)
(***************************************************************************)
EXTENDS ExecutionTrace

\* An execution: the choices in the order they are made, the log probability of
\* the execution (logprob), that of the values it drew because an assignment had
\* none for them (drawn), whether its conditions hold, and what it returns.
NoChoices == <<>>
NoExecution == <<>>
Start == [hist |-> <<>>, counters |-> <<>>, choices |-> NoChoices, order |-> <<>>,
          logprob |-> 0, drawn |-> 0, holds |-> TRUE, returns |-> None]

Usable(A, name, call) ==
  name \in DOMAIN A /\ A[name].erp = call.erp /\ A[name].structural = call.structural

Choose(e, call, val, isDrawn) ==
  LET name == CurrentName(call, e.counters)
      lp == ErpLogprob(call.erp, val, call.params)
      choice == [erp |-> call.erp, params |-> call.params, val |-> val,
                 structural |-> call.structural, conditioned |-> IsConditioned(call)]
  IN  [e EXCEPT !.hist = Append(@, val), !.counters = Bump(@, name[1]),
                !.choices = [n \in DOMAIN @ \cup {name} |-> IF n = name THEN choice ELSE @[n]],
                !.order = Append(@, name), !.logprob = Plus(@, lp),
                !.drawn = IF isDrawn THEN Plus(@, lp) ELSE @]

\* How an execution of program p whose choices agree with the assignment A where
\* they can goes on from e, by one call.
Continuations(p, A, e) ==
  LET call == Computation(p, e.hist)
      name == CurrentName(call, e.counters)
      silent == [e EXCEPT !.hist = Append(@, None)]
      vals == CASE IsConditioned(call)      -> {call.conditionedValue}
                [] ~IsConditioned(call) /\ Usable(A, name, call) -> {A[name].val}
                [] OTHER -> SampleImpl(call.erp, call.params)
      isDrawn == ~IsConditioned(call) /\ ~Usable(A, name, call)
  IN  CASE call.op = "factor"    -> {[silent EXCEPT !.logprob = Plus(@, call.num)]}
        [] call.op = "condition" -> {[silent EXCEPT !.holds = @ /\ call.holds]}
        [] call.op = "nested"    -> {[e EXCEPT !.hist = Append(@, val)] : val \in call.outcomes}
        [] call.op = "erp"       -> {Choose(e, call, val, isDrawn) : val \in vals}
        [] OTHER                 -> {}

\* The executions after n calls.
After(p, A) ==
  LET after[n \in Nat] ==
        IF n = 0 THEN {Start} ELSE UNION {Continuations(p, A, e) : e \in after[n - 1]}
  IN  after

\* The executions from their beginning to the program's return.
Lengths == [p \in Prog |-> {Len(h) : h \in Histories(p)}]
ExecutionsFrom(p, A) ==
  {[e EXCEPT !.returns = Computation(p, e.hist).val] :
     e \in {e \in UNION {After(p, A)[n] : n \in Lengths[p]} : Computation(p, e.hist).op = "return"}}

With(A, name, val) == [A EXCEPT ![name].val = val]

\* The log probability of moving from the choices A to the choices B of
\* program p by changing the variable name: that of the proposed value and of
\* the values drawn in executing the program again. There is no such move when
\* no execution gets from A to B.
MoveLP(p, A, B, name) ==
  LET c == A[name]
      moves == {e \in ExecutionsFrom(p, With(A, name, B[name].val)) : e.choices = B}
  IN  IF moves = {} THEN NegInf
      ELSE Plus(LogProposalProb(c.erp, c.val, B[name].val, c.params),
                (CHOOSE e \in moves : TRUE).drawn)

-------------------------------------------------------------------------------
(* Traces, seen as executions. *)

\* The choices that a trace has on record.
ChoiceOf(rec) ==
  [erp |-> rec.erp, params |-> rec.params, val |-> rec.val,
   structural |-> rec.structural, conditioned |-> rec.conditioned]
ChoicesOf(tr) == [n \in DOMAIN tr.vars |-> ChoiceOf(GetRecord(tr, n))]

\* A trace is what executing p from nothing but its choices gives: the same
\* variables, all of them and no others, listed in the order the execution
\* meets them, the same log probability, conditions and result.
IsExecution(p, tr) ==
  \E e \in ExecutionsFrom(p, ChoicesOf(tr)) :
    /\ e.choices = ChoicesOf(tr)
    /\ e.order = [k \in DOMAIN tr.varlist |-> ListRecord(tr, k).name]
    /\ e.logprob = tr.logprob
    /\ e.holds = tr.conditionsSatisfied
    /\ e.returns = tr.returnValue
-------------------------------------------------------------------------------
(* The structure of a program: which random choices it makes, in what      *)
(* order.                                                                  *)

\* An outline of an execution under way: the choices it has made, each with its
\* value if that may change the structure, the value of a structural choice that
\* is not observed. The other choices have any value whatever.
NoOutline == [hist |-> <<>>, counters |-> <<>>, made |-> <<>>]

\* The choice that this call makes.
Shape(call, counters) ==
  [name |-> CurrentName(call, counters), erp |-> call.erp, structural |-> call.structural,
   conditioned |-> IsConditioned(call)]
IsFree(structural, conditioned) == structural = TRUE /\ ~conditioned
Made(call, counters, val) ==
  [shape |-> Shape(call, counters),
   val |-> IF IsFree(call.structural, IsConditioned(call)) THEN val ELSE None]

Outlined(p, o) ==
  LET call == Computation(p, o.hist)
  IN  IF call.op = "erp"
      THEN {[hist |-> Append(o.hist, val),
             counters |-> Bump(o.counters, CounterKey(call, o.counters)),
             made |-> Append(o.made, Made(call, o.counters, val))] :
              val \in IF IsConditioned(call) THEN {call.conditionedValue} ELSE Value}
      ELSE {[o EXCEPT !.hist = Append(@, val)] : val \in Results(call)}

Outlines(p) ==
  LET after[n \in Nat] ==
        IF n = 0 THEN {NoOutline} ELSE UNION {Outlined(p, o) : o \in after[n - 1]}
  IN  after

\* The choice that comes next, none before the return.
Comes(p, o) ==
  LET call == Computation(p, o.hist)
  IN  IF call.op = "erp" THEN {Shape(call, o.counters)} ELSE {}
Turns(p) ==
  {[made |-> o.made, next |-> Comes(p, o)] :
     o \in {o \in UNION {Outlines(p)[n] : n \in Lengths[p]} :
             Computation(p, o.hist).op \in {"erp", "return"}}}

\* The structure changes with the structural choices only: while these have the
\* same values, the same choices are made. (An update with structureIsFixed
\* relies on it, trace.lua:224-226.)
KeepsStructure(p) == \A s, t \in Turns(p) : s.made = t.made => s.next = t.next

\* A name always stands for the same primitive, marked in the same way.
MarksChoices(p) ==
  \A s, t \in Turns(p) : \A c \in s.next, d \in t.next :
    c.name = d.name => c.erp = d.erp /\ c.structural = d.structural
===============================================================================
