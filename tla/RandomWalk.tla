------------------------------ MODULE RandomWalk ------------------------------
(***************************************************************************)
(* mcmc (probabilistic/inference.lua) with a RandomWalkKernel: a chain of  *)
(* execution traces, each obtained from the one before it by a proposal to *)
(* change one random variable, which re-executes the program and is then   *)
(* accepted or rejected. A program is run with one of two kernels: that of *)
(* traceMH changes any variable, the diffusion kernel of LARJMH does not   *)
(* change structural ones and re-executes with structureIsFixed.           *)
(*                                                                         *)
(* A step of the model is one call that the executing program makes, or    *)
(* the work of the kernel between two executions.                          *)
(***************************************************************************)
EXTENDS ExecutionTrace, FiniteSets

CONSTANTS
  Structural,     \* the programs whose kernel changes structural variables
  Nonstructural,  \* whether the kernels change the others
  NumSamps, Lag   \* mcmc's numsamps and lag

ASSUME KernelAssumption ==
  /\ Structural \subseteq Prog /\ Nonstructural \in BOOLEAN
  /\ NumSamps \in Nat /\ Lag \in Nat \ {0}

VARIABLES
  prog,   \* the program sampled from
  curr,   \* currentTrace
  work,   \* the trace being updated: curr in a rerun, nextTrace in a proposal
  hist,   \* what the calls of the running execution have returned
  pc,     \* where the chain is
  prop,   \* the proposal under way: its variable and proposal probabilities
  i,      \* mcmc's iteration
  samps,  \* the samples taken
  stats   \* the kernel's proposalsMade and proposalsAccepted

vars == <<prog, curr, work, hist, pc, prop, i, samps, stats>>

StructureIsFixed == prog \notin Structural

\* pc while an execution runs, by who asked for it, and between executions.
Running == {"initialising", "rerunning", "proposing"}
Steps == Running \cup {"rejecting", "iterating", "deciding", "done"}

FreeNames(tr) == FreeVarNames(tr, ~StructureIsFixed, Nonstructural)

Init ==
  /\ prog \in Prog
  /\ curr = EmptyTrace /\ work = EmptyTrace
  /\ hist = <<>>
  /\ pc = "rejecting"
  /\ prop = None
  /\ i = 1
  /\ samps = <<>>
  /\ stats = [made |-> 0, accepted |-> 0]
-------------------------------------------------------------------------------
(* One execution of the program, inside traceUpdate.                       *)

Call == Computation(prog, hist)

\* The program's next call is a random primitive; its variable is looked up
\* and its value returned to the program.
Lookup(tr, val) ==
  /\ pc \in Running
  /\ Call.op = "erp"
  /\ work' = tr
  /\ hist' = Append(hist, val)
  /\ UNCHANGED <<prog, curr, pc, prop, i, samps, stats>>

LookupListed ==
  LET tr == ReuseListed(work, Call)
  IN  /\ VarIsInFlatList(work)
      /\ Lookup(tr, ListRecord(tr, work.currVarIndex).val)

LookupNamed ==
  LET name == CurrentName(Call, work.loopcounters)
      tr == ReuseNamed(work, Call)
  IN  /\ ~VarIsInFlatList(work)
      /\ Call.op = "erp" /\ Matches(work, name, Call)
      /\ Lookup(tr, GetRecord(tr, name).val)

LookupNew ==
  /\ ~VarIsInFlatList(work)
  /\ Call.op = "erp" /\ ~Matches(work, CurrentName(Call, work.loopcounters), Call)
  /\ \E val \in InitialValues(Call) : Lookup(Create(work, Call, val), val)

CallFactor ==
  /\ pc \in Running
  /\ Call.op = "factor"
  /\ work' = AddFactor(work, Call.num)
  /\ hist' = Append(hist, None)
  /\ UNCHANGED <<prog, curr, pc, prop, i, samps, stats>>

CallCondition ==
  /\ pc \in Running
  /\ Call.op = "condition"
  /\ work' = ConditionOn(work, Call.holds)
  /\ hist' = Append(hist, None)
  /\ UNCHANGED <<prog, curr, pc, prop, i, samps, stats>>

\* A nested query runs under a trace of its own.
CallNested ==
  /\ pc \in Running
  /\ Call.op = "nested"
  /\ \E val \in Call.outcomes : hist' = Append(hist, val)
  /\ UNCHANGED <<prog, curr, work, pc, prop, i, samps, stats>>
-------------------------------------------------------------------------------
(* newTrace: executions are repeated until one satisfies its conditions.   *)

\* Mutant: an attempt starts from the variables of the one before it.
AttemptAgain ==
  /\ pc = "rejecting"
  /\ ~work.conditionsSatisfied
  /\ work' = BeginUpdate(work, FALSE)
  /\ hist' = <<>>
  /\ pc' = "initialising"
  /\ UNCHANGED <<prog, curr, prop, i, samps, stats>>

Attempt ==
  /\ pc = "rejecting"
  /\ ~work.conditionsSatisfied
  /\ work' = BeginUpdate(ClearVars(work), FALSE)
  /\ hist' = <<>>
  /\ pc' = "initialising"
  /\ UNCHANGED <<prog, curr, prop, i, samps, stats>>

EndAttempt ==
  /\ pc = "initialising"
  /\ Call.op = "return"
  /\ work' = EndUpdate(work, Call.val)
  /\ hist' = <<>>
  /\ pc' = "rejecting"
  /\ UNCHANGED <<prog, curr, prop, i, samps, stats>>

Initialised ==
  /\ pc = "rejecting"
  /\ work.conditionsSatisfied
  /\ curr' = work
  /\ work' = EmptyTrace
  /\ pc' = "iterating"
  /\ UNCHANGED <<prog, hist, prop, i, samps, stats>>
-------------------------------------------------------------------------------
(* RandomWalkKernel:next, and the iteration of mcmc around it.             *)

Iterating == pc = "iterating" /\ i <= NumSamps * Lag

\* With no free variable the current trace itself is updated.
Rerun ==
  /\ Iterating
  /\ FreeNames(curr) = {}
  /\ work' = BeginUpdate(curr, StructureIsFixed)
  /\ hist' = <<>>
  /\ stats' = [stats EXCEPT !.made = @ + 1]
  /\ pc' = "rerunning"
  /\ UNCHANGED <<prog, curr, prop, i, samps>>

\* proposeChange, up to the update of the copy.
Propose ==
  /\ Iterating
  /\ \E name \in FreeNames(curr) :
       LET next == DeepCopy(curr)
           var == GetRecord(next, name)
       IN  \E val \in Proposal(var.erp, var.val, var.params) :
             /\ work' = BeginUpdate(SetVar(next, name, val), StructureIsFixed)
             /\ prop' = [name |-> name,
                         fwd |-> LogProposalProb(var.erp, var.val, val, var.params),
                         rvs |-> LogProposalProb(var.erp, val, var.val, var.params)]
  /\ hist' = <<>>
  /\ stats' = [stats EXCEPT !.made = @ + 1]
  /\ pc' = "proposing"
  /\ UNCHANGED <<prog, curr, i, samps>>

\* proposeChange after the update.
EndProposal ==
  /\ pc = "proposing"
  /\ Call.op = "return"
  /\ LET tr == EndUpdate(work, Call.val)
     IN  /\ work' = tr
         /\ prop' = [prop EXCEPT !.fwd = Plus(@, tr.newlogprob), !.rvs = Plus(@, tr.oldlogprob)]
  /\ hist' = <<>>
  /\ pc' = "deciding"
  /\ UNCHANGED <<prog, curr, i, samps, stats>>

\* Mutant: the sample is taken before the kernel's step.
NextReturnsLate(tr) ==
  /\ curr' = tr
  /\ work' = EmptyTrace
  /\ prop' = None
  /\ samps' = IF i % Lag = 0
              THEN Append(samps, [sample |-> curr.returnValue, logprob |-> curr.logprob])
              ELSE samps
  /\ i' = i + 1
  /\ pc' = "iterating"

\* next returns tr; mcmc takes a sample of it every Lag iterations.
NextReturns(tr) ==
  /\ curr' = tr
  /\ work' = EmptyTrace
  /\ prop' = None
  /\ samps' = IF i % Lag = 0
              THEN Append(samps, [sample |-> tr.returnValue, logprob |-> tr.logprob])
              ELSE samps
  /\ i' = i + 1
  /\ pc' = "iterating"

EndRerun ==
  /\ pc = "rerunning"
  /\ Call.op = "return"
  /\ NextReturns(EndUpdate(work, Call.val))
  /\ hist' = <<>>
  /\ UNCHANGED <<prog, stats>>

AcceptThresh ==
  LET fwd == Minus(prop.fwd, Log(Cardinality(FreeNames(curr))))
      rvs == Minus(prop.rvs, Log(Cardinality(FreeNames(work))))
  IN  Minus(Plus(Minus(work.logprob, curr.logprob), rvs), fwd)

\* Mutant: the conditions are not consulted.
AcceptAnyway ==
  /\ pc = "deciding"
  /\ LogRandomBelow(AcceptThresh)
  /\ stats' = [stats EXCEPT !.accepted = @ + 1]
  /\ NextReturns(work)
  /\ UNCHANGED <<prog, hist>>

Accept ==
  /\ pc = "deciding"
  /\ work.conditionsSatisfied
  /\ LogRandomBelow(AcceptThresh)
  /\ stats' = [stats EXCEPT !.accepted = @ + 1]
  /\ NextReturns(work)
  /\ UNCHANGED <<prog, hist>>

Reject ==
  /\ pc = "deciding"
  /\ \/ ~work.conditionsSatisfied
     \/ LogRandomNotBelow(AcceptThresh)
  /\ NextReturns(curr)
  /\ UNCHANGED <<prog, hist, stats>>

Finish ==
  /\ pc = "iterating"
  /\ i > NumSamps * Lag
  /\ pc' = "done"
  /\ UNCHANGED <<prog, curr, work, hist, prop, i, samps, stats>>

\* mcmc has returned.
Done == pc = "done" /\ UNCHANGED vars

Execute == LookupListed \/ LookupNamed \/ LookupNew \/ CallFactor \/ CallCondition \/ CallNested
Next ==
  \/ Execute
  \/ Attempt \/ EndAttempt \/ Initialised
  \/ Rerun \/ EndRerun
  \/ Propose \/ EndProposal \/ Accept \/ Reject
  \/ Finish \/ Done

Spec == Init /\ [][Next]_vars
-------------------------------------------------------------------------------
(* Properties. *)

Started == pc \notin {"rejecting", "initialising"}

\* The types of the state.
TypeOK ==
  /\ prog \in Prog
  /\ TraceOK(curr) /\ TraceOK(work)
  /\ hist \in Histories(prog)
  /\ pc \in Steps
  /\ prop # None => HasFields(prop, {"name", "fwd", "rvs"})
  /\ i \in 1..NumSamps * Lag + 1
  /\ samps \in Seq([sample : Value \cup {None}, logprob : LP])
  /\ stats \in [made : Nat, accepted : Nat]

\* So it is of the traces that mcmc holds between updates.
FlatListsAreDatabases ==
  /\ Started /\ pc # "rerunning" => FlatListIsDatabase(curr)
  /\ pc = "deciding" => FlatListIsDatabase(work)

\* Every trace that mcmc holds between executions, and so every trace that it
\* samples, satisfies the conditions of the program (trace.lua:279).
ConditionsHold == Started /\ pc # "rerunning" => curr.conditionsSatisfied

\* A proposal is never accepted into a trace whose log probability is minus
\* infinity or not a number, whatever infinities the other terms of the
\* acceptance threshold hold (inference.lua:97-98).
AcceptsOnlyPossible ==
  [][stats'.accepted # stats.accepted => curr'.logprob \notin {NegInf, NaN}]_vars

(* Termination. An execution in progress goes on. The draws of newTrace's  *)
(* attempts are independent: if attempts come to their k-th call again and *)
(* again with a satisfying execution still possible, and that call is a    *)
(* draw, then they draw, again and again, a value that keeps it possible.  *)
Satisfies(p, h) ==
  /\ Computation(p, h).op = "return"
  /\ \A k \in DOMAIN h :
       LET call == Computation(p, SubSeq(h, 1, k - 1))
       IN  /\ call.op = "condition" => call.holds
           /\ call.op = "erp" => h[k] \in InitialValues(call)

Promising(h) ==
  \E g \in Histories(prog) : Satisfies(prog, g) /\ Len(h) <= Len(g) /\ h = SubSeq(g, 1, Len(h))

PromisingDraw(k) ==
  /\ pc = "initialising" /\ Len(hist) = k /\ Promising(hist)
  /\ LookupNew
  /\ Promising(hist')

FairSpec ==
  /\ Spec
  /\ WF_vars(Next)
  /\ \A k \in {Len(h) : h \in UNION {Histories(p) : p \in Prog}} : SF_vars(PromisingDraw(k))

\* mcmc returns with numsamps samples: rejection finds an execution that
\* satisfies the conditions (trace.lua:49-52), and no execution or proposal
\* keeps the chain from its next iteration.
ChainCompletes == <>(pc = "done" /\ Len(samps) = NumSamps)
===============================================================================
