---------------------------- MODULE RandomWalkChain ----------------------------
(***************************************************************************)
(* What the random walk of RandomWalk promises, stated against the         *)
(* executions that SampleChain defines: its traces are executions of the   *)
(* program, its proposal probabilities are those of the moves it makes,    *)
(* and its chain of traces is a chain of samples.                          *)
(***************************************************************************)
EXTENDS RandomWalk, ProgramExecutions

\* The diffusion kernel is run with programs whose structural choices, if any,
\* are marked.
ASSUME FixedAssumption == \A p \in Prog \ Structural : KeepsStructure(p)

Chain == INSTANCE SampleChain WITH
  Annealing <- {},
  state <- IF pc \in {"rejecting", "initialising"} THEN NoExecution
           ELSE [choices |-> ChoicesOf(curr), logprob |-> curr.logprob,
                 returns |-> curr.returnValue]

-------------------------------------------------------------------------------
(* The trace database. *)

\* After traceUpdate, a trace is what executing the program from nothing but
\* its choices gives: the same variables, all of them and no others, listed in
\* the order the execution meets them, the same log probability, conditions
\* and result. No cached log probability, parameter, list position or variable
\* of an earlier execution survives.
TracesAreExecutions ==
  /\ Started /\ pc # "rerunning" => IsExecution(prog, curr)
  /\ pc = "deciding" => IsExecution(prog, work)

\* Call by call, an update does what executing the program by names does: a
\* lookup that takes its record from the flat list takes the record that a
\* lookup by name would have found (trace.lua:224-235).
FlatListAgrees ==
  pc \in Running =>
    \E e \in After(prog, ChoicesOf(work))[Len(hist)] :
      /\ e.hist = hist
      /\ e.order = [k \in 1..work.currVarIndex - 1 |-> ListRecord(work, k).name]

-------------------------------------------------------------------------------
(* The kernel. *)

\* proposeChange returns the forward and reverse probabilities of the proposal
\* it makes: fwd is that of the move from curr to work, and rvs is that of the
\* opposite move, what fwd would be if the chain were at work and proposed curr.
ProposalProbabilities ==
  pc = "deciding" =>
    /\ prop.fwd = MoveLP(prog, ChoicesOf(curr), ChoicesOf(work), prop.name)
    /\ prop.rvs = MoveLP(prog, ChoicesOf(work), ChoicesOf(curr), prop.name)

\* The chain of traces is a chain of samples.
ImplementsChain == Chain!ChainSpec
===============================================================================
