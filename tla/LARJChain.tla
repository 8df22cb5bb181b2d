------------------------------- MODULE LARJChain -------------------------------
(***************************************************************************)
(* What the LARJ kernel promises, stated against the executions of the     *)
(* program: the counterpart of RandomWalkChain.                            *)
(***************************************************************************)
EXTENDS LARJ, ProgramExecutions

\* The programs that annealing is meant for.
CONSTANT Settled

\* Nothing is promised of the chains of other programs.
Chain == INSTANCE SampleChain WITH
  Structural <- Prog, Nonstructural <- TRUE,
  Annealing <- {p \in Prog : Kernel(p).annealSteps > 0},
  state <- IF pc = "starting" \/ prog \notin Settled THEN NoExecution
           ELSE [choices |-> ChoicesOf(curr), logprob |-> curr.logprob,
                 returns |-> curr.returnValue],
  i <- IF prog \in Settled THEN i ELSE 1,
  samps <- IF prog \in Settled THEN samps ELSE <<>>

-------------------------------------------------------------------------------
(* Annealing. *)

ASSUME SettledAssumption == \A p \in Settled : KeepsStructure(p) /\ MarksChoices(p)

\* The current trace and the two traces of a jump are what executing the
\* program from nothing but their choices gives: no annealing step leaves in
\* one of them a log probability, parameter or variable of the other or of an
\* earlier execution (inference.lua:153-178).
TracesAreExecutions ==
  prog \in Settled =>
    /\ pc # "starting" => IsExecution(prog, curr)
    /\ pc \in {"annealing", "deciding"} =>
         IsExecution(prog, jump.old) /\ IsExecution(prog, jump.new)

\* The interpolated traces stay comparable: a nonstructural variable that both
\* have, and that is not observed, has one value in both, whatever annealing
\* step changed it and however often (inference.lua:167-176).
SharedValuesAgree ==
  prog \in Settled /\ pc \in {"annealing", "deciding"} =>
    \A n \in Nonstruct(jump.old) \cap Nonstruct(jump.new) :
      GetRecord(jump.old, n).val = GetRecord(jump.new, n).val

\* With the default jump frequency a jump has a structural variable to change,
\* annealing always has a nonstructural variable to change and never meets a
\* structural one, and the variable changed by a jump survives it
\* (inference.lua:163, 208-214, 234-236, 266): only a program that is not
\* settled makes the kernel raise an error.
NeverFails == pc = "failed" /\ JumpFreq = None => prog \notin Settled

-------------------------------------------------------------------------------
(* Jumps. *)

\* The probability of changing the structural variable chosen, when the kernel
\* jumps with the same probability from every trace.
ChoiceLP(tr) == Minus(0, Log(Cardinality(Struct(tr))))

JumpLP(from, to) ==
  Plus(ChoiceLP(from), MoveLP(prog, ChoicesOf(from), ChoicesOf(to), jump.name))

\* The kernel does reversible jumps (inference.lua:181): with a constant jump
\* frequency the threshold of a jump without annealing is the ratio of the
\* probability of the new trace and of jumping back from it to that of the
\* current trace and of jumping from it to the new one. It is not with the
\* default frequency, which depends on the trace (inference.lua:213).
JumpReversible ==
  pc = "deciding" /\ AnnealSteps = 0 /\ JumpFreq # None /\ jump.new.conditionsSatisfied =>
    JumpThresh = Minus(Plus(Minus(jump.new.logprob, curr.logprob), JumpLP(jump.new, curr)),
                       JumpLP(curr, jump.new))

\* The chain of traces is a chain of samples: whether an iteration jumps or
\* diffuses, it changes one choice and forgets, keeps and draws the others as a
\* random walk does; the annealing of a jump changes no structural choice.
ImplementsChain == Chain!ChainSpec
===============================================================================
