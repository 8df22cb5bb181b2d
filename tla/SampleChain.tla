------------------------------ MODULE SampleChain ------------------------------
(***************************************************************************)
(* What a chain of samples promises (the abstract specification).          *)
(*                                                                         *)
(* The state of the chain is an assignment of values to the random choices *)
(* of one execution, under their structural names. A move changes one free *)
(* choice and re-executes the program: choices that the new execution      *)
(* meets again keep their values, choices it does not meet are forgotten,  *)
(* and choices it meets for the first time are drawn anew. Executions are  *)
(* atomic here.                                                            *)
(***************************************************************************)
EXTENDS ProgramExecutions, FiniteSets

CONSTANTS
  Structural,     \* the programs whose structural choices may be changed
  Nonstructural,  \* whether the others may
  Annealing,      \* the programs whose other choices are annealed after such a change
  NumSamps, Lag

VARIABLES
  prog,   \* the program sampled from
  state,  \* the execution that the chain is at, NoExecution before the first
  i,      \* the next iteration
  samps   \* the samples taken

FreeChoices(A) ==
  {n \in DOMAIN A : /\ ~A[n].conditioned
                    /\ IF A[n].structural = TRUE THEN prog \in Structural ELSE Nonstructural}
-------------------------------------------------------------------------------
svars == <<prog, state, i, samps>>

\* Every execution visited satisfies the conditions.
Visit(e) ==
  /\ e.holds
  /\ state' = [choices |-> e.choices, logprob |-> e.logprob, returns |-> e.returns]

Sample ==
  samps' = IF i % Lag = 0
           THEN Append(samps, [sample |-> state'.returns, logprob |-> state'.logprob])
           ELSE samps

ChainInit == prog \in Prog /\ state = NoExecution /\ i = 1 /\ samps = <<>>

First ==
  /\ state = NoExecution
  /\ \E e \in ExecutionsFrom(prog, NoChoices) : Visit(e)
  /\ UNCHANGED <<prog, i, samps>>

\* A change of a structural choice, with annealing: the structural choices that
\* are met again, and not observed, keep their values, and the others may have
\* any.
Anneal ==
  /\ prog \in Annealing
  /\ \E n \in FreeChoices(state.choices) :
       /\ state.choices[n].structural = TRUE
       /\ \E e \in ExecutionsFrom(prog, NoChoices) :
            /\ e.logprob \notin {NegInf, NaN} /\ Visit(e)
            /\ \A m \in (DOMAIN state.choices \cap DOMAIN e.choices) \ {n} :
                 state.choices[m].structural = TRUE /\ ~e.choices[m].conditioned =>
                   e.choices[m].val = state.choices[m].val

\* Stay, move to an execution that is not impossible, or, with nothing to
\* change, execute again.
Step ==
  /\ state # NoExecution
  /\ i <= NumSamps * Lag
  /\ \/ state' = state
     \/ \E n \in FreeChoices(state.choices) :
          LET c == state.choices[n]
          IN  \E val \in Proposal(c.erp, c.val, c.params) :
                \E e \in ExecutionsFrom(prog, With(state.choices, n, val)) :
                  e.logprob \notin {NegInf, NaN} /\ Visit(e)
     \/ Anneal
     \/ /\ FreeChoices(state.choices) = {}
        /\ \E e \in ExecutionsFrom(prog, state.choices) : Visit(e)
  /\ Sample
  /\ i' = i + 1
  /\ UNCHANGED prog

ChainSpec == ChainInit /\ [][First \/ Step]_svars
===============================================================================
