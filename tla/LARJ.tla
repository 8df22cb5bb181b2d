--------------------------------- MODULE LARJ ---------------------------------
(***************************************************************************)
(* mcmc with a LARJKernel (probabilistic/inference.lua): locally annealed  *)
(* reversible jump. An iteration either diffuses, a step of a random walk  *)
(* over the nonstructural variables with the structure fixed, or jumps: it *)
(* changes a structural variable of a copy of the current trace, anneals   *)
(* the old and the new trace together, by changing nonstructural variables *)
(* of both, from the old trace's probability to the new one's, and then    *)
(* accepts the new trace or keeps the current one.                         *)
(*                                                                         *)
(* A step of the model is one step of the kernel; an execution of the      *)
(* program is atomic.                                                      *)
(***************************************************************************)
EXTENDS TraceUpdate, FiniteSets

CONSTANTS
  Kernel(_),       \* the kernel that a program is run with: its parameters
  NumSamps, Lag    \* mcmc's numsamps and lag

\* annealSteps, and jumpFreq in per cent or None.
ASSUME LARJAssumption ==
  /\ \A p \in Prog : /\ Kernel(p).annealSteps \in Nat
                     /\ Kernel(p).jumpFreq \in 0..100 \cup {None}
  /\ NumSamps \in Nat /\ Lag \in Nat \ {0}

VARIABLES
  prog,   \* the program sampled from
  curr,   \* currentTrace
  pc,     \* where the chain is
  jump,   \* the locals of a jumpStep under way, None when there is none
  i,      \* mcmc's iteration
  samps,  \* the samples taken
  stats   \* the counters of the kernel and of its diffusionKernel

vars == <<prog, curr, pc, jump, i, samps, stats>>

AnnealSteps == Kernel(prog).annealSteps
JumpFreq == Kernel(prog).jumpFreq

Steps == {"starting", "iterating", "annealing", "deciding", "done", "failed"}

\* The diffusionKernel's counters are made and accepted.
Counters == {"made", "accepted", "jumpsMade", "jumpsAccepted", "diffusionsMade",
             "diffusionsAccepted", "annealingsMade", "annealingsAccepted"}
Counting(S) == [c \in Counters |-> IF c \in S THEN stats[c] + 1 ELSE stats[c]]

Struct(tr) == FreeVarNames(tr, TRUE, FALSE)
Nonstruct(tr) == FreeVarNames(tr, FALSE, TRUE)

Init ==
  /\ prog \in Prog
  /\ curr = EmptyTrace
  /\ pc = "starting"
  /\ jump = None
  /\ i = 1
  /\ samps = <<>>
  /\ stats = [c \in Counters |-> 0]

\* newTrace, up to the execution that satisfies the conditions.
Initialise ==
  /\ pc = "starting"
  /\ \E tr \in TraceUpdates(prog, EmptyTrace, FALSE) :
       tr.conditionsSatisfied /\ curr' = tr
  /\ pc' = "iterating"
  /\ UNCHANGED <<prog, jump, i, samps, stats>>

\* next returns tr; mcmc takes a sample of it every Lag iterations.
NextReturns(tr) ==
  /\ curr' = tr
  /\ jump' = None
  /\ samps' = IF i % Lag = 0
              THEN Append(samps, [sample |-> tr.returnValue, logprob |-> tr.logprob])
              ELSE samps
  /\ i' = i + 1
  /\ pc' = "iterating"

Iterating == pc = "iterating" /\ i <= NumSamps * Lag

\* With no free variable the current trace itself is updated.
Rerun ==
  /\ Iterating
  /\ Struct(curr) \cup Nonstruct(curr) = {}
  /\ \E tr \in TraceUpdates(prog, curr, FALSE) : NextReturns(tr)
  /\ UNCHANGED <<prog, stats>>
-------------------------------------------------------------------------------
(* Jump or diffuse: random() < structChoiceProp can be true unless that is *)
(* 0, and false unless it is 1.                                            *)

MayJump ==
  /\ Iterating
  /\ Struct(curr) \cup Nonstruct(curr) # {}
  /\ IF JumpFreq = None THEN Struct(curr) # {} ELSE JumpFreq > 0

MayDiffuse ==
  /\ Iterating
  /\ Struct(curr) \cup Nonstruct(curr) # {}
  /\ IF JumpFreq = None THEN Nonstruct(curr) # {} ELSE JumpFreq < 100

(* Diffusion: RandomWalkKernel:next with the structure fixed. *)

\* proposeChange: the traces it can return, with the probabilities of the
\* proposal.
Proposals(tr, name) ==
  LET next == DeepCopy(tr)
      var == GetRecord(next, name)
  IN  UNION {{[trace |-> t,
               fwd |-> Plus(LogProposalProb(var.erp, var.val, val, var.params), t.newlogprob),
               rvs |-> Plus(LogProposalProb(var.erp, val, var.val, var.params), t.oldlogprob)] :
                t \in TraceUpdates(prog, SetVar(next, name, val), TRUE)} :
              val \in Proposal(var.erp, var.val, var.params)}

DiffusionThresh(p) ==
  LET fwd == Minus(p.fwd, Log(Cardinality(Nonstruct(curr))))
      rvs == Minus(p.rvs, Log(Cardinality(Nonstruct(p.trace))))
  IN  Minus(Plus(Minus(p.trace.logprob, curr.logprob), rvs), fwd)

DiffuseAccept ==
  /\ MayDiffuse
  /\ \E name \in Nonstruct(curr) : \E p \in Proposals(curr, name) :
       /\ p.trace.conditionsSatisfied
       /\ LogRandomBelow(DiffusionThresh(p))
       /\ NextReturns(p.trace)
  /\ stats' = Counting({"made", "accepted", "diffusionsMade", "diffusionsAccepted"})
  /\ UNCHANGED prog

DiffuseReject ==
  /\ MayDiffuse
  /\ \E name \in Nonstruct(curr) : \E p \in Proposals(curr, name) :
       ~p.trace.conditionsSatisfied \/ LogRandomNotBelow(DiffusionThresh(p))
  /\ NextReturns(curr)
  /\ stats' = Counting({"made", "diffusionsMade"})
  /\ UNCHANGED prog

\* Nothing to change: the diffusion kernel updates the current trace itself.
DiffuseRerun ==
  /\ MayDiffuse
  /\ Nonstruct(curr) = {}
  /\ \E tr \in TraceUpdates(prog, curr, TRUE) : NextReturns(tr)
  /\ stats' = Counting({"made", "diffusionsMade"})
  /\ UNCHANGED prog
-------------------------------------------------------------------------------
(* The interpolation of two traces, LARJInterpolationTrace. Its weights    *)
(* are alpha = aStep / (AnnealSteps - 1) and 1 - alpha; the model counts   *)
(* log probabilities in units of 1 / Scale while a jump is under way, so   *)
(* that they remain integers.                                              *)

Scale == IF AnnealSteps > 1 THEN AnnealSteps - 1 ELSE 1

\* k * x, for a weight k >= 0: nothing times infinity is NaN.
Times(k, x) == IF x \in Int THEN k * x ELSE IF k = 0 THEN NaN ELSE x

\* Its logprob, of the traces in r. With one step alpha is 0 / 0.
Lerp(r) ==
  IF AnnealSteps = 1 THEN NaN
  ELSE Plus(Times(Scale - jump.aStep, r.old.logprob), Times(jump.aStep, r.new.logprob))

LerpNames(r) == Nonstruct(r.old) \cup Nonstruct(r.new)

\* Mutant: the variable is changed in the first trace that has it.
LerpProposalsFirst(name) ==
  LET inOld == name \in DOMAIN jump.old.vars
      var == GetRecord(IF inOld THEN jump.old ELSE jump.new, name)
      Changed(tr, val) == TraceUpdates(prog, SetVar(DeepCopy(tr), name, val), TRUE)
  IN  UNION {[old : IF inOld THEN Changed(jump.old, val) ELSE {jump.old},
              new : IF inOld THEN {jump.new} ELSE Changed(jump.new, val),
              fwd : {LogProposalProb(var.erp, var.val, val, var.params)},
              rvs : {LogProposalProb(var.erp, val, var.val, var.params)}] :
             val \in Proposal(var.erp, var.val, var.params)}

\* Mutant: the new trace is not executed again.
LerpProposalsUnexecuted(name) ==
  LET var == GetRecord(IF name \in DOMAIN jump.old.vars THEN jump.old ELSE jump.new, name)
      Changed(tr, val) ==
        IF name \in DOMAIN tr.vars
        THEN TraceUpdates(prog, SetVar(DeepCopy(tr), name, val), TRUE) ELSE {tr}
      new == DeepCopy(jump.new)
  IN  UNION {[old : Changed(jump.old, val),
              new : {IF name \in DOMAIN new.vars THEN SetVar(new, name, val) ELSE new},
              fwd : {LogProposalProb(var.erp, var.val, val, var.params)},
              rvs : {LogProposalProb(var.erp, val, var.val, var.params)}] :
             val \in Proposal(var.erp, var.val, var.params)}

\* Its proposeChange: a variable is changed in every trace that has it.
LerpProposals(name) ==
  LET var == GetRecord(IF name \in DOMAIN jump.old.vars THEN jump.old ELSE jump.new, name)
      Changed(tr, val) ==
        IF name \in DOMAIN tr.vars
        THEN TraceUpdates(prog, SetVar(DeepCopy(tr), name, val), TRUE) ELSE {tr}
  IN  UNION {[old : Changed(jump.old, val), new : Changed(jump.new, val),
              fwd : {LogProposalProb(var.erp, var.val, val, var.params)},
              rvs : {LogProposalProb(var.erp, val, var.val, var.params)}] :
             val \in Proposal(var.erp, var.val, var.params)}
-------------------------------------------------------------------------------
(* jumpStep. *)

\* Mutant: steps are all that annealing needs.
AnnealsAnyway(old, new) == AnnealSteps > 0

\* The traces are annealed only if there is a nonstructural variable.
Anneals(old, new) == Nonstruct(old) \cup Nonstruct(new) # {} /\ AnnealSteps > 0

\* From the choice of the variable to the execution of the new trace.
Jump ==
  /\ MayJump
  /\ LET old == DeepCopy(curr)
     IN  \E name \in Struct(old) :
           LET var == GetRecord(old, name)
           IN  \E val \in Proposal(var.erp, var.val, var.params) :
               \E new \in TraceUpdates(prog, SetVar(old, name, val), FALSE) :
                 /\ jump' =
                      [name |-> name, origval |-> var.val, propval |-> val,
                       old |-> old, new |-> new,
                       fwd |-> Minus(Plus(LogProposalProb(var.erp, var.val, val, var.params),
                                          new.newlogprob),
                                     Log(Cardinality(Struct(old)))),
                       newNumVars |-> Cardinality(Struct(new)),
                       ratio |-> 0, aStep |-> 0, prevAccepted |-> stats["accepted"]]
                 /\ pc' = IF Anneals(old, new) THEN "annealing" ELSE "deciding"
  /\ stats' = Counting({"jumpsMade"})
  /\ UNCHANGED <<prog, curr, i, samps>>

\* An error ends the chain.
Fail == pc' = "failed" /\ UNCHANGED <<prog, curr, jump, i, samps>>

\* randomChoice returned nil, and nil has no record.
JumpFails ==
  /\ MayJump
  /\ Struct(DeepCopy(curr)) = {}
  /\ Fail
  /\ stats' = Counting({"jumpsMade"})

AnnealThresh(p) ==
  LET fwd == Minus(p.fwd, Log(Cardinality(LerpNames(jump))))
      rvs == Minus(p.rvs, Log(Cardinality(LerpNames(p))))
  IN  Minus(Plus(Minus(Lerp(p), Lerp(jump)), Times(Scale, rvs)), Times(Scale, fwd))

\* Mutants: one step too many; the acceptances counted from the beginning.
AnnealedOneMore(r, isAccepted) ==
  LET isLast == jump.aStep = AnnealSteps
      accepted == stats["accepted"] + (IF isAccepted THEN 1 ELSE 0)
  IN  /\ jump' = [jump EXCEPT !.old = r.old, !.new = r.new, !.aStep = @ + 1,
                              !.ratio = Minus(Plus(@, Lerp(jump)), Lerp(r))]
      /\ pc' = IF isLast THEN "deciding" ELSE "annealing"
      /\ stats' = [stats EXCEPT
           !["made"] = @ + 1, !["accepted"] = accepted,
           !["annealingsMade"] = IF isLast THEN @ + AnnealSteps ELSE @,
           !["annealingsAccepted"] = IF isLast THEN @ + accepted - jump.prevAccepted ELSE @]
      /\ UNCHANGED <<prog, curr, i, samps>>
AnnealedOverall(r, isAccepted) ==
  LET isLast == jump.aStep = AnnealSteps - 1
      accepted == stats["accepted"] + (IF isAccepted THEN 1 ELSE 0)
  IN  /\ jump' = [jump EXCEPT !.old = r.old, !.new = r.new, !.aStep = @ + 1,
                              !.ratio = Minus(Plus(@, Lerp(jump)), Lerp(r))]
      /\ pc' = IF isLast THEN "deciding" ELSE "annealing"
      /\ stats' = [stats EXCEPT
           !["made"] = @ + 1, !["accepted"] = accepted,
           !["annealingsMade"] = IF isLast THEN @ + AnnealSteps ELSE @,
           !["annealingsAccepted"] = IF isLast THEN @ + accepted ELSE @]
      /\ UNCHANGED <<prog, curr, i, samps>>

\* The diffusion kernel has returned the traces of r; after the last step the
\* annealing is counted.
Annealed(r, isAccepted) ==
  LET isLast == jump.aStep = AnnealSteps - 1
      accepted == stats["accepted"] + (IF isAccepted THEN 1 ELSE 0)
  IN  /\ jump' = [jump EXCEPT !.old = r.old, !.new = r.new, !.aStep = @ + 1,
                              !.ratio = Minus(Plus(@, Lerp(jump)), Lerp(r))]
      /\ pc' = IF isLast THEN "deciding" ELSE "annealing"
      /\ stats' = [stats EXCEPT
           !["made"] = @ + 1, !["accepted"] = accepted,
           !["annealingsMade"] = IF isLast THEN @ + AnnealSteps ELSE @,
           !["annealingsAccepted"] = IF isLast THEN @ + accepted - jump.prevAccepted ELSE @]
      /\ UNCHANGED <<prog, curr, i, samps>>

\* A structural variable must not be annealed.
Annealable(name) ==
  GetRecord(IF name \in DOMAIN jump.old.vars THEN jump.old ELSE jump.new, name).structural # TRUE

AnnealAccept ==
  /\ pc = "annealing"
  /\ \E name \in LerpNames(jump) :
       /\ Annealable(name)
       /\ \E p \in LerpProposals(name) :
            /\ p.old.conditionsSatisfied /\ p.new.conditionsSatisfied
            /\ LogRandomBelow(AnnealThresh(p))
            /\ Annealed(p, TRUE)

AnnealReject ==
  /\ pc = "annealing"
  /\ \E name \in LerpNames(jump) :
       /\ Annealable(name)
       /\ \E p \in LerpProposals(name) :
            \/ ~(p.old.conditionsSatisfied /\ p.new.conditionsSatisfied)
            \/ LogRandomNotBelow(AnnealThresh(p))
  /\ Annealed(jump, FALSE)

\* An interpolation trace has no traceUpdate to call when nothing is free, and
\* its proposeChange asserts that the variable is not structural.
AnnealFails ==
  /\ pc = "annealing"
  /\ LerpNames(jump) = {} \/ \E name \in LerpNames(jump) : ~Annealable(name)
  /\ Fail
  /\ stats' = Counting({"made"})

\* Mutant: the variables that only the new trace has, instead of the old.
JumpThreshNew ==
  LET var == GetRecord(jump.new, jump.name)
      rvs == Minus(Plus(LogProposalProb(var.erp, jump.propval, jump.origval, var.params),
                        LpDiff(jump.new, jump.old)),
                   Log(jump.newNumVars))
  IN  Plus(Times(Scale, Minus(Plus(Minus(jump.new.logprob, curr.logprob), rvs), jump.fwd)),
           jump.ratio)

JumpThresh ==
  LET var == GetRecord(jump.new, jump.name)
      rvs == Minus(Plus(LogProposalProb(var.erp, jump.propval, jump.origval, var.params),
                        LpDiff(jump.old, jump.new)),
                   Log(jump.newNumVars))
  IN  Plus(Times(Scale, Minus(Plus(Minus(jump.new.logprob, curr.logprob), rvs), jump.fwd)),
           jump.ratio)

Deciding == pc = "deciding" /\ jump.name \in DOMAIN jump.new.vars

\* Mutant: the conditions are not consulted.
JumpAcceptAnyway ==
  /\ Deciding
  /\ LogRandomBelow(JumpThresh)
  /\ NextReturns(jump.new)
  /\ stats' = Counting({"jumpsAccepted"})
  /\ UNCHANGED prog

JumpAccept ==
  /\ Deciding
  /\ jump.new.conditionsSatisfied
  /\ LogRandomBelow(JumpThresh)
  /\ NextReturns(jump.new)
  /\ stats' = Counting({"jumpsAccepted"})
  /\ UNCHANGED prog

JumpReject ==
  /\ Deciding
  /\ ~jump.new.conditionsSatisfied \/ LogRandomNotBelow(JumpThresh)
  /\ NextReturns(curr)
  /\ UNCHANGED <<prog, stats>>

\* The variable that was changed has no record in the new trace.
DecideFails ==
  /\ pc = "deciding"
  /\ jump.name \notin DOMAIN jump.new.vars
  /\ Fail
  /\ UNCHANGED stats

Finish ==
  /\ pc = "iterating"
  /\ i > NumSamps * Lag
  /\ pc' = "done"
  /\ UNCHANGED <<prog, curr, jump, i, samps, stats>>

\* mcmc has returned or raised an error.
Done == pc \in {"done", "failed"} /\ UNCHANGED vars

Next ==
  \/ Initialise \/ Rerun
  \/ DiffuseAccept \/ DiffuseReject \/ DiffuseRerun
  \/ Jump \/ JumpAccept \/ JumpReject
  \/ AnnealAccept \/ AnnealReject
  \/ JumpFails \/ AnnealFails \/ DecideFails
  \/ Finish \/ Done

Spec == Init /\ [][Next]_vars
-------------------------------------------------------------------------------
(* Properties. *)

\* The types of the state.
TypeOK ==
  /\ prog \in Prog
  /\ TraceOK(curr)
  /\ pc \in Steps
  /\ pc \in {"starting", "iterating", "done"} => jump = None
  /\ pc \in {"annealing", "deciding"} =>
       /\ TraceOK(jump.old) /\ TraceOK(jump.new)
       /\ {jump.fwd, jump.ratio} \subseteq LP
       /\ jump.aStep \in 0..AnnealSteps
       /\ {jump.newNumVars, jump.prevAccepted} \subseteq Nat
  /\ i \in 1..NumSamps * Lag + 1
  /\ samps \in Seq([sample : Value \cup {None}, logprob : LP])
  /\ stats \in [Counters -> Nat]

\* Between iterations, every proposal of the diffusion kernel is counted once,
\* as a diffusion or as an annealing step, and so is every acceptance
\* (inference.lua:219-222, 252, 259-260): the statistics are disjoint parts of
\* the kernel's own counters.
CountersAddUp ==
  pc = "iterating" =>
    /\ stats["made"] = stats["diffusionsMade"] + stats["annealingsMade"]
    /\ stats["accepted"] = stats["diffusionsAccepted"] + stats["annealingsAccepted"]

\* Every trace that mcmc holds between iterations satisfies the conditions of
\* the program, however the annealing came by it (trace.lua:279).
ConditionsHold == pc # "starting" => curr.conditionsSatisfied

\* Neither a jump nor a diffusion is accepted into a trace whose log
\* probability is minus infinity or not a number, whatever infinities and NaNs
\* the annealing ratio has collected (inference.lua:254-257, 268).
AcceptsOnlyPossible ==
  [][stats'["diffusionsAccepted"] + stats'["jumpsAccepted"]
       # stats["diffusionsAccepted"] + stats["jumpsAccepted"] =>
     curr'.logprob \notin {NegInf, NaN}]_vars
===============================================================================
