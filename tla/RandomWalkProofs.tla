--------------------------- MODULE RandomWalkProofs ---------------------------
(***************************************************************************)
(* Theorems about RandomWalk and its chain, for every program, primitive   *)
(* and chain length.                                                       *)
(***************************************************************************)
EXTENDS RandomWalkChain, ProgramExecutionProofs

(***************************************************************************)
(* The inductive invariant. A proposal picks a variable of curr and looks  *)
(* its record up in a copy of curr, which deepcopy makes from the flat     *)
(* list alone: the record is there because curr is well held.              *)
(***************************************************************************)

Samples == [sample : Value \cup {None}, logprob : LP]

IInv ==
  /\ prog \in Prog
  /\ HeldOK(curr)
  /\ UpdatedOK(work)
  /\ pc \in {"rejecting", "deciding"} => HeldOK(work)
  /\ hist \in Histories(prog)
  /\ pc \in Steps
  /\ IF pc \in {"proposing", "deciding"} THEN HasFields(prop, {"name", "fwd", "rvs"})
                                         ELSE prop = None
  /\ i \in 1..NumSamps * Lag + 1
  /\ pc \in {"rerunning", "proposing", "deciding"} => i <= NumSamps * Lag
  /\ samps \in Seq(Samples)
  /\ stats \in [made : Nat, accepted : Nat]

LEMMA BoundType == NumSamps * Lag \in Nat
BY KernelAssumption

\* A step of the program keeps the invariant when the trace stays well formed
\* and the result is one that the call can have.
LEMMA LookupInv ==
  ASSUME IInv, NEW tr, NEW val \in Value, UpdatedOK(tr), Lookup(tr, val)
  PROVE  IInv'
<1>1. hist' \in Histories(prog)
  <2>1. Call.op = "erp" /\ hist' = Append(hist, val)
    BY DEF Lookup
  <2>2. val \in Results(Call)
    BY <2>1 DEF Results
  <2> QED BY <2>1, <2>2, CallTypes DEF IInv, Call
<1>2. pc \in Running
  BY DEF Lookup
<1> QED
  BY <1>1, <1>2 DEF IInv, Lookup, Running

LEMMA LookupListedInv == ASSUME IInv, LookupListed PROVE IInv'
<1> DEFINE tr == ReuseListed(work, Call)
<1>1. Call.op = "erp" /\ VarIsInFlatList(work) /\ Lookup(tr, ListRecord(tr, work.currVarIndex).val)
  BY DEF LookupListed, Lookup
<1>2. Call \in ErpCalls
  BY <1>1, CallTypes DEF IInv, Call
<1>3. UpdatedOK(tr) /\ ListRecord(tr, work.currVarIndex).val \in Value
  BY <1>1, <1>2, ReuseListedUpdated DEF IInv
<1> HIDE DEF tr
<1> QED BY <1>1, <1>3, LookupInv

LEMMA LookupNamedInv == ASSUME IInv, LookupNamed PROVE IInv'
<1> DEFINE tr == ReuseNamed(work, Call)
           name == CurrentName(Call, work.loopcounters)
<1>1. Call.op = "erp" /\ Matches(work, name, Call) /\ Lookup(tr, GetRecord(tr, name).val)
  BY DEF LookupNamed
<1>2. Call \in ErpCalls
  BY <1>1, CallTypes DEF IInv, Call
<1>3. UpdatedOK(tr) /\ GetRecord(tr, name).val \in Value
  BY <1>1, <1>2, ReuseNamedUpdated DEF IInv
<1> HIDE DEF tr, name
<1> QED BY <1>1, <1>3, LookupInv

LEMMA LookupNewInv == ASSUME IInv, LookupNew PROVE IInv'
<1>1. PICK val \in InitialValues(Call) : Lookup(Create(work, Call, val), val)
  BY DEF LookupNew
<1>2. Call \in ErpCalls
  BY CallTypes DEF IInv, Call, LookupNew
<1>3. val \in Value
  BY <1>1, <1>2, ErpAssumption DEF InitialValues, IsConditioned, ErpCalls
<1>4. UpdatedOK(Create(work, Call, val))
  BY <1>2, <1>3, CreateUpdated DEF IInv
<1> QED BY <1>1, <1>3, <1>4, LookupInv

LEMMA CallFactorInv == ASSUME IInv, CallFactor PROVE IInv'
<1>1. hist' \in Histories(prog)
  <2>1. None \in Results(Call)
    BY DEF CallFactor, Results
  <2> QED BY <2>1, CallTypes DEF IInv, CallFactor, Call
<1>2. UpdatedOK(work')
  BY FactorUpdated DEF IInv, CallFactor
<1> QED BY <1>1, <1>2 DEF IInv, CallFactor, Running

LEMMA CallConditionInv == ASSUME IInv, CallCondition PROVE IInv'
<1>1. hist' \in Histories(prog)
  <2>1. None \in Results(Call)
    BY DEF CallCondition, Results
  <2> QED BY <2>1, CallTypes DEF IInv, CallCondition, Call
<1>2. UpdatedOK(work')
  <2>1. Call.holds \in BOOLEAN
    BY CallTypes DEF IInv, CallCondition, Call
  <2> QED BY <2>1, ConditionUpdated DEF IInv, CallCondition
<1> QED BY <1>1, <1>2 DEF IInv, CallCondition, Running

LEMMA CallNestedInv == ASSUME IInv, CallNested PROVE IInv'
<1>1. hist' \in Histories(prog)
  <2>1. PICK val \in Call.outcomes : hist' = Append(hist, val)
    BY DEF CallNested
  <2>2. val \in Results(Call)
    BY <2>1 DEF CallNested, Results
  <2> QED BY <2>1, <2>2, CallTypes DEF IInv, Call
<1> QED BY <1>1 DEF IInv, CallNested, Running

LEMMA EmptyHistory == ASSUME IInv PROVE <<>> \in Histories(prog)
BY ComputationAssumption DEF IInv

LEMMA AttemptInv == ASSUME IInv, Attempt PROVE IInv'
<1>1. UpdatedOK(work')
  BY AttemptUpdated DEF IInv, Attempt, UpdatedOK
<1> QED BY <1>1, EmptyHistory DEF IInv, Attempt, Steps, Running

LEMMA EndAttemptInv == ASSUME IInv, EndAttempt PROVE IInv'
<1>1. HeldOK(work')
  <2>1. Call.val \in Value
    BY CallTypes DEF IInv, EndAttempt, Call
  <2> QED BY <2>1, EndUpdateHeld DEF IInv, EndAttempt
<1>2. UpdatedOK(work')
  BY <1>1, HeldIsUpdated
<1> QED BY <1>1, <1>2, EmptyHistory DEF IInv, EndAttempt, Steps, Running

LEMMA InitialisedInv == ASSUME IInv, Initialised PROVE IInv'
<1>1. HeldOK(work) /\ UpdatedOK(EmptyTrace)
  BY EmptyTraceHeld, HeldIsUpdated DEF IInv, Initialised
<1> QED BY <1>1 DEF IInv, Initialised, Steps, Running

LEMMA RerunInv == ASSUME IInv, Rerun PROVE IInv'
<1>1. UpdatedOK(work')
  <2>1. StructureIsFixed \in BOOLEAN
    BY DEF StructureIsFixed
  <2> QED BY <2>1, BeginUpdated DEF IInv, Rerun, HeldOK
<1>2. stats' \in [made : Nat, accepted : Nat]
  BY DEF IInv, Rerun
<1> QED
  BY <1>1, <1>2, EmptyHistory DEF IInv, Rerun, Iterating, Steps, Running

LEMMA ProposeInv == ASSUME IInv, Propose PROVE IInv'
<1> DEFINE next == DeepCopy(curr)
<1>1. PICK name \in FreeNames(curr) :
        \E val \in Proposal(GetRecord(next, name).erp, GetRecord(next, name).val,
                            GetRecord(next, name).params) :
          work' = BeginUpdate(SetVar(next, name, val), StructureIsFixed)
  BY DEF Propose
<1>2. /\ TraceOK(next)
      /\ DOMAIN next.vars = {ListRecord(curr, k).name : k \in DOMAIN curr.varlist}
      /\ NamedRecords(next)
  BY DeepCopyOK DEF IInv, HeldOK, NamedRecords
<1> HIDE DEF next
<1>3. name \in DOMAIN next.vars
  <2>1. name \in DOMAIN curr.vars
    BY DEF FreeNames, FreeVarNames
  <2>2. PICK k \in DOMAIN curr.varlist : curr.vars[name] = curr.varlist[k]
    BY <2>1 DEF IInv, HeldOK, AllListed, Listed
  <2>3. ListRecord(curr, k).name = name
    BY <2>1, <2>2 DEF IInv, HeldOK, NamedRecords, GetRecord, ListRecord
  <2> QED BY <1>2, <2>3
<1>4. RecordOK(GetRecord(next, name))
  BY <1>2, <1>3 DEF TraceOK, GetRecord
<1>5. PICK val \in Value : work' = BeginUpdate(SetVar(next, name, val), StructureIsFixed)
  BY <1>1, <1>4, ErpAssumption DEF RecordOK
<1>6. TraceOK(SetVar(next, name, val)) /\ NamedRecords(SetVar(next, name, val))
  <2> DEFINE set == SetVar(next, name, val)
  <2>1. /\ TraceOK(set)
        /\ set.vars = next.vars /\ DOMAIN set.recs = DOMAIN next.recs
        /\ \A k \in DOMAIN next.recs : set.recs[k].name = next.recs[k].name
    BY <1>2, <1>3, SetVarOK
  <2> HIDE DEF set
  <2>2. NamedRecords(set)
    BY <1>2, <2>1 DEF NamedRecords, GetRecord, TraceOK
  <2> QED BY <2>1, <2>2 DEF set
<1>7. UpdatedOK(work')
  <2>1. StructureIsFixed \in BOOLEAN
    BY DEF StructureIsFixed
  <2> QED BY <1>5, <1>6, <2>1, BeginUpdated
<1>8. stats' \in [made : Nat, accepted : Nat]
  BY DEF IInv, Propose
<1>9. HasFields(prop', {"name", "fwd", "rvs"})
  BY DEF Propose, HasFields
<1> QED
  BY <1>7, <1>8, <1>9, EmptyHistory DEF IInv, Propose, Iterating, Steps, Running

LEMMA EndProposalInv == ASSUME IInv, EndProposal PROVE IInv'
<1>1. HeldOK(work')
  <2>1. Call.val \in Value
    BY CallTypes DEF IInv, EndProposal, Call
  <2> QED BY <2>1, EndUpdateHeld DEF IInv, EndProposal
<1>2. UpdatedOK(work')
  BY <1>1, HeldIsUpdated
<1>3. HasFields(prop', {"name", "fwd", "rvs"})
  BY DEF IInv, EndProposal, HasFields
<1> QED BY <1>1, <1>2, <1>3, EmptyHistory DEF IInv, EndProposal, Steps, Running

\* The end of an iteration, whichever trace it keeps.
LEMMA NextReturnsInv ==
  ASSUME IInv, pc \in {"rerunning", "deciding"}, NEW tr, HeldOK(tr), NextReturns(tr),
         hist' \in Histories(prog), prog' = prog,
         stats' \in [made : Nat, accepted : Nat]
  PROVE  IInv'
<1>1. i' \in 1..NumSamps * Lag + 1
  <2> DEFINE n == NumSamps * Lag
  <2>1. n \in Nat /\ i \in 1..n + 1 /\ i <= n /\ i' = i + 1
    BY BoundType DEF IInv, NextReturns
  <2> HIDE DEF n
  <2>2. i' \in 1..n + 1
    BY <2>1
  <2> QED BY <2>2 DEF n
<1>2. samps' \in Seq(Samples)
  <2>1. [sample |-> tr.returnValue, logprob |-> tr.logprob] \in Samples
    BY DEF HeldOK, TraceOK, Samples
  <2> QED BY <2>1, AppendTo DEF IInv, NextReturns
<1>3. HeldOK(curr') /\ UpdatedOK(work')
  BY EmptyTraceHeld, HeldIsUpdated DEF NextReturns
<1>4. pc' = "iterating" /\ prop' = None
  <2>1. pc = "rerunning" => prop = None
    BY DEF IInv
  <2> QED BY <2>1 DEF NextReturns
<1> QED
  BY <1>1, <1>2, <1>3, <1>4 DEF IInv, Steps, Running

LEMMA EndRerunInv == ASSUME IInv, EndRerun PROVE IInv'
<1>1. HeldOK(EndUpdate(work, Call.val))
  <2>1. Call.val \in Value
    BY CallTypes DEF IInv, EndRerun, Call
  <2> QED BY <2>1, EndUpdateHeld DEF IInv
<1>2. stats' \in [made : Nat, accepted : Nat]
  BY DEF IInv, EndRerun
<1>3. hist' \in Histories(prog) /\ prog' = prog
  BY EmptyHistory DEF EndRerun
<1>4. pc = "rerunning" /\ NextReturns(EndUpdate(work, Call.val))
  BY DEF EndRerun
<1> QED BY <1>1, <1>2, <1>3, <1>4, NextReturnsInv

LEMMA AcceptInv == ASSUME IInv, Accept PROVE IInv'
<1>1. HeldOK(work)
  BY DEF IInv, Accept
<1>2. stats' \in [made : Nat, accepted : Nat]
  BY DEF IInv, Accept
<1>3. hist' \in Histories(prog) /\ prog' = prog
  BY DEF IInv, Accept
<1>4. pc = "deciding" /\ NextReturns(work)
  BY DEF Accept
<1> QED BY <1>1, <1>2, <1>3, <1>4, NextReturnsInv

LEMMA RejectInv == ASSUME IInv, Reject PROVE IInv'
<1>1. HeldOK(curr)
  BY DEF IInv
<1>2. stats' \in [made : Nat, accepted : Nat]
  BY DEF IInv, Reject
<1>3. hist' \in Histories(prog) /\ prog' = prog
  BY DEF IInv, Reject
<1>4. pc = "deciding" /\ NextReturns(curr)
  BY DEF Reject
<1> QED BY <1>1, <1>2, <1>3, <1>4, NextReturnsInv

LEMMA InitInv == Init => IInv
<1> SUFFICES ASSUME Init PROVE IInv
  OBVIOUS
<1>1. HeldOK(EmptyTrace) /\ UpdatedOK(EmptyTrace)
  BY EmptyTraceHeld, HeldIsUpdated
<1>2. <<>> \in Histories(prog)
  BY ComputationAssumption DEF Init
<1>3. i \in 1..NumSamps * Lag + 1
  <2> DEFINE n == NumSamps * Lag
  <2>1. n \in Nat
    BY BoundType
  <2> HIDE DEF n
  <2>2. 1 \in 1..n + 1
    BY <2>1
  <2> QED BY <2>2 DEF n, Init
<1>4. samps \in Seq(Samples)
  BY DEF Init
<1> QED
  BY <1>1, <1>2, <1>3, <1>4 DEF Init, IInv, Steps, Running

LEMMA NextInv == IInv /\ [Next]_vars => IInv'
<1> SUFFICES ASSUME IInv, [Next]_vars PROVE IInv'
  OBVIOUS
<1>1. CASE Execute
  BY <1>1, LookupListedInv, LookupNamedInv, LookupNewInv, CallFactorInv, CallConditionInv,
     CallNestedInv DEF Execute
<1>2. CASE Attempt \/ EndAttempt \/ Initialised
  BY <1>2, AttemptInv, EndAttemptInv, InitialisedInv
<1>3. CASE Rerun \/ EndRerun
  BY <1>3, RerunInv, EndRerunInv
<1>4. CASE Propose \/ EndProposal \/ Accept \/ Reject
  BY <1>4, ProposeInv, EndProposalInv, AcceptInv, RejectInv
<1>5. CASE Finish
  BY <1>5 DEF Finish, IInv, Steps, Running
<1>6. CASE UNCHANGED vars
  BY <1>6 DEF vars, IInv, Call
<1> QED
  BY <1>1, <1>2, <1>3, <1>4, <1>5, <1>6 DEF Next, Done

\* Type correctness of every state of the chain: in particular every record
\* that a lookup, a copy or a proposal reaches exists, and the position in the
\* flat list never passes the end of the list by more than one
\* (trace.lua:222-224, 260-263).
THEOREM TypeCorrect == Spec => []TypeOK
<1>1. IInv => TypeOK
  BY DEF IInv, TypeOK, HeldOK, UpdatedOK, Samples
<1> QED
  BY <1>1, InitInv, NextInv, PTL DEF Spec

\* The acceptance test can be passed by a trace whose log probability is a
\* number or plus infinity only, whatever the other terms of the threshold are
\* (inference.lua:95-98): minus infinity and NaN survive every sum, and no log
\* of a random number is below either.
LEMMA AcceptedIsPossible == ASSUME Accept PROVE curr'.logprob \notin {NegInf, NaN}
<1>1. curr' = work /\ LogRandomBelow(AcceptThresh)
  BY DEF Accept, NextReturns
<1>2. AcceptThresh \notin {NegInf, NaN}
  BY <1>1 DEF LogRandomBelow
<1> SUFFICES ASSUME work.logprob \in {NegInf, NaN} PROVE FALSE
  BY <1>1
<1>3. Minus(work.logprob, curr.logprob) \in {NegInf, NaN}
  BY PlusImpossible
<1> DEFINE rvs == Minus(prop.rvs, Log(Cardinality(FreeNames(work))))
           fwd == Minus(prop.fwd, Log(Cardinality(FreeNames(curr))))
<1>4. Plus(Minus(work.logprob, curr.logprob), rvs) \in {NegInf, NaN}
  BY <1>3, PlusImpossible
<1>5. Minus(Plus(Minus(work.logprob, curr.logprob), rvs), fwd) \in {NegInf, NaN}
  BY <1>4, PlusImpossible
<1> QED
  BY <1>2, <1>5 DEF AcceptThresh

\* No proposal is accepted into an impossible trace.
THEOREM NeverAcceptsImpossible == Spec => AcceptsOnlyPossible
<1>1. IInv /\ [Next]_vars =>
        [stats'.accepted # stats.accepted => curr'.logprob \notin {NegInf, NaN}]_vars
  <2> SUFFICES ASSUME IInv, Next, stats'.accepted # stats.accepted
               PROVE  curr'.logprob \notin {NegInf, NaN}
    BY DEF vars
  <2>1. CASE Accept
    BY <2>1, AcceptedIsPossible
  <2>2. CASE Rerun \/ Propose
    BY <2>2 DEF IInv, Rerun, Propose
  <2>3. CASE Execute
    BY <2>3 DEF Execute, LookupListed, LookupNamed, LookupNew, Lookup, CallFactor, CallCondition,
                CallNested
  <2>4. CASE Attempt \/ EndAttempt \/ Initialised \/ EndRerun \/ EndProposal \/ Reject \/ Finish \/ Done
    BY <2>4 DEF Attempt, EndAttempt, Initialised, EndRerun, EndProposal, Reject, Finish, Done, vars
  <2> QED
    BY <2>1, <2>2, <2>3, <2>4 DEF Next
<1> QED
  BY <1>1, InitInv, NextInv, PTL DEF Spec, AcceptsOnlyPossible

(***************************************************************************)
(* The inductive invariant: a trace is updated from the choices of curr,   *)
(* as the proposal changed them (or from none, in newTrace), and a trace   *)
(* between updates is an execution. With the structure fixed the update    *)
(* takes its records from the flat list.                                   *)
(***************************************************************************)

Proposed(A, cu, name) ==
  \E val \in Proposal(ChoicesOf(cu)[name].erp, ChoicesOf(cu)[name].val, ChoicesOf(cu)[name].params) :
    A = With(ChoicesOf(cu), name, val)

\* The assignments that the update in progress, or the last one, may go by.
IsBase(A) ==
  \/ pc \in {"rejecting", "initialising"} /\ A = NoChoices
  \/ pc = "rerunning" /\ A = ChoicesOf(curr)
  \/ pc \in {"proposing", "deciding"} /\ Proposed(A, curr, prop.name)

\* newTrace never fixes the structure.
FixedNow == pc # "initialising" /\ StructureIsFixed

RunningAsExecution ==
  pc \in Running => \E A, s : IsBase(A) /\ UnderWay(prog, work, hist, A, s, FixedNow)
HeldAsExecution == Started => Held(prog, curr)
EndedAsExecution ==
  pc = "deciding" \/ (pc = "rejecting" /\ work.conditionsSatisfied) =>
    /\ Held(prog, work)
    /\ \E A : IsBase(A) /\ Reaches(prog, work, A)
ProposalFree ==
  /\ pc \in {"proposing", "deciding"} => prop.name \in FreeNames(curr)
  /\ pc = "rerunning" => FreeNames(curr) = {}

Chained == RunningAsExecution /\ HeldAsExecution /\ EndedAsExecution /\ ProposalFree

LEMMA ChainedInit == Init => Chained
<1> SUFFICES ASSUME Init PROVE Chained
  OBVIOUS
<1>1. pc = "rejecting" /\ ~work.conditionsSatisfied
  BY EmptyTraceFields DEF Init
<1> QED
  BY <1>1 DEF Chained, RunningAsExecution, HeldAsExecution, EndedAsExecution, ProposalFree,
              Running, Started

\* A call of the program.
LEMMA CallChained ==
  ASSUME IInv, Chained, pc \in Running, UNCHANGED <<prog, curr, pc, prop>>, NEW val,
         hist' = Append(hist, val), NEW tr, work' = tr,
         \A A, s : UnderWay(prog, work, hist, A, s, FixedNow)
                    => UnderWay(prog, tr, Append(hist, val), A, s, FixedNow)
  PROVE  Chained'
<1>1. RunningAsExecution'
  <2>1. \E A, s : IsBase(A) /\ UnderWay(prog, work, hist, A, s, FixedNow)
    BY DEF Chained, RunningAsExecution
  <2>2. PICK A, s : IsBase(A) /\ UnderWay(prog, work, hist, A, s, FixedNow)
    BY <2>1
  <2>3. UnderWay(prog, tr, Append(hist, val), A, s, FixedNow)
    BY <2>2
  <2>4. IsBase(A)'
    BY <2>2 DEF IsBase
  <2>5. FixedNow' = FixedNow
    BY DEF FixedNow, StructureIsFixed
  <2>6. UnderWay(prog, work, hist, A, s, FixedNow)'
    BY <2>3, <2>5
  <2> QED
    BY <2>4, <2>6 DEF RunningAsExecution
<1>2. HeldAsExecution' /\ ProposalFree'
  BY DEF Chained, HeldAsExecution, ProposalFree, Started, FreeNames, StructureIsFixed
<1>3. EndedAsExecution'
  BY DEF EndedAsExecution, Running
<1> QED
  BY <1>1, <1>2, <1>3 DEF Chained

LEMMA ExecuteChained == ASSUME IInv, Chained, Execute PROVE Chained'
<1>1. pc \in Running /\ UNCHANGED <<prog, curr, pc, prop>>
  BY DEF Execute, LookupListed, LookupNamed, LookupNew, Lookup, CallFactor, CallCondition, CallNested
<1>2. prog \in Prog /\ hist \in Histories(prog) /\ UpdatedOK(work)
  BY DEF IInv
<1>3. CASE LookupListed
  <2>1. PICK tr : tr = ReuseListed(work, Call)
    OBVIOUS
  <2>2. PICK val : val = ListRecord(tr, work.currVarIndex).val
    OBVIOUS
  <2>3. Call.op = "erp" /\ VarIsInFlatList(work) /\ work' = tr /\ hist' = Append(hist, val)
    BY <1>3, <2>1, <2>2 DEF LookupListed, Lookup
  <2>4. ASSUME NEW A, NEW s, UnderWay(prog, work, hist, A, s, FixedNow)
        PROVE  UnderWay(prog, tr, Append(hist, val), A, s, FixedNow)
    BY <1>2, <2>1, <2>2, <2>3, <2>4, ListedGoesOn DEF Call
  <2> QED
    BY <1>1, <2>3, <2>4, CallChained
<1>4. CASE LookupNamed
  <2>1. PICK tr : tr = ReuseNamed(work, Call)
    OBVIOUS
  <2>2. PICK val : val = GetRecord(tr, CurrentName(Call, work.loopcounters)).val
    OBVIOUS
  <2>3. /\ Call.op = "erp" /\ ~VarIsInFlatList(work)
        /\ Matches(work, CurrentName(Call, work.loopcounters), Call)
        /\ work' = tr /\ hist' = Append(hist, val)
    BY <1>4, <2>1, <2>2 DEF LookupNamed, Lookup
  <2>4. ASSUME NEW A, NEW s, UnderWay(prog, work, hist, A, s, FixedNow)
        PROVE  UnderWay(prog, tr, Append(hist, val), A, s, FixedNow)
    BY <1>2, <2>1, <2>2, <2>3, <2>4, NamedGoesOn DEF Call
  <2> QED
    BY <1>1, <2>3, <2>4, CallChained
<1>5. CASE LookupNew
  <2>1. PICK val \in InitialValues(Call) :
          work' = Create(work, Call, val) /\ hist' = Append(hist, val)
    BY <1>5 DEF LookupNew, Lookup
  <2>2. /\ Call.op = "erp" /\ ~VarIsInFlatList(work)
        /\ ~Matches(work, CurrentName(Call, work.loopcounters), Call)
    BY <1>5 DEF LookupNew
  <2>3. PICK tr : tr = Create(work, Call, val)
    OBVIOUS
  <2>4. ASSUME NEW A, NEW s, UnderWay(prog, work, hist, A, s, FixedNow)
        PROVE  UnderWay(prog, tr, Append(hist, val), A, s, FixedNow)
    BY <1>2, <2>2, <2>3, <2>4, NewGoesOn DEF Call
  <2> QED
    BY <1>1, <2>1, <2>3, <2>4, CallChained
<1>6. CASE CallFactor
  <2>1. PICK val : val = None
    OBVIOUS
  <2>2. PICK tr : tr = AddFactor(work, Call.num)
    OBVIOUS
  <2>3. Call.op = "factor" /\ work' = tr /\ hist' = Append(hist, val)
    BY <1>6, <2>1, <2>2 DEF CallFactor
  <2>4. ASSUME NEW A, NEW s, UnderWay(prog, work, hist, A, s, FixedNow)
        PROVE  UnderWay(prog, tr, Append(hist, val), A, s, FixedNow)
    BY <1>2, <2>1, <2>2, <2>3, <2>4, FactorGoesOn DEF Call
  <2> QED
    BY <1>1, <2>3, <2>4, CallChained
<1>7. CASE CallCondition
  <2>1. PICK val : val = None
    OBVIOUS
  <2>2. PICK tr : tr = ConditionOn(work, Call.holds)
    OBVIOUS
  <2>3. Call.op = "condition" /\ work' = tr /\ hist' = Append(hist, val)
    BY <1>7, <2>1, <2>2 DEF CallCondition
  <2>4. ASSUME NEW A, NEW s, UnderWay(prog, work, hist, A, s, FixedNow)
        PROVE  UnderWay(prog, tr, Append(hist, val), A, s, FixedNow)
    BY <1>2, <2>1, <2>2, <2>3, <2>4, ConditionGoesOn DEF Call
  <2> QED
    BY <1>1, <2>3, <2>4, CallChained
<1>8. CASE CallNested
  <2>1. PICK val \in Call.outcomes : hist' = Append(hist, val)
    BY <1>8 DEF CallNested
  <2>2. Call.op = "nested" /\ work' = work
    BY <1>8 DEF CallNested
  <2>3. ASSUME NEW A, NEW s, UnderWay(prog, work, hist, A, s, FixedNow)
        PROVE  UnderWay(prog, work, Append(hist, val), A, s, FixedNow)
    BY <1>2, <2>1, <2>2, <2>3, NestedGoesOn DEF Call
  <2> QED
    BY <1>1, <2>1, <2>2, <2>3, CallChained
<1> QED
  BY <1>3, <1>4, <1>5, <1>6, <1>7, <1>8 DEF Execute

LEMMA AttemptChained == ASSUME IInv, Chained, Attempt PROVE Chained'
<1>1. TraceOK(work) /\ prog \in Prog
  BY DEF IInv, UpdatedOK
<1>2. PICK tr : tr = BeginUpdate(ClearVars(work), FALSE)
  OBVIOUS
<1>3. work' = tr /\ hist' = <<>> /\ pc' = "initialising" /\ prog' = prog
  BY <1>2 DEF Attempt
<1>4. IsBase(NoChoices)'
  BY <1>3 DEF IsBase
<1>5. PICK fixed : fixed = FALSE
  OBVIOUS
<1>6. UnderWay(prog, tr, <<>>, NoChoices, <<>>, fixed)
  BY <1>1, <1>2, <1>5, AttemptBegins
<1>7. FixedNow' = fixed
  BY <1>3, <1>5 DEF FixedNow
<1>8. RunningAsExecution'
  BY <1>3, <1>4, <1>6, <1>7 DEF RunningAsExecution
<1> QED
  BY <1>3, <1>8 DEF Chained, HeldAsExecution, EndedAsExecution, ProposalFree, Started

\* What the end of an update establishes.
LEMMA EndChained ==
  ASSUME IInv, Chained, pc \in Running, Call.op = "return"
  PROVE  /\ Held(prog, EndUpdate(work, Call.val))
         /\ \E A : IsBase(A) /\ Reaches(prog, EndUpdate(work, Call.val), A)
<1>1. \E A, s : IsBase(A) /\ UnderWay(prog, work, hist, A, s, FixedNow)
  BY DEF Chained, RunningAsExecution
<1>2. PICK A, s : IsBase(A) /\ UnderWay(prog, work, hist, A, s, FixedNow)
  BY <1>1
<1>3. Held(prog, EndUpdate(work, Call.val)) /\ Reaches(prog, EndUpdate(work, Call.val), A)
  BY <1>2, UpdateEnds DEF IInv, Call
<1> QED
  BY <1>2, <1>3

LEMMA EndAttemptChained == ASSUME IInv, Chained, EndAttempt PROVE Chained'
<1>1. /\ Held(prog, EndUpdate(work, Call.val))
      /\ \E A : IsBase(A) /\ Reaches(prog, EndUpdate(work, Call.val), A)
  BY EndChained DEF EndAttempt, Running
<1>2. PICK A : IsBase(A) /\ Reaches(prog, EndUpdate(work, Call.val), A)
  BY <1>1
<1>3. PICK tr : tr = EndUpdate(work, Call.val)
  OBVIOUS
<1>4. /\ work' = tr /\ pc' = "rejecting" /\ prog' = prog /\ curr' = curr
      /\ pc = "initialising"
  BY <1>3 DEF EndAttempt
<1>5. IsBase(A)'
  BY <1>2, <1>4 DEF IsBase
<1>6. Held(prog, tr) /\ Reaches(prog, tr, A)
  BY <1>1, <1>2, <1>3
<1>7. EndedAsExecution'
  BY <1>4, <1>5, <1>6 DEF EndedAsExecution
<1> QED
  BY <1>4, <1>7 DEF Chained, RunningAsExecution, HeldAsExecution, ProposalFree, Started, Running

LEMMA InitialisedChained == ASSUME IInv, Chained, Initialised PROVE Chained'
<1>1. Held(prog, work)
  BY DEF Chained, EndedAsExecution, Initialised
<1>2. curr' = work /\ pc' = "iterating" /\ prog' = prog
  BY DEF Initialised
<1>3. HeldAsExecution'
  BY <1>1, <1>2 DEF HeldAsExecution
<1> QED
  BY <1>2, <1>3 DEF Chained, RunningAsExecution, EndedAsExecution, ProposalFree, Running

\* The kernel fixes the structure of programs that keep it only.
LEMMA FixedKeeps ==
  ASSUME prog \in Prog PROVE StructureIsFixed \in BOOLEAN /\ (StructureIsFixed => KeepsStructure(prog))
BY FixedAssumption DEF StructureIsFixed

LEMMA RerunChained == ASSUME IInv, Chained, Rerun PROVE Chained'
<1>1. Held(prog, curr) /\ prog \in Prog
  BY DEF Chained, HeldAsExecution, Started, Rerun, Iterating, IInv
<1>2. Fixable(prog, curr)
  BY <1>1, HeldFixable
<1>3. PICK fixed \in BOOLEAN : fixed = StructureIsFixed
  BY DEF StructureIsFixed
<1>4. PICK tr : tr = BeginUpdate(curr, fixed)
  OBVIOUS
<1>5. PICK A : A = ChoicesOf(curr)
  OBVIOUS
<1>6. UnderWay(prog, tr, <<>>, A, Shapes(curr), fixed)
  BY <1>1, <1>2, <1>3, <1>4, <1>5, FixedKeeps, UpdateBegins
<1>7. /\ work' = tr /\ hist' = <<>> /\ pc' = "rerunning" /\ prog' = prog /\ curr' = curr
      /\ FreeNames(curr) = {}
  BY <1>3, <1>4 DEF Rerun
<1>8. IsBase(A)'
  BY <1>5, <1>7 DEF IsBase
<1>9. FixedNow' = fixed
  BY <1>3, <1>7 DEF FixedNow, StructureIsFixed
<1>10. RunningAsExecution'
  BY <1>6, <1>7, <1>8, <1>9 DEF RunningAsExecution
<1>11. HeldAsExecution' /\ ProposalFree'
  BY <1>1, <1>7 DEF HeldAsExecution, ProposalFree, FreeNames, StructureIsFixed
<1> QED
  BY <1>7, <1>10, <1>11 DEF Chained, EndedAsExecution

LEMMA ProposeChained == ASSUME IInv, Chained, Propose PROVE Chained'
<1>1. Held(prog, curr) /\ prog \in Prog
  BY DEF Chained, HeldAsExecution, Started, Propose, Iterating, IInv
<1> DEFINE next == DeepCopy(curr)
<1>2. /\ TraceOK(next) /\ NamedRecords(next) /\ Cached(next)
      /\ DOMAIN next.vars = DOMAIN curr.vars
      /\ ChoicesOf(next) = ChoicesOf(curr)
      /\ \A n \in DOMAIN curr.vars : GetRecord(next, n) = CopyRecord(GetRecord(curr, n))
  BY <1>1, CopiedChoices DEF Held
<1>3. FlatListIsDatabase(next) /\ Shapes(next) = Shapes(curr)
  BY <1>1, CopyList DEF Held
<1>4. PICK name \in FreeNames(curr) :
        LET var == GetRecord(next, name)
        IN  \E val \in Proposal(var.erp, var.val, var.params) :
              /\ work' = BeginUpdate(SetVar(next, name, val), StructureIsFixed)
              /\ prop'.name = name
  BY DEF Propose
<1>5. PICK val \in Proposal(GetRecord(next, name).erp, GetRecord(next, name).val,
                            GetRecord(next, name).params) :
        /\ work' = BeginUpdate(SetVar(next, name, val), StructureIsFixed)
        /\ prop'.name = name
  BY <1>4
<1> HIDE DEF next
<1>6. name \in DOMAIN curr.vars
  BY DEF FreeNames, FreeVarNames
<1>7. RecordOK(GetRecord(next, name))
  BY <1>2, <1>6 DEF TraceOK, GetRecord
<1>8. val \in Value
  BY <1>7, ErpAssumption DEF RecordOK
<1>9. PICK set : set = SetVar(next, name, val)
  OBVIOUS
<1>10. /\ TraceOK(set) /\ NamedRecords(set) /\ Cached(set)
       /\ ChoicesOf(set) = With(ChoicesOf(curr), name, val)
  BY <1>2, <1>6, <1>8, <1>9, SetChoices
<1>11. PICK fixed \in BOOLEAN : fixed = StructureIsFixed
  BY DEF StructureIsFixed
<1>12. PICK tr : tr = BeginUpdate(set, fixed)
  OBVIOUS
<1>13. PICK A : A = ChoicesOf(set)
  OBVIOUS
\* A kernel that fixes the structure changes no structural choice.
<1>14. \E s : UnderWay(prog, tr, <<>>, A, s, fixed)
  <2>1. CASE ~fixed
    <3>1. tr = BeginUpdate(set, FALSE)
      BY <1>12, <2>1
    <3>2. Updating(tr) /\ Follows(prog, tr, <<>>) /\ Moves(prog, tr, <<>>, A)
      BY <1>10, <1>13, <3>1, BegunAgain
    <3> QED
      BY <2>1, <3>2 DEF UnderWay, Freely
  <2>2. CASE fixed
    <3>1. GetRecord(curr, name).structural # TRUE
      BY <1>11, <2>2 DEF FreeNames, FreeVarNames
    <3>2. GetRecord(next, name).structural = GetRecord(curr, name).structural
      <4>1. PICK rec : rec = GetRecord(curr, name)
        OBVIOUS
      <4>2. RecordOK(rec)
        BY <1>6, <4>1 DEF IInv, HeldOK, TraceOK, GetRecord
      <4>3. CopyRecord(rec).structural = rec.structural
        BY <4>2 DEF CopyRecord, RecordOK, HasFields, RecordFields
      <4> QED
        BY <1>2, <1>6, <4>1, <4>3
    <3>3. ~IsFree(GetRecord(next, name).structural, GetRecord(next, name).conditioned)
      BY <3>1, <3>2 DEF IsFree
    <3>4. name \in DOMAIN next.vars
      BY <1>2, <1>6
    <3>5. FlatListIsDatabase(set) /\ Shapes(set) = Shapes(curr)
      BY <1>2, <1>3, <1>8, <1>9, <3>3, <3>4, SetList
    <3>6. Fixable(prog, set)
      BY <1>1, <1>10, <3>5, HeldPlanned DEF Fixable
    <3>7. fixed => KeepsStructure(prog)
      BY <1>1, <1>11, FixedKeeps
    <3>8. UnderWay(prog, tr, <<>>, A, Shapes(set), fixed)
      BY <1>1, <1>12, <1>13, <3>6, <3>7, UpdateBegins
    <3> QED
      BY <3>8
  <2> QED
    BY <2>1, <2>2
<1>15. PICK s : UnderWay(prog, tr, <<>>, A, s, fixed)
  BY <1>14
<1>16. /\ work' = tr /\ hist' = <<>> /\ pc' = "proposing" /\ prog' = prog /\ curr' = curr
       /\ prop'.name = name
  BY <1>5, <1>9, <1>11, <1>12 DEF Propose
<1>17. ChoicesOf(curr)[name] = ChoiceOf(GetRecord(next, name))
  BY <1>2, <1>6 DEF ChoicesOf
<1>18. Proposed(A, curr, name)
  BY <1>10, <1>13, <1>17 DEF Proposed, ChoiceOf
<1>19. IsBase(A)'
  BY <1>16, <1>18 DEF IsBase
<1>20. FixedNow' = fixed
  BY <1>11, <1>16 DEF FixedNow, StructureIsFixed
<1>21. RunningAsExecution'
  BY <1>15, <1>16, <1>19, <1>20 DEF RunningAsExecution
<1>22. HeldAsExecution' /\ ProposalFree'
  BY <1>1, <1>16 DEF HeldAsExecution, ProposalFree, FreeNames, StructureIsFixed
<1> QED
  BY <1>16, <1>21, <1>22 DEF Chained, EndedAsExecution

LEMMA EndProposalChained == ASSUME IInv, Chained, EndProposal PROVE Chained'
<1>1. /\ Held(prog, EndUpdate(work, Call.val))
      /\ \E A : IsBase(A) /\ Reaches(prog, EndUpdate(work, Call.val), A)
  BY EndChained DEF EndProposal, Running
<1>2. PICK A : IsBase(A) /\ Reaches(prog, EndUpdate(work, Call.val), A)
  BY <1>1
<1>3. PICK tr : tr = EndUpdate(work, Call.val)
  OBVIOUS
<1>4. prop'.name = prop.name
  BY DEF IInv, EndProposal, HasFields
<1>5. /\ work' = tr /\ pc' = "deciding" /\ prog' = prog /\ curr' = curr
      /\ pc = "proposing"
  BY <1>3 DEF EndProposal
<1>6. IsBase(A)'
  BY <1>2, <1>4, <1>5 DEF IsBase
<1>7. Held(prog, tr) /\ Reaches(prog, tr, A)
  BY <1>1, <1>2, <1>3
<1>8. EndedAsExecution'
  BY <1>5, <1>6, <1>7 DEF EndedAsExecution
<1>9. HeldAsExecution' /\ ProposalFree'
  BY <1>4, <1>5 DEF Chained, HeldAsExecution, ProposalFree, FreeNames, StructureIsFixed, Started
<1> QED
  BY <1>5, <1>8, <1>9 DEF Chained, RunningAsExecution, Running

\* The end of an iteration, whichever trace it keeps.
LEMMA NextReturnsChained ==
  ASSUME Chained, NEW tr, Held(prog, tr), NextReturns(tr), prog' = prog
  PROVE  Chained'
<1>1. curr' = tr /\ pc' = "iterating"
  BY DEF NextReturns
<1> QED
  BY <1>1 DEF Chained, RunningAsExecution, HeldAsExecution, EndedAsExecution, ProposalFree, Running

LEMMA EndRerunChained == ASSUME IInv, Chained, EndRerun PROVE Chained'
<1>1. Held(prog, EndUpdate(work, Call.val))
  BY EndChained DEF EndRerun, Running
<1>2. NextReturns(EndUpdate(work, Call.val)) /\ prog' = prog
  BY DEF EndRerun
<1> QED
  BY <1>1, <1>2, NextReturnsChained

LEMMA DecideChained == ASSUME IInv, Chained, Accept \/ Reject PROVE Chained'
<1>1. Held(prog, work) /\ Held(prog, curr)
  BY DEF Accept, Reject, Chained, EndedAsExecution, HeldAsExecution, Started
<1>2. prog' = prog /\ (NextReturns(work) \/ NextReturns(curr))
  BY DEF Accept, Reject
<1> QED
  BY <1>1, <1>2, NextReturnsChained

LEMMA NextChained == IInv /\ Chained /\ [Next]_vars => Chained'
<1> SUFFICES ASSUME IInv, Chained, [Next]_vars PROVE Chained'
  OBVIOUS
<1>1. CASE Execute
  BY <1>1, ExecuteChained
<1>2. CASE Attempt \/ EndAttempt \/ Initialised
  BY <1>2, AttemptChained, EndAttemptChained, InitialisedChained
<1>3. CASE Rerun \/ EndRerun
  BY <1>3, RerunChained, EndRerunChained
<1>4. CASE Propose \/ EndProposal \/ Accept \/ Reject
  BY <1>4, ProposeChained, EndProposalChained, DecideChained
<1>5. CASE Finish
  BY <1>5 DEF Finish, Chained, RunningAsExecution, HeldAsExecution, EndedAsExecution, ProposalFree,
              Running, Started
<1>6. CASE UNCHANGED vars
  BY <1>6 DEF vars, Chained, RunningAsExecution, HeldAsExecution, EndedAsExecution, ProposalFree,
              Started, IsBase, FreeNames, StructureIsFixed, FixedNow
<1> QED
  BY <1>1, <1>2, <1>3, <1>4, <1>5, <1>6 DEF Next, Done

LEMMA ProgramFixed == [Next]_vars => prog' = prog
BY DEF Next, vars, Execute, LookupListed, LookupNamed, LookupNew, Lookup, CallFactor, CallCondition,
       CallNested, Attempt, EndAttempt, Initialised, Rerun, EndRerun, Propose, EndProposal, Accept,
       Reject, Finish, Done

LEMMA ChainedAlways == Spec => [](IInv /\ Chained)
<1> DEFINE J == IInv /\ Chained
<1>1. Init => J
  BY InitInv, ChainedInit
<1>2. J /\ [Next]_vars => J'
  BY NextInv, NextChained
<1> QED
  BY <1>1, <1>2, PTL DEF Spec

\* Between updates, the flat list and the database of a trace hold the same
\* records, whatever the program and whatever was proposed: clearing the flat
\* list before an update (trace.lua:150-157) and the unreached variables after
\* it (trace.lua:172-183) keep the two together, and an update that fixes the
\* structure clears neither and need not.
THEOREM ListsAreDatabases == Spec => []FlatListsAreDatabases
<1>1. IInv /\ Chained => FlatListsAreDatabases
  BY DEF FlatListsAreDatabases, Chained, HeldAsExecution, EndedAsExecution, Held
<1> QED
  BY <1>1, ChainedAlways, PTL

\* After traceUpdate, a trace is what executing the program from its choices
\* gives.
THEOREM UpdatesAreExecutions == Spec => []TracesAreExecutions
<1>1. IInv /\ Chained => TracesAreExecutions
  BY DEF TracesAreExecutions, Chained, HeldAsExecution, EndedAsExecution, Held
<1> QED
  BY <1>1, ChainedAlways, PTL

\* The execution that an update has followed, by names and with none of its
\* records.
LEMMA FollowedOrder ==
  ASSUME NEW p, NEW h, NEW tr, NEW A, NEW s, NEW fixed, UnderWay(p, tr, h, A, s, fixed), TraceOK(tr)
  PROVE  \E e \in After(p, ChoicesOf(tr))[Len(h)] :
           /\ e.hist = h
           /\ e.order = [k \in 1..tr.currVarIndex - 1 |-> ListRecord(tr, k).name]
<1>1. HasFields(tr, TraceFields) /\ Len(tr.varlist) \in Nat /\ tr.currVarIndex \in Nat
  BY DEF TraceOK
<1>2. ASSUME NEW met, Follows(p, met, h), met.recs = tr.recs, met.vars = tr.vars,
             DOMAIN met.varlist = 1..tr.currVarIndex - 1,
             \A k \in 1..tr.currVarIndex - 1 : met.varlist[k] = tr.varlist[k]
      PROVE  \E e \in After(p, ChoicesOf(tr))[Len(h)] :
               /\ e.hist = h
               /\ e.order = [k \in 1..tr.currVarIndex - 1 |-> ListRecord(tr, k).name]
  <2> DEFINE B == ChoicesOf(tr)
             v == View(met, h, 0)
  <2>1. \A n \in ActiveNames(met) : n \in DOMAIN B /\ B[n] = ChoiceOf(GetRecord(met, n))
    BY <1>2 DEF ActiveNames, ChoicesOf, GetRecord
  <2>2. v \in After(p, B)[Len(h)]
    <3> HIDE DEF B
    <3> QED
      BY <1>2, <2>1 DEF Follows
  <2>3. v.hist = h /\ v.order = Names(met)
    BY DEF View
  <2>4. Names(met) = [k \in 1..tr.currVarIndex - 1 |-> ListRecord(tr, k).name]
    BY <1>2 DEF Names, ListRecord
  <2> QED
    BY <2>2, <2>3, <2>4
<1>3. CASE fixed
  <2>1. \E c : Freely(p, Met(tr, c), h, A)
    BY <1>3 DEF UnderWay, FixedAs
  <2>2. PICK c : Freely(p, Met(tr, c), h, A)
    BY <2>1
  <2>3. PICK met : met = Met(tr, c)
    OBVIOUS
  <2>4. /\ met.recs = tr.recs /\ met.vars = tr.vars
        /\ met.varlist = First(tr.varlist, tr.currVarIndex - 1)
    BY <1>1, <2>3, MetFields
  <2> QED
    BY <1>2, <2>2, <2>3, <2>4 DEF Freely, First
<1>4. CASE ~fixed
  <2>1. Updating(tr) /\ Follows(p, tr, h)
    BY <1>4 DEF UnderWay, Freely
  <2>2. tr.currVarIndex - 1 = Len(tr.varlist)
    BY <1>1, <2>1 DEF Updating, Listing
  <2>3. DOMAIN tr.varlist = 1..Len(tr.varlist)
    BY DEF TraceOK
  <2> QED
    BY <1>2, <2>1, <2>2, <2>3
<1> QED
  BY <1>3, <1>4

\* Call by call, an update does what executing the program by names does, also
\* where it takes the records from the flat list in turn.
THEOREM ListingsAgree == Spec => []FlatListAgrees
<1>1. IInv /\ Chained => FlatListAgrees
  <2> SUFFICES ASSUME IInv, Chained, pc \in Running
               PROVE  \E e \in After(prog, ChoicesOf(work))[Len(hist)] :
                        /\ e.hist = hist
                        /\ e.order = [k \in 1..work.currVarIndex - 1 |-> ListRecord(work, k).name]
    BY DEF FlatListAgrees
  <2>1. \E A, s : UnderWay(prog, work, hist, A, s, FixedNow)
    BY DEF Chained, RunningAsExecution
  <2>2. PICK A, s : UnderWay(prog, work, hist, A, s, FixedNow)
    BY <2>1
  <2> QED
    BY <2>2, FollowedOrder DEF IInv, UpdatedOK
<1> QED
  BY <1>1, ChainedAlways, PTL

(***************************************************************************)
(* The conditions of the program. With no free variable, the kernel        *)
(* executes the program again and does not look at the conditions.         *)
(***************************************************************************)

\* The choices that the kernel of p may change.
Changeable(p, A) ==
  {n \in DOMAIN A : /\ ~A[n].conditioned
                    /\ IF A[n].structural = TRUE THEN p \in Structural ELSE Nonstructural}

\* Where nothing can be changed, an execution that satisfies the conditions has
\* its choices satisfy them again.
RerunsHold ==
  \A p \in Prog : \A A :
    Assigns(A) /\ Changeable(p, A) = {} /\ (\E e \in ExecutionsFrom(p, A) : e.choices = A /\ e.holds)
      => \A e \in ExecutionsFrom(p, A) : e.holds

ConditionsKept == Started => curr.conditionsSatisfied

LEMMA FreeIsChangeable ==
  ASSUME NEW tr PROVE FreeNames(tr) = Changeable(prog, ChoicesOf(tr))
<1> DEFINE A == ChoicesOf(tr)
<1>1. ~StructureIsFixed <=> prog \in Structural
  BY DEF StructureIsFixed
<1>2. DOMAIN A = DOMAIN tr.vars
  BY DEF ChoicesOf
<1>3. ASSUME NEW n \in DOMAIN tr.vars
      PROVE  /\ A[n].conditioned = GetRecord(tr, n).conditioned
             /\ A[n].structural = GetRecord(tr, n).structural
  BY DEF ChoicesOf, ChoiceOf
<1> HIDE DEF A
<1>4. ASSUME NEW n \in DOMAIN tr.vars
      PROVE  n \in FreeNames(tr) <=> n \in Changeable(prog, A)
  <2>1. n \in FreeNames(tr) <=>
          /\ ~GetRecord(tr, n).conditioned
          /\ IF GetRecord(tr, n).structural = TRUE THEN ~StructureIsFixed ELSE Nonstructural
    BY Zenon DEF FreeNames, FreeVarNames
  <2>2. n \in Changeable(prog, A) <=>
          /\ ~A[n].conditioned
          /\ IF A[n].structural = TRUE THEN prog \in Structural ELSE Nonstructural
    BY <1>2, Zenon DEF Changeable
  <2> QED
    BY <1>1, <1>3, <2>1, <2>2, Zenon
<1> QED
  BY <1>2, <1>4 DEF FreeNames, FreeVarNames, Changeable, A

\* A rerun satisfies the conditions.
LEMMA RerunHolds ==
  ASSUME RerunsHold, IInv, Chained, ConditionsKept, EndRerun
  PROVE  EndUpdate(work, Call.val).conditionsSatisfied
<1> DEFINE tr == EndUpdate(work, Call.val)
<1>1. \E A : IsBase(A) /\ Reaches(prog, tr, A)
  BY EndChained DEF EndRerun, Running
<1>2. PICK A : IsBase(A) /\ Reaches(prog, tr, A)
  BY <1>1
<1>3. A = ChoicesOf(curr)
  BY <1>2 DEF IsBase, EndRerun
<1>4. curr.conditionsSatisfied /\ IsExecution(prog, curr)
  BY DEF ConditionsKept, Chained, HeldAsExecution, Held, Started, EndRerun
<1>5. \E e \in ExecutionsFrom(prog, A) : e.choices = A /\ e.holds
  BY <1>3, <1>4 DEF IsExecution
<1>6. Changeable(prog, A) = {}
  BY <1>3, FreeIsChangeable DEF Chained, ProposalFree, EndRerun
<1>7. prog \in Prog
  BY DEF IInv
<1>8. Assigns(A)
  <2>1. \A n \in DOMAIN curr.vars : GetRecord(curr, n).val \in Value
    BY DEF IInv, HeldOK, TraceOK, GetRecord, RecordOK
  <2> QED
    BY <1>3, <2>1 DEF Assigns, ChoicesOf, ChoiceOf
<1>9. \A e \in ExecutionsFrom(prog, A) : e.holds
  BY <1>5, <1>6, <1>7, <1>8 DEF RerunsHold
<1> QED
  BY <1>2, <1>9 DEF Reaches

LEMMA ConditionsStep ==
  ASSUME RerunsHold, IInv, Chained, ConditionsKept, [Next]_vars
  PROVE  ConditionsKept'
<1>1. CASE Execute
  BY <1>1 DEF Execute, LookupListed, LookupNamed, LookupNew, Lookup, CallFactor, CallCondition,
              CallNested, ConditionsKept, Started
<1>2. CASE Attempt \/ EndAttempt \/ Initialised
  BY <1>2 DEF Attempt, EndAttempt, Initialised, ConditionsKept, Started
<1>3. CASE Rerun \/ Propose \/ EndProposal \/ Finish \/ UNCHANGED vars
  BY <1>3 DEF Rerun, Propose, EndProposal, Finish, vars, Iterating, ConditionsKept, Started
<1>4. CASE EndRerun
  <2>1. curr' = EndUpdate(work, Call.val)
    BY <1>4 DEF EndRerun, NextReturns
  <2> QED
    BY <1>4, <2>1, RerunHolds DEF ConditionsKept
<1>5. CASE Accept \/ Reject
  BY <1>5 DEF Accept, Reject, NextReturns, ConditionsKept, Started
<1> QED
  BY <1>1, <1>2, <1>3, <1>4, <1>5 DEF Next, Done

LEMMA ConditionsAlways ==
  ASSUME RerunsHold
  PROVE  Spec => [](IInv /\ Chained /\ ConditionsKept)
<1> DEFINE J == IInv /\ Chained /\ ConditionsKept
<1>1. Init => J
  BY InitInv, ChainedInit DEF Init, ConditionsKept, Started
<1>2. J /\ [Next]_vars => J'
  BY NextInv, NextChained, ConditionsStep
<1> QED
  BY <1>1, <1>2, PTL DEF Spec

\* Every trace that mcmc holds between executions satisfies the conditions.
THEOREM SatisfiesConditions ==
  ASSUME RerunsHold PROVE Spec => []ConditionsHold
<1>1. IInv /\ Chained /\ ConditionsKept => ConditionsHold
  BY DEF ConditionsKept, ConditionsHold
<1> QED
  BY <1>1, ConditionsAlways, PTL

\* When no program makes a nested query, reruns satisfy the conditions that the
\* executions before them satisfied.
THEOREM RerunsAreSame ==
  ASSUME \A p \in Prog : NestsNothing(p) PROVE RerunsHold
<1> SUFFICES ASSUME NEW p \in Prog, NEW A, Assigns(A),
                    NEW e \in ExecutionsFrom(p, A), e.choices = A, e.holds,
                    NEW f \in ExecutionsFrom(p, A)
             PROVE  f.holds
  BY DEF RerunsHold
<1>1. e.holds = f.holds
  BY SameRerun
<1> QED
  BY <1>1

(***************************************************************************)
(* The chain of traces is a chain of samples: SampleChain, with its state  *)
(* taken from curr.                                                        *)
(***************************************************************************)

LEMMA SameExecutions ==
  ASSUME NEW p, NEW A PROVE Chain!ExecutionsFrom(p, A) = ExecutionsFrom(p, A)
BY Zenon
   DEF Chain!Count, Count, Chain!OuterName, OuterName, Chain!CounterKey, CounterKey,
       Chain!CurrentName, CurrentName, Chain!Bump, Bump, Chain!Plus, Plus,
       Chain!IsConditioned, IsConditioned, Chain!Usable, Usable, Chain!Choose, Choose,
       Chain!Continuations, Continuations, Chain!After, After, Chain!Start, Start,
       Chain!NoChoices, NoChoices, Chain!Lengths, Lengths, Chain!ExecutionsFrom, ExecutionsFrom

\* The state of the chain, as the instance defines it.
ChainState ==
  IF pc \in {"rejecting", "initialising"} THEN NoExecution
  ELSE [choices |-> ChoicesOf(curr), logprob |-> curr.logprob, returns |-> curr.returnValue]

LEMMA ChainStateExists == Started => ChainState # NoExecution
<1>1. ASSUME NEW a, NEW b, NEW c
      PROVE  [choices |-> a, logprob |-> b, returns |-> c] # <<>>
  <2>1. "choices" \in DOMAIN [choices |-> a, logprob |-> b, returns |-> c]
    OBVIOUS
  <2>2. "choices" \notin DOMAIN <<>>
    OBVIOUS
  <2> QED
    BY <2>1, <2>2
<1> QED
  BY <1>1 DEF Started, ChainState, NoExecution

LEMMA FreeChoicesAre ==
  ASSUME NEW A PROVE Chain!FreeChoices(A) = Changeable(prog, A)
<1>1. ASSUME NEW n PROVE n \in Chain!FreeChoices(A) <=> n \in Changeable(prog, A)
  BY Zenon DEF Chain!FreeChoices, Changeable
<1> QED
  BY <1>1

\* An execution that a trace is the result of is one that the chain visits.
Visited(e, tr) ==
  /\ e.holds
  /\ [choices |-> e.choices, logprob |-> e.logprob, returns |-> e.returns]
       = [choices |-> ChoicesOf(tr), logprob |-> tr.logprob, returns |-> tr.returnValue]

LEMMA ReachedIsVisited ==
  ASSUME NEW p, NEW tr, NEW A, Reaches(p, tr, A), tr.conditionsSatisfied
  PROVE  \E e \in Chain!ExecutionsFrom(p, A) : Visited(e, tr) /\ e.logprob = tr.logprob
BY SameExecutions DEF Reaches, Visited

LEMMA FirstRefines ==
  ASSUME IInv, Chained, Initialised PROVE Chain!First
<1>1. \E A : IsBase(A) /\ Reaches(prog, work, A)
  BY DEF Chained, EndedAsExecution, Initialised
<1>2. Reaches(prog, work, NoChoices) /\ work.conditionsSatisfied
  BY <1>1 DEF IsBase, Initialised
<1>3. PICK e \in Chain!ExecutionsFrom(prog, NoChoices) : Visited(e, work)
  BY <1>2, ReachedIsVisited
<1>4. /\ pc = "rejecting" /\ pc' = "iterating" /\ curr' = work
      /\ UNCHANGED <<prog, i, samps>>
  BY DEF Initialised
<1>5. ChainState = NoExecution
  BY <1>4 DEF ChainState
<1>6. ChainState' = [choices |-> e.choices, logprob |-> e.logprob, returns |-> e.returns]
  BY <1>3, <1>4 DEF ChainState, Visited
<1> QED
  BY <1>3, <1>4, <1>5, <1>6
  DEF Chain!First, Chain!Visit, ChainState, Visited, Chain!NoExecution, NoExecution,
      Chain!NoChoices, NoChoices

\* The end of an iteration that keeps the trace tr.
LEMMA SampleRefines ==
  ASSUME IInv, NEW tr, NextReturns(tr), prog' = prog, pc \in {"rerunning", "deciding"}
  PROVE  /\ ChainState' = [choices |-> ChoicesOf(tr), logprob |-> tr.logprob,
                           returns |-> tr.returnValue]
         /\ ChainState # NoExecution /\ ChainState.choices = ChoicesOf(curr)
         /\ i <= NumSamps * Lag /\ i' = i + 1
         /\ samps' = IF i % Lag = 0
                     THEN Append(samps, [sample |-> ChainState'.returns,
                                         logprob |-> ChainState'.logprob])
                     ELSE samps
<1>1. ChainState' = [choices |-> ChoicesOf(tr), logprob |-> tr.logprob, returns |-> tr.returnValue]
  BY DEF ChainState, NextReturns
<1>2. /\ ChainState = [choices |-> ChoicesOf(curr), logprob |-> curr.logprob,
                       returns |-> curr.returnValue]
      /\ ChainState # NoExecution
  BY ChainStateExists DEF ChainState, Started
<1>3. i <= NumSamps * Lag /\ i' = i + 1
  BY DEF IInv, NextReturns
<1>4. samps' = IF i % Lag = 0
               THEN Append(samps, [sample |-> tr.returnValue, logprob |-> tr.logprob])
               ELSE samps
  BY DEF NextReturns
<1> QED
  BY <1>1, <1>2, <1>3, <1>4

LEMMA EndRerunRefines ==
  ASSUME RerunsHold, IInv, Chained, ConditionsKept, EndRerun PROVE Chain!Step
<1>1. PICK tr : tr = EndUpdate(work, Call.val)
  OBVIOUS
<1>2. /\ pc = "rerunning" /\ NextReturns(tr) /\ prog' = prog
  BY <1>1 DEF EndRerun
<1>3. tr.conditionsSatisfied
  BY <1>1, RerunHolds
<1>4. \E A : IsBase(A) /\ Reaches(prog, tr, A)
  BY <1>1, EndChained DEF EndRerun, Running
<1>5. Reaches(prog, tr, ChoicesOf(curr))
  BY <1>2, <1>4 DEF IsBase
<1>6. PICK e \in Chain!ExecutionsFrom(prog, ChoicesOf(curr)) : Visited(e, tr)
  BY <1>3, <1>5, ReachedIsVisited
<1>7. Chain!FreeChoices(ChoicesOf(curr)) = {}
  BY <1>2, FreeChoicesAre, FreeIsChangeable DEF Chained, ProposalFree
<1>8. /\ ChainState' = [choices |-> e.choices, logprob |-> e.logprob, returns |-> e.returns]
      /\ ChainState # NoExecution /\ ChainState.choices = ChoicesOf(curr)
      /\ i <= NumSamps * Lag /\ i' = i + 1
      /\ samps' = IF i % Lag = 0
                  THEN Append(samps, [sample |-> ChainState'.returns,
                                      logprob |-> ChainState'.logprob])
                  ELSE samps
  BY <1>2, <1>6, SampleRefines DEF Visited
<1> QED
  BY <1>2, <1>6, <1>7, <1>8
  DEF Chain!Step, Chain!Sample, Chain!Visit, ChainState, Visited, Chain!NoExecution, NoExecution

LEMMA AcceptRefines == ASSUME IInv, Chained, Accept PROVE Chain!Step
<1>1. /\ pc = "deciding" /\ NextReturns(work) /\ prog' = prog /\ work.conditionsSatisfied
  BY DEF Accept
<1>2. work.logprob \notin {NegInf, NaN}
  BY AcceptedIsPossible DEF Accept, NextReturns
<1> DEFINE A == ChoicesOf(curr)
           name == prop.name
           c == A[name]
<1>3. \E B : IsBase(B) /\ Reaches(prog, work, B)
  BY <1>1 DEF Chained, EndedAsExecution
<1>4. PICK val \in Proposal(c.erp, c.val, c.params) : Reaches(prog, work, With(A, name, val))
  BY <1>1, <1>3 DEF IsBase, Proposed
<1>5. PICK e \in Chain!ExecutionsFrom(prog, With(A, name, val)) :
        Visited(e, work) /\ e.logprob = work.logprob
  BY <1>1, <1>4, ReachedIsVisited
<1>6. name \in Chain!FreeChoices(A)
  BY <1>1, FreeChoicesAre, FreeIsChangeable DEF Chained, ProposalFree
<1>7. /\ ChainState' = [choices |-> e.choices, logprob |-> e.logprob, returns |-> e.returns]
      /\ ChainState # NoExecution /\ ChainState.choices = A
      /\ i <= NumSamps * Lag /\ i' = i + 1
      /\ samps' = IF i % Lag = 0
                  THEN Append(samps, [sample |-> ChainState'.returns,
                                      logprob |-> ChainState'.logprob])
                  ELSE samps
  BY <1>1, <1>5, SampleRefines DEF Visited
<1> HIDE DEF A, name
<1>8. \E n \in Chain!FreeChoices(A) : \E v \in Proposal(A[n].erp, A[n].val, A[n].params) :
        \E f \in Chain!ExecutionsFrom(prog, Chain!With(A, n, v)) :
          /\ f.logprob \notin {NegInf, NaN} /\ f.holds
          /\ ChainState' = [choices |-> f.choices, logprob |-> f.logprob, returns |-> f.returns]
  BY <1>2, <1>4, <1>5, <1>6, <1>7 DEF Visited, Chain!With, With
<1> QED
  BY <1>1, <1>7, <1>8
  DEF Chain!Step, Chain!Sample, Chain!Visit, ChainState, Chain!NoExecution, NoExecution

LEMMA RejectRefines == ASSUME IInv, Chained, Reject PROVE Chain!Step
<1>1. pc = "deciding" /\ NextReturns(curr) /\ prog' = prog
  BY DEF Reject
<1>2. ChainState = [choices |-> ChoicesOf(curr), logprob |-> curr.logprob,
                    returns |-> curr.returnValue]
  BY <1>1 DEF ChainState
<1>3. /\ ChainState' = ChainState
      /\ ChainState # NoExecution
      /\ i <= NumSamps * Lag /\ i' = i + 1
      /\ samps' = IF i % Lag = 0
                  THEN Append(samps, [sample |-> ChainState'.returns,
                                      logprob |-> ChainState'.logprob])
                  ELSE samps
  BY <1>1, <1>2, SampleRefines
<1> QED
  BY <1>1, <1>3 DEF Chain!Step, Chain!Sample, ChainState, Chain!NoExecution, NoExecution

LEMMA StepRefines ==
  ASSUME RerunsHold, IInv, Chained, ConditionsKept, [Next]_vars
  PROVE  [Chain!First \/ Chain!Step]_(Chain!svars)
<1>1. CASE Execute
  <2>1. UNCHANGED <<prog, pc, curr, i, samps>>
    BY <1>1 DEF Execute, LookupListed, LookupNamed, LookupNew, Lookup, CallFactor, CallCondition,
                CallNested
  <2> QED
    BY <2>1 DEF Chain!svars
<1>2. CASE Attempt \/ EndAttempt
  BY <1>2 DEF Attempt, EndAttempt, Chain!svars
<1>3. CASE Initialised
  BY <1>3, FirstRefines
<1>4. CASE Rerun \/ Propose \/ EndProposal \/ Finish \/ UNCHANGED vars
  BY <1>4 DEF Rerun, Propose, EndProposal, Finish, vars, Iterating, Chain!svars
<1>5. CASE EndRerun
  BY <1>5, EndRerunRefines
<1>6. CASE Accept \/ Reject
  BY <1>6, AcceptRefines, RejectRefines
<1> QED
  BY <1>1, <1>2, <1>3, <1>4, <1>5, <1>6 DEF Next, Done

\* The chain of traces that mcmc makes is a chain of samples: each of its steps
\* stays, or moves to what executing the program from the current choices, one
\* of them changed, gives.
THEOREM ChainImplemented ==
  ASSUME RerunsHold PROVE Spec => ImplementsChain
<1> DEFINE J == IInv /\ Chained /\ ConditionsKept
<1>1. Init => Chain!ChainInit
  BY DEF Init, Chain!ChainInit, Chain!NoExecution, NoExecution
<1>2. J /\ [Next]_vars => [Chain!First \/ Chain!Step]_(Chain!svars)
  BY StepRefines
<1>3. Spec => []J
  BY ConditionsAlways
<1> HIDE DEF J
<1> QED
  BY <1>1, <1>2, <1>3, PTL DEF Spec, ImplementsChain, Chain!ChainSpec
===============================================================================
