------------------------- MODULE ExecutionTraceProofs -------------------------
(***************************************************************************)
(* Lemmas about the traces of ExecutionTrace: sequences, log probabilities,*)
(* what each operation on a trace leaves well formed, and which records of *)
(* a trace its database and its flat list hold.                            *)
(***************************************************************************)
EXTENDS ExecutionTrace, TLAPS, WellFoundedInduction, NaturalsInduction, SequenceTheorems

(***************************************************************************)
(* Arithmetic of log probabilities.                                        *)
(***************************************************************************)

\* A sum is a log probability.
LEMMA PlusType == ASSUME NEW x, NEW y PROVE Plus(x, y) \in LP
BY SpecialsAssumption DEF Plus, LP

\* A sum with minus infinity or NaN is one of them, whatever else is added.
LEMMA PlusImpossible ==
  ASSUME NEW x \in {NegInf, NaN}, NEW y
  PROVE  Plus(x, y) \in {NegInf, NaN} /\ Minus(x, y) \in {NegInf, NaN}
BY SpecialsAssumption DEF Plus, Minus

(***************************************************************************)
(* Induction.                                                              *)
(***************************************************************************)

\* A set of numbers has a least one: the form in which induction is used here.
LEMMA Least ==
  ASSUME NEW T \in SUBSET Nat, T # {}
  PROVE  \E x \in T : \A y \in T : x <= y
<1> DEFINE R == OpToRel(<, Nat)
<1>1. IsWellFoundedOn(R, Nat)
  BY NatLessThanWellFounded
<1>2. \A x, y \in Nat : x < y => <<x, y>> \in R
  BY DEF OpToRel
<1> HIDE DEF R
<1>3. \E x \in T : \A y \in T : <<y, x>> \notin R
  BY <1>1, WFMin, Zenon
<1>4. ASSUME NEW x \in T, \A y \in T : <<y, x>> \notin R, NEW y \in T
      PROVE  x <= y
  <2>1. x \in Nat /\ y \in Nat
    OBVIOUS
  <2>2. ~(y < x)
    BY <2>1, <1>2, <1>4, Zenon
  <2> QED
    BY <2>1, <2>2
<1> QED
  BY <1>3, <1>4

\* Induction: a set of numbers with 0 and every successor up to m.
LEMMA Induction ==
  ASSUME NEW m \in Nat, NEW T, 0 \in T, \A i \in 0..m : i # 0 /\ i - 1 \in T => i \in T
  PROVE  0..m \subseteq T
<1> SUFFICES ASSUME (0..m) \ T # {}
             PROVE  FALSE
  OBVIOUS
<1>1. PICK i \in (0..m) \ T : \A a \in (0..m) \ T : i <= a
  <2>1. (0..m) \ T \in SUBSET Nat
    OBVIOUS
  <2> QED
    BY <2>1, Least
<1> QED
  BY <1>1

(***************************************************************************)
(* Sequences.                                                              *)
(***************************************************************************)

LEMMA SequenceDomain ==
  ASSUME NEW s, IsSequence(s)
  PROVE  Len(s) \in Nat /\ DOMAIN s = 1..Len(s)
BY DEF IsSequence

LEMMA FunctionSequence ==
  ASSUME NEW n \in Nat, NEW F, DOMAIN F = 1..n, F = [k \in 1..n |-> F[k]]
  PROVE  IsSequence(F) /\ Len(F) = n
BY DEF IsSequence

LEMMA AppendSequence ==
  ASSUME NEW s, IsSequence(s), NEW e
  PROVE  /\ IsSequence(Append(s, e))
         /\ Len(Append(s, e)) = Len(s) + 1
         /\ DOMAIN Append(s, e) = 1..Len(s) + 1
         /\ \A k \in 1..Len(s) : Append(s, e)[k] = s[k]
         /\ Append(s, e)[Len(s) + 1] = e
<1> DEFINE S == {s[k] : k \in DOMAIN s} \cup {e}
<1>1. s \in Seq(S)
  BY DEF IsSequence
<1>2. Append(s, e) \in Seq(S) /\ Len(Append(s, e)) = Len(s) + 1 /\ Len(s) \in Nat
  BY <1>1
<1>3. /\ \A k \in 1..Len(s) : Append(s, e)[k] = s[k]
      /\ Append(s, e)[Len(s) + 1] = e
  BY <1>1
<1>4. Append(s, e) \in [1..Len(s) + 1 -> S]
  BY <1>2, LenProperties
<1>5. IsSequence(Append(s, e))
  <2> DEFINE t == Append(s, e)  n == Len(s) + 1
  <2>1. n \in Nat /\ t \in [1..n -> S]
    BY <1>2, <1>4
  <2>2. DOMAIN t = 1..n /\ t = [k \in 1..n |-> t[k]]
    BY <2>1
  <2> HIDE DEF t, n
  <2> QED BY <2>1, <2>2, FunctionSequence DEF t
<1> QED BY <1>2, <1>3, <1>4, <1>5

LEMMA AppendTo ==
  ASSUME NEW S, NEW s \in Seq(S), NEW e \in S
  PROVE  /\ Append(s, e) \in Seq(S)
         /\ Len(Append(s, e)) = Len(s) + 1
         /\ Len(s) \in Nat
OBVIOUS

LEMMA ExceptSequence ==
  ASSUME NEW s, IsSequence(s), NEW k \in DOMAIN s, NEW e
  PROVE  /\ IsSequence([s EXCEPT ![k] = e])
         /\ DOMAIN [s EXCEPT ![k] = e] = DOMAIN s
         /\ Len([s EXCEPT ![k] = e]) = Len(s)
         /\ \A j \in DOMAIN s : [s EXCEPT ![k] = e][j] = IF j = k THEN e ELSE s[j]
<1> DEFINE t == [s EXCEPT ![k] = e]
<1>1. Len(s) \in Nat /\ DOMAIN s = 1..Len(s)
  BY SequenceDomain
<1>2. DOMAIN t = 1..Len(s) /\ t = [j \in 1..Len(s) |-> t[j]]
  BY <1>1
<1>3. IsSequence(t) /\ Len(t) = Len(s)
  BY <1>1, <1>2, FunctionSequence
<1> QED BY <1>1, <1>2, <1>3

(***************************************************************************)
(* The fields of a trace after each operation.                             *)
(***************************************************************************)

LEMMA EmptyTraceFields ==
  /\ HasFields(EmptyTrace, TraceFields)
  /\ EmptyTrace.recs = <<>> /\ EmptyTrace.vars = <<>> /\ EmptyTrace.varlist = <<>>
  /\ EmptyTrace.currVarIndex = 1 /\ EmptyTrace.loopcounters = <<>>
  /\ EmptyTrace.logprob = 0 /\ EmptyTrace.newlogprob = 0
  /\ EmptyTrace.conditionsSatisfied = FALSE /\ EmptyTrace.returnValue = None
BY DEF EmptyTrace, HasFields, TraceFields

LEMMA DeepCopyFields ==
  ASSUME NEW tr
  PROVE  LET new == DeepCopy(tr)
         IN  /\ HasFields(new, TraceFields)
             /\ new.recs = [k \in DOMAIN new.recs |-> new.recs[k]]
             /\ DOMAIN new.recs = DOMAIN tr.varlist
             /\ \A k \in DOMAIN new.recs : new.recs[k] = CopyRecord(ListRecord(tr, k))
             /\ new.varlist = [k \in DOMAIN new.varlist |-> new.varlist[k]]
             /\ DOMAIN new.varlist = DOMAIN tr.varlist
             /\ \A k \in DOMAIN new.varlist : new.varlist[k] = k
             /\ new.vars = [n \in DOMAIN new.vars |-> new.vars[n]]
             /\ DOMAIN new.vars = {ListRecord(tr, k).name : k \in DOMAIN tr.varlist}
             /\ \A n \in DOMAIN new.vars : new.vars[n] = LastPosition(tr, n)
             /\ new.currVarIndex = 1 /\ new.loopcounters = <<>>
             /\ new.logprob = tr.logprob /\ new.newlogprob = tr.newlogprob
             /\ new.conditionsSatisfied = tr.conditionsSatisfied
             /\ new.returnValue = tr.returnValue
BY DEF DeepCopy, EmptyTrace, HasFields, TraceFields

LEMMA BeginUpdateFields ==
  ASSUME NEW tr, HasFields(tr, TraceFields), NEW structureIsFixed
  PROVE  LET new == BeginUpdate(tr, structureIsFixed)
         IN  /\ HasFields(new, TraceFields)
             /\ new.recs = [id \in DOMAIN tr.recs |->
                              IF id \in Stored(tr) THEN [tr.recs[id] EXCEPT !.active = FALSE]
                                                   ELSE tr.recs[id]]
             /\ new.vars = tr.vars
             /\ new.varlist = IF structureIsFixed THEN tr.varlist ELSE <<>>
             /\ new.currVarIndex = 1 /\ new.loopcounters = <<>>
             /\ new.logprob = 0 /\ new.newlogprob = 0
             /\ new.conditionsSatisfied = TRUE
             /\ new.returnValue = tr.returnValue
BY DEF BeginUpdate, HasFields, TraceFields

LEMMA EndUpdateFields ==
  ASSUME NEW tr, HasFields(tr, TraceFields), NEW val
  PROVE  LET new == EndUpdate(tr, val)
         IN  /\ HasFields(new, TraceFields)
             /\ new.recs = tr.recs
             /\ new.vars = [n \in DOMAIN new.vars |-> new.vars[n]]
             /\ DOMAIN new.vars = ActiveNames(tr)
             /\ \A n \in DOMAIN new.vars : new.vars[n] = tr.vars[n]
             /\ new.varlist = tr.varlist
             /\ new.currVarIndex = tr.currVarIndex /\ new.loopcounters = <<>>
             /\ new.logprob = tr.logprob /\ new.newlogprob = tr.newlogprob
             /\ new.conditionsSatisfied = tr.conditionsSatisfied
             /\ new.returnValue = val
BY DEF EndUpdate, HasFields, TraceFields

LEMMA ReuseListedFields ==
  ASSUME NEW tr, HasFields(tr, TraceFields), NEW call
  PROVE  LET new == ReuseListed(tr, call)
             id == tr.varlist[tr.currVarIndex]
             rec == Refresh(tr.recs[id], call)
         IN  /\ HasFields(new, TraceFields)
             /\ new.recs = [tr.recs EXCEPT ![id] = rec]
             /\ new.vars = tr.vars /\ new.varlist = tr.varlist
             /\ new.currVarIndex = tr.currVarIndex + 1
             /\ new.loopcounters = tr.loopcounters
             /\ new.logprob = Plus(tr.logprob, rec.logprob)
             /\ new.newlogprob = tr.newlogprob
             /\ new.conditionsSatisfied = tr.conditionsSatisfied
             /\ new.returnValue = tr.returnValue
BY DEF ReuseListed, HasFields, TraceFields

LEMMA ReuseNamedFields ==
  ASSUME NEW tr, HasFields(tr, TraceFields), NEW call
  PROVE  LET new == ReuseNamed(tr, call)
             name == CurrentName(call, tr.loopcounters)
             id == tr.vars[name]
             rec == Refresh(tr.recs[id], call)
         IN  /\ HasFields(new, TraceFields)
             /\ new.recs = [tr.recs EXCEPT ![id] = rec]
             /\ new.vars = tr.vars /\ new.varlist = Append(tr.varlist, id)
             /\ new.currVarIndex = tr.currVarIndex + 1
             /\ new.loopcounters = Bump(tr.loopcounters, name[1])
             /\ new.logprob = Plus(tr.logprob, rec.logprob)
             /\ new.newlogprob = tr.newlogprob
             /\ new.conditionsSatisfied = tr.conditionsSatisfied
             /\ new.returnValue = tr.returnValue
BY DEF ReuseNamed, HasFields, TraceFields

LEMMA CreateFields ==
  ASSUME NEW tr, HasFields(tr, TraceFields), NEW call, NEW val
  PROVE  LET new == Create(tr, call, val)
             name == CurrentName(call, tr.loopcounters)
             ll == ErpLogprob(call.erp, val, call.params)
             id == Len(tr.recs) + 1
         IN  /\ HasFields(new, TraceFields)
             /\ new.vars = [n \in DOMAIN new.vars |-> new.vars[n]]
             /\ DOMAIN new.vars = DOMAIN tr.vars \cup {name}
             /\ \A n \in DOMAIN new.vars : new.vars[n] = IF n = name THEN id ELSE tr.vars[n]
             /\ new.varlist = Append(tr.varlist, id)
             /\ new.currVarIndex = tr.currVarIndex + 1
             /\ new.loopcounters = Bump(tr.loopcounters, name[1])
             /\ new.logprob = Plus(tr.logprob, ll)
             /\ new.newlogprob = Plus(tr.newlogprob, ll)
             /\ new.conditionsSatisfied = tr.conditionsSatisfied
             /\ new.returnValue = tr.returnValue
BY DEF Create, HasFields, TraceFields

LEMMA CreateRecs ==
  ASSUME NEW tr, HasFields(tr, TraceFields), NEW call, NEW val
  PROVE  LET name == CurrentName(call, tr.loopcounters)
             ll == ErpLogprob(call.erp, val, call.params)
         IN  Create(tr, call, val).recs =
               Append(tr.recs, NewRecord(name, call.erp, call.params, val, ll,
                                         call.structural, IsConditioned(call)))
BY DEF Create, HasFields, TraceFields

\* The operations that touch one field only.
LEMMA OtherFields ==
  ASSUME NEW tr, HasFields(tr, TraceFields), NEW x
  PROVE  /\ AddFactor(tr, x) = [tr EXCEPT !.logprob = Plus(tr.logprob, x)]
         /\ ConditionOn(tr, x) = [tr EXCEPT !.conditionsSatisfied = tr.conditionsSatisfied /\ x]
         /\ LET new == ClearVars(tr)
            IN  /\ HasFields(new, TraceFields)
                /\ new.recs = <<>> /\ new.vars = <<>> /\ new.varlist = <<>>
                /\ new.returnValue = tr.returnValue
BY DEF AddFactor, ConditionOn, ClearVars, HasFields, TraceFields

(***************************************************************************)
(* Types.                                                                  *)
(***************************************************************************)

LEMMA CopyRecordOK ==
  ASSUME NEW rec, RecordOK(rec)
  PROVE  RecordOK(CopyRecord(rec)) /\ CopyRecord(rec).name = rec.name
BY DEF RecordOK, CopyRecord, HasFields, RecordFields

LEMMA InactiveRecordOK ==
  ASSUME NEW rec, RecordOK(rec)
  PROVE  LET inactive == [rec EXCEPT !.active = FALSE]
         IN  RecordOK(inactive) /\ inactive.name = rec.name /\ ~inactive.active
BY DEF RecordOK, HasFields, RecordFields

LEMMA RefreshOK ==
  ASSUME NEW rec, RecordOK(rec), NEW call \in ErpCalls
  PROVE  /\ RecordOK(Refresh(rec, call))
         /\ Refresh(rec, call).name = rec.name
         /\ Refresh(rec, call).active
<1>1. /\ call.params \in Params /\ call.erp \in Erp
      /\ call.conditionedValue \in Value \cup {None}
  BY DEF ErpCalls
<1>2. \A v \in Value : ErpLogprob(call.erp, v, call.params) \in LP
  BY <1>1, ErpAssumption
<1> QED
  BY <1>1, <1>2 DEF RecordOK, Refresh, HasFields, RecordFields, IsConditioned

LEMMA NewRecordOK ==
  ASSUME NEW name, NEW call \in ErpCalls, NEW val \in Value
  PROVE  LET rec == NewRecord(name, call.erp, call.params, val,
                              ErpLogprob(call.erp, val, call.params),
                              call.structural, IsConditioned(call))
         IN  RecordOK(rec) /\ rec.name = name /\ rec.active
<1>1. /\ call.params \in Params /\ call.erp \in Erp
      /\ call.structural \in BOOLEAN \cup {None}
  BY DEF ErpCalls
<1>2. ErpLogprob(call.erp, val, call.params) \in LP
  BY <1>1, ErpAssumption
<1> QED
  BY <1>1, <1>2 DEF RecordOK, NewRecord, HasFields, RecordFields, IsConditioned

LEMMA LastPositionOK ==
  ASSUME NEW tr, NEW S, tr.varlist \in Seq(S),
         NEW name \in {ListRecord(tr, k).name : k \in DOMAIN tr.varlist}
  PROVE  /\ LastPosition(tr, name) \in DOMAIN tr.varlist
         /\ ListRecord(tr, LastPosition(tr, name)).name = name
<1> DEFINE n == Len(tr.varlist)
           positions == {k \in 1..n : ListRecord(tr, k).name = name}
           T == {n - k : k \in positions}
<1>1. n \in Nat /\ DOMAIN tr.varlist = 1..n
  OBVIOUS
<1>2. T \subseteq Nat /\ T # {}
  BY <1>1
<1>3. PICK x \in T : \A y \in T : x <= y
  <2> DEFINE R == {ss \in Nat \X Nat : ss[1] < ss[2]}
  <2>1. IsWellFoundedOn(R, Nat)
    BY NatLessThanWellFounded DEF OpToRel
  <2>2. PICK x \in T : \A y \in T : <<y, x>> \notin R
    <3> HIDE DEF T, R
    <3> QED BY <1>2, <2>1, WFMin
  <2>3. \A y \in T : ~(y < x)
    BY <1>2, <2>2
  <2> HIDE DEF T
  <2> QED BY <1>2, <2>2, <2>3
<1>4. PICK k \in positions : x = n - k
  BY <1>3
<1>5. ASSUME NEW j \in positions PROVE j <= k
  <2>1. x <= n - j
    BY <1>3
  <2> QED BY <1>1, <1>4, <2>1
<1>6. /\ k \in DOMAIN tr.varlist /\ ListRecord(tr, k).name = name
      /\ \A j \in DOMAIN tr.varlist : ListRecord(tr, j).name = name => j <= k
  BY <1>1, <1>4, <1>5
<1> QED
  BY <1>6 DEF LastPosition

LEMMA TraceOKIntro ==
  ASSUME NEW tr,
         HasFields(tr, TraceFields),
         IsSequence(tr.recs),
         \A id \in DOMAIN tr.recs : RecordOK(tr.recs[id]),
         tr.vars \in [DOMAIN tr.vars -> DOMAIN tr.recs],
         tr.varlist \in Seq(DOMAIN tr.recs),
         tr.currVarIndex \in 1..Len(tr.varlist) + 1,
         tr.loopcounters \in [DOMAIN tr.loopcounters -> Nat],
         {tr.logprob, tr.newlogprob} \subseteq LP,
         tr.conditionsSatisfied \in BOOLEAN,
         tr.returnValue \in Value \cup {None}
  PROVE  TraceOK(tr)
BY Zenon DEF TraceOK

LEMMA EmptyTraceOK == TraceOK(EmptyTrace)
<1> DEFINE new == EmptyTrace
<1>1. IsSequence(new.recs) /\ DOMAIN new.recs = {}
  BY EmptyTraceFields DEF IsSequence
<1>2. \A id \in DOMAIN new.recs : RecordOK(new.recs[id])
  BY <1>1
<1>3. new.vars \in [DOMAIN new.vars -> DOMAIN new.recs]
  BY EmptyTraceFields
<1>4. new.varlist \in Seq(DOMAIN new.recs) /\ new.currVarIndex \in 1..Len(new.varlist) + 1
  BY EmptyTraceFields
<1>5. new.loopcounters \in [DOMAIN new.loopcounters -> Nat]
  BY EmptyTraceFields
<1>6. /\ {new.logprob, new.newlogprob} \subseteq LP
      /\ new.returnValue \in Value \cup {None}
  BY EmptyTraceFields DEF LP
<1>7. new.conditionsSatisfied \in BOOLEAN /\ HasFields(new, TraceFields)
  BY EmptyTraceFields, Zenon
<1> QED
  BY <1>1, <1>2, <1>3, <1>4, <1>5, <1>6, <1>7, Zenon DEF TraceOK

LEMMA ClearVarsOK ==
  ASSUME NEW tr, TraceOK(tr)
  PROVE  /\ TraceOK(BeginUpdate(ClearVars(tr), FALSE))
         /\ BeginUpdate(ClearVars(tr), FALSE).vars = <<>>
         /\ BeginUpdate(ClearVars(tr), FALSE).varlist = <<>>
<1> DEFINE cleared == ClearVars(tr)
           new == BeginUpdate(cleared, FALSE)
<1>1. /\ HasFields(cleared, TraceFields) /\ cleared.recs = <<>> /\ cleared.vars = <<>>
      /\ cleared.returnValue = tr.returnValue
  BY OtherFields DEF TraceOK
<1> HIDE DEF cleared
<1>2. /\ HasFields(new, TraceFields)
      /\ new.recs = [id \in DOMAIN cleared.recs |->
                       IF id \in Stored(cleared) THEN [cleared.recs[id] EXCEPT !.active = FALSE]
                                                 ELSE cleared.recs[id]]
      /\ new.vars = cleared.vars
      /\ new.varlist = IF FALSE THEN cleared.varlist ELSE <<>>
      /\ new.currVarIndex = 1 /\ new.loopcounters = <<>>
      /\ new.logprob = 0 /\ new.newlogprob = 0
      /\ new.conditionsSatisfied = TRUE
      /\ new.returnValue = cleared.returnValue
  BY <1>1, BeginUpdateFields
<1>3. new.conditionsSatisfied \in BOOLEAN
  BY <1>2, Zenon
<1>4. new.vars = <<>> /\ new.varlist = <<>> /\ new.returnValue = tr.returnValue
  BY <1>1, <1>2
<1>5. DOMAIN cleared.recs = 1..0
  BY <1>1
<1> HIDE DEF new
<1>6. DOMAIN new.recs = 1..0 /\ new.recs = [id \in 1..0 |-> new.recs[id]]
  BY <1>2, <1>5
<1>7. IsSequence(new.recs)
  BY <1>6, FunctionSequence
<1>8. \A id \in DOMAIN new.recs : RecordOK(new.recs[id])
  BY <1>6
<1>9. /\ new.vars \in [DOMAIN new.vars -> DOMAIN new.recs]
      /\ new.varlist \in Seq(DOMAIN new.recs) /\ new.currVarIndex \in 1..Len(new.varlist) + 1
      /\ new.loopcounters \in [DOMAIN new.loopcounters -> Nat]
  BY <1>2, <1>4
<1>10. /\ {new.logprob, new.newlogprob} \subseteq LP
      /\ new.returnValue \in Value \cup {None}
  BY <1>2, <1>4 DEF LP, TraceOK
<1>11. TraceOK(new)
  BY <1>3, <1>2, <1>7, <1>8, <1>9, <1>10, Zenon DEF TraceOK
<1> QED
  BY <1>4, <1>11 DEF new, cleared

LEMMA BeginUpdateOK ==
  ASSUME NEW tr, TraceOK(tr), NEW structureIsFixed \in BOOLEAN
  PROVE  LET new == BeginUpdate(tr, structureIsFixed)
         IN  /\ TraceOK(new)
             /\ new.vars = tr.vars /\ DOMAIN new.recs = DOMAIN tr.recs
             /\ new.varlist = IF structureIsFixed THEN tr.varlist ELSE <<>>
             /\ \A id \in DOMAIN tr.recs : new.recs[id].name = tr.recs[id].name
             /\ \A id \in Stored(tr) : ~new.recs[id].active
<1> DEFINE new == BeginUpdate(tr, structureIsFixed)
<1>1. /\ HasFields(new, TraceFields)
      /\ new.recs = [id \in DOMAIN tr.recs |->
                       IF id \in Stored(tr) THEN [tr.recs[id] EXCEPT !.active = FALSE]
                                            ELSE tr.recs[id]]
      /\ new.vars = tr.vars
      /\ new.varlist = IF structureIsFixed THEN tr.varlist ELSE <<>>
      /\ new.currVarIndex = 1 /\ new.loopcounters = <<>>
      /\ new.logprob = 0 /\ new.newlogprob = 0
      /\ new.conditionsSatisfied = TRUE
      /\ new.returnValue = tr.returnValue
  BY BeginUpdateFields DEF TraceOK
<1> HIDE DEF new
<1>2. Len(tr.recs) \in Nat /\ DOMAIN tr.recs = 1..Len(tr.recs)
  BY SequenceDomain DEF TraceOK
<1>3. \A id \in DOMAIN tr.recs : RecordOK(tr.recs[id])
  BY DEF TraceOK
<1>4. DOMAIN new.recs = DOMAIN tr.recs
  BY <1>1
<1>5. \A id \in DOMAIN new.recs : RecordOK(new.recs[id])
  BY <1>1, <1>3, InactiveRecordOK
<1>6. \A id \in DOMAIN tr.recs : new.recs[id].name = tr.recs[id].name
  BY <1>1, <1>3, InactiveRecordOK
<1>7. \A id \in DOMAIN tr.recs : id \in Stored(tr) => ~new.recs[id].active
  BY <1>1, <1>3, InactiveRecordOK
<1>8. IsSequence(new.recs)
  BY <1>1, <1>2, FunctionSequence
<1>9. new.varlist \in Seq(DOMAIN new.recs) /\ new.currVarIndex \in 1..Len(new.varlist) + 1
  <2>1. tr.varlist \in Seq(DOMAIN tr.recs)
    BY DEF TraceOK
  <2>2. CASE structureIsFixed
    BY <1>1, <1>4, <2>1, <2>2
  <2>3. CASE ~structureIsFixed
    BY <1>1, <2>3
  <2> QED BY <2>2, <2>3
<1>10. /\ new.vars \in [DOMAIN new.vars -> DOMAIN new.recs]
      /\ new.loopcounters \in [DOMAIN new.loopcounters -> Nat]
      /\ {new.logprob, new.newlogprob} \subseteq LP
      /\ new.returnValue \in Value \cup {None}
  BY <1>1, <1>4 DEF LP, TraceOK
<1>11. new.conditionsSatisfied \in BOOLEAN
  BY <1>1, Zenon
<1>12. TraceOK(new)
  <2>1. HasFields(new, TraceFields)
    BY <1>1
  <2> QED BY <2>1, <1>5, <1>8, <1>9, <1>10, <1>11, TraceOKIntro, Zenon
<1>13. Stored(tr) \subseteq DOMAIN tr.recs
  BY DEF TraceOK, Stored
<1> QED
  BY <1>1, <1>4, <1>6, <1>7, <1>12, <1>13 DEF new

LEMMA EndUpdateOK ==
  ASSUME NEW tr, TraceOK(tr), NEW val \in Value
  PROVE  LET new == EndUpdate(tr, val)
         IN  /\ TraceOK(new)
             /\ DOMAIN new.vars = ActiveNames(tr)
             /\ \A n \in DOMAIN new.vars : new.vars[n] = tr.vars[n]
             /\ new.varlist = tr.varlist /\ new.recs = tr.recs
<1> DEFINE new == EndUpdate(tr, val)
<1>1. /\ HasFields(new, TraceFields)
      /\ new.recs = tr.recs
      /\ new.vars = [n \in DOMAIN new.vars |-> new.vars[n]]
      /\ DOMAIN new.vars = ActiveNames(tr)
      /\ \A n \in DOMAIN new.vars : new.vars[n] = tr.vars[n]
      /\ new.varlist = tr.varlist
      /\ new.currVarIndex = tr.currVarIndex /\ new.loopcounters = <<>>
      /\ new.logprob = tr.logprob /\ new.newlogprob = tr.newlogprob
      /\ new.conditionsSatisfied = tr.conditionsSatisfied
      /\ new.returnValue = val
  BY EndUpdateFields DEF TraceOK
<1> HIDE DEF new
<1>2. <<>> \in [DOMAIN <<>> -> Nat]
  OBVIOUS
<1>3. new.vars \in [DOMAIN new.vars -> DOMAIN tr.recs]
  BY <1>1 DEF ActiveNames, TraceOK
<1>4. TraceOK(new)
  BY <1>1, <1>2, <1>3 DEF TraceOK
<1> QED
  BY <1>1, <1>4 DEF new

LEMMA BumpType ==
  ASSUME NEW counters, counters \in [DOMAIN counters -> Nat], NEW key
  PROVE  Bump(counters, key) \in [DOMAIN Bump(counters, key) -> Nat]
BY DEF Bump, Count

LEMMA ReuseListedOK ==
  ASSUME NEW tr, TraceOK(tr), VarIsInFlatList(tr), NEW call \in ErpCalls
  PROVE  LET new == ReuseListed(tr, call)
             id == tr.varlist[tr.currVarIndex]
         IN  /\ TraceOK(new)
             /\ id \in Listed(tr) /\ id \in DOMAIN tr.recs
             /\ new.vars = tr.vars /\ new.varlist = tr.varlist
             /\ DOMAIN new.recs = DOMAIN tr.recs
             /\ \A k \in DOMAIN tr.recs : new.recs[k].name = tr.recs[k].name
             /\ \A k \in DOMAIN tr.recs : k # id => new.recs[k] = tr.recs[k]
             /\ new.recs[id].val \in Value
<1> DEFINE new == ReuseListed(tr, call)
           id == tr.varlist[tr.currVarIndex]
           rec == Refresh(tr.recs[id], call)
<1>1. /\ HasFields(new, TraceFields)
      /\ new.recs = [tr.recs EXCEPT ![id] = rec]
      /\ new.vars = tr.vars /\ new.varlist = tr.varlist
      /\ new.currVarIndex = tr.currVarIndex + 1
      /\ new.loopcounters = tr.loopcounters
      /\ new.logprob = Plus(tr.logprob, rec.logprob)
      /\ new.newlogprob = tr.newlogprob
      /\ new.conditionsSatisfied = tr.conditionsSatisfied
      /\ new.returnValue = tr.returnValue
  BY ReuseListedFields DEF TraceOK
<1>2. /\ tr.varlist \in Seq(DOMAIN tr.recs)
      /\ tr.currVarIndex \in 1..Len(tr.varlist)
  BY DEF TraceOK, VarIsInFlatList
<1>3. tr.currVarIndex \in DOMAIN tr.varlist /\ id \in DOMAIN tr.recs /\ id \in Listed(tr)
  BY <1>2 DEF Listed
<1>4. IsSequence(tr.recs) /\ \A k \in DOMAIN tr.recs : RecordOK(tr.recs[k])
  BY DEF TraceOK
<1>5. RecordOK(rec) /\ rec.name = tr.recs[id].name
  BY <1>3, <1>4, RefreshOK
<1> HIDE DEF new, rec, id
<1>6. /\ IsSequence(new.recs) /\ DOMAIN new.recs = DOMAIN tr.recs
      /\ \A k \in DOMAIN tr.recs : new.recs[k] = IF k = id THEN rec ELSE tr.recs[k]
  BY <1>1, <1>3, <1>4, ExceptSequence
<1>7. \A k \in DOMAIN new.recs : RecordOK(new.recs[k])
  BY <1>4, <1>5, <1>6
<1>8. \A k \in DOMAIN tr.recs : new.recs[k].name = tr.recs[k].name
  BY <1>5, <1>6
<1>9. new.recs[id].val \in Value
  BY <1>3, <1>6, <1>7 DEF RecordOK
<1>10. /\ new.vars \in [DOMAIN new.vars -> DOMAIN new.recs]
       /\ new.varlist \in Seq(DOMAIN new.recs)
       /\ new.currVarIndex \in 1..Len(new.varlist) + 1
       /\ new.loopcounters \in [DOMAIN new.loopcounters -> Nat]
       /\ new.returnValue \in Value \cup {None}
  BY <1>1, <1>2, <1>6 DEF TraceOK
<1>11. {new.logprob, new.newlogprob} \subseteq LP
  BY <1>1, PlusType DEF TraceOK
<1>12. new.conditionsSatisfied \in BOOLEAN
  BY <1>1, Zenon DEF TraceOK
<1>13. TraceOK(new)
  BY <1>1, <1>6, <1>7, <1>10, <1>11, <1>12, TraceOKIntro, Zenon
<1> QED
  BY <1>1, <1>3, <1>6, <1>8, <1>9, <1>13 DEF new, id

LEMMA ReuseNamedOK ==
  ASSUME NEW tr, TraceOK(tr), NEW call \in ErpCalls,
         Matches(tr, CurrentName(call, tr.loopcounters), call)
  PROVE  LET new == ReuseNamed(tr, call)
             name == CurrentName(call, tr.loopcounters)
             id == tr.vars[name]
         IN  /\ TraceOK(new)
             /\ name \in DOMAIN tr.vars /\ id \in DOMAIN tr.recs
             /\ new.vars = tr.vars /\ new.varlist = Append(tr.varlist, id)
             /\ DOMAIN new.recs = DOMAIN tr.recs
             /\ \A k \in DOMAIN tr.recs : new.recs[k].name = tr.recs[k].name
             /\ \A k \in DOMAIN tr.recs : k # id => new.recs[k] = tr.recs[k]
             /\ new.recs[id].val \in Value
<1> DEFINE new == ReuseNamed(tr, call)
           name == CurrentName(call, tr.loopcounters)
           id == tr.vars[name]
           rec == Refresh(tr.recs[id], call)
<1>1. /\ HasFields(new, TraceFields)
      /\ new.recs = [tr.recs EXCEPT ![id] = rec]
      /\ new.vars = tr.vars /\ new.varlist = Append(tr.varlist, id)
      /\ new.currVarIndex = tr.currVarIndex + 1
      /\ new.loopcounters = Bump(tr.loopcounters, name[1])
      /\ new.logprob = Plus(tr.logprob, rec.logprob)
      /\ new.newlogprob = tr.newlogprob
      /\ new.conditionsSatisfied = tr.conditionsSatisfied
      /\ new.returnValue = tr.returnValue
  BY ReuseNamedFields DEF TraceOK
<1>2. /\ tr.varlist \in Seq(DOMAIN tr.recs)
      /\ tr.currVarIndex \in 1..Len(tr.varlist) + 1
      /\ tr.loopcounters \in [DOMAIN tr.loopcounters -> Nat]
  BY DEF TraceOK
<1>3. name \in DOMAIN tr.vars /\ id \in DOMAIN tr.recs
  BY DEF Matches, TraceOK
<1>4. IsSequence(tr.recs) /\ \A k \in DOMAIN tr.recs : RecordOK(tr.recs[k])
  BY DEF TraceOK
<1>5. RecordOK(rec) /\ rec.name = tr.recs[id].name
  BY <1>3, <1>4, RefreshOK
<1> HIDE DEF new, rec, id, name
<1>6. /\ IsSequence(new.recs) /\ DOMAIN new.recs = DOMAIN tr.recs
      /\ \A k \in DOMAIN tr.recs : new.recs[k] = IF k = id THEN rec ELSE tr.recs[k]
  BY <1>1, <1>3, <1>4, ExceptSequence
<1>7. \A k \in DOMAIN new.recs : RecordOK(new.recs[k])
  BY <1>4, <1>5, <1>6
<1>8. \A k \in DOMAIN tr.recs : new.recs[k].name = tr.recs[k].name
  BY <1>5, <1>6
<1>9. new.recs[id].val \in Value
  BY <1>3, <1>6, <1>7 DEF RecordOK
<1>10. /\ new.vars \in [DOMAIN new.vars -> DOMAIN new.recs]
       /\ new.varlist \in Seq(DOMAIN new.recs)
       /\ new.currVarIndex \in 1..Len(new.varlist) + 1
       /\ new.returnValue \in Value \cup {None}
  BY <1>1, <1>2, <1>3, <1>6 DEF TraceOK
<1>11. new.loopcounters \in [DOMAIN new.loopcounters -> Nat]
  BY <1>1, <1>2, BumpType
<1>12. {new.logprob, new.newlogprob} \subseteq LP
  BY <1>1, PlusType DEF TraceOK
<1>13. new.conditionsSatisfied \in BOOLEAN
  BY <1>1, Zenon DEF TraceOK
<1>14. TraceOK(new)
  BY <1>1, <1>6, <1>7, <1>10, <1>11, <1>12, <1>13, TraceOKIntro, Zenon
<1> QED
  BY <1>1, <1>3, <1>6, <1>8, <1>9, <1>14 DEF new, id, name

LEMMA CreateOK ==
  ASSUME NEW tr, TraceOK(tr), NEW call \in ErpCalls, NEW val \in Value
  PROVE  LET new == Create(tr, call, val)
             name == CurrentName(call, tr.loopcounters)
             id == Len(tr.recs) + 1
         IN  /\ TraceOK(new)
             /\ DOMAIN new.vars = DOMAIN tr.vars \cup {name}
             /\ \A n \in DOMAIN new.vars : new.vars[n] = IF n = name THEN id ELSE tr.vars[n]
             /\ new.varlist = Append(tr.varlist, id)
             /\ DOMAIN new.recs = DOMAIN tr.recs \cup {id} /\ id \notin DOMAIN tr.recs
             /\ \A k \in DOMAIN tr.recs : new.recs[k] = tr.recs[k]
             /\ new.recs[id].name = name
<1> DEFINE new == Create(tr, call, val)
           name == CurrentName(call, tr.loopcounters)
           id == Len(tr.recs) + 1
           ll == ErpLogprob(call.erp, val, call.params)
           rec == NewRecord(name, call.erp, call.params, val, ll,
                            call.structural, IsConditioned(call))
<1>1. /\ HasFields(new, TraceFields)
      /\ new.recs = Append(tr.recs, rec)
      /\ new.vars = [n \in DOMAIN new.vars |-> new.vars[n]]
      /\ DOMAIN new.vars = DOMAIN tr.vars \cup {name}
      /\ \A n \in DOMAIN new.vars : new.vars[n] = IF n = name THEN id ELSE tr.vars[n]
      /\ new.varlist = Append(tr.varlist, id)
      /\ new.currVarIndex = tr.currVarIndex + 1
      /\ new.loopcounters = Bump(tr.loopcounters, name[1])
      /\ new.logprob = Plus(tr.logprob, ll)
      /\ new.newlogprob = Plus(tr.newlogprob, ll)
      /\ new.conditionsSatisfied = tr.conditionsSatisfied
      /\ new.returnValue = tr.returnValue
  <2>1. HasFields(tr, TraceFields)
    BY DEF TraceOK
  <2>2. new.recs = Append(tr.recs, rec)
    BY <2>1, CreateRecs, Zenon
  <2> HIDE DEF new, name, ll, id, rec
  <2> QED BY <2>1, <2>2, CreateFields DEF new, name, ll, id
<1>2. /\ tr.varlist \in Seq(DOMAIN tr.recs)
      /\ tr.currVarIndex \in 1..Len(tr.varlist) + 1
      /\ tr.loopcounters \in [DOMAIN tr.loopcounters -> Nat]
  BY DEF TraceOK
<1>3. IsSequence(tr.recs) /\ \A k \in DOMAIN tr.recs : RecordOK(tr.recs[k])
  BY DEF TraceOK
<1>4. RecordOK(rec) /\ rec.name = name
  BY NewRecordOK
<1>5. Len(tr.recs) \in Nat /\ DOMAIN tr.recs = 1..Len(tr.recs)
  BY <1>3, SequenceDomain
<1> HIDE DEF new, rec, name, ll
<1>6. /\ IsSequence(new.recs) /\ DOMAIN new.recs = 1..Len(tr.recs) + 1
      /\ \A k \in 1..Len(tr.recs) : new.recs[k] = tr.recs[k]
      /\ new.recs[id] = rec
  BY <1>1, <1>3, AppendSequence
<1>7. DOMAIN new.recs = DOMAIN tr.recs \cup {id} /\ id \notin DOMAIN tr.recs
  BY <1>5, <1>6
<1> HIDE DEF id
<1>8. \A k \in DOMAIN new.recs : RecordOK(new.recs[k])
  BY <1>3, <1>4, <1>5, <1>6, <1>7
<1>9. new.vars \in [DOMAIN new.vars -> DOMAIN new.recs]
  BY <1>1, <1>7 DEF TraceOK
<1>10. /\ new.varlist \in Seq(DOMAIN new.recs)
       /\ new.currVarIndex \in 1..Len(new.varlist) + 1
  <2>1. tr.varlist \in Seq(DOMAIN new.recs) /\ id \in DOMAIN new.recs
    BY <1>2, <1>7
  <2>2. /\ Append(tr.varlist, id) \in Seq(DOMAIN new.recs)
        /\ Len(Append(tr.varlist, id)) = Len(tr.varlist) + 1
        /\ Len(tr.varlist) \in Nat
    BY <2>1, AppendTo
  <2> QED BY <1>1, <1>2, <2>2
<1>11. new.loopcounters \in [DOMAIN new.loopcounters -> Nat]
  <2>1. new.loopcounters = Bump(tr.loopcounters, name[1])
    BY <1>1, Zenon
  <2>2. Bump(tr.loopcounters, name[1]) \in [DOMAIN Bump(tr.loopcounters, name[1]) -> Nat]
    BY <1>2, BumpType
  <2> QED BY <2>1, <2>2
<1>12. {new.logprob, new.newlogprob} \subseteq LP
  BY <1>1, PlusType
<1>13. new.conditionsSatisfied \in BOOLEAN
  BY <1>1, Zenon DEF TraceOK
<1>14. new.returnValue \in Value \cup {None}
  BY <1>1 DEF TraceOK
<1>15. TraceOK(new)
  BY <1>1, <1>6, <1>8, <1>9, <1>10, <1>11, <1>12, <1>13, <1>14, TraceOKIntro, Zenon
<1> QED
  BY <1>1, <1>4, <1>5, <1>6, <1>7, <1>15 DEF new, id, name

\* The operations that change one field.
LEMMA AddFactorOK ==
  ASSUME NEW tr, TraceOK(tr), NEW num
  PROVE  LET new == AddFactor(tr, num)
         IN  TraceOK(new) /\ new.recs = tr.recs /\ new.vars = tr.vars /\ new.varlist = tr.varlist
<1> DEFINE new == AddFactor(tr, num)
<1>1. /\ HasFields(new, TraceFields)
      /\ new.recs = tr.recs /\ new.vars = tr.vars /\ new.varlist = tr.varlist
      /\ new.currVarIndex = tr.currVarIndex /\ new.loopcounters = tr.loopcounters
      /\ new.logprob = Plus(tr.logprob, num) /\ new.newlogprob = tr.newlogprob
      /\ new.conditionsSatisfied = tr.conditionsSatisfied
      /\ new.returnValue = tr.returnValue
  BY DEF AddFactor, HasFields, TraceFields, TraceOK
<1> HIDE DEF new
<1>2. {new.logprob, new.newlogprob} \subseteq LP
  BY <1>1, PlusType DEF TraceOK
<1>3. TraceOK(new)
  BY <1>1, <1>2 DEF TraceOK
<1> QED
  BY <1>1, <1>3 DEF new

LEMMA ConditionOnOK ==
  ASSUME NEW tr, TraceOK(tr), NEW holds \in BOOLEAN
  PROVE  LET new == ConditionOn(tr, holds)
         IN  TraceOK(new) /\ new.recs = tr.recs /\ new.vars = tr.vars /\ new.varlist = tr.varlist
<1> DEFINE new == ConditionOn(tr, holds)
<1>1. /\ HasFields(new, TraceFields)
      /\ new.recs = tr.recs /\ new.vars = tr.vars /\ new.varlist = tr.varlist
      /\ new.currVarIndex = tr.currVarIndex /\ new.loopcounters = tr.loopcounters
      /\ new.logprob = tr.logprob /\ new.newlogprob = tr.newlogprob
      /\ new.returnValue = tr.returnValue
  BY DEF ConditionOn, HasFields, TraceFields, TraceOK
<1>2. new.conditionsSatisfied = (tr.conditionsSatisfied /\ holds)
  BY DEF ConditionOn, HasFields, TraceFields, TraceOK
<1> HIDE DEF new
<1>3. new.conditionsSatisfied \in BOOLEAN
  BY <1>2, Zenon
<1>4. TraceOK(new)
  <2>1. /\ IsSequence(new.recs) /\ \A id \in DOMAIN new.recs : RecordOK(new.recs[id])
        /\ new.vars \in [DOMAIN new.vars -> DOMAIN new.recs]
        /\ new.varlist \in Seq(DOMAIN new.recs)
        /\ new.currVarIndex \in 1..Len(new.varlist) + 1
        /\ new.loopcounters \in [DOMAIN new.loopcounters -> Nat]
        /\ {new.logprob, new.newlogprob} \subseteq LP
        /\ new.returnValue \in Value \cup {None}
    BY <1>1 DEF TraceOK
  <2> QED BY <1>1, <1>3, <2>1, TraceOKIntro, Zenon
<1> QED
  BY <1>1, <1>4 DEF new

LEMMA SetVarOK ==
  ASSUME NEW tr, TraceOK(tr), NEW name \in DOMAIN tr.vars, NEW val \in Value
  PROVE  LET new == SetVar(tr, name, val)
         IN  /\ TraceOK(new)
             /\ new.vars = tr.vars /\ new.varlist = tr.varlist
             /\ DOMAIN new.recs = DOMAIN tr.recs
             /\ \A k \in DOMAIN tr.recs : new.recs[k].name = tr.recs[k].name
<1> DEFINE new == SetVar(tr, name, val)
           id == tr.vars[name]
           rec == [tr.recs[id] EXCEPT
                     !.val = val,
                     !.logprob = ErpLogprob(tr.recs[id].erp, val, tr.recs[id].params)]
<1>1. /\ HasFields(new, TraceFields)
      /\ new.recs = [tr.recs EXCEPT ![id] = rec]
      /\ new.vars = tr.vars /\ new.varlist = tr.varlist
      /\ new.currVarIndex = tr.currVarIndex /\ new.loopcounters = tr.loopcounters
      /\ new.logprob = tr.logprob /\ new.newlogprob = tr.newlogprob
      /\ new.conditionsSatisfied = tr.conditionsSatisfied
      /\ new.returnValue = tr.returnValue
  BY DEF SetVar, GetRecord, HasFields, TraceFields, TraceOK
<1>2. id \in DOMAIN tr.recs
  BY DEF TraceOK
<1>3. IsSequence(tr.recs) /\ \A k \in DOMAIN tr.recs : RecordOK(tr.recs[k])
  BY DEF TraceOK
<1>4. RecordOK(rec) /\ rec.name = tr.recs[id].name
  <2>1. RecordOK(tr.recs[id])
    BY <1>2, <1>3
  <2>2. ErpLogprob(tr.recs[id].erp, val, tr.recs[id].params) \in LP
    BY <2>1, ErpAssumption DEF RecordOK
  <2> QED BY <2>1, <2>2 DEF RecordOK, HasFields, RecordFields
<1> HIDE DEF new, rec, id
<1>5. /\ IsSequence(new.recs) /\ DOMAIN new.recs = DOMAIN tr.recs
      /\ \A k \in DOMAIN tr.recs : new.recs[k] = IF k = id THEN rec ELSE tr.recs[k]
  BY <1>1, <1>2, <1>3, ExceptSequence
<1>6. \A k \in DOMAIN new.recs : RecordOK(new.recs[k])
  BY <1>3, <1>4, <1>5
<1>7. \A k \in DOMAIN tr.recs : new.recs[k].name = tr.recs[k].name
  BY <1>4, <1>5
<1>8. /\ new.vars \in [DOMAIN new.vars -> DOMAIN new.recs]
      /\ new.varlist \in Seq(DOMAIN new.recs)
      /\ new.currVarIndex \in 1..Len(new.varlist) + 1
      /\ new.loopcounters \in [DOMAIN new.loopcounters -> Nat]
      /\ {new.logprob, new.newlogprob} \subseteq LP
      /\ new.returnValue \in Value \cup {None}
  BY <1>1, <1>5 DEF TraceOK
<1>9. new.conditionsSatisfied \in BOOLEAN
  BY <1>1, Zenon DEF TraceOK
<1>10. TraceOK(new)
  BY <1>1, <1>5, <1>6, <1>8, <1>9, TraceOKIntro, Zenon
<1> QED
  BY <1>1, <1>5, <1>7, <1>10 DEF new

LEMMA DeepCopyOK ==
  ASSUME NEW tr, TraceOK(tr)
  PROVE  LET new == DeepCopy(tr)
         IN  /\ TraceOK(new)
             /\ DOMAIN new.vars = {ListRecord(tr, k).name : k \in DOMAIN tr.varlist}
             /\ \A n \in DOMAIN new.vars : GetRecord(new, n).name = n
<1> DEFINE new == DeepCopy(tr)
<1>1. /\ HasFields(new, TraceFields)
      /\ new.recs = [k \in DOMAIN new.recs |-> new.recs[k]]
      /\ DOMAIN new.recs = DOMAIN tr.varlist
      /\ \A k \in DOMAIN new.recs : new.recs[k] = CopyRecord(ListRecord(tr, k))
      /\ new.varlist = [k \in DOMAIN new.varlist |-> new.varlist[k]]
      /\ DOMAIN new.varlist = DOMAIN tr.varlist
      /\ \A k \in DOMAIN new.varlist : new.varlist[k] = k
      /\ new.vars = [n \in DOMAIN new.vars |-> new.vars[n]]
      /\ DOMAIN new.vars = {ListRecord(tr, k).name : k \in DOMAIN tr.varlist}
      /\ \A n \in DOMAIN new.vars : new.vars[n] = LastPosition(tr, n)
      /\ new.currVarIndex = 1 /\ new.loopcounters = <<>>
      /\ new.logprob = tr.logprob /\ new.newlogprob = tr.newlogprob
      /\ new.conditionsSatisfied = tr.conditionsSatisfied
      /\ new.returnValue = tr.returnValue
  BY DeepCopyFields
<1> HIDE DEF new
<1>2. /\ tr.varlist \in Seq(DOMAIN tr.recs)
      /\ Len(tr.varlist) \in Nat /\ DOMAIN tr.varlist = 1..Len(tr.varlist)
  BY DEF TraceOK
<1>3. \A k \in DOMAIN tr.varlist : RecordOK(ListRecord(tr, k))
  BY <1>2 DEF TraceOK, ListRecord
<1>4. \A k \in DOMAIN new.recs : RecordOK(new.recs[k]) /\ new.recs[k].name = ListRecord(tr, k).name
  BY <1>1, <1>3, CopyRecordOK
<1>5. \A k \in DOMAIN new.recs : RecordOK(new.recs[k])
  BY <1>4
<1>6. IsSequence(new.recs)
  <2>1. DOMAIN new.recs = 1..Len(tr.varlist) /\ new.recs = [k \in 1..Len(tr.varlist) |-> new.recs[k]]
    BY <1>1, <1>2
  <2> QED BY <1>2, <2>1, FunctionSequence
<1>7. new.varlist \in Seq(DOMAIN new.recs)
  <2>1. new.varlist \in [1..Len(tr.varlist) -> DOMAIN new.recs]
    BY <1>1, <1>2
  <2> QED BY <1>2, <2>1
<1>8. \A n \in DOMAIN new.vars :
        new.vars[n] \in DOMAIN new.recs /\ ListRecord(tr, new.vars[n]).name = n
  <2>1. \A n \in {ListRecord(tr, k).name : k \in DOMAIN tr.varlist} :
          /\ LastPosition(tr, n) \in DOMAIN tr.varlist
          /\ ListRecord(tr, LastPosition(tr, n)).name = n
    BY <1>2, LastPositionOK
  <2> QED BY <1>1, <2>1
<1>9. new.vars \in [DOMAIN new.vars -> DOMAIN new.recs]
  BY <1>1, <1>8
<1>10. /\ new.currVarIndex \in 1..Len(new.varlist) + 1
      /\ new.loopcounters \in [DOMAIN new.loopcounters -> Nat]
      /\ {new.logprob, new.newlogprob} \subseteq LP
      /\ new.returnValue \in Value \cup {None}
  BY <1>1, <1>7 DEF TraceOK
<1>11. new.conditionsSatisfied \in BOOLEAN
  BY <1>1, Zenon DEF TraceOK
<1>12. TraceOK(new)
  BY <1>1, <1>5, <1>6, <1>7, <1>9, <1>10, <1>11, TraceOKIntro, Zenon
<1>13. \A n \in DOMAIN new.vars : GetRecord(new, n).name = n
  BY <1>4, <1>8 DEF GetRecord
<1> QED
  BY <1>1, <1>12, <1>13 DEF new

(***************************************************************************)
(* Which records a trace holds. deepcopy makes a copy from the flat list   *)
(* alone, so a record that the copy is to have is there only if all that   *)
(* is in the vars of a trace between updates is in its flat list, under    *)
(* its own name. While the trace is updated this is so of the active       *)
(* records only.                                                           *)
(***************************************************************************)

NamedRecords(tr) == \A n \in DOMAIN tr.vars : GetRecord(tr, n).name = n
ActiveListed(tr) == \A n \in DOMAIN tr.vars : GetRecord(tr, n).active => tr.vars[n] \in Listed(tr)
AllListed(tr) == \A n \in DOMAIN tr.vars : tr.vars[n] \in Listed(tr)

UpdatedOK(tr) == TraceOK(tr) /\ NamedRecords(tr) /\ ActiveListed(tr)
HeldOK(tr) == TraceOK(tr) /\ NamedRecords(tr) /\ AllListed(tr)

LEMMA HeldIsUpdated == ASSUME NEW tr, HeldOK(tr) PROVE UpdatedOK(tr)
BY DEF HeldOK, UpdatedOK, AllListed, ActiveListed

LEMMA EmptyTraceHeld == HeldOK(EmptyTrace)
BY EmptyTraceOK, EmptyTraceFields DEF HeldOK, NamedRecords, AllListed

LEMMA AttemptUpdated ==
  ASSUME NEW tr, TraceOK(tr)
  PROVE  UpdatedOK(BeginUpdate(ClearVars(tr), FALSE))
<1> DEFINE new == BeginUpdate(ClearVars(tr), FALSE)
<1>1. TraceOK(new) /\ new.vars = <<>>
  BY ClearVarsOK
<1> HIDE DEF new
<1>2. DOMAIN new.vars = {}
  BY <1>1
<1> QED
  BY <1>1, <1>2 DEF UpdatedOK, NamedRecords, ActiveListed, new

LEMMA BeginUpdated ==
  ASSUME NEW tr, TraceOK(tr), NamedRecords(tr), NEW structureIsFixed \in BOOLEAN
  PROVE  UpdatedOK(BeginUpdate(tr, structureIsFixed))
<1> DEFINE new == BeginUpdate(tr, structureIsFixed)
<1>1. /\ TraceOK(new)
      /\ new.vars = tr.vars /\ DOMAIN new.recs = DOMAIN tr.recs
      /\ \A id \in DOMAIN tr.recs : new.recs[id].name = tr.recs[id].name
      /\ \A id \in Stored(tr) : ~new.recs[id].active
  BY BeginUpdateOK
<1> HIDE DEF new
<1>2. \A n \in DOMAIN tr.vars : tr.vars[n] \in Stored(tr) /\ tr.vars[n] \in DOMAIN tr.recs
  BY DEF Stored, TraceOK
<1>3. NamedRecords(new)
  BY <1>1, <1>2 DEF NamedRecords, GetRecord
<1>4. ActiveListed(new)
  BY <1>1, <1>2 DEF ActiveListed, GetRecord
<1> QED
  BY <1>1, <1>3, <1>4 DEF UpdatedOK, new

LEMMA EndUpdateHeld ==
  ASSUME NEW tr, UpdatedOK(tr), NEW val \in Value
  PROVE  HeldOK(EndUpdate(tr, val))
<1> DEFINE new == EndUpdate(tr, val)
<1>1. /\ TraceOK(new)
      /\ DOMAIN new.vars = ActiveNames(tr)
      /\ \A n \in DOMAIN new.vars : new.vars[n] = tr.vars[n]
      /\ new.varlist = tr.varlist /\ new.recs = tr.recs
  BY EndUpdateOK DEF UpdatedOK
<1> HIDE DEF new
<1>2. NamedRecords(new)
  BY <1>1 DEF UpdatedOK, NamedRecords, GetRecord, ActiveNames
<1>3. AllListed(new)
  BY <1>1 DEF UpdatedOK, ActiveListed, AllListed, Listed, ActiveNames
<1> QED
  BY <1>1, <1>2, <1>3 DEF HeldOK, new

LEMMA ReuseListedUpdated ==
  ASSUME NEW tr, UpdatedOK(tr), VarIsInFlatList(tr), NEW call \in ErpCalls
  PROVE  LET new == ReuseListed(tr, call)
         IN  UpdatedOK(new) /\ ListRecord(new, tr.currVarIndex).val \in Value
<1> DEFINE new == ReuseListed(tr, call)
           id == tr.varlist[tr.currVarIndex]
<1>1. /\ TraceOK(new)
      /\ id \in Listed(tr) /\ id \in DOMAIN tr.recs
      /\ new.vars = tr.vars /\ new.varlist = tr.varlist
      /\ DOMAIN new.recs = DOMAIN tr.recs
      /\ \A k \in DOMAIN tr.recs : new.recs[k].name = tr.recs[k].name
      /\ \A k \in DOMAIN tr.recs : k # id => new.recs[k] = tr.recs[k]
      /\ new.recs[id].val \in Value
  BY ReuseListedOK DEF UpdatedOK
<1>2. ListRecord(new, tr.currVarIndex) = new.recs[id]
  BY <1>1 DEF ListRecord
<1> HIDE DEF new, id
<1>3. \A n \in DOMAIN tr.vars : tr.vars[n] \in DOMAIN tr.recs
  BY DEF UpdatedOK, TraceOK
<1>4. NamedRecords(new)
  BY <1>1, <1>3 DEF UpdatedOK, NamedRecords, GetRecord
<1>5. ActiveListed(new)
  BY <1>1, <1>3 DEF UpdatedOK, ActiveListed, GetRecord, Listed
<1> QED
  BY <1>1, <1>2, <1>4, <1>5 DEF UpdatedOK, new

\* Appending to the flat list keeps what it lists.
LEMMA ListedAppend ==
  ASSUME NEW tr, NEW new, NEW S, tr.varlist \in Seq(S), NEW id \in S,
         new.varlist = Append(tr.varlist, id)
  PROVE  Listed(new) = Listed(tr) \cup {id}
<1> DEFINE l == tr.varlist  m == Append(tr.varlist, id)
<1>1. Len(l) \in Nat /\ DOMAIN l = 1..Len(l) /\ DOMAIN m = 1..Len(l) + 1
  OBVIOUS
<1>2. (\A k \in 1..Len(l) : m[k] = l[k]) /\ m[Len(l) + 1] = id
  OBVIOUS
<1> HIDE DEF l, m
<1>3. {m[k] : k \in DOMAIN m} = {l[k] : k \in DOMAIN l} \cup {id}
  BY <1>1, <1>2
<1> QED
  BY <1>3 DEF Listed, l, m

LEMMA ReuseNamedUpdated ==
  ASSUME NEW tr, UpdatedOK(tr), NEW call \in ErpCalls,
         Matches(tr, CurrentName(call, tr.loopcounters), call)
  PROVE  LET new == ReuseNamed(tr, call)
             name == CurrentName(call, tr.loopcounters)
         IN  UpdatedOK(new) /\ GetRecord(new, name).val \in Value
<1> DEFINE new == ReuseNamed(tr, call)
           name == CurrentName(call, tr.loopcounters)
           id == tr.vars[name]
<1>1. /\ TraceOK(new)
      /\ name \in DOMAIN tr.vars /\ id \in DOMAIN tr.recs
      /\ new.vars = tr.vars /\ new.varlist = Append(tr.varlist, id)
      /\ DOMAIN new.recs = DOMAIN tr.recs
      /\ \A k \in DOMAIN tr.recs : new.recs[k].name = tr.recs[k].name
      /\ \A k \in DOMAIN tr.recs : k # id => new.recs[k] = tr.recs[k]
      /\ new.recs[id].val \in Value
  BY ReuseNamedOK DEF UpdatedOK
<1>2. GetRecord(new, name).val \in Value
  BY <1>1 DEF GetRecord
<1> HIDE DEF new, id, name
<1>3. \A n \in DOMAIN tr.vars : tr.vars[n] \in DOMAIN tr.recs
  BY DEF UpdatedOK, TraceOK
<1>4. NamedRecords(new)
  BY <1>1, <1>3 DEF UpdatedOK, NamedRecords, GetRecord
<1>5. Listed(new) = Listed(tr) \cup {id}
  <2> DEFINE S == DOMAIN tr.recs
  <2>1. tr.varlist \in Seq(S)
    BY DEF UpdatedOK, TraceOK
  <2> HIDE DEF S
  <2>2. new.varlist = Append(tr.varlist, id)
    BY <1>1, Zenon
  <2>3. id \in S
    BY <1>1 DEF S
  <2> QED BY <2>1, <2>2, <2>3, ListedAppend, Zenon
<1>6. ActiveListed(new)
  BY <1>1, <1>3, <1>5 DEF UpdatedOK, ActiveListed, GetRecord
<1> QED
  BY <1>1, <1>2, <1>4, <1>6 DEF UpdatedOK, new, name

LEMMA CreateUpdated ==
  ASSUME NEW tr, UpdatedOK(tr), NEW call \in ErpCalls, NEW val \in Value
  PROVE  UpdatedOK(Create(tr, call, val))
<1> DEFINE new == Create(tr, call, val)
           name == CurrentName(call, tr.loopcounters)
           id == Len(tr.recs) + 1
<1>1. /\ TraceOK(new)
      /\ DOMAIN new.vars = DOMAIN tr.vars \cup {name}
      /\ \A n \in DOMAIN new.vars : new.vars[n] = IF n = name THEN id ELSE tr.vars[n]
      /\ new.varlist = Append(tr.varlist, id)
      /\ DOMAIN new.recs = DOMAIN tr.recs \cup {id} /\ id \notin DOMAIN tr.recs
      /\ \A k \in DOMAIN tr.recs : new.recs[k] = tr.recs[k]
      /\ new.recs[id].name = name
  BY CreateOK DEF UpdatedOK
<1> HIDE DEF new, id, name
<1>2. \A n \in DOMAIN tr.vars : tr.vars[n] \in DOMAIN tr.recs
  BY DEF UpdatedOK, TraceOK
<1>3. NamedRecords(new)
  BY <1>1, <1>2 DEF UpdatedOK, NamedRecords, GetRecord
<1>4. Listed(new) = Listed(tr) \cup {id}
  <2> DEFINE S == DOMAIN new.recs
  <2>1. tr.varlist \in Seq(DOMAIN tr.recs) /\ DOMAIN tr.recs \subseteq S
    BY <1>1 DEF UpdatedOK, TraceOK
  <2> HIDE DEF S
  <2>2. tr.varlist \in Seq(S)
    BY <2>1
  <2>3. \A k \in S : new.varlist = Append(tr.varlist, k) => Listed(new) = Listed(tr) \cup {k}
    BY <2>2, ListedAppend
  <2>4. id \in S /\ new.varlist = Append(tr.varlist, id)
    BY <1>1 DEF S
  <2> QED BY <2>3, <2>4
<1>5. ActiveListed(new)
  BY <1>1, <1>2, <1>4 DEF UpdatedOK, ActiveListed, GetRecord
<1> QED
  BY <1>1, <1>3, <1>5 DEF UpdatedOK, new

LEMMA FactorUpdated ==
  ASSUME NEW tr, UpdatedOK(tr), NEW num PROVE UpdatedOK(AddFactor(tr, num))
<1> DEFINE new == AddFactor(tr, num)
<1>1. TraceOK(new) /\ new.recs = tr.recs /\ new.vars = tr.vars /\ new.varlist = tr.varlist
  BY AddFactorOK DEF UpdatedOK
<1> HIDE DEF new
<1>2. NamedRecords(new) /\ ActiveListed(new)
  BY <1>1 DEF UpdatedOK, NamedRecords, ActiveListed, GetRecord, Listed
<1> QED BY <1>1, <1>2 DEF UpdatedOK, new

LEMMA ConditionUpdated ==
  ASSUME NEW tr, UpdatedOK(tr), NEW holds \in BOOLEAN PROVE UpdatedOK(ConditionOn(tr, holds))
<1> DEFINE new == ConditionOn(tr, holds)
<1>1. TraceOK(new) /\ new.recs = tr.recs /\ new.vars = tr.vars /\ new.varlist = tr.varlist
  BY ConditionOnOK DEF UpdatedOK
<1> HIDE DEF new
<1>2. NamedRecords(new) /\ ActiveListed(new)
  BY <1>1 DEF UpdatedOK, NamedRecords, ActiveListed, GetRecord, Listed
<1> QED BY <1>1, <1>2 DEF UpdatedOK, new

\* What a program's call is, by its op.
LEMMA CallTypes ==
  ASSUME NEW p \in Prog, NEW h \in Histories(p)
  PROVE  LET call == Computation(p, h)
         IN  /\ call.op = "erp" => call \in ErpCalls
             /\ call.op = "condition" => call.holds \in BOOLEAN
             /\ call.op = "return" => call.val \in Value
             /\ \A v \in Results(call) : Append(h, v) \in Histories(p)
<1>1. /\ Computation(p, h) \in Calls
      /\ \A v \in Results(Computation(p, h)) : Append(h, v) \in Histories(p)
  BY ComputationAssumption
<1> QED
  BY <1>1 DEF Calls, ErpCalls
===============================================================================
