------------------------------ MODULE LARJProofs ------------------------------
(***************************************************************************)
(* Theorems about the LARJ kernel, for every program, annealing length and *)
(* jump frequency.                                                         *)
(***************************************************************************)
EXTENDS LARJChain, ProgramExecutionProofs, FiniteSetTheorems

(***************************************************************************)
(* The counters.                                                           *)
(***************************************************************************)

\* The kernel's own counters are sums while no jump is annealed.
Balanced ==
  /\ stats["made"] = stats["diffusionsMade"] + stats["annealingsMade"]
  /\ stats["accepted"] = stats["diffusionsAccepted"] + stats["annealingsAccepted"]

\* During the annealing they are ahead by the steps taken; what was accepted
\* before has been noted in the jump.
Ahead ==
  /\ {"aStep", "prevAccepted"} \subseteq DOMAIN jump
  /\ jump.aStep \in 0..AnnealSteps - 1
  /\ stats["made"] = stats["diffusionsMade"] + stats["annealingsMade"] + jump.aStep
  /\ jump.prevAccepted = stats["diffusionsAccepted"] + stats["annealingsAccepted"]
  /\ stats["accepted"] >= jump.prevAccepted

StatsInv ==
  /\ prog \in Prog
  /\ stats \in [Counters -> Nat]
  /\ pc \in {"starting", "iterating", "deciding"} => Balanced
  /\ pc = "annealing" => Ahead

\* What counting does to each counter.
LEMMA CountingValues ==
  ASSUME NEW S, stats \in [Counters -> Nat], stats' = Counting(S)
  PROVE  /\ stats' \in [Counters -> Nat]
         /\ \A c \in Counters : stats'[c] = IF c \in S THEN stats[c] + 1 ELSE stats[c]
  BY DEF Counting

\* A step of the annealing keeps the invariant, whether accepted or not.
LEMMA AnnealedKeepsStats ==
  ASSUME StatsInv, pc = "annealing", NEW r, NEW isAccepted \in BOOLEAN, Annealed(r, isAccepted)
  PROVE  StatsInv'
<1> DEFINE isLast == jump.aStep = AnnealSteps - 1
           accepted == stats["accepted"] + (IF isAccepted THEN 1 ELSE 0)
<1>1. Ahead /\ stats \in [Counters -> Nat]
  BY DEF StatsInv
<1>2. AnnealSteps \in Nat /\ AnnealSteps' = AnnealSteps /\ prog' \in Prog
  BY LARJAssumption DEF StatsInv, Annealed, AnnealSteps
<1>3. /\ DOMAIN jump' = DOMAIN jump
      /\ jump'.aStep = jump.aStep + 1
      /\ jump'.prevAccepted = jump.prevAccepted
  BY <1>1 DEF Annealed, Ahead
<1>4. /\ pc' = IF isLast THEN "deciding" ELSE "annealing"
      /\ stats' = [stats EXCEPT
           !["made"] = @ + 1, !["accepted"] = accepted,
           !["annealingsMade"] = IF isLast THEN @ + AnnealSteps ELSE @,
           !["annealingsAccepted"] = IF isLast THEN @ + accepted - jump.prevAccepted ELSE @]
  BY DEF Annealed
<1>5. /\ accepted \in Nat /\ jump.prevAccepted \in Nat /\ accepted >= jump.prevAccepted
  BY <1>1 DEF Ahead, Counters
<1>6. /\ stats'["made"] = stats["made"] + 1
      /\ stats'["accepted"] = accepted
      /\ stats'["diffusionsMade"] = stats["diffusionsMade"]
      /\ stats'["diffusionsAccepted"] = stats["diffusionsAccepted"]
      /\ stats'["annealingsMade"] = IF isLast THEN stats["annealingsMade"] + AnnealSteps
                                    ELSE stats["annealingsMade"]
      /\ stats'["annealingsAccepted"] =
           IF isLast THEN stats["annealingsAccepted"] + accepted - jump.prevAccepted
           ELSE stats["annealingsAccepted"]
  BY <1>1, <1>4 DEF Counters
<1>7. stats' \in [Counters -> Nat]
  BY <1>1, <1>2, <1>4, <1>5 DEF Counters
<1>8. CASE isLast
  <2>1. pc' = "deciding"
    BY <1>4, <1>8
  <2>2. Balanced'
    BY <1>1, <1>2, <1>5, <1>6, <1>8 DEF Ahead, Balanced, Counters
  <2> QED
    BY <1>2, <1>7, <2>1, <2>2 DEF StatsInv
<1>9. CASE ~isLast
  <2>1. pc' = "annealing"
    BY <1>4, <1>9
  <2>2. Ahead'
    BY <1>1, <1>2, <1>3, <1>5, <1>6, <1>9 DEF Ahead, Counters
  <2> QED
    BY <1>2, <1>7, <2>1, <2>2 DEF StatsInv
<1> QED
  BY <1>8, <1>9

\* A step that counts nothing, from and to where nothing is annealed.
LEMMA UncountedKeepsStats ==
  ASSUME StatsInv, prog' = prog, stats' = stats, pc' # "annealing",
         pc' \in {"starting", "iterating", "deciding"} => pc \in {"starting", "iterating", "deciding"}
  PROVE  StatsInv'
BY DEF StatsInv, Balanced

\* A step that counts a diffusion as one of the kernel's proposals, too.
LEMMA DiffusionKeepsStats ==
  ASSUME StatsInv, prog' = prog, pc = "iterating", pc' = "iterating",
         \/ stats' = Counting({"made", "accepted", "diffusionsMade", "diffusionsAccepted"})
         \/ stats' = Counting({"made", "diffusionsMade"})
  PROVE  StatsInv'
<1>1. Balanced /\ stats \in [Counters -> Nat]
  BY DEF StatsInv
<1>2. CASE stats' = Counting({"made", "accepted", "diffusionsMade", "diffusionsAccepted"})
  <2>1. /\ stats' \in [Counters -> Nat]
        /\ stats'["made"] = stats["made"] + 1
        /\ stats'["accepted"] = stats["accepted"] + 1
        /\ stats'["diffusionsMade"] = stats["diffusionsMade"] + 1
        /\ stats'["diffusionsAccepted"] = stats["diffusionsAccepted"] + 1
        /\ stats'["annealingsMade"] = stats["annealingsMade"]
        /\ stats'["annealingsAccepted"] = stats["annealingsAccepted"]
    BY <1>1, <1>2, CountingValues DEF Counters
  <2> QED
    BY <1>1, <2>1 DEF StatsInv, Balanced, Counters
<1>3. CASE stats' = Counting({"made", "diffusionsMade"})
  <2>1. /\ stats' \in [Counters -> Nat]
        /\ stats'["made"] = stats["made"] + 1
        /\ stats'["accepted"] = stats["accepted"]
        /\ stats'["diffusionsMade"] = stats["diffusionsMade"] + 1
        /\ stats'["diffusionsAccepted"] = stats["diffusionsAccepted"]
        /\ stats'["annealingsMade"] = stats["annealingsMade"]
        /\ stats'["annealingsAccepted"] = stats["annealingsAccepted"]
    BY <1>1, <1>3, CountingValues DEF Counters
  <2> QED
    BY <1>1, <2>1 DEF StatsInv, Balanced, Counters
<1> QED
  BY <1>2, <1>3

\* A step that counts jumps only leaves the sums as they are.
LEMMA JumpCountKeepsSums ==
  ASSUME StatsInv, pc \in {"iterating", "deciding"},
         NEW S \in SUBSET {"jumpsMade", "jumpsAccepted"}, stats' = Counting(S)
  PROVE  stats' \in [Counters -> Nat] /\ Balanced'
<1>1. Balanced /\ stats \in [Counters -> Nat]
  BY DEF StatsInv
<1>2. /\ stats' \in [Counters -> Nat]
      /\ \A c \in Counters \ {"jumpsMade", "jumpsAccepted"} : stats'[c] = stats[c]
  BY <1>1, CountingValues
<1> QED
  BY <1>1, <1>2 DEF Balanced, Counters

\* A jump begins with an annealing of no steps, or with none at all.
LEMMA JumpKeepsStats ==
  ASSUME StatsInv, Jump
  PROVE  StatsInv'
<1>1. pc = "iterating" /\ stats' = Counting({"jumpsMade"})
  BY DEF Jump, MayJump, Iterating
<1>2. stats' \in [Counters -> Nat] /\ Balanced'
  BY <1>1, JumpCountKeepsSums
<1>3. PICK old, new, rest :
        /\ jump' = [name |-> rest.name, origval |-> rest.origval, propval |-> rest.propval,
                    old |-> old, new |-> new, fwd |-> rest.fwd, newNumVars |-> rest.newNumVars,
                    ratio |-> 0, aStep |-> 0, prevAccepted |-> stats["accepted"]]
        /\ pc' = IF Anneals(old, new) THEN "annealing" ELSE "deciding"
  <2>1. PICK name, val, new :
          LET old == DeepCopy(curr)
              var == GetRecord(old, name)
          IN  /\ jump' =
                   [name |-> name, origval |-> var.val, propval |-> val,
                    old |-> old, new |-> new,
                    fwd |-> Minus(Plus(LogProposalProb(var.erp, var.val, val, var.params),
                                       new.newlogprob),
                                  Log(Cardinality(Struct(old)))),
                    newNumVars |-> Cardinality(Struct(new)),
                    ratio |-> 0, aStep |-> 0, prevAccepted |-> stats["accepted"]]
              /\ pc' = IF Anneals(old, new) THEN "annealing" ELSE "deciding"
    BY Zenon DEF Jump
  <2> DEFINE old == DeepCopy(curr)
             var == GetRecord(old, name)
             rest == [name |-> name, origval |-> var.val, propval |-> val,
                      fwd |-> Minus(Plus(LogProposalProb(var.erp, var.val, val, var.params),
                                         new.newlogprob),
                                    Log(Cardinality(Struct(old)))),
                      newNumVars |-> Cardinality(Struct(new))]
  <2> QED
    BY <2>1
<1>4. /\ {"aStep", "prevAccepted"} \subseteq DOMAIN jump'
      /\ jump'.aStep = 0
      /\ jump'.prevAccepted = stats["accepted"]
  BY <1>3
<1>5. stats'["accepted"] = stats["accepted"]
  BY <1>1, CountingValues DEF StatsInv, Counters
<1>6. /\ AnnealSteps \in Nat /\ AnnealSteps' = AnnealSteps /\ prog' \in Prog
      /\ pc' = "annealing" => AnnealSteps > 0
  <2>1. prog' = prog
    BY DEF Jump
  <2> QED
    BY <1>3, <2>1, LARJAssumption DEF StatsInv, Anneals, AnnealSteps
<1>7. pc' = "annealing" => Ahead'
  BY <1>2, <1>4, <1>5, <1>6 DEF Ahead, Balanced, Counters
<1> QED
  BY <1>2, <1>6, <1>7 DEF StatsInv

LEMMA StatsInit == Init => StatsInv
BY DEF Init, StatsInv, Balanced, Counters

LEMMA StatsNext == StatsInv /\ [Next]_vars => StatsInv'
<1> SUFFICES ASSUME StatsInv, [Next]_vars
             PROVE  StatsInv'
  OBVIOUS
<1>1. CASE Initialise
  BY <1>1, UncountedKeepsStats DEF Initialise
<1>2. CASE Rerun
  BY <1>2, UncountedKeepsStats DEF Rerun, Iterating, NextReturns
<1>3. CASE DiffuseAccept
  BY <1>3, DiffusionKeepsStats DEF DiffuseAccept, MayDiffuse, Iterating, NextReturns
<1>4. CASE DiffuseReject
  BY <1>4, DiffusionKeepsStats DEF DiffuseReject, MayDiffuse, Iterating, NextReturns
<1>5. CASE DiffuseRerun
  BY <1>5, DiffusionKeepsStats DEF DiffuseRerun, MayDiffuse, Iterating, NextReturns
<1>6. CASE Jump
  BY <1>6, JumpKeepsStats
<1>7. CASE JumpAccept
  <2>1. /\ pc = "deciding" /\ pc' = "iterating" /\ prog' = prog
        /\ stats' = Counting({"jumpsAccepted"})
    BY <1>7 DEF JumpAccept, Deciding, NextReturns
  <2> QED
    BY <2>1, JumpCountKeepsSums DEF StatsInv
<1>8. CASE JumpReject
  BY <1>8, UncountedKeepsStats DEF JumpReject, Deciding, NextReturns
<1>9. CASE AnnealAccept
  BY <1>9, AnnealedKeepsStats DEF AnnealAccept
<1>10. CASE AnnealReject
  BY <1>10, AnnealedKeepsStats DEF AnnealReject
<1>11. CASE JumpFails
  <2>1. pc' = "failed" /\ prog' = prog /\ stats' = Counting({"jumpsMade"})
    BY <1>11 DEF JumpFails, Fail
  <2> QED
    BY <2>1, CountingValues DEF StatsInv
<1>12. CASE AnnealFails
  <2>1. pc' = "failed" /\ prog' = prog /\ stats' = Counting({"made"})
    BY <1>12 DEF AnnealFails, Fail
  <2> QED
    BY <2>1, CountingValues DEF StatsInv
<1>13. CASE DecideFails
  BY <1>13, UncountedKeepsStats DEF DecideFails, Fail
<1>14. CASE Finish
  BY <1>14, UncountedKeepsStats DEF Finish
<1>15. CASE UNCHANGED vars
  BY <1>15 DEF vars, StatsInv, Balanced, Ahead, AnnealSteps
<1> QED
  BY <1>1, <1>2, <1>3, <1>4, <1>5, <1>6, <1>7, <1>8, <1>9, <1>10, <1>11, <1>12, <1>13,
     <1>14, <1>15 DEF Next, Done

\* The statistics are disjoint parts of the diffusion kernel's own counters
\* whenever an iteration begins, with or without annealing, and whatever was
\* accepted (inference.lua:219-222, 252, 259-260).
THEOREM CountersCorrect == Spec => []CountersAddUp
<1>1. StatsInv => CountersAddUp
  BY DEF StatsInv, Balanced, CountersAddUp
<1> QED
  BY <1>1, StatsInit, StatsNext, PTL DEF Spec

(***************************************************************************)
(* A whole update of a trace, call by call.                                *)
(***************************************************************************)

\* The traces and histories before the first call, and after one more.
BegunWith(tr, structureIsFixed) == {[trace |-> BeginUpdate(tr, structureIsFixed), hist |-> <<>>]}
OneCallOn(p, X) ==
  UNION {{[trace |-> r.trace, hist |-> Append(e.hist, r.val)] :
            r \in CallResults(e.trace, Computation(p, e.hist))} : e \in X}
IsUpdating(after, p, tr, structureIsFixed, m) ==
  after = [n \in 0..m |-> IF n = 0 THEN BegunWith(tr, structureIsFixed) ELSE OneCallOn(p, after[n - 1])]

\* TraceUpdates is defined: there is such a sequence of sets.
LEMMA UpdatingExists ==
  ASSUME NEW p, NEW tr, NEW structureIsFixed
  PROVE  \E after : IsUpdating(after, p, tr, structureIsFixed, CallBound)
<1> DEFINE Is(g, m) == IsUpdating(g, p, tr, structureIsFixed, m)
           T == {k \in 0..CallBound : \E g : Is(g, k)}
<1>1. CallBound \in Nat
  BY CallBoundAssumption
<1>2. 0 \in T
  <2> DEFINE g == [n \in 0..0 |-> BegunWith(tr, structureIsFixed)]
  <2>1. g = [n \in 0..0 |-> IF n = 0 THEN BegunWith(tr, structureIsFixed) ELSE OneCallOn(p, g[n - 1])]
    OBVIOUS
  <2> HIDE DEF g
  <2> QED
    BY <1>1, <2>1 DEF IsUpdating
<1>3. ASSUME NEW k \in 0..CallBound, k # 0, k - 1 \in T
      PROVE  k \in T
  <2>1. PICK g : Is(g, k - 1)
    BY <1>3
  <2> DEFINE h == [n \in 0..k |-> IF n = k THEN OneCallOn(p, g[k - 1]) ELSE g[n]]
             After1(f, n) == IF n = 0 THEN BegunWith(tr, structureIsFixed) ELSE OneCallOn(p, f[n - 1])
  <2>2. \A n \in 0..k : n # 0 => n - 1 \in 0..k - 1 /\ n - 1 \in 0..k /\ n - 1 # k
    BY <1>3
  <2>3. \A n \in 0..k - 1 : g[n] = After1(g, n)
    BY <2>1 DEF IsUpdating
  <2>4. \A n \in 0..k : n # k => n \in 0..k - 1
    BY <1>3
  <2>5. ASSUME NEW n \in 0..k
        PROVE  h[n] = After1(h, n)
    <3>1. n # 0 => h[n - 1] = g[n - 1]
      BY <2>2
    <3>2. n # k => h[n] = g[n]
      OBVIOUS
    <3>3. h[k] = OneCallOn(p, g[k - 1])
      BY <1>3
    <3> HIDE DEF h
    <3> QED
      BY <1>3, <2>3, <2>4, <3>1, <3>2, <3>3
  <2>6. h = [n \in 0..k |-> h[n]]
    OBVIOUS
  <2> HIDE DEF h
  <2>7. Is(h, k)
    BY <2>5, <2>6 DEF IsUpdating
  <2> QED
    BY <1>3, <2>7
<1> HIDE DEF T
<1>4. 0..CallBound \subseteq T
  BY <1>1, <1>2, <1>3, Induction
<1>5. CallBound \in T
  BY <1>1, <1>4
<1> QED
  BY <1>5 DEF T

\* A whole update is a sequence of calls that ends with the program's return.
LEMMA UpdatedInCalls ==
  ASSUME NEW p, NEW tr, NEW structureIsFixed, NEW new \in TraceUpdates(p, tr, structureIsFixed)
  PROVE  \E after : /\ IsUpdating(after, p, tr, structureIsFixed, CallBound)
                    /\ \E n \in 0..CallBound : \E e \in after[n] :
                         /\ Computation(p, e.hist).op = "return"
                         /\ new = EndUpdate(e.trace, Computation(p, e.hist).val)
<1> DEFINE after == CHOOSE g : IsUpdating(g, p, tr, structureIsFixed, CallBound)
           ended == {e \in UNION {after[n] : n \in 0..CallBound} : Computation(p, e.hist).op = "return"}
<1>1. IsUpdating(after, p, tr, structureIsFixed, CallBound)
  BY UpdatingExists, Zenon
<1>2. TraceUpdates(p, tr, structureIsFixed)
        = {EndUpdate(e.trace, Computation(p, e.hist).val) : e \in ended}
  BY Zenon DEF TraceUpdates, IsUpdating, BegunWith, OneCallOn
<1> HIDE DEF after
<1>3. PICK e \in ended : new = EndUpdate(e.trace, Computation(p, e.hist).val)
  BY <1>2
<1> QED
  BY <1>1, <1>3

\* One call keeps the trace well formed and the history a history of p.
LEMMA CallKeeps ==
  ASSUME NEW p \in Prog, NEW h \in Histories(p), NEW tr, UpdatedOK(tr),
         NEW r \in CallResults(tr, Computation(p, h))
  PROVE  UpdatedOK(r.trace) /\ Append(h, r.val) \in Histories(p)
<1> DEFINE call == Computation(p, h)
           name == CurrentName(call, tr.loopcounters)
<1>1. SUFFICES UpdatedOK(r.trace) /\ r.val \in Results(call)
  BY CallTypes
<1>2. CASE call.op = "erp"
  <2>1. call \in ErpCalls
    BY <1>2, CallTypes
  <2>2. r \in Lookups(tr, call)
    BY <1>2 DEF CallResults
  <2>3. Results(call) = Value
    BY <1>2 DEF Results
  <2>4. CASE VarIsInFlatList(tr)
    <3> DEFINE next == ReuseListed(tr, call)
    <3>1. r = [trace |-> next, val |-> ListRecord(next, tr.currVarIndex).val]
      BY <2>2, <2>4, Zenon DEF Lookups
    <3>2. UpdatedOK(next) /\ ListRecord(next, tr.currVarIndex).val \in Value
      BY <2>1, <2>4, ReuseListedUpdated
    <3> HIDE DEF next
    <3> QED
      BY <2>3, <3>1, <3>2
  <2>5. CASE ~VarIsInFlatList(tr) /\ Matches(tr, name, call)
    <3> DEFINE next == ReuseNamed(tr, call)
    <3>1. r = [trace |-> next, val |-> GetRecord(next, name).val]
      BY <2>2, <2>5, Zenon DEF Lookups
    <3>2. UpdatedOK(next) /\ GetRecord(next, name).val \in Value
      BY <2>1, <2>5, ReuseNamedUpdated
    <3> HIDE DEF next
    <3> QED
      BY <2>3, <3>1, <3>2
  <2>6. CASE ~VarIsInFlatList(tr) /\ ~Matches(tr, name, call)
    <3>1. PICK val \in InitialValues(call) : r = [trace |-> Create(tr, call, val), val |-> val]
      BY <2>2, <2>6 DEF Lookups
    <3>2. val \in Value
      BY <2>1, ErpAssumption DEF InitialValues, IsConditioned, ErpCalls
    <3>3. UpdatedOK(Create(tr, call, val))
      BY <2>1, <3>2, CreateUpdated
    <3> QED
      BY <2>3, <3>1, <3>2, <3>3
  <2> QED
    BY <2>4, <2>5, <2>6
<1>3. CASE call.op = "factor"
  <2>1. r = [trace |-> AddFactor(tr, call.num), val |-> None]
    BY <1>3 DEF CallResults
  <2> QED
    BY <1>3, <2>1, FactorUpdated DEF Results
<1>4. CASE call.op = "condition"
  <2>1. r = [trace |-> ConditionOn(tr, call.holds), val |-> None]
    BY <1>4 DEF CallResults
  <2>2. call.holds \in BOOLEAN
    BY <1>4, CallTypes
  <2> QED
    BY <1>4, <2>1, <2>2, ConditionUpdated DEF Results
<1>5. CASE call.op = "nested"
  BY <1>5 DEF CallResults, Results
<1>6. call.op \in {"erp", "factor", "condition", "nested"}
  BY DEF CallResults
<1> QED
  BY <1>2, <1>3, <1>4, <1>5, <1>6

\* What an update leaves is well formed, and its flat list holds all records of
\* the database under their names.
LEMMA UpdateHeld ==
  ASSUME NEW p \in Prog, NEW tr, TraceOK(tr), NamedRecords(tr), NEW structureIsFixed \in BOOLEAN,
         NEW new \in TraceUpdates(p, tr, structureIsFixed)
  PROVE  HeldOK(new)
<1>1. PICK after :
        /\ IsUpdating(after, p, tr, structureIsFixed, CallBound)
        /\ \E n \in 0..CallBound : \E e \in after[n] :
             /\ Computation(p, e.hist).op = "return"
             /\ new = EndUpdate(e.trace, Computation(p, e.hist).val)
  BY UpdatedInCalls
<1> DEFINE OK(e) == UpdatedOK(e.trace) /\ e.hist \in Histories(p)
           T == {n \in 0..CallBound : \A e \in after[n] : OK(e)}
<1>2. CallBound \in Nat
  BY CallBoundAssumption
<1>3. \A n \in 0..CallBound :
        after[n] = IF n = 0 THEN BegunWith(tr, structureIsFixed) ELSE OneCallOn(p, after[n - 1])
  BY <1>1 DEF IsUpdating
<1>4. 0 \in T
  <2>1. UpdatedOK(BeginUpdate(tr, structureIsFixed)) /\ <<>> \in Histories(p)
    BY BeginUpdated, ComputationAssumption
  <2>2. \A e \in BegunWith(tr, structureIsFixed) : OK(e)
    BY <2>1 DEF BegunWith
  <2> QED
    BY <1>2, <1>3, <2>2
<1>5. ASSUME NEW n \in 0..CallBound, n # 0, n - 1 \in T
      PROVE  n \in T
  <2> SUFFICES ASSUME NEW f \in OneCallOn(p, after[n - 1])
               PROVE  OK(f)
    BY <1>3, <1>5
  <2>1. PICK e \in after[n - 1] : \E r \in CallResults(e.trace, Computation(p, e.hist)) :
          f = [trace |-> r.trace, hist |-> Append(e.hist, r.val)]
    BY DEF OneCallOn
  <2>2. PICK r \in CallResults(e.trace, Computation(p, e.hist)) :
          f = [trace |-> r.trace, hist |-> Append(e.hist, r.val)]
    BY <2>1
  <2>3. UpdatedOK(e.trace) /\ e.hist \in Histories(p)
    BY <1>5
  <2>4. UpdatedOK(r.trace) /\ Append(e.hist, r.val) \in Histories(p)
    BY <2>3, CallKeeps
  <2> QED
    BY <2>2, <2>4
<1> HIDE DEF T
<1>6. 0..CallBound \subseteq T
  BY <1>2, <1>4, <1>5, Induction
<1>7. PICK n \in 0..CallBound : \E e \in after[n] :
        /\ Computation(p, e.hist).op = "return"
        /\ new = EndUpdate(e.trace, Computation(p, e.hist).val)
  BY <1>1
<1>8. PICK e \in after[n] :
        /\ Computation(p, e.hist).op = "return"
        /\ new = EndUpdate(e.trace, Computation(p, e.hist).val)
  BY <1>7
<1>9. UpdatedOK(e.trace) /\ e.hist \in Histories(p)
  BY <1>6 DEF T
<1>10. Computation(p, e.hist).val \in Value
  BY <1>8, <1>9, CallTypes
<1> QED
  BY <1>8, <1>9, <1>10, EndUpdateHeld

\* So is a copy.
LEMMA DeepCopyHeld == ASSUME NEW tr, HeldOK(tr) PROVE HeldOK(DeepCopy(tr))
<1> DEFINE new == DeepCopy(tr)
<1>1. TraceOK(new) /\ NamedRecords(new)
  BY DeepCopyOK DEF HeldOK, NamedRecords
<1>2. ASSUME NEW n \in DOMAIN new.vars PROVE new.vars[n] \in Listed(new)
  <2>1. /\ new.varlist = [k \in DOMAIN tr.varlist |-> k]
        /\ new.vars = [m \in {ListRecord(tr, k).name : k \in DOMAIN tr.varlist} |-> LastPosition(tr, m)]
    BY DEF DeepCopy, EmptyTrace
  <2>2. new.vars[n] = LastPosition(tr, n) /\ n \in {ListRecord(tr, k).name : k \in DOMAIN tr.varlist}
    BY <2>1
  <2>3. tr.varlist \in Seq(DOMAIN tr.recs)
    BY DEF HeldOK, TraceOK
  <2>4. LastPosition(tr, n) \in DOMAIN tr.varlist
    <3> DEFINE S == DOMAIN tr.recs
    <3>1. tr.varlist \in Seq(S)
      BY <2>3
    <3> HIDE DEF S
    <3> QED
      BY <2>2, <3>1, LastPositionOK
  <2> HIDE DEF new
  <2>5. new.varlist[LastPosition(tr, n)] = LastPosition(tr, n)
        /\ LastPosition(tr, n) \in DOMAIN new.varlist
    BY <2>1, <2>4
  <2> QED
    BY <2>2, <2>5 DEF Listed
<1> HIDE DEF new
<1>3. AllListed(new)
  BY <1>2 DEF AllListed
<1> QED
  BY <1>1, <1>3 DEF HeldOK, new

\* Setting a variable before an update.
LEMMA SetVarNamed ==
  ASSUME NEW tr, HeldOK(tr), NEW name \in DOMAIN tr.vars, NEW val \in Value
  PROVE  TraceOK(SetVar(tr, name, val)) /\ NamedRecords(SetVar(tr, name, val))
<1> DEFINE set == SetVar(tr, name, val)
<1>1. /\ TraceOK(set)
      /\ set.vars = tr.vars /\ DOMAIN set.recs = DOMAIN tr.recs
      /\ \A k \in DOMAIN tr.recs : set.recs[k].name = tr.recs[k].name
  BY SetVarOK DEF HeldOK
<1> HIDE DEF set
<1>2. NamedRecords(set)
  BY <1>1 DEF HeldOK, NamedRecords, GetRecord, TraceOK
<1> QED
  BY <1>1, <1>2 DEF set

\* A copy has the variables of its original, with their names.
LEMMA CopiedNames == ASSUME NEW tr, HeldOK(tr) PROVE DOMAIN tr.vars \subseteq DOMAIN DeepCopy(tr).vars
<1> SUFFICES ASSUME NEW name \in DOMAIN tr.vars PROVE name \in DOMAIN DeepCopy(tr).vars
  OBVIOUS
<1>1. PICK k \in DOMAIN tr.varlist : tr.vars[name] = tr.varlist[k]
  BY DEF HeldOK, AllListed, Listed
<1>2. ListRecord(tr, k).name = name
  BY <1>1 DEF HeldOK, NamedRecords, GetRecord, ListRecord
<1> QED
  BY <1>2, DeepCopyOK DEF HeldOK

\* A trace has finitely many variables: no two have one record.
LEMMA FinitelyMany ==
  ASSUME NEW tr, HeldOK(tr), NEW S \in SUBSET DOMAIN tr.vars
  PROVE  IsFiniteSet(S) /\ Cardinality(S) \in Nat
<1> DEFINE N == DOMAIN tr.vars  T == 1..Len(tr.recs)
<1>1. DOMAIN tr.recs = T /\ Len(tr.recs) \in Nat
  BY SequenceDomain DEF HeldOK, TraceOK
<1>2. tr.vars \in [N -> T]
  BY <1>1 DEF HeldOK, TraceOK
<1>3. \A m, n \in N : tr.vars[m] = tr.vars[n] => m = n
  BY DEF HeldOK, NamedRecords, GetRecord
<1>4. tr.vars \in Injection(N, T)
  BY <1>2, <1>3 DEF Injection, IsInjective
<1>5. IsFiniteSet(T)
  BY <1>1, FS_Interval
<1>6. IsFiniteSet(N)
  BY <1>4, <1>5, FS_Injection
<1> QED
  BY <1>6, FS_Subset, FS_CardinalityType

(***************************************************************************)
(* Types. The traces of the chain and of a jump hold their variables in    *)
(* both lists, so that a copy of one has them; an annealing that has not   *)
(* ended has a step left.                                                  *)
(***************************************************************************)

JumpFields == {"name", "origval", "propval", "old", "new", "fwd", "newNumVars", "ratio", "aStep",
               "prevAccepted"}
JumpOK ==
  /\ HasFields(jump, JumpFields)
  /\ HeldOK(jump.old) /\ HeldOK(jump.new)
  /\ {jump.fwd, jump.ratio} \subseteq LP
  /\ jump.aStep \in 0..AnnealSteps
  /\ {jump.newNumVars, jump.prevAccepted} \subseteq Nat

TypeInv ==
  /\ prog \in Prog
  /\ HeldOK(curr)
  /\ pc \in Steps
  /\ pc \in {"annealing", "deciding"} => JumpOK /\ i <= NumSamps * Lag
  /\ pc \in {"starting", "iterating", "done"} => jump = None
  /\ pc = "annealing" => jump.aStep # AnnealSteps
  /\ i \in 1..NumSamps * Lag + 1
  /\ samps \in Seq([sample : Value \cup {None}, logprob : LP])
  /\ stats \in [Counters -> Nat]

LEMMA Numbers == NumSamps * Lag \in Nat /\ (prog \in Prog => AnnealSteps \in Nat)
BY LARJAssumption DEF AnnealSteps

\* Counting adds to counters.
LEMMA Counted ==
  ASSUME stats \in [Counters -> Nat], NEW S PROVE Counting(S) \in [Counters -> Nat]
BY DEF Counting

\* An iteration ends with a well-formed trace.
LEMMA ReturnsTyped ==
  ASSUME TypeInv, i <= NumSamps * Lag, NEW tr, HeldOK(tr), NextReturns(tr), prog' = prog,
         stats' \in [Counters -> Nat]
  PROVE  TypeInv'
<1>1. curr' = tr /\ jump' = None /\ pc' = "iterating" /\ i' = i + 1
  BY DEF NextReturns
<1>2. tr.returnValue \in Value \cup {None} /\ tr.logprob \in LP
  BY DEF HeldOK, TraceOK
<1>3. samps' \in Seq([sample : Value \cup {None}, logprob : LP])
  <2> DEFINE S == [sample : Value \cup {None}, logprob : LP]
             s == [sample |-> tr.returnValue, logprob |-> tr.logprob]
  <2>1. samps \in Seq(S) /\ s \in S
    BY <1>2 DEF TypeInv
  <2>2. samps' = IF i % Lag = 0 THEN Append(samps, s) ELSE samps
    BY DEF NextReturns
  <2> HIDE DEF S, s
  <2>3. Append(samps, s) \in Seq(S)
    BY <2>1, AppendTo
  <2>4. samps' \in Seq(S)
    BY <2>1, <2>2, <2>3
  <2> QED
    BY <2>4 DEF S
<1>4. i' \in 1..NumSamps * Lag + 1
  BY <1>1, Numbers DEF TypeInv
<1>5. pc' \in Steps /\ pc' # "annealing" /\ pc' # "deciding" /\ jump' = None
  BY <1>1 DEF Steps
<1>6. prog' \in Prog /\ HeldOK(curr')
  BY <1>1 DEF TypeInv
<1> QED
  BY <1>3, <1>4, <1>5, <1>6 DEF TypeInv, HeldOK, TraceOK, NamedRecords, AllListed, Listed, GetRecord

LEMMA InitialiseTyped == ASSUME TypeInv, Initialise PROVE TypeInv'
<1>1. HeldOK(curr')
  <2>1. curr' \in TraceUpdates(prog, EmptyTrace, FALSE)
    BY DEF Initialise
  <2>2. TraceOK(EmptyTrace) /\ NamedRecords(EmptyTrace) /\ FALSE \in BOOLEAN
    BY EmptyTraceHeld DEF HeldOK
  <2> QED
    BY <2>1, <2>2, UpdateHeld DEF TypeInv
<1>2. pc = "starting" /\ pc' = "iterating" /\ UNCHANGED <<prog, jump, i, samps, stats>>
  BY DEF Initialise
<1> QED
  BY <1>1, <1>2 DEF TypeInv, Steps

\* The kernel executes the program again when there is nothing to change.
LEMMA RerunTyped == ASSUME TypeInv, Rerun \/ DiffuseRerun PROVE TypeInv'
<1>1. PICK structureIsFixed \in BOOLEAN :
        \E tr \in TraceUpdates(prog, curr, structureIsFixed) : NextReturns(tr)
  BY DEF Rerun, DiffuseRerun
<1>2. PICK tr \in TraceUpdates(prog, curr, structureIsFixed) : NextReturns(tr)
  BY <1>1
<1>3. HeldOK(tr)
  BY UpdateHeld DEF TypeInv, HeldOK
<1>4. i <= NumSamps * Lag /\ prog' = prog
  BY DEF Rerun, DiffuseRerun, MayDiffuse, Iterating
<1>5. stats' \in [Counters -> Nat]
  BY Counted DEF Rerun, DiffuseRerun, TypeInv
<1> QED
  BY <1>2, <1>3, <1>4, <1>5, ReturnsTyped

\* A variable of a trace is changed in a copy of it, which is then updated.
LEMMA ChangedHeld ==
  ASSUME NEW p \in Prog, NEW tr, HeldOK(tr), NEW name \in DOMAIN DeepCopy(tr).vars,
         NEW val \in Value, NEW structureIsFixed \in BOOLEAN,
         NEW new \in TraceUpdates(p, SetVar(DeepCopy(tr), name, val), structureIsFixed)
  PROVE  HeldOK(new)
<1>1. HeldOK(DeepCopy(tr))
  BY DeepCopyHeld
<1>2. /\ TraceOK(SetVar(DeepCopy(tr), name, val))
      /\ NamedRecords(SetVar(DeepCopy(tr), name, val))
  BY <1>1, SetVarNamed
<1> QED
  BY <1>2, UpdateHeld

\* The record that a proposal is made from is well formed.
LEMMA RecordTyped ==
  ASSUME NEW tr, HeldOK(tr), NEW name \in DOMAIN tr.vars PROVE RecordOK(GetRecord(tr, name))
BY DEF HeldOK, TraceOK, GetRecord

LEMMA ProposalHeld ==
  ASSUME TypeInv, NEW name \in Nonstruct(curr), NEW p \in Proposals(curr, name)
  PROVE  HeldOK(p.trace)
<1> DEFINE next == DeepCopy(curr)
           var == GetRecord(next, name)
<1>1. HeldOK(curr) /\ HeldOK(next)
  BY DeepCopyHeld DEF TypeInv
<1>2. name \in DOMAIN next.vars
  BY <1>1, CopiedNames DEF Nonstruct, FreeVarNames
<1>3. RecordOK(var)
  BY <1>1, <1>2, RecordTyped
<1>4. PICK val \in Proposal(var.erp, var.val, var.params) :
        \E t \in TraceUpdates(prog, SetVar(next, name, val), TRUE) : p.trace = t
  <2> DEFINE ProposalMade(val, t) ==
               [trace |-> t,
                fwd |-> Plus(LogProposalProb(var.erp, var.val, val, var.params), t.newlogprob),
                rvs |-> Plus(LogProposalProb(var.erp, val, var.val, var.params), t.oldlogprob)]
  <2>1. p \in UNION {{ProposalMade(val, t) : t \in TraceUpdates(prog, SetVar(next, name, val), TRUE)} :
                      val \in Proposal(var.erp, var.val, var.params)}
    BY Zenon DEF Proposals
  <2>2. \A val, t : ProposalMade(val, t).trace = t
    OBVIOUS
  <2> HIDE DEF ProposalMade
  <2>3. PICK val \in Proposal(var.erp, var.val, var.params) :
          p \in {ProposalMade(val, t) : t \in TraceUpdates(prog, SetVar(next, name, val), TRUE)}
    BY <2>1
  <2>4. PICK t \in TraceUpdates(prog, SetVar(next, name, val), TRUE) : p = ProposalMade(val, t)
    BY <2>3
  <2> QED
    BY <2>2, <2>4
<1>5. val \in Value
  BY <1>3, ErpAssumption DEF RecordOK
<1>6. \A t \in TraceUpdates(prog, SetVar(next, name, val), TRUE) : HeldOK(t)
  BY <1>1, <1>2, <1>5, ChangedHeld DEF TypeInv
<1> QED
  BY <1>4, <1>6

LEMMA DiffuseTyped == ASSUME TypeInv, DiffuseAccept \/ DiffuseReject PROVE TypeInv'
<1>1. i <= NumSamps * Lag /\ prog' = prog
  BY DEF DiffuseAccept, DiffuseReject, MayDiffuse, Iterating
<1>2. stats' \in [Counters -> Nat]
  BY Counted DEF DiffuseAccept, DiffuseReject, TypeInv
<1>3. CASE DiffuseAccept
  <2>1. PICK name \in Nonstruct(curr) : \E p \in Proposals(curr, name) : NextReturns(p.trace)
    BY <1>3 DEF DiffuseAccept
  <2>2. PICK p \in Proposals(curr, name) : NextReturns(p.trace)
    BY <2>1
  <2>3. HeldOK(p.trace)
    BY ProposalHeld
  <2> QED
    BY <1>1, <1>2, <2>2, <2>3, ReturnsTyped
<1>4. CASE DiffuseReject
  <2>1. NextReturns(curr) /\ HeldOK(curr)
    BY <1>4 DEF DiffuseReject, TypeInv
  <2> QED
    BY <1>1, <1>2, <2>1, ReturnsTyped
<1> QED
  BY <1>3, <1>4

\* A jump begins with a copy of the current trace and the trace that changing
\* a structural variable of it leads to.
LEMMA JumpTyped == ASSUME TypeInv, Jump PROVE TypeInv'
<1> DEFINE old == DeepCopy(curr)
<1>1. HeldOK(curr) /\ HeldOK(old) /\ prog \in Prog
  BY DeepCopyHeld DEF TypeInv
<1>2. PICK name, val, new :
        /\ name \in Struct(old)
        /\ val \in Proposal(GetRecord(old, name).erp, GetRecord(old, name).val,
                            GetRecord(old, name).params)
        /\ new \in TraceUpdates(prog, SetVar(old, name, val), FALSE)
        /\ jump' = [name |-> name, origval |-> GetRecord(old, name).val, propval |-> val,
                    old |-> old, new |-> new,
                    fwd |-> Minus(Plus(LogProposalProb(GetRecord(old, name).erp,
                                                       GetRecord(old, name).val, val,
                                                       GetRecord(old, name).params),
                                       new.newlogprob),
                                  Log(Cardinality(Struct(old)))),
                    newNumVars |-> Cardinality(Struct(new)),
                    ratio |-> 0, aStep |-> 0, prevAccepted |-> stats["accepted"]]
        /\ pc' = IF Anneals(old, new) THEN "annealing" ELSE "deciding"
  BY Zenon DEF Jump
<1> HIDE DEF old
<1>3. name \in DOMAIN old.vars
  BY <1>2 DEF Struct, FreeVarNames
<1>4. RecordOK(GetRecord(old, name))
  BY <1>1, <1>3, RecordTyped
<1>5. val \in Value
  BY <1>2, <1>4, ErpAssumption DEF RecordOK
<1>6. HeldOK(new)
  BY <1>1, <1>2, <1>3, <1>5, ChangedHeld DEF old
<1>7. Cardinality(Struct(new)) \in Nat
  <2>1. Struct(new) \in SUBSET DOMAIN new.vars
    BY DEF Struct, FreeVarNames
  <2> QED
    BY <1>6, <2>1, FinitelyMany
<1>8. stats["accepted"] \in Nat /\ stats' \in [Counters -> Nat]
  BY Counted DEF TypeInv, Counters, Jump
<1>9. AnnealSteps \in Nat /\ AnnealSteps' = AnnealSteps /\ prog' = prog
  BY <1>1, Numbers DEF AnnealSteps, Jump
<1>10. /\ HasFields(jump', JumpFields)
       /\ jump'.old = old /\ jump'.new = new
       /\ jump'.newNumVars = Cardinality(Struct(new))
       /\ jump'.ratio = 0 /\ jump'.aStep = 0 /\ jump'.prevAccepted = stats["accepted"]
  BY <1>2 DEF HasFields, JumpFields
<1>11. jump'.fwd \in LP
  BY <1>2, PlusType DEF Minus
<1>12. JumpOK'
  BY <1>1, <1>6, <1>7, <1>8, <1>9, <1>10, <1>11 DEF JumpOK, LP
<1>14. pc' \in {"annealing", "deciding"} /\ (pc' = "annealing" => jump'.aStep # AnnealSteps)
  BY <1>2, <1>9, <1>10 DEF Anneals
<1>15. UNCHANGED <<prog, curr, i, samps>> /\ i <= NumSamps * Lag
  BY DEF Jump, MayJump, Iterating
<1> QED
  BY <1>8, <1>9, <1>12, <1>14, <1>15 DEF TypeInv, Steps

\* A step of the annealing goes on with well-formed traces.
LEMMA AnnealedTyped ==
  ASSUME TypeInv, pc = "annealing", NEW old, NEW new, HeldOK(old), HeldOK(new),
         NEW r, r.old = old, r.new = new, NEW isAccepted \in BOOLEAN, Annealed(r, isAccepted),
         NEW ratio \in LP, jump'.ratio = ratio, stats' \in [Counters -> Nat]
  PROVE  TypeInv'
<1>1. JumpOK /\ jump.aStep # AnnealSteps /\ AnnealSteps \in Nat
  BY Numbers DEF TypeInv
<1>2. UNCHANGED <<prog, curr, i, samps>> /\ AnnealSteps' = AnnealSteps
  BY DEF Annealed, AnnealSteps
<1>3. /\ HasFields(jump', JumpFields)
      /\ jump'.old = old /\ jump'.new = new
      /\ jump'.aStep = jump.aStep + 1
      /\ jump'.fwd = jump.fwd /\ jump'.newNumVars = jump.newNumVars
      /\ jump'.prevAccepted = jump.prevAccepted
  BY <1>1 DEF Annealed, JumpOK, HasFields, JumpFields
<1>4. jump'.aStep \in 0..AnnealSteps
  BY <1>1, <1>3 DEF JumpOK
<1>5. JumpOK'
  BY <1>1, <1>2, <1>3, <1>4 DEF JumpOK
<1>6. pc' = IF jump.aStep = AnnealSteps - 1 THEN "deciding" ELSE "annealing"
  BY DEF Annealed
<1>7. pc' = "annealing" => jump'.aStep # AnnealSteps
  BY <1>1, <1>3, <1>6 DEF JumpOK
<1> QED
  BY <1>2, <1>5, <1>6, <1>7 DEF TypeInv, Steps

\* A variable is changed in every interpolated trace that has it.
LEMMA LerpHeld ==
  ASSUME TypeInv, pc = "annealing", NEW name \in LerpNames(jump), NEW q \in LerpProposals(name)
  PROVE  HeldOK(q.old) /\ HeldOK(q.new)
<1> DEFINE var == GetRecord(IF name \in DOMAIN jump.old.vars THEN jump.old ELSE jump.new, name)
           Changed(tr, val) ==
             IF name \in DOMAIN tr.vars
             THEN TraceUpdates(prog, SetVar(DeepCopy(tr), name, val), TRUE) ELSE {tr}
           ProposalMade(val) ==
             [old : Changed(jump.old, val), new : Changed(jump.new, val),
              fwd : {LogProposalProb(var.erp, var.val, val, var.params)},
              rvs : {LogProposalProb(var.erp, val, var.val, var.params)}]
<1>1. HeldOK(jump.old) /\ HeldOK(jump.new) /\ prog \in Prog
  BY DEF TypeInv, JumpOK
<1>2. name \in DOMAIN jump.old.vars \/ name \in DOMAIN jump.new.vars
  BY DEF LerpNames, Nonstruct, FreeVarNames
<1>3. RecordOK(var)
  BY <1>1, <1>2, RecordTyped
<1>4. q \in UNION {ProposalMade(val) : val \in Proposal(var.erp, var.val, var.params)}
  BY Zenon DEF LerpProposals
<1>5. PICK val \in Proposal(var.erp, var.val, var.params) : q \in ProposalMade(val)
  <2> HIDE DEF ProposalMade
  <2> QED
    BY <1>4
<1>6. val \in Value
  BY <1>3, ErpAssumption DEF RecordOK
<1>7. q.old \in Changed(jump.old, val) /\ q.new \in Changed(jump.new, val)
  BY <1>5
<1>8. ASSUME NEW tr, HeldOK(tr), NEW t \in Changed(tr, val)
      PROVE  HeldOK(t)
  <2>1. CASE name \in DOMAIN tr.vars
    <3>1. name \in DOMAIN DeepCopy(tr).vars
      BY <1>8, <2>1, CopiedNames
    <3>2. t \in TraceUpdates(prog, SetVar(DeepCopy(tr), name, val), TRUE)
      BY <1>8, <2>1
    <3> QED
      BY <1>1, <1>6, <1>8, <3>1, <3>2, ChangedHeld
  <2> QED
    BY <1>8, <2>1
<1> HIDE DEF Changed
<1> QED
  BY <1>1, <1>7, <1>8

LEMMA AnnealTyped == ASSUME TypeInv, StatsInv, AnnealAccept \/ AnnealReject PROVE TypeInv'
<1>1. pc = "annealing"
  BY DEF AnnealAccept, AnnealReject
<1>2. PICK r, isAccepted :
        isAccepted \in BOOLEAN /\ Annealed(r, isAccepted) /\ HeldOK(r.old) /\ HeldOK(r.new)
  <2>1. CASE AnnealAccept
    <3>1. PICK name \in LerpNames(jump) : \E q \in LerpProposals(name) : Annealed(q, TRUE)
      BY <2>1 DEF AnnealAccept
    <3>2. PICK q \in LerpProposals(name) : Annealed(q, TRUE)
      BY <3>1
    <3>3. HeldOK(q.old) /\ HeldOK(q.new)
      BY <1>1, LerpHeld
    <3> QED
      BY <3>2, <3>3
  <2>2. CASE AnnealReject
    <3>1. Annealed(jump, FALSE) /\ HeldOK(jump.old) /\ HeldOK(jump.new)
      BY <1>1, <2>2 DEF AnnealReject, TypeInv, JumpOK
    <3> QED
      BY <3>1
  <2> QED
    BY <2>1, <2>2
<1>3. stats' \in [Counters -> Nat]
  <2>1. StatsInv'
    BY <1>1, <1>2, AnnealedKeepsStats
  <2> QED
    BY <2>1 DEF StatsInv
<1>4. jump'.ratio \in LP
  <2>1. jump'.ratio = Minus(Plus(jump.ratio, Lerp(jump)), Lerp(r))
    BY <1>1, <1>2 DEF Annealed, TypeInv, JumpOK, HasFields, JumpFields
  <2> QED
    BY <2>1, PlusType DEF Minus
<1>5. PICK old, new, ratio : r.old = old /\ r.new = new /\ ratio \in LP /\ jump'.ratio = ratio
  BY <1>4
<1> QED
  BY <1>1, <1>2, <1>3, <1>5, AnnealedTyped

LEMMA DecideTyped == ASSUME TypeInv, JumpAccept \/ JumpReject PROVE TypeInv'
<1>1. i <= NumSamps * Lag /\ prog' = prog /\ HeldOK(jump.new) /\ HeldOK(curr)
  BY DEF JumpAccept, JumpReject, Deciding, TypeInv, JumpOK
<1>2. stats' \in [Counters -> Nat]
  BY Counted DEF JumpAccept, JumpReject, TypeInv
<1>3. NextReturns(jump.new) \/ NextReturns(curr)
  BY DEF JumpAccept, JumpReject
<1>4. PICK tr : HeldOK(tr) /\ NextReturns(tr)
  BY <1>1, <1>3
<1> QED
  BY <1>1, <1>2, <1>4, ReturnsTyped

\* An error leaves the kernel as it is.
LEMMA FailTyped == ASSUME TypeInv, JumpFails \/ AnnealFails \/ DecideFails PROVE TypeInv'
<1>1. pc' = "failed" /\ UNCHANGED <<prog, curr, jump, i, samps>>
  BY DEF JumpFails, AnnealFails, DecideFails, Fail
<1>2. stats' \in [Counters -> Nat]
  BY Counted DEF JumpFails, AnnealFails, DecideFails, TypeInv
<1> QED
  BY <1>1, <1>2 DEF TypeInv, Steps

LEMMA TypedInit == Init => TypeInv
<1> SUFFICES ASSUME Init PROVE TypeInv
  OBVIOUS
<1>1. HeldOK(curr)
  BY EmptyTraceHeld DEF Init
<1>2. i \in 1..NumSamps * Lag + 1
  BY Numbers DEF Init
<1>3. samps \in Seq([sample : Value \cup {None}, logprob : LP])
  BY DEF Init
<1> QED
  BY <1>1, <1>2, <1>3 DEF Init, TypeInv, Steps

LEMMA TypedNext == TypeInv /\ StatsInv /\ [Next]_vars => TypeInv'
<1> SUFFICES ASSUME TypeInv, StatsInv, [Next]_vars PROVE TypeInv'
  OBVIOUS
<1>1. CASE Initialise
  BY <1>1, InitialiseTyped
<1>2. CASE Rerun \/ DiffuseRerun
  BY <1>2, RerunTyped
<1>3. CASE DiffuseAccept \/ DiffuseReject
  BY <1>3, DiffuseTyped
<1>4. CASE Jump
  BY <1>4, JumpTyped
<1>5. CASE AnnealAccept \/ AnnealReject
  BY <1>5, AnnealTyped
<1>6. CASE JumpAccept \/ JumpReject
  BY <1>6, DecideTyped
<1>7. CASE JumpFails \/ AnnealFails \/ DecideFails
  BY <1>7, FailTyped
<1>8. CASE Finish
  BY <1>8 DEF Finish, TypeInv, Steps
<1>9. CASE UNCHANGED vars
  BY <1>9 DEF vars, TypeInv, JumpOK, AnnealSteps
<1> QED
  BY <1>1, <1>2, <1>3, <1>4, <1>5, <1>6, <1>7, <1>8, <1>9 DEF Next, Done

LEMMA TypedAlways == Spec => [](TypeInv /\ StatsInv)
<1> DEFINE J == TypeInv /\ StatsInv
<1>1. Init => J
  BY TypedInit, StatsInit
<1>2. J /\ [Next]_vars => J'
  BY TypedNext, StatsNext
<1> QED
  BY <1>1, <1>2, PTL DEF Spec

\* The state keeps its types under every program and every annealing, also
\* when the structure of the program changes under it: whatever variable an
\* annealing step picks in one of two traces of different structure, both
\* traces stay well formed (inference.lua:153-178), and a jump anneals no more
\* steps than it was given (inference.lua:240).
THEOREM TypeCorrect == Spec => []TypeOK
<1>1. TypeInv /\ StatsInv => TypeOK
  BY DEF TypeInv, TypeOK, JumpOK, HeldOK
<1> QED
  BY <1>1, TypedAlways, PTL

(***************************************************************************)
(* Acceptance.                                                             *)
(***************************************************************************)

\* A jump's threshold is impossible with its new trace: what the annealing has
\* collected cannot make up for it.
LEMMA JumpThreshImpossible ==
  ASSUME prog \in Prog, jump.new.logprob \in {NegInf, NaN} PROVE JumpThresh \in {NegInf, NaN}
<1> DEFINE var == GetRecord(jump.new, jump.name)
           rvs == Minus(Plus(LogProposalProb(var.erp, jump.propval, jump.origval, var.params),
                             LpDiff(jump.old, jump.new)),
                        Log(jump.newNumVars))
           ratio == Minus(Plus(Minus(jump.new.logprob, curr.logprob), rvs), jump.fwd)
<1>1. JumpThresh = Plus(Times(Scale, ratio), jump.ratio)
  BY DEF JumpThresh
<1> HIDE DEF rvs
<1>2. Minus(jump.new.logprob, curr.logprob) \in {NegInf, NaN}
  BY PlusImpossible
<1>3. Plus(Minus(jump.new.logprob, curr.logprob), rvs) \in {NegInf, NaN}
  BY <1>2, PlusImpossible
<1>4. ratio \in {NegInf, NaN}
  BY <1>3, PlusImpossible
<1> HIDE DEF ratio
<1>5. Scale \in Nat /\ Scale # 0
  BY Numbers DEF Scale
<1>6. Times(Scale, ratio) \in {NegInf, NaN}
  BY <1>4, <1>5, SpecialsAssumption DEF Times
<1> QED
  BY <1>1, <1>6, PlusImpossible

LEMMA DiffusionThreshImpossible ==
  ASSUME NEW p, p.trace.logprob \in {NegInf, NaN} PROVE DiffusionThresh(p) \in {NegInf, NaN}
<1> DEFINE fwd == Minus(p.fwd, Log(Cardinality(Nonstruct(curr))))
           rvs == Minus(p.rvs, Log(Cardinality(Nonstruct(p.trace))))
<1>1. DiffusionThresh(p) = Minus(Plus(Minus(p.trace.logprob, curr.logprob), rvs), fwd)
  BY DEF DiffusionThresh
<1> HIDE DEF fwd, rvs
<1>2. Minus(p.trace.logprob, curr.logprob) \in {NegInf, NaN}
  BY PlusImpossible
<1>3. Plus(Minus(p.trace.logprob, curr.logprob), rvs) \in {NegInf, NaN}
  BY <1>2, PlusImpossible
<1> QED
  BY <1>1, <1>3, PlusImpossible

\* The steps that count an accepted jump or diffusion.
LEMMA AcceptedIsPossible ==
  ASSUME prog \in Prog, DiffuseAccept \/ JumpAccept PROVE curr'.logprob \notin {NegInf, NaN}
<1>1. CASE DiffuseAccept
  <2>1. PICK name \in Nonstruct(curr) : \E p \in Proposals(curr, name) :
          LogRandomBelow(DiffusionThresh(p)) /\ NextReturns(p.trace)
    BY <1>1 DEF DiffuseAccept
  <2>2. PICK p \in Proposals(curr, name) :
          LogRandomBelow(DiffusionThresh(p)) /\ NextReturns(p.trace)
    BY <2>1
  <2> QED
    BY <2>2, DiffusionThreshImpossible DEF LogRandomBelow, NextReturns
<1>2. CASE JumpAccept
  BY <1>2, JumpThreshImpossible DEF JumpAccept, LogRandomBelow, NextReturns
<1> QED
  BY <1>1, <1>2

\* Every other step leaves the two counters of acceptances alone.
LEMMA OthersAccept ==
  ASSUME StatsInv, [Next]_vars, ~DiffuseAccept, ~JumpAccept
  PROVE  stats'["diffusionsAccepted"] = stats["diffusionsAccepted"]
         /\ stats'["jumpsAccepted"] = stats["jumpsAccepted"]
<1>1. stats \in [Counters -> Nat] /\ {"diffusionsAccepted", "jumpsAccepted"} \subseteq Counters
  BY DEF StatsInv, Counters
<1>2. ASSUME NEW S, stats' = Counting(S), "diffusionsAccepted" \notin S, "jumpsAccepted" \notin S
      PROVE  stats'["diffusionsAccepted"] = stats["diffusionsAccepted"]
             /\ stats'["jumpsAccepted"] = stats["jumpsAccepted"]
  BY <1>1, <1>2, CountingValues
<1>3. CASE AnnealAccept \/ AnnealReject
  BY <1>1, <1>3 DEF AnnealAccept, AnnealReject, Annealed
<1>4. CASE DiffuseReject \/ DiffuseRerun
  <2>1. stats' = Counting({"made", "diffusionsMade"})
    BY <1>4 DEF DiffuseReject, DiffuseRerun
  <2> QED
    BY <1>2, <2>1
<1>5. CASE Jump \/ JumpFails
  <2>1. stats' = Counting({"jumpsMade"})
    BY <1>5 DEF Jump, JumpFails
  <2> QED
    BY <1>2, <2>1
<1>6. CASE AnnealFails
  <2>1. stats' = Counting({"made"})
    BY <1>6 DEF AnnealFails
  <2> QED
    BY <1>2, <2>1
<1>7. CASE Initialise \/ Rerun \/ JumpReject \/ DecideFails \/ Finish \/ UNCHANGED vars
  BY <1>7 DEF Initialise, Rerun, JumpReject, DecideFails, Finish, vars
<1> QED
  BY <1>3, <1>4, <1>5, <1>6, <1>7 DEF Next, Done

\* No jump and no diffusion is accepted into a trace that is impossible, or
\* whose log probability is not a number, whatever the annealing has collected
\* (inference.lua:254-257, 268): both survive every sum and difference in the
\* threshold, and no threshold that is one of them is passed.
THEOREM NeverAcceptsImpossible == Spec => AcceptsOnlyPossible
<1>1. (TypeInv /\ StatsInv) /\ [Next]_vars =>
        [stats'["diffusionsAccepted"] + stats'["jumpsAccepted"]
           # stats["diffusionsAccepted"] + stats["jumpsAccepted"] =>
         curr'.logprob \notin {NegInf, NaN}]_vars
  <2> SUFFICES ASSUME TypeInv, StatsInv, [Next]_vars,
                      stats'["diffusionsAccepted"] + stats'["jumpsAccepted"]
                        # stats["diffusionsAccepted"] + stats["jumpsAccepted"]
               PROVE  curr'.logprob \notin {NegInf, NaN}
    OBVIOUS
  <2>1. DiffuseAccept \/ JumpAccept
    BY OthersAccept
  <2> QED
    BY <2>1, AcceptedIsPossible DEF TypeInv
<1> QED
  BY <1>1, TypedAlways, PTL DEF Spec, AcceptsOnlyPossible

(***************************************************************************)
(* A whole update, by the execution of the program that it follows.        *)
(***************************************************************************)

\* One call keeps to it.
LEMMA CallGoesOn ==
  ASSUME NEW p \in Prog, NEW h \in Histories(p), NEW tr, UpdatedOK(tr), NEW A, NEW s, NEW fixed,
         UnderWay(p, tr, h, A, s, fixed), NEW r \in CallResults(tr, Computation(p, h))
  PROVE  UnderWay(p, r.trace, Append(h, r.val), A, s, fixed)
<1>1. PICK call : call = Computation(p, h)
  OBVIOUS
<1>2. PICK name : name = CurrentName(call, tr.loopcounters)
  OBVIOUS
<1>3. CASE call.op = "erp"
  <2>1. r \in Lookups(tr, call)
    BY <1>1, <1>3 DEF CallResults
  <2>2. CASE VarIsInFlatList(tr)
    <3>1. PICK next : next = ReuseListed(tr, call)
      OBVIOUS
    <3>2. r = [trace |-> next, val |-> ListRecord(next, tr.currVarIndex).val]
      BY <2>1, <2>2, <3>1, Zenon DEF Lookups
    <3>3. UnderWay(p, next, Append(h, ListRecord(next, tr.currVarIndex).val), A, s, fixed)
      BY <1>1, <1>3, <2>2, <3>1, ListedGoesOn
    <3>4. r.trace = next /\ r.val = ListRecord(next, tr.currVarIndex).val
      BY <3>2
    <3> QED
      BY <3>3, <3>4
  <2>3. CASE ~VarIsInFlatList(tr) /\ Matches(tr, name, call)
    <3>1. PICK next : next = ReuseNamed(tr, call)
      OBVIOUS
    <3>2. r = [trace |-> next, val |-> GetRecord(next, name).val]
      BY <1>2, <2>1, <2>3, <3>1, Zenon DEF Lookups
    <3>3. PICK val : val = GetRecord(next, name).val
      OBVIOUS
    <3>4. UnderWay(p, next, Append(h, val), A, s, fixed)
      BY <1>1, <1>2, <1>3, <2>3, <3>1, <3>3, NamedGoesOn
    <3>5. r.trace = next /\ r.val = val
      BY <3>2, <3>3
    <3> QED
      BY <3>4, <3>5
  <2>4. CASE ~VarIsInFlatList(tr) /\ ~Matches(tr, name, call)
    <3>1. PICK val \in InitialValues(call) : r = [trace |-> Create(tr, call, val), val |-> val]
      BY <1>2, <2>1, <2>4 DEF Lookups
    <3>2. UnderWay(p, Create(tr, call, val), Append(h, val), A, s, fixed)
      BY <1>1, <1>2, <1>3, <2>4, NewGoesOn
    <3>3. r.trace = Create(tr, call, val) /\ r.val = val
      BY <3>1
    <3> QED
      BY <3>2, <3>3
  <2> QED
    BY <2>2, <2>3, <2>4
<1>4. CASE call.op = "factor"
  <2>1. r = [trace |-> AddFactor(tr, call.num), val |-> None]
    BY <1>1, <1>4 DEF CallResults
  <2>2. UnderWay(p, AddFactor(tr, call.num), Append(h, None), A, s, fixed)
    BY <1>1, <1>4, FactorGoesOn
  <2>3. r.trace = AddFactor(tr, call.num) /\ r.val = None
    BY <2>1
  <2> QED
    BY <2>2, <2>3
<1>5. CASE call.op = "condition"
  <2>1. r = [trace |-> ConditionOn(tr, call.holds), val |-> None]
    BY <1>1, <1>5 DEF CallResults
  <2>2. UnderWay(p, ConditionOn(tr, call.holds), Append(h, None), A, s, fixed)
    BY <1>1, <1>5, ConditionGoesOn
  <2>3. r.trace = ConditionOn(tr, call.holds) /\ r.val = None
    BY <2>1
  <2> QED
    BY <2>2, <2>3
<1>6. CASE call.op = "nested"
  <2>1. PICK val \in call.outcomes : r = [trace |-> tr, val |-> val]
    BY <1>1, <1>6 DEF CallResults
  <2>2. UnderWay(p, tr, Append(h, val), A, s, fixed)
    BY <1>1, <1>6, NestedGoesOn
  <2> QED
    BY <2>1, <2>2
<1>7. call.op \in {"erp", "factor", "condition", "nested"}
  BY <1>1 DEF CallResults
<1> QED
  BY <1>3, <1>4, <1>5, <1>6, <1>7

\* The trace that an update leaves is what an execution of the program gives.
LEMMA UpdateExecutes ==
  ASSUME NEW p \in Prog, NEW tr, NEW fixed, UpdatedOK(BeginUpdate(tr, fixed)), NEW A, NEW s,
         UnderWay(p, BeginUpdate(tr, fixed), <<>>, A, s, fixed), NEW new \in TraceUpdates(p, tr, fixed)
  PROVE  Held(p, new) /\ Reaches(p, new, A) /\ (fixed => Shapes(new) = s)
<1>1. PICK after :
        /\ IsUpdating(after, p, tr, fixed, CallBound)
        /\ \E n \in 0..CallBound : \E e \in after[n] :
             /\ Computation(p, e.hist).op = "return"
             /\ new = EndUpdate(e.trace, Computation(p, e.hist).val)
  BY UpdatedInCalls
<1> DEFINE OK(e) == /\ UpdatedOK(e.trace) /\ e.hist \in Histories(p)
                    /\ UnderWay(p, e.trace, e.hist, A, s, fixed)
           T == {n \in 0..CallBound : \A e \in after[n] : OK(e)}
<1>2. CallBound \in Nat
  BY CallBoundAssumption
<1>3. \A n \in 0..CallBound :
        after[n] = IF n = 0 THEN BegunWith(tr, fixed) ELSE OneCallOn(p, after[n - 1])
  BY <1>1 DEF IsUpdating
<1>4. 0 \in T
  <2>1. <<>> \in Histories(p)
    BY ComputationAssumption
  <2>2. \A e \in BegunWith(tr, fixed) : OK(e)
    BY <2>1 DEF BegunWith
  <2> QED
    BY <1>2, <1>3, <2>2
<1>5. ASSUME NEW n \in 0..CallBound, n # 0, n - 1 \in T
      PROVE  n \in T
  <2> SUFFICES ASSUME NEW f \in OneCallOn(p, after[n - 1])
               PROVE  OK(f)
    BY <1>3, <1>5
  <2>1. PICK e \in after[n - 1] : \E r \in CallResults(e.trace, Computation(p, e.hist)) :
          f = [trace |-> r.trace, hist |-> Append(e.hist, r.val)]
    BY DEF OneCallOn
  <2>2. PICK r \in CallResults(e.trace, Computation(p, e.hist)) :
          f = [trace |-> r.trace, hist |-> Append(e.hist, r.val)]
    BY <2>1
  <2>3. OK(e)
    BY <1>5
  <2>4. UpdatedOK(r.trace) /\ Append(e.hist, r.val) \in Histories(p)
    BY <2>3, CallKeeps
  <2>5. UnderWay(p, r.trace, Append(e.hist, r.val), A, s, fixed)
    BY <2>3, CallGoesOn
  <2>6. f.trace = r.trace /\ f.hist = Append(e.hist, r.val)
    BY <2>2
  <2> QED
    BY <2>4, <2>5, <2>6
<1> HIDE DEF T
<1>6. 0..CallBound \subseteq T
  BY <1>2, <1>4, <1>5, Induction
<1>7. PICK n \in 0..CallBound : \E e \in after[n] :
        /\ Computation(p, e.hist).op = "return"
        /\ new = EndUpdate(e.trace, Computation(p, e.hist).val)
  BY <1>1
<1>8. PICK e \in after[n] :
        /\ Computation(p, e.hist).op = "return"
        /\ new = EndUpdate(e.trace, Computation(p, e.hist).val)
  BY <1>7
<1>9. OK(e)
  BY <1>6 DEF T
<1> QED
  BY <1>8, <1>9, UpdateEnds

\* The first execution, and one of a trace with a choice of its own.
LEMMA FirstExecutes ==
  ASSUME NEW p \in Prog, NEW new \in TraceUpdates(p, EmptyTrace, FALSE)
  PROVE  Held(p, new) /\ Reaches(p, new, NoChoices)
<1>1. TraceOK(EmptyTrace) /\ NamedRecords(EmptyTrace)
  BY EmptyTraceHeld DEF HeldOK
<1>2. DOMAIN EmptyTrace.vars = {}
  BY DEF EmptyTrace
<1>3. Cached(EmptyTrace) /\ ChoicesOf(EmptyTrace) = NoChoices
  BY <1>2 DEF Cached, ChoicesOf, NoChoices, EmptyTrace
<1>4. UpdatedOK(BeginUpdate(EmptyTrace, FALSE))
  BY <1>1, BeginUpdated
<1>5. Freely(p, BeginUpdate(EmptyTrace, FALSE), <<>>, NoChoices)
  BY <1>1, <1>3, BegunAgain DEF Freely
<1>6. UnderWay(p, BeginUpdate(EmptyTrace, FALSE), <<>>, NoChoices, <<>>, FALSE)
  BY <1>5 DEF UnderWay
<1> QED
  BY <1>4, <1>6, UpdateExecutes

\* An update that does not rely on the structure.
LEMMA FreeUpdateExecutes ==
  ASSUME NEW p \in Prog, NEW tr, TraceOK(tr), NamedRecords(tr), Cached(tr),
         NEW new \in TraceUpdates(p, tr, FALSE)
  PROVE  Held(p, new) /\ Reaches(p, new, ChoicesOf(tr))
<1>1. UpdatedOK(BeginUpdate(tr, FALSE))
  BY BeginUpdated
<1>2. PICK A : A = ChoicesOf(tr)
  OBVIOUS
<1>3. Freely(p, BeginUpdate(tr, FALSE), <<>>, A)
  BY <1>2, BegunAgain DEF Freely
<1>4. UnderWay(p, BeginUpdate(tr, FALSE), <<>>, A, <<>>, FALSE)
  BY <1>3 DEF UnderWay
<1> QED
  BY <1>1, <1>2, <1>4, UpdateExecutes

\* An update with the structure fixed, of a program that keeps it.
LEMMA FixedUpdateExecutes ==
  ASSUME NEW p \in Prog, KeepsStructure(p), NEW tr, Fixable(p, tr),
         NEW new \in TraceUpdates(p, tr, TRUE)
  PROVE  Held(p, new) /\ Reaches(p, new, ChoicesOf(tr)) /\ Shapes(new) = Shapes(tr)
<1>1. PICK fixed \in BOOLEAN : fixed = TRUE
  OBVIOUS
<1>2. UpdatedOK(BeginUpdate(tr, fixed))
  BY BeginUpdated DEF Fixable, FlatListIsDatabase, NamedRecords
<1>3. PICK A, s : A = ChoicesOf(tr) /\ s = Shapes(tr)
  OBVIOUS
<1>4. UnderWay(p, BeginUpdate(tr, fixed), <<>>, A, s, fixed)
  BY <1>1, <1>3, UpdateBegins
<1>5. new \in TraceUpdates(p, tr, fixed)
  BY <1>1
<1>6. Held(p, new) /\ Reaches(p, new, A) /\ (fixed => Shapes(new) = s)
  BY <1>2, <1>4, <1>5, UpdateExecutes
<1> QED
  BY <1>1, <1>3, <1>6

(***************************************************************************)
(* The variables that a trace is changed in, by its choices.               *)
(***************************************************************************)

StructOf(A) == {n \in DOMAIN A : ~A[n].conditioned /\ A[n].structural = TRUE}
NonstructOf(A) == {n \in DOMAIN A : ~A[n].conditioned /\ ~(A[n].structural = TRUE)}

LEMMA FreeByChoices ==
  ASSUME NEW tr
  PROVE  Struct(tr) = StructOf(ChoicesOf(tr)) /\ Nonstruct(tr) = NonstructOf(ChoicesOf(tr))
<1> DEFINE A == ChoicesOf(tr)
<1>1. DOMAIN A = DOMAIN tr.vars
  BY DEF ChoicesOf
<1>2. ASSUME NEW n \in DOMAIN tr.vars
      PROVE  /\ A[n].conditioned = GetRecord(tr, n).conditioned
             /\ A[n].structural = GetRecord(tr, n).structural
  BY DEF ChoicesOf, ChoiceOf
<1> HIDE DEF A
<1>3. ASSUME NEW n \in DOMAIN tr.vars
      PROVE  /\ n \in Struct(tr) <=> n \in StructOf(A)
             /\ n \in Nonstruct(tr) <=> n \in NonstructOf(A)
  <2>1. n \in Struct(tr) <=> ~GetRecord(tr, n).conditioned /\ GetRecord(tr, n).structural = TRUE
    BY Zenon DEF Struct, FreeVarNames
  <2>2. n \in Nonstruct(tr) <=> ~GetRecord(tr, n).conditioned /\ ~(GetRecord(tr, n).structural = TRUE)
    BY Zenon DEF Nonstruct, FreeVarNames
  <2>3. n \in StructOf(A) <=> ~A[n].conditioned /\ A[n].structural = TRUE
    BY <1>1, Zenon DEF StructOf
  <2>4. n \in NonstructOf(A) <=> ~A[n].conditioned /\ ~(A[n].structural = TRUE)
    BY <1>1, Zenon DEF NonstructOf
  <2>5. (n \in Struct(tr)) <=> (n \in StructOf(A))
    BY <1>2, <2>1, <2>3, Zenon
  <2>6. (n \in Nonstruct(tr)) <=> (n \in NonstructOf(A))
    BY <1>2, <2>2, <2>4, Zenon
  <2> QED
    BY <2>5, <2>6
<1>4. /\ Struct(tr) \subseteq DOMAIN tr.vars /\ Nonstruct(tr) \subseteq DOMAIN tr.vars
      /\ StructOf(A) \subseteq DOMAIN tr.vars /\ NonstructOf(A) \subseteq DOMAIN tr.vars
  BY <1>1 DEF Struct, Nonstruct, FreeVarNames, StructOf, NonstructOf
<1>5. Struct(tr) = StructOf(A) /\ Nonstruct(tr) = NonstructOf(A)
  BY <1>3, <1>4
<1> QED
  BY <1>5 DEF A

\* The same structure has the same free variables.
LEMMA SameFree ==
  ASSUME NEW p \in Prog, NEW tr, Held(p, tr), NEW new, Held(p, new), Shapes(new) = Shapes(tr)
  PROVE  Struct(new) = Struct(tr) /\ Nonstruct(new) = Nonstruct(tr)
<1>1. PICK A, B : A = ChoicesOf(tr) /\ B = ChoicesOf(new)
  OBVIOUS
<1>2. SameStructure(A, B)
  BY <1>1, HeldStructure
<1>3. DOMAIN A = DOMAIN B
  BY <1>2 DEF SameStructure
<1>4. ASSUME NEW n \in DOMAIN A
      PROVE  /\ (n \in StructOf(A)) <=> (n \in StructOf(B))
             /\ (n \in NonstructOf(A)) <=> (n \in NonstructOf(B))
  <2>1. A[n].structural = B[n].structural /\ A[n].conditioned = B[n].conditioned
    BY <1>2 DEF SameStructure
  <2>2. (n \in StructOf(A)) <=> (n \in StructOf(B))
    BY <1>3, <2>1, Zenon DEF StructOf
  <2>3. (n \in NonstructOf(A)) <=> (n \in NonstructOf(B))
    BY <1>3, <2>1, Zenon DEF NonstructOf
  <2> QED
    BY <2>2, <2>3
<1>5. /\ StructOf(A) \subseteq DOMAIN A /\ StructOf(B) \subseteq DOMAIN A
      /\ NonstructOf(A) \subseteq DOMAIN A /\ NonstructOf(B) \subseteq DOMAIN A
  BY <1>3 DEF StructOf, NonstructOf
<1>6. StructOf(A) = StructOf(B) /\ NonstructOf(A) = NonstructOf(B)
  BY <1>4, <1>5
<1> QED
  BY <1>1, <1>6, FreeByChoices

(***************************************************************************)
(* The change of a variable in a copy of a trace, and the execution after  *)
(* it.                                                                     *)
(***************************************************************************)

LEMMA MoveExecutes ==
  ASSUME NEW p \in Prog, NEW tr, Held(p, tr), NEW name \in DOMAIN tr.vars, NEW val \in Value,
         NEW new \in TraceUpdates(p, SetVar(DeepCopy(tr), name, val), FALSE)
  PROVE  Held(p, new) /\ Reaches(p, new, With(ChoicesOf(tr), name, val))
<1>1. PICK next : next = DeepCopy(tr)
  OBVIOUS
<1>2. /\ TraceOK(next) /\ NamedRecords(next) /\ Cached(next)
      /\ DOMAIN next.vars = DOMAIN tr.vars /\ ChoicesOf(next) = ChoicesOf(tr)
  BY <1>1, CopiedChoices DEF Held
<1>3. PICK set : set = SetVar(next, name, val)
  OBVIOUS
<1>4. /\ TraceOK(set) /\ NamedRecords(set) /\ Cached(set)
      /\ ChoicesOf(set) = With(ChoicesOf(tr), name, val)
  BY <1>2, <1>3, SetChoices
<1>5. new \in TraceUpdates(p, set, FALSE)
  BY <1>1, <1>3
<1>6. Held(p, new) /\ Reaches(p, new, ChoicesOf(set))
  BY <1>4, <1>5, FreeUpdateExecutes
<1> QED
  BY <1>4, <1>6

\* The change of a variable that is no part of the structure leaves it the same.
SameShape(new, tr) == Shapes(new) = Shapes(tr)

LEMMA FixedMoveExecutes ==
  ASSUME NEW p \in Prog, KeepsStructure(p), NEW tr, Held(p, tr), NEW name \in DOMAIN tr.vars,
         ~IsFree(GetRecord(tr, name).structural, GetRecord(tr, name).conditioned),
         NEW val \in Value, NEW new \in TraceUpdates(p, SetVar(DeepCopy(tr), name, val), TRUE)
  PROVE  /\ Held(p, new) /\ Reaches(p, new, With(ChoicesOf(tr), name, val))
         /\ SameShape(new, tr)
<1>1. PICK next : next = DeepCopy(tr)
  OBVIOUS
<1>2. /\ TraceOK(next) /\ NamedRecords(next) /\ Cached(next)
      /\ DOMAIN next.vars = DOMAIN tr.vars /\ ChoicesOf(next) = ChoicesOf(tr)
  BY <1>1, CopiedChoices DEF Held
<1>3. FlatListIsDatabase(next) /\ Shapes(next) = Shapes(tr)
  BY <1>1, CopyList DEF Held
<1>4. /\ GetRecord(next, name).structural = GetRecord(tr, name).structural
      /\ GetRecord(next, name).conditioned = GetRecord(tr, name).conditioned
  <2>1. /\ ChoicesOf(next)[name].structural = GetRecord(next, name).structural
        /\ ChoicesOf(next)[name].conditioned = GetRecord(next, name).conditioned
    BY <1>2 DEF ChoicesOf, ChoiceOf
  <2>2. /\ ChoicesOf(tr)[name].structural = GetRecord(tr, name).structural
        /\ ChoicesOf(tr)[name].conditioned = GetRecord(tr, name).conditioned
    BY DEF ChoicesOf, ChoiceOf
  <2> QED
    BY <1>2, <2>1, <2>2
<1>5. PICK set : set = SetVar(next, name, val)
  OBVIOUS
<1>6. /\ TraceOK(set) /\ NamedRecords(set) /\ Cached(set)
      /\ ChoicesOf(set) = With(ChoicesOf(tr), name, val)
  BY <1>2, <1>5, SetChoices
<1>7. FlatListIsDatabase(set) /\ Shapes(set) = Shapes(tr)
  BY <1>2, <1>3, <1>4, <1>5, SetList
<1>8. Fixable(p, set)
  BY <1>6, <1>7, HeldPlanned DEF Fixable
<1>9. new \in TraceUpdates(p, set, TRUE)
  BY <1>1, <1>5
<1>10. Held(p, new) /\ Reaches(p, new, ChoicesOf(set)) /\ Shapes(new) = Shapes(set)
  BY <1>8, <1>9, FixedUpdateExecutes
<1>11. Shapes(new) = Shapes(tr)
  BY <1>7, <1>10
<1> QED
  BY <1>6, <1>10, <1>11 DEF SameShape

\* The choice of the variable that is changed, and of the others.
LEMMA WithChoices ==
  ASSUME NEW tr, NEW name \in DOMAIN tr.vars, NEW val
  PROVE  LET C == With(ChoicesOf(tr), name, val)
         IN  /\ DOMAIN C = DOMAIN tr.vars
             /\ \A m \in DOMAIN tr.vars :
                  /\ C[m].erp = GetRecord(tr, m).erp /\ C[m].structural = GetRecord(tr, m).structural
                  /\ C[m].val = IF m = name THEN val ELSE GetRecord(tr, m).val
<1> DEFINE A == ChoicesOf(tr)
           C == With(A, name, val)
<1>1. DOMAIN A = DOMAIN tr.vars
  BY DEF ChoicesOf
<1>2. \A m \in DOMAIN tr.vars :
        /\ HasFields(A[m], {"erp", "params", "val", "structural", "conditioned"})
        /\ A[m].erp = GetRecord(tr, m).erp /\ A[m].structural = GetRecord(tr, m).structural
        /\ A[m].val = GetRecord(tr, m).val
  BY DEF ChoicesOf, ChoiceOf, HasFields
<1> HIDE DEF A
<1>3. /\ DOMAIN C = DOMAIN A
      /\ \A m \in DOMAIN A \ {name} : C[m] = A[m]
      /\ C[name].erp = A[name].erp /\ C[name].structural = A[name].structural /\ C[name].val = val
  BY <1>1, <1>2 DEF With, HasFields
<1> HIDE DEF C
<1> QED
  BY <1>1, <1>2, <1>3 DEF A, C

\* A variable that both traces have keeps its value, or has the new one, unless
\* it is observed after the change.
LEMMA MoveKeepsValues ==
  ASSUME NEW p \in Prog, MarksChoices(p), NEW tr, Held(p, tr), NEW name \in DOMAIN tr.vars,
         NEW val \in Value, NEW new, Held(p, new), Reaches(p, new, With(ChoicesOf(tr), name, val)),
         NEW n, n \in DOMAIN tr.vars, n \in DOMAIN new.vars, ~GetRecord(new, n).conditioned
  PROVE  GetRecord(new, n).val = IF n = name THEN val ELSE GetRecord(tr, n).val
<1>1. PICK C, B : C = With(ChoicesOf(tr), name, val) /\ B = ChoicesOf(new)
  OBVIOUS
<1>2. /\ n \in DOMAIN C /\ C[n].erp = GetRecord(tr, n).erp
      /\ C[n].structural = GetRecord(tr, n).structural
      /\ C[n].val = IF n = name THEN val ELSE GetRecord(tr, n).val
  BY <1>1, WithChoices
<1>3. /\ n \in DOMAIN B /\ B[n].erp = GetRecord(new, n).erp
      /\ B[n].structural = GetRecord(new, n).structural
      /\ B[n].conditioned = GetRecord(new, n).conditioned /\ B[n].val = GetRecord(new, n).val
  BY <1>1 DEF ChoicesOf, ChoiceOf
<1>4. /\ GetRecord(tr, n).erp = GetRecord(new, n).erp
      /\ GetRecord(tr, n).structural = GetRecord(new, n).structural
  BY HeldAlike
<1>5. Keeping(C, B)
  BY <1>1, ReachedKeeps
<1>6. ~B[n].conditioned
  BY <1>3
<1>7. Usable(C, n, B[n])
  BY <1>2, <1>3, <1>4 DEF Usable
<1>8. B[n].val = C[n].val
  BY <1>3, <1>5, <1>6, <1>7 DEF Keeping
<1> QED
  BY <1>2, <1>3, <1>8

(***************************************************************************)
(* The traces of settled programs are executions, and comparable.          *)
(***************************************************************************)

SharedAgree(old, new) ==
  \A n \in Nonstruct(old) \cap Nonstruct(new) : GetRecord(old, n).val = GetRecord(new, n).val

\* Before it is annealed, the new trace is what the change of the one variable
\* leads to.
Proposed ==
  LET c == ChoicesOf(curr)[jump.name]
  IN  \E val \in Proposal(c.erp, c.val, c.params) :
        Reaches(prog, jump.new, With(ChoicesOf(curr), jump.name, val))

JumpHeld ==
  /\ Held(prog, jump.old) /\ Held(prog, jump.new)
  /\ jump.name \in Struct(curr) /\ jump.name \in DOMAIN jump.new.vars
  /\ SharedAgree(jump.old, jump.new)
  /\ KeepsStructural(ChoicesOf(curr), ChoicesOf(jump.new), jump.name)
  /\ jump.aStep = 0 => Proposed

Chained ==
  prog \in Settled =>
    /\ pc # "starting" => Held(prog, curr)
    /\ pc \in {"annealing", "deciding"} => JumpHeld
    /\ pc = "annealing" => LerpNames(jump) # {}
    /\ pc = "failed" => JumpFreq # None

LEMMA Settles == prog \in Settled => KeepsStructure(prog) /\ MarksChoices(prog)
BY SettledAssumption

LEMMA InitialiseChained == ASSUME TypeInv, Initialise PROVE Chained'
<1>1. curr' \in TraceUpdates(prog, EmptyTrace, FALSE) /\ pc' = "iterating" /\ prog' = prog
  BY DEF Initialise
<1>2. Held(prog, curr')
  BY <1>1, FirstExecutes DEF TypeInv
<1> QED
  BY <1>1, <1>2 DEF Chained

\* The end of an iteration.
LEMMA ReturnsChained ==
  ASSUME NEW tr, prog \in Settled => Held(prog, tr), NextReturns(tr), prog' = prog
  PROVE  Chained'
<1>1. curr' = tr /\ pc' = "iterating"
  BY DEF NextReturns
<1> QED
  BY <1>1 DEF Chained

\* The current trace executed again.
LEMMA RerunExecutes ==
  ASSUME TypeInv, Chained, prog \in Settled, pc # "starting", NEW fixed \in BOOLEAN,
         NEW tr \in TraceUpdates(prog, curr, fixed)
  PROVE  Held(prog, tr) /\ Reaches(prog, tr, ChoicesOf(curr))
<1>1. Held(prog, curr) /\ prog \in Prog
  BY DEF Chained, TypeInv
<1>2. CASE fixed
  <2>1. Fixable(prog, curr) /\ tr \in TraceUpdates(prog, curr, TRUE)
    BY <1>1, <1>2, HeldFixable
  <2> QED
    BY <1>1, <2>1, Settles, FixedUpdateExecutes
<1>3. CASE ~fixed
  <2>1. TraceOK(curr) /\ NamedRecords(curr) /\ Cached(curr) /\ tr \in TraceUpdates(prog, curr, FALSE)
    BY <1>1, <1>3 DEF Held, FlatListIsDatabase, NamedRecords
  <2> QED
    BY <1>1, <2>1, FreeUpdateExecutes
<1> QED
  BY <1>2, <1>3

LEMMA RerunChained == ASSUME TypeInv, Chained, Rerun \/ DiffuseRerun PROVE Chained'
<1>1. PICK fixed \in BOOLEAN : \E tr \in TraceUpdates(prog, curr, fixed) : NextReturns(tr)
  BY DEF Rerun, DiffuseRerun
<1>2. PICK tr \in TraceUpdates(prog, curr, fixed) : NextReturns(tr)
  BY <1>1
<1>3. prog' = prog /\ pc # "starting"
  BY DEF Rerun, DiffuseRerun, MayDiffuse, Iterating
<1>4. prog \in Settled => Held(prog, tr)
  BY <1>3, RerunExecutes
<1> QED
  BY <1>2, <1>3, <1>4, ReturnsChained

\* A proposal of the diffusion kernel.
LEMMA ProposalExecutes ==
  ASSUME TypeInv, Chained, prog \in Settled, pc # "starting", NEW name \in Nonstruct(curr),
         NEW p \in Proposals(curr, name)
  PROVE  /\ Held(prog, p.trace)
         /\ LET c == ChoicesOf(curr)[name]
            IN  \E val \in Proposal(c.erp, c.val, c.params) :
                  Reaches(prog, p.trace, With(ChoicesOf(curr), name, val))
<1> DEFINE next == DeepCopy(curr)
           var == GetRecord(next, name)
           c == ChoicesOf(curr)[name]
<1>1. Held(prog, curr) /\ prog \in Prog /\ name \in DOMAIN curr.vars
  BY DEF Chained, TypeInv, Nonstruct, FreeVarNames
<1>2. PICK val \in Proposal(var.erp, var.val, var.params) :
        p.trace \in TraceUpdates(prog, SetVar(next, name, val), TRUE)
  <2> DEFINE ProposalMade(val, t) ==
               [trace |-> t,
                fwd |-> Plus(LogProposalProb(var.erp, var.val, val, var.params), t.newlogprob),
                rvs |-> Plus(LogProposalProb(var.erp, val, var.val, var.params), t.oldlogprob)]
  <2>1. p \in UNION {{ProposalMade(val, t) : t \in TraceUpdates(prog, SetVar(next, name, val), TRUE)} :
                      val \in Proposal(var.erp, var.val, var.params)}
    BY Zenon DEF Proposals
  <2>2. \A val, t : ProposalMade(val, t).trace = t
    OBVIOUS
  <2> HIDE DEF ProposalMade
  <2>3. PICK val \in Proposal(var.erp, var.val, var.params) :
          p \in {ProposalMade(val, t) : t \in TraceUpdates(prog, SetVar(next, name, val), TRUE)}
    BY <2>1
  <2>4. PICK t \in TraceUpdates(prog, SetVar(next, name, val), TRUE) : p = ProposalMade(val, t)
    BY <2>3
  <2> QED
    BY <2>2, <2>4
<1>3. c = ChoiceOf(var) /\ DOMAIN next.vars = DOMAIN curr.vars
  <2>1. ChoicesOf(next) = ChoicesOf(curr) /\ DOMAIN next.vars = DOMAIN curr.vars
    BY <1>1, CopyIsHeld
  <2>2. ChoicesOf(next)[name] = ChoiceOf(var)
    BY <1>1, <2>1 DEF ChoicesOf
  <2> QED
    BY <2>1, <2>2
<1>4. c.erp = var.erp /\ c.val = var.val /\ c.params = var.params
  BY <1>3 DEF ChoiceOf
<1>5. val \in Value
  <2>1. HeldOK(next)
    BY DeepCopyHeld DEF TypeInv
  <2>2. RecordOK(var)
    BY <1>1, <1>3, <2>1, RecordTyped
  <2> QED
    BY <2>2, ErpAssumption DEF RecordOK
<1>6. ~IsFree(GetRecord(curr, name).structural, GetRecord(curr, name).conditioned)
  BY DEF Nonstruct, FreeVarNames, IsFree
<1>7. PICK tr : tr = p.trace
  OBVIOUS
<1>8. Held(prog, tr) /\ Reaches(prog, tr, With(ChoicesOf(curr), name, val))
  BY <1>1, <1>2, <1>5, <1>6, <1>7, Settles, FixedMoveExecutes
<1> HIDE DEF c, var
<1> QED
  BY <1>2, <1>4, <1>7, <1>8 DEF c

LEMMA DiffuseChained == ASSUME TypeInv, Chained, DiffuseAccept \/ DiffuseReject PROVE Chained'
<1>1. prog' = prog /\ pc # "starting"
  BY DEF DiffuseAccept, DiffuseReject, MayDiffuse, Iterating
<1>2. CASE DiffuseAccept
  <2>1. PICK name \in Nonstruct(curr) : \E p \in Proposals(curr, name) : NextReturns(p.trace)
    BY <1>2 DEF DiffuseAccept
  <2>2. PICK p \in Proposals(curr, name) : NextReturns(p.trace)
    BY <2>1
  <2>3. PICK tr : tr = p.trace
    OBVIOUS
  <2>4. prog \in Settled => Held(prog, tr)
    BY <1>1, <2>3, ProposalExecutes
  <2> QED
    BY <1>1, <2>2, <2>3, <2>4, ReturnsChained
<1>3. CASE DiffuseReject
  <2>1. NextReturns(curr)
    BY <1>3 DEF DiffuseReject
  <2>2. prog \in Settled => Held(prog, curr)
    BY <1>1 DEF Chained
  <2> QED
    BY <1>1, <2>1, <2>2, ReturnsChained
<1> QED
  BY <1>2, <1>3

\* The new trace of a jump: what it shares with the old one.
LEMMA JumpExecutes ==
  ASSUME NEW p \in Prog, KeepsStructure(p), MarksChoices(p), NEW tr, Held(p, tr),
         NEW name \in Struct(tr), NEW val \in Value,
         NEW new \in TraceUpdates(p, SetVar(DeepCopy(tr), name, val), FALSE)
  PROVE  /\ Held(p, new) /\ Reaches(p, new, With(ChoicesOf(tr), name, val))
         /\ name \in DOMAIN new.vars
         /\ SharedAgree(tr, new)
         /\ KeepsStructural(ChoicesOf(tr), ChoicesOf(new), name)
<1>1. name \in DOMAIN tr.vars /\ GetRecord(tr, name).structural = TRUE
  <2>1. name \in DOMAIN tr.vars
    BY DEF Struct, FreeVarNames
  <2>2. GetRecord(tr, name).structural = TRUE
    BY Zenon DEF Struct, FreeVarNames
  <2> QED
    BY <2>1, <2>2
<1>2. Held(p, new) /\ Reaches(p, new, With(ChoicesOf(tr), name, val))
  BY <1>1, MoveExecutes
<1>3. name \in DOMAIN new.vars
  BY <1>1, <1>2, ReachedKeeps
<1>4. ASSUME NEW n, n \in DOMAIN tr.vars, n \in DOMAIN new.vars, n # name,
             ~GetRecord(new, n).conditioned
      PROVE  GetRecord(new, n).val = GetRecord(tr, n).val
  BY <1>1, <1>2, <1>4, MoveKeepsValues
<1>5. SharedAgree(tr, new)
  <2> SUFFICES ASSUME NEW n, n \in Nonstruct(tr), n \in Nonstruct(new)
               PROVE  GetRecord(tr, n).val = GetRecord(new, n).val
    BY DEF SharedAgree
  <2>1. n \in DOMAIN tr.vars /\ n \in DOMAIN new.vars
    BY DEF Nonstruct, FreeVarNames
  <2>2. ~GetRecord(new, n).conditioned
    BY Zenon DEF Nonstruct, FreeVarNames
  <2>3. ~(GetRecord(tr, n).structural = TRUE)
    BY Zenon DEF Nonstruct, FreeVarNames
  <2> QED
    BY <1>1, <1>4, <2>1, <2>2, <2>3
<1>6. KeepsStructural(ChoicesOf(tr), ChoicesOf(new), name)
  <2>1. PICK A, B : A = ChoicesOf(tr) /\ B = ChoicesOf(new)
    OBVIOUS
  <2>2. /\ DOMAIN A = DOMAIN tr.vars /\ DOMAIN B = DOMAIN new.vars
        /\ \A n \in DOMAIN A : A[n].val = GetRecord(tr, n).val
        /\ \A n \in DOMAIN B : B[n].val = GetRecord(new, n).val
                               /\ B[n].conditioned = GetRecord(new, n).conditioned
    BY <2>1 DEF ChoicesOf, ChoiceOf
  <2>3. ASSUME NEW n \in (DOMAIN A \cap DOMAIN B) \ {name}, ~B[n].conditioned
        PROVE  B[n].val = A[n].val
    BY <1>4, <2>2, <2>3
  <2> QED
    BY <2>1, <2>3 DEF KeepsStructural
<1> QED
  BY <1>2, <1>3, <1>5, <1>6

LEMMA JumpChained == ASSUME TypeInv, Chained, Jump PROVE Chained'
<1> SUFFICES ASSUME prog \in Settled PROVE Chained'
  <2>1. prog' = prog
    BY DEF Jump
  <2> QED
    BY <2>1 DEF Chained
<1>1. Held(prog, curr) /\ prog \in Prog /\ KeepsStructure(prog) /\ MarksChoices(prog) /\ HeldOK(curr)
  BY Settles DEF Jump, MayJump, Iterating, Chained, TypeInv
<1>2. PICK old : old = DeepCopy(curr)
  OBVIOUS
<1>3. PICK name, val, new, rest :
        /\ name \in Struct(old)
        /\ val \in Proposal(GetRecord(old, name).erp, GetRecord(old, name).val,
                            GetRecord(old, name).params)
        /\ new \in TraceUpdates(prog, SetVar(old, name, val), FALSE)
        /\ jump' = [name |-> name, origval |-> rest.origval, propval |-> rest.propval,
                    old |-> old, new |-> new, fwd |-> rest.fwd, newNumVars |-> rest.newNumVars,
                    ratio |-> 0, aStep |-> 0, prevAccepted |-> rest.prevAccepted]
        /\ pc' = IF Anneals(old, new) THEN "annealing" ELSE "deciding"
  <2>1. PICK name, val, new :
          /\ name \in Struct(old)
          /\ val \in Proposal(GetRecord(old, name).erp, GetRecord(old, name).val,
                              GetRecord(old, name).params)
          /\ new \in TraceUpdates(prog, SetVar(old, name, val), FALSE)
          /\ jump' = [name |-> name, origval |-> GetRecord(old, name).val, propval |-> val,
                      old |-> old, new |-> new,
                      fwd |-> Minus(Plus(LogProposalProb(GetRecord(old, name).erp,
                                                         GetRecord(old, name).val, val,
                                                         GetRecord(old, name).params),
                                         new.newlogprob),
                                    Log(Cardinality(Struct(old)))),
                      newNumVars |-> Cardinality(Struct(new)),
                      ratio |-> 0, aStep |-> 0, prevAccepted |-> stats["accepted"]]
          /\ pc' = IF Anneals(old, new) THEN "annealing" ELSE "deciding"
    BY <1>2, Zenon DEF Jump
  <2> DEFINE rest == [origval |-> GetRecord(old, name).val, propval |-> val,
                      fwd |-> Minus(Plus(LogProposalProb(GetRecord(old, name).erp,
                                                         GetRecord(old, name).val, val,
                                                         GetRecord(old, name).params),
                                         new.newlogprob),
                                    Log(Cardinality(Struct(old)))),
                      newNumVars |-> Cardinality(Struct(new)), prevAccepted |-> stats["accepted"]]
  <2> QED
    BY <2>1
<1>4. /\ jump'.name = name /\ jump'.old = old /\ jump'.new = new /\ jump'.aStep = 0
      /\ UNCHANGED <<prog, curr>>
  BY <1>3 DEF Jump
<1>5. Held(prog, old) /\ ChoicesOf(old) = ChoicesOf(curr) /\ DOMAIN old.vars = DOMAIN curr.vars
  BY <1>1, <1>2, CopyIsHeld
<1>6. Struct(old) = Struct(curr) /\ Nonstruct(old) = Nonstruct(curr)
  BY <1>5, FreeByChoices
<1>7. name \in Struct(curr) /\ name \in DOMAIN old.vars
  BY <1>3, <1>6 DEF Struct, FreeVarNames
<1>8. val \in Value
  <2>1. HeldOK(old)
    BY <1>1, <1>2, DeepCopyHeld
  <2>2. RecordOK(GetRecord(old, name))
    BY <1>7, <2>1, RecordTyped
  <2> QED
    BY <1>3, <2>2, ErpAssumption DEF RecordOK
<1>9. /\ Held(prog, new) /\ Reaches(prog, new, With(ChoicesOf(curr), name, val))
      /\ name \in DOMAIN new.vars /\ SharedAgree(curr, new)
      /\ KeepsStructural(ChoicesOf(curr), ChoicesOf(new), name)
  BY <1>1, <1>2, <1>3, <1>7, <1>8, JumpExecutes
<1>10. SharedAgree(old, new)
  <2>1. \A n \in Nonstruct(old) : GetRecord(old, n).val = GetRecord(curr, n).val
    <3>1. ASSUME NEW n \in Nonstruct(old) PROVE GetRecord(old, n).val = GetRecord(curr, n).val
      <4>1. n \in DOMAIN old.vars /\ n \in DOMAIN curr.vars
        BY <1>5 DEF Nonstruct, FreeVarNames
      <4>2. ChoicesOf(old)[n].val = GetRecord(old, n).val /\ ChoicesOf(curr)[n].val = GetRecord(curr, n).val
        BY <4>1 DEF ChoicesOf, ChoiceOf
      <4> QED
        BY <1>5, <4>2
    <3> QED
      BY <3>1
  <2> QED
    BY <1>6, <1>9, <2>1 DEF SharedAgree
<1>11. /\ ChoicesOf(curr)[name].erp = GetRecord(old, name).erp
       /\ ChoicesOf(curr)[name].val = GetRecord(old, name).val
       /\ ChoicesOf(curr)[name].params = GetRecord(old, name).params
  <2>1. ChoicesOf(old)[name] = ChoiceOf(GetRecord(old, name))
    BY <1>7 DEF ChoicesOf
  <2> QED
    BY <1>5, <2>1 DEF ChoiceOf
<1>12. \E v \in Proposal(ChoicesOf(curr)[name].erp, ChoicesOf(curr)[name].val,
                         ChoicesOf(curr)[name].params) :
         Reaches(prog, new, With(ChoicesOf(curr), name, v))
  BY <1>3, <1>9, <1>11
<1>13. Proposed'
  BY <1>4, <1>12 DEF Proposed
<1>14. JumpHeld'
  BY <1>4, <1>5, <1>7, <1>9, <1>10, <1>13 DEF JumpHeld, Struct
<1>15. pc' = "annealing" => LerpNames(jump') # {}
  BY <1>3, <1>4 DEF Anneals, LerpNames
<1>16. pc' \in {"annealing", "deciding"} /\ Held(prog', curr')
  BY <1>1, <1>3, <1>4
<1> QED
  BY <1>14, <1>15, <1>16 DEF Chained, LerpNames

\* One of the traces of a jump after an annealing step that changed the variable
\* name, if it has it, to val.
AnnealedTo(p, tr, new, name, val) ==
  /\ Held(p, new) /\ Shapes(new) = Shapes(tr)
  /\ \A n \in Nonstruct(tr) : GetRecord(new, n).val = IF n = name THEN val ELSE GetRecord(tr, n).val

LEMMA AnnealExecutes ==
  ASSUME NEW p \in Prog, KeepsStructure(p), MarksChoices(p), NEW tr, Held(p, tr), NEW name,
         name \in DOMAIN tr.vars => GetRecord(tr, name).structural # TRUE, NEW val \in Value,
         NEW new,
         new \in IF name \in DOMAIN tr.vars
                 THEN TraceUpdates(p, SetVar(DeepCopy(tr), name, val), TRUE) ELSE {tr}
  PROVE  AnnealedTo(p, tr, new, name, val)
<1>1. CASE name \notin DOMAIN tr.vars
  <2>1. new = tr
    BY <1>1
  <2>2. \A n \in Nonstruct(tr) : n # name
    BY <1>1 DEF Nonstruct, FreeVarNames
  <2> QED
    BY <2>1, <2>2 DEF AnnealedTo
<1>2. CASE name \in DOMAIN tr.vars
  <2>1. ~IsFree(GetRecord(tr, name).structural, GetRecord(tr, name).conditioned)
    BY <1>2 DEF IsFree
  <2>2. new \in TraceUpdates(p, SetVar(DeepCopy(tr), name, val), TRUE)
    BY <1>2
  <2>3. name \in DOMAIN tr.vars
    BY <1>2
  <2>4. /\ Held(p, new) /\ Reaches(p, new, With(ChoicesOf(tr), name, val))
        /\ SameShape(new, tr)
    BY ONLY p \in Prog, KeepsStructure(p), Held(p, tr), val \in Value, <2>1, <2>2, <2>3,
            FixedMoveExecutes
  <2>5. Shapes(new) = Shapes(tr) /\ Nonstruct(new) = Nonstruct(tr)
    BY <2>4, SameFree DEF SameShape
  <2>6. ASSUME NEW n \in Nonstruct(tr)
        PROVE  GetRecord(new, n).val = IF n = name THEN val ELSE GetRecord(tr, n).val
    <3>1. n \in DOMAIN tr.vars /\ n \in DOMAIN new.vars
      BY <2>5 DEF Nonstruct, FreeVarNames
    <3>2. ~GetRecord(new, n).conditioned
      <4>1. n \in Nonstruct(new)
        BY <2>5
      <4> QED
        BY <4>1, Zenon DEF Nonstruct, FreeVarNames
    <3> QED
      BY <2>4, <2>3, <3>1, <3>2, MoveKeepsValues
  <2> QED
    BY <2>4, <2>5, <2>6 DEF AnnealedTo
<1> QED
  BY <1>1, <1>2

\* No variable that is annealed is structural, in either trace.
LEMMA LerpNonstructural ==
  ASSUME prog \in Prog, prog \in Settled, JumpHeld, NEW name \in LerpNames(jump)
  PROVE  /\ name \in DOMAIN jump.old.vars => GetRecord(jump.old, name).structural # TRUE
         /\ name \in DOMAIN jump.new.vars => GetRecord(jump.new, name).structural # TRUE
<1>1. PICK old, new : old = jump.old /\ new = jump.new
  OBVIOUS
<1>2. Held(prog, old) /\ Held(prog, new) /\ MarksChoices(prog)
  BY <1>1, Settles DEF JumpHeld
<1>3. \A tr : name \in Nonstruct(tr) =>
        name \in DOMAIN tr.vars /\ ~(GetRecord(tr, name).structural = TRUE)
  <2> SUFFICES ASSUME NEW tr, name \in Nonstruct(tr)
               PROVE  name \in DOMAIN tr.vars /\ ~(GetRecord(tr, name).structural = TRUE)
    OBVIOUS
  <2>1. name \in DOMAIN tr.vars
    BY DEF Nonstruct, FreeVarNames
  <2>2. ~(GetRecord(tr, name).structural = TRUE)
    BY Zenon DEF Nonstruct, FreeVarNames
  <2> QED
    BY <2>1, <2>2
<1>4. name \in Nonstruct(old) \/ name \in Nonstruct(new)
  BY <1>1 DEF LerpNames
<1>5. name \in DOMAIN old.vars /\ name \in DOMAIN new.vars =>
        GetRecord(old, name).structural = GetRecord(new, name).structural
  BY <1>2, HeldAlike
<1> QED
  BY <1>1, <1>3, <1>4, <1>5

\* An annealing step changes both traces alike, and the structure of neither.
LEMMA LerpExecutes ==
  ASSUME TypeInv, Chained, prog \in Settled, pc = "annealing", NEW name \in LerpNames(jump),
         NEW q \in LerpProposals(name)
  PROVE  \E val : /\ AnnealedTo(prog, jump.old, q.old, name, val)
                  /\ AnnealedTo(prog, jump.new, q.new, name, val)
<1> DEFINE var == GetRecord(IF name \in DOMAIN jump.old.vars THEN jump.old ELSE jump.new, name)
           Changed(tr, val) ==
             IF name \in DOMAIN tr.vars
             THEN TraceUpdates(prog, SetVar(DeepCopy(tr), name, val), TRUE) ELSE {tr}
           ProposalMade(val) ==
             [old : Changed(jump.old, val), new : Changed(jump.new, val),
              fwd : {LogProposalProb(var.erp, var.val, val, var.params)},
              rvs : {LogProposalProb(var.erp, val, var.val, var.params)}]
<1>1. HeldOK(jump.old) /\ HeldOK(jump.new) /\ prog \in Prog /\ JumpHeld
  BY DEF TypeInv, JumpOK, Chained
<1>2. name \in DOMAIN jump.old.vars \/ name \in DOMAIN jump.new.vars
  BY DEF LerpNames, Nonstruct, FreeVarNames
<1>3. RecordOK(var)
  BY <1>1, <1>2, RecordTyped
<1>4. q \in UNION {ProposalMade(val) : val \in Proposal(var.erp, var.val, var.params)}
  BY Zenon DEF LerpProposals
<1>5. PICK val \in Proposal(var.erp, var.val, var.params) : q \in ProposalMade(val)
  <2> HIDE DEF ProposalMade
  <2> QED
    BY <1>4
<1>6. val \in Value
  BY <1>3, ErpAssumption DEF RecordOK
<1>7. q.old \in Changed(jump.old, val) /\ q.new \in Changed(jump.new, val)
  BY <1>5
<1>8. PICK a, b, c, d : a = jump.old /\ b = jump.new /\ c = q.old /\ d = q.new
  OBVIOUS
<1>9. /\ c \in IF name \in DOMAIN a.vars
              THEN TraceUpdates(prog, SetVar(DeepCopy(a), name, val), TRUE) ELSE {a}
      /\ d \in IF name \in DOMAIN b.vars
              THEN TraceUpdates(prog, SetVar(DeepCopy(b), name, val), TRUE) ELSE {b}
  BY <1>7, <1>8
<1>10. /\ name \in DOMAIN a.vars => GetRecord(a, name).structural # TRUE
       /\ name \in DOMAIN b.vars => GetRecord(b, name).structural # TRUE
  BY <1>1, <1>8, LerpNonstructural
<1>11. Held(prog, a) /\ Held(prog, b) /\ KeepsStructure(prog) /\ MarksChoices(prog)
  BY <1>1, <1>8, Settles DEF JumpHeld
<1>12. AnnealedTo(prog, a, c, name, val)
  BY <1>1, <1>6, <1>9, <1>10, <1>11, AnnealExecutes
<1>13. AnnealedTo(prog, b, d, name, val)
  BY <1>1, <1>6, <1>9, <1>10, <1>11, AnnealExecutes
<1> QED
  BY <1>8, <1>12, <1>13

\* The same structure has the same structural values.
LEMMA StructuralKept ==
  ASSUME NEW A, NEW B, NEW C, NEW name, KeepsStructural(A, B, name), SameStructure(B, C),
         \A n \in DOMAIN A \cap DOMAIN B : A[n].structural = B[n].structural
  PROVE  KeepsStructural(A, C, name)
<1> SUFFICES ASSUME NEW m \in (DOMAIN A \cap DOMAIN C) \ {name}, A[m].structural = TRUE,
                    ~C[m].conditioned
             PROVE  C[m].val = A[m].val
  BY DEF KeepsStructural
<1>1. m \in (DOMAIN A \cap DOMAIN B) \ {name}
  BY DEF SameStructure
<1>2. B[m].structural = C[m].structural /\ B[m].conditioned = C[m].conditioned
  BY <1>1 DEF SameStructure
<1>3. ~B[m].conditioned
  BY <1>2
<1>4. B[m].val = A[m].val
  BY <1>1, <1>3 DEF KeepsStructural
<1>5. IsFree(B[m].structural, B[m].conditioned)
  BY <1>1, <1>3 DEF IsFree
<1>6. B[m].val = C[m].val
  BY <1>1, <1>5 DEF SameStructure
<1> QED
  BY <1>4, <1>6

\* The two traces of a jump after an annealing step.
LEMMA AnnealedAgree ==
  ASSUME NEW p \in Prog, NEW old, Held(p, old), NEW new, Held(p, new), SharedAgree(old, new),
         NEW old2, NEW new2, NEW name, NEW val,
         AnnealedTo(p, old, old2, name, val), AnnealedTo(p, new, new2, name, val)
  PROVE  /\ Held(p, old2) /\ Held(p, new2) /\ SharedAgree(old2, new2)
         /\ Nonstruct(old2) = Nonstruct(old) /\ Nonstruct(new2) = Nonstruct(new)
         /\ SameStructure(ChoicesOf(new), ChoicesOf(new2)) /\ DOMAIN new2.vars = DOMAIN new.vars
<1>1. Held(p, old2) /\ Held(p, new2)
  BY DEF AnnealedTo
<1>2. Nonstruct(old2) = Nonstruct(old)
  BY <1>1, SameFree DEF AnnealedTo
<1>3. Nonstruct(new2) = Nonstruct(new)
  BY <1>1, SameFree DEF AnnealedTo
<1>4. SharedAgree(old2, new2)
  <2> SUFFICES ASSUME NEW n \in Nonstruct(old) \cap Nonstruct(new)
               PROVE  GetRecord(old2, n).val = GetRecord(new2, n).val
    BY <1>2, <1>3 DEF SharedAgree
  <2>1. GetRecord(old, n).val = GetRecord(new, n).val
    BY DEF SharedAgree
  <2>2. GetRecord(old2, n).val = IF n = name THEN val ELSE GetRecord(old, n).val
    BY DEF AnnealedTo
  <2>3. GetRecord(new2, n).val = IF n = name THEN val ELSE GetRecord(new, n).val
    BY DEF AnnealedTo
  <2> QED
    BY <2>1, <2>2, <2>3
<1>5. PICK A, B : A = ChoicesOf(new) /\ B = ChoicesOf(new2)
  OBVIOUS
<1>6. SameStructure(A, B)
  BY <1>1, <1>5, HeldStructure DEF AnnealedTo
<1>7. DOMAIN A = DOMAIN new.vars /\ DOMAIN B = DOMAIN new2.vars
  BY <1>5 DEF ChoicesOf
<1>8. DOMAIN new2.vars = DOMAIN new.vars
  BY <1>6, <1>7 DEF SameStructure
<1> QED
  BY <1>1, <1>2, <1>3, <1>4, <1>5, <1>6, <1>8

\* What annealing leaves of the structural choices.
LEMMA AnnealedStructure ==
  ASSUME NEW p \in Prog, MarksChoices(p), NEW tr, Held(p, tr), NEW new, Held(p, new), NEW new2,
         NEW name, KeepsStructural(ChoicesOf(tr), ChoicesOf(new), name),
         SameStructure(ChoicesOf(new), ChoicesOf(new2))
  PROVE  KeepsStructural(ChoicesOf(tr), ChoicesOf(new2), name)
<1>1. PICK A, B, C : A = ChoicesOf(tr) /\ B = ChoicesOf(new) /\ C = ChoicesOf(new2)
  OBVIOUS
<1>2. /\ DOMAIN A = DOMAIN tr.vars /\ DOMAIN B = DOMAIN new.vars
      /\ \A n \in DOMAIN A : A[n].structural = GetRecord(tr, n).structural
      /\ \A n \in DOMAIN B : B[n].structural = GetRecord(new, n).structural
  BY <1>1 DEF ChoicesOf, ChoiceOf
<1>3. \A n \in DOMAIN A \cap DOMAIN B : A[n].structural = B[n].structural
  BY <1>2, HeldAlike
<1> QED
  BY <1>1, <1>3, StructuralKept

LEMMA AnnealChained ==
  ASSUME TypeInv, Chained, AnnealAccept \/ AnnealReject PROVE Chained'
<1> SUFFICES ASSUME prog \in Settled PROVE Chained'
  <2>1. prog' = prog
    BY DEF AnnealAccept, AnnealReject, Annealed
  <2> QED
    BY <2>1 DEF Chained
<1>1. pc = "annealing" /\ prog \in Prog /\ prog \in Settled
  BY DEF AnnealAccept, AnnealReject, TypeInv
<1>2. /\ Held(prog, curr) /\ JumpHeld /\ LerpNames(jump) # {}
      /\ HasFields(jump, JumpFields) /\ jump.aStep \in 0..AnnealSteps
  BY <1>1 DEF Chained, TypeInv, JumpOK
<1>3. PICK cu, old, new, name :
        cu = curr /\ old = jump.old /\ new = jump.new /\ name = jump.name
  OBVIOUS
<1>4. /\ Held(prog, cu) /\ Held(prog, old) /\ Held(prog, new) /\ name \in Struct(cu)
      /\ name \in DOMAIN new.vars /\ SharedAgree(old, new)
      /\ KeepsStructural(ChoicesOf(cu), ChoicesOf(new), name) /\ MarksChoices(prog)
  BY <1>2, <1>3, Settles DEF JumpHeld
<1>5. PICK r, isAccepted :
        /\ Annealed(r, isAccepted)
        /\ Held(prog, r.old) /\ Held(prog, r.new) /\ SharedAgree(r.old, r.new)
        /\ Nonstruct(r.old) = Nonstruct(old) /\ Nonstruct(r.new) = Nonstruct(new)
        /\ KeepsStructural(ChoicesOf(cu), ChoicesOf(r.new), name)
        /\ name \in DOMAIN r.new.vars
  <2>1. CASE AnnealReject
    <3>1. Annealed(jump, FALSE)
      BY <2>1, Zenon DEF AnnealReject
    <3> QED
      BY <1>3, <1>4, <3>1
  <2>2. CASE AnnealAccept
    <3>1. PICK n, q : n \in LerpNames(jump) /\ q \in LerpProposals(n) /\ Annealed(q, TRUE)
      <4>1. PICK n \in LerpNames(jump) : \E q \in LerpProposals(n) : Annealed(q, TRUE)
        BY <2>2, Zenon DEF AnnealAccept
      <4>2. PICK q \in LerpProposals(n) : Annealed(q, TRUE)
        BY <4>1
      <4> QED
        BY <4>1, <4>2
    <3>2. PICK val : /\ AnnealedTo(prog, jump.old, q.old, n, val)
                     /\ AnnealedTo(prog, jump.new, q.new, n, val)
      BY <1>1, <3>1, LerpExecutes
    <3>3. PICK old2, new2 : old2 = q.old /\ new2 = q.new
      OBVIOUS
    <3>4. AnnealedTo(prog, old, old2, n, val) /\ AnnealedTo(prog, new, new2, n, val)
      BY <1>3, <3>2, <3>3
    <3>5. /\ Held(prog, old2) /\ Held(prog, new2) /\ SharedAgree(old2, new2)
          /\ Nonstruct(old2) = Nonstruct(old) /\ Nonstruct(new2) = Nonstruct(new)
          /\ SameStructure(ChoicesOf(new), ChoicesOf(new2)) /\ DOMAIN new2.vars = DOMAIN new.vars
      BY <1>1, <1>4, <3>4, AnnealedAgree
    <3>6. KeepsStructural(ChoicesOf(cu), ChoicesOf(new2), name)
      BY <1>1, <1>4, <3>5, AnnealedStructure
    <3> QED
      BY <1>4, <3>1, <3>3, <3>5, <3>6
  <2> QED
    BY <2>1, <2>2
<1>6. /\ jump'.name = name /\ jump'.old = r.old /\ jump'.new = r.new /\ jump'.aStep = jump.aStep + 1
      /\ UNCHANGED <<prog, curr>> /\ pc' \in {"annealing", "deciding"}
  <2>1. jump' = [jump EXCEPT !.old = r.old, !.new = r.new, !.aStep = @ + 1,
                             !.ratio = Minus(Plus(@, Lerp(jump)), Lerp(r))]
    BY <1>5, Zenon DEF Annealed
  <2>2. /\ jump'.name = jump.name /\ jump'.old = r.old /\ jump'.new = r.new
        /\ jump'.aStep = jump.aStep + 1
    BY <1>2, <2>1 DEF HasFields, JumpFields
  <2> QED
    BY <1>3, <1>5, <2>2 DEF Annealed
<1>7. jump'.aStep # 0
  <2>1. AnnealSteps \in Nat
    BY <1>1, Numbers
  <2> QED
    BY <1>2, <1>6, <2>1
<1>8. JumpHeld'
  BY <1>3, <1>4, <1>5, <1>6, <1>7 DEF JumpHeld, Struct
<1>9. LerpNames(jump') # {}
  <2>1. LerpNames(jump') = LerpNames(jump)
    BY <1>3, <1>5, <1>6 DEF LerpNames
  <2> QED
    BY <1>2, <2>1
<1> QED
  BY <1>2, <1>6, <1>8, <1>9 DEF Chained, LerpNames

LEMMA DecideChained == ASSUME TypeInv, Chained, JumpAccept \/ JumpReject PROVE Chained'
<1>1. prog' = prog /\ pc = "deciding"
  BY DEF JumpAccept, JumpReject, Deciding
<1>2. CASE JumpAccept
  <2>1. PICK tr : tr = jump.new
    OBVIOUS
  <2>2. NextReturns(tr)
    BY <1>2, <2>1 DEF JumpAccept
  <2>3. prog \in Settled => Held(prog, tr)
    BY <1>1, <2>1 DEF Chained, JumpHeld
  <2> QED
    BY <1>1, <2>2, <2>3, ReturnsChained
<1>3. CASE JumpReject
  <2>1. NextReturns(curr)
    BY <1>3 DEF JumpReject
  <2>2. prog \in Settled => Held(prog, curr)
    BY <1>1 DEF Chained
  <2> QED
    BY <1>1, <2>1, <2>2, ReturnsChained
<1> QED
  BY <1>2, <1>3

\* No jump, annealing step or decision of a settled program raises an error.
LEMMA FailChained == ASSUME TypeInv, Chained, JumpFails \/ AnnealFails \/ DecideFails PROVE Chained'
<1>1. pc' = "failed" /\ UNCHANGED <<prog, curr, jump>>
  BY DEF JumpFails, AnnealFails, DecideFails, Fail
<1> SUFFICES ASSUME prog \in Settled PROVE Held(prog', curr') /\ JumpFreq' # None
  BY <1>1 DEF Chained
<1>2. prog \in Prog /\ JumpFreq' = JumpFreq
  BY <1>1 DEF TypeInv, JumpFreq
<1>3. pc # "starting" /\ Held(prog, curr)
  BY DEF JumpFails, AnnealFails, DecideFails, MayJump, Iterating, Chained
<1>4. CASE JumpFails
  <2> SUFFICES ASSUME JumpFreq = None PROVE FALSE
    BY <1>1, <1>2, <1>3
  <2>1. PICK old : old = DeepCopy(curr)
    OBVIOUS
  <2>2. Struct(curr) # {} /\ Struct(old) = {}
    BY <1>4, <2>1 DEF JumpFails, MayJump
  <2>3. ChoicesOf(old) = ChoicesOf(curr)
    BY <1>2, <1>3, <2>1, CopyIsHeld
  <2>4. Struct(old) = Struct(curr)
    BY <2>3, FreeByChoices
  <2> QED
    BY <2>2, <2>4
<1>5. ASSUME AnnealFails PROVE FALSE
  <2>1. pc = "annealing" /\ JumpHeld /\ LerpNames(jump) # {}
    BY <1>5 DEF AnnealFails, Chained
  <2>2. PICK name \in LerpNames(jump) : ~Annealable(name)
    BY <1>5, <2>1 DEF AnnealFails
  <2>3. /\ name \in DOMAIN jump.old.vars => GetRecord(jump.old, name).structural # TRUE
        /\ name \in DOMAIN jump.new.vars => GetRecord(jump.new, name).structural # TRUE
    BY <1>2, <2>1, <2>2, LerpNonstructural
  <2>4. name \in DOMAIN jump.old.vars \/ name \in DOMAIN jump.new.vars
    BY <2>2 DEF LerpNames, Nonstruct, FreeVarNames
  <2> QED
    BY <2>2, <2>3, <2>4 DEF Annealable
<1>6. ASSUME DecideFails PROVE FALSE
  BY <1>6 DEF DecideFails, Chained, JumpHeld
<1> QED
  BY <1>4, <1>5, <1>6

LEMMA ChainedInit == Init => Chained
BY DEF Init, Chained

LEMMA ChainedNext == TypeInv /\ Chained /\ [Next]_vars => Chained'
<1> SUFFICES ASSUME TypeInv, Chained, [Next]_vars PROVE Chained'
  OBVIOUS
<1>1. CASE Initialise
  BY <1>1, InitialiseChained
<1>2. CASE Rerun \/ DiffuseRerun
  BY <1>2, RerunChained
<1>3. CASE DiffuseAccept \/ DiffuseReject
  BY <1>3, DiffuseChained
<1>4. CASE Jump
  BY <1>4, JumpChained
<1>5. CASE AnnealAccept \/ AnnealReject
  BY <1>5, AnnealChained
<1>6. CASE JumpAccept \/ JumpReject
  BY <1>6, DecideChained
<1>7. CASE JumpFails \/ AnnealFails \/ DecideFails
  BY <1>7, FailChained
<1>8. CASE Finish
  BY <1>8 DEF Finish, Chained
<1>9. CASE UNCHANGED vars
  BY <1>9 DEF vars, Chained, JumpHeld, Proposed, Struct, LerpNames, Nonstruct, JumpFreq
<1> QED
  BY <1>1, <1>2, <1>3, <1>4, <1>5, <1>6, <1>7, <1>8, <1>9 DEF Next, Done

LEMMA ChainedAlways == Spec => [](TypeInv /\ Chained)
<1> DEFINE J == TypeInv /\ StatsInv /\ Chained
<1>1. Init => J
  BY TypedInit, StatsInit, ChainedInit
<1>2. J /\ [Next]_vars => J'
  BY TypedNext, StatsNext, ChainedNext
<1>3. J => TypeInv /\ Chained
  OBVIOUS
<1> HIDE DEF J
<1> QED
  BY <1>1, <1>2, <1>3, PTL DEF Spec

\* Under every settled program the current trace and both traces of a jump are
\* executions, after whatever diffusions, jumps and annealing steps: no step
\* leaves in one of them a parameter, log probability or variable of the other
\* or of an earlier execution (inference.lua:153-178, trace.lua:205-287).
THEOREM UpdatesAreExecutions == Spec => []TracesAreExecutions
<1>1. TypeInv /\ Chained => TracesAreExecutions
  BY DEF Chained, JumpHeld, Held, TracesAreExecutions
<1> QED
  BY <1>1, ChainedAlways, PTL

\* The two traces of a jump agree on the nonstructural variables that both
\* have, from the proposal to the decision, whichever variable every annealing
\* step changes (inference.lua:167-176).
THEOREM SharedAgreesAlways == Spec => []SharedValuesAgree
<1>1. TypeInv /\ Chained => SharedValuesAgree
  BY DEF Chained, JumpHeld, SharedAgree, SharedValuesAgree
<1> QED
  BY <1>1, ChainedAlways, PTL

\* With the default jump frequency the kernel never fails on a settled program:
\* there is a structural variable whenever it jumps, annealing never runs out
\* of variables nor meets a structural one, and the variable that a jump
\* changed is in the new trace when the jump is decided
\* (inference.lua:163, 208-214, 234-236, 266).
THEOREM SettledNeverFail == Spec => []NeverFails
<1>1. TypeInv /\ Chained => NeverFails
  BY DEF Chained, NeverFails
<1> QED
  BY <1>1, ChainedAlways, PTL

(***************************************************************************)
(* Conditions. Where there is nothing to change, or nothing to diffuse,    *)
(* the kernel executes the program again and does not look at the          *)
(* conditions.                                                             *)
(***************************************************************************)

\* Executed again from its own choices, an execution that satisfies the
\* conditions satisfies them again; and if it is executed in place of a
\* diffusion, it is the same execution.
RerunsSettle ==
  \A p \in Prog \cap Settled : \A A : Assigns(A) /\ NonstructOf(A) = {} =>
    \A e, f \in ExecutionsFrom(p, A) : e.choices = A /\ e.holds =>
      /\ f.holds
      /\ StructOf(A) # {} => f.choices = A /\ f.logprob = e.logprob /\ f.returns = e.returns

ConditionsKept == prog \in Settled /\ pc # "starting" => curr.conditionsSatisfied

LEMMA RerunSettles ==
  ASSUME RerunsSettle, TypeInv, Chained, ConditionsKept, prog \in Settled, pc # "starting",
         Nonstruct(curr) = {}, NEW fixed \in BOOLEAN, NEW tr \in TraceUpdates(prog, curr, fixed)
  PROVE  /\ Reaches(prog, tr, ChoicesOf(curr)) /\ tr.conditionsSatisfied
         /\ Struct(curr) # {} => /\ ChoicesOf(tr) = ChoicesOf(curr) /\ tr.logprob = curr.logprob
                                 /\ tr.returnValue = curr.returnValue
<1>1. PICK A, B : A = ChoicesOf(curr) /\ B = ChoicesOf(tr)
  OBVIOUS
<1>2. Reaches(prog, tr, A)
  BY <1>1, RerunExecutes
<1>3. Held(prog, curr) /\ prog \in Prog /\ curr.conditionsSatisfied
  BY DEF Chained, TypeInv, ConditionsKept
<1>4. Assigns(A)
  BY <1>1, <1>3, ChoicesAssign DEF Held
<1>5. NonstructOf(A) = {} /\ StructOf(A) = Struct(curr)
  BY <1>1, FreeByChoices
<1>6. PICK e \in ExecutionsFrom(prog, A) :
        /\ e.choices = A /\ e.holds /\ e.logprob = curr.logprob /\ e.returns = curr.returnValue
  BY <1>1, <1>3 DEF Held, IsExecution
<1>7. PICK f \in ExecutionsFrom(prog, A) :
        /\ f.choices = B /\ f.holds = tr.conditionsSatisfied /\ f.logprob = tr.logprob
        /\ f.returns = tr.returnValue
  BY <1>1, <1>2 DEF Reaches
<1>8. /\ f.holds
      /\ StructOf(A) # {} => f.choices = A /\ f.logprob = e.logprob /\ f.returns = e.returns
  BY <1>3, <1>4, <1>5, <1>6 DEF RerunsSettle
<1> QED
  BY <1>1, <1>2, <1>5, <1>6, <1>7, <1>8

LEMMA RerunConditions ==
  ASSUME RerunsSettle, TypeInv, Chained, ConditionsKept, Rerun \/ DiffuseRerun PROVE ConditionsKept'
<1>1. PICK fixed \in BOOLEAN : \E tr \in TraceUpdates(prog, curr, fixed) : NextReturns(tr)
  BY DEF Rerun, DiffuseRerun
<1>2. PICK tr \in TraceUpdates(prog, curr, fixed) : NextReturns(tr)
  BY <1>1
<1>3. prog' = prog /\ pc # "starting" /\ Nonstruct(curr) = {}
  BY DEF Rerun, DiffuseRerun, MayDiffuse, Iterating
<1>4. prog \in Settled => tr.conditionsSatisfied
  BY <1>3, RerunSettles
<1> QED
  BY <1>2, <1>3, <1>4 DEF ConditionsKept, NextReturns

LEMMA ConditionsNext ==
  ASSUME RerunsSettle, TypeInv, Chained, ConditionsKept, [Next]_vars PROVE ConditionsKept'
<1>1. CASE Initialise
  BY <1>1 DEF Initialise, ConditionsKept
<1>2. CASE Rerun \/ DiffuseRerun
  BY <1>2, RerunConditions
<1>3. CASE DiffuseAccept
  <2>1. PICK name \in Nonstruct(curr) : \E p \in Proposals(curr, name) :
          p.trace.conditionsSatisfied /\ NextReturns(p.trace)
    BY <1>3 DEF DiffuseAccept
  <2> QED
    BY <2>1 DEF NextReturns, ConditionsKept
<1>4. CASE JumpAccept
  BY <1>4 DEF JumpAccept, NextReturns, ConditionsKept
<1>5. CASE DiffuseReject \/ JumpReject
  BY <1>5 DEF DiffuseReject, JumpReject, MayDiffuse, Iterating, Deciding, NextReturns, ConditionsKept
<1>6. CASE Jump \/ JumpFails \/ AnnealFails \/ DecideFails \/ Finish \/ UNCHANGED vars
  BY <1>6 DEF Jump, JumpFails, AnnealFails, DecideFails, Fail, Finish, MayJump, Iterating, vars,
              ConditionsKept
<1>7. CASE AnnealAccept \/ AnnealReject
  BY <1>7 DEF AnnealAccept, AnnealReject, Annealed, ConditionsKept
<1> QED
  BY <1>1, <1>2, <1>3, <1>4, <1>5, <1>6, <1>7 DEF Next, Done

LEMMA ConditionsAlways ==
  ASSUME RerunsSettle PROVE Spec => [](TypeInv /\ Chained /\ ConditionsKept)
<1> DEFINE J == TypeInv /\ StatsInv /\ Chained /\ ConditionsKept
           K == TypeInv /\ Chained /\ ConditionsKept
<1>1. Init => J
  BY TypedInit, StatsInit, ChainedInit DEF Init, ConditionsKept
<1>2. J /\ [Next]_vars => J'
  BY TypedNext, StatsNext, ChainedNext, ConditionsNext
<1>3. J => K
  OBVIOUS
<1> HIDE DEF J, K
<1>4. Spec => []K
  BY <1>1, <1>2, <1>3, PTL DEF Spec
<1> QED
  BY <1>4 DEF K

\* Every trace that mcmc holds of a settled program satisfies its conditions,
\* also after iterations that only execute the program again, provided that
\* executing it again from all its choices repeats what it did.
THEOREM SatisfiesConditions ==
  ASSUME RerunsSettle PROVE Spec => [](prog \in Settled => ConditionsHold)
<1>1. TypeInv /\ Chained /\ ConditionsKept => (prog \in Settled => ConditionsHold)
  BY DEF ConditionsKept, ConditionsHold
<1> QED
  BY <1>1, ConditionsAlways, PTL

\* Settled programs without nested queries do repeat what they did.
THEOREM RerunsAreSame ==
  ASSUME \A p \in Settled : NestsNothing(p) PROVE RerunsSettle
<1> SUFFICES ASSUME NEW p \in Prog \cap Settled, NEW A, Assigns(A),
                    NEW e \in ExecutionsFrom(p, A), e.choices = A, e.holds,
                    NEW f \in ExecutionsFrom(p, A)
             PROVE  f.holds /\ f.choices = A /\ f.logprob = e.logprob /\ f.returns = e.returns
  BY DEF RerunsSettle
<1>1. /\ e.choices = f.choices /\ e.logprob = f.logprob
      /\ e.holds = f.holds /\ e.returns = f.returns
  BY SameRerun
<1> QED
  BY <1>1

(***************************************************************************)
(* The chain of traces is a chain of samples: SampleChain, with its state  *)
(* taken from curr.                                                        *)
(***************************************************************************)

LEMMA SameExecutions ==
  ASSUME NEW p, NEW A PROVE Chain!ExecutionsFrom(p, A) = ExecutionsFrom(p, A)
BY Zenon
   DEF Chain!Count, Count, Chain!OuterName, OuterName, Chain!CounterKey, CounterKey,
       Chain!CurrentName, CurrentName, Chain!Bump, Bump, Chain!Plus, Plus,
       Chain!IsConditioned, IsConditioned, Chain!Usable, Usable, Chain!Choose, Choose,
       Chain!Continuations, Continuations, Chain!After, After, Chain!Start, Start,
       Chain!NoChoices, NoChoices, Chain!Lengths, Lengths, Chain!ExecutionsFrom, ExecutionsFrom

\* The state of the chain, its iteration and its samples, as the instance
\* defines them.
ChainState ==
  IF pc = "starting" \/ prog \notin Settled THEN NoExecution
  ELSE [choices |-> ChoicesOf(curr), logprob |-> curr.logprob, returns |-> curr.returnValue]
ChainI == IF prog \in Settled THEN i ELSE 1
ChainSamps == IF prog \in Settled THEN samps ELSE <<>>

LEMMA ChainStateExists == prog \in Settled /\ pc # "starting" => ChainState # NoExecution
<1>1. ASSUME NEW a, NEW b, NEW c
      PROVE  [choices |-> a, logprob |-> b, returns |-> c] # <<>>
  <2>1. "choices" \in DOMAIN [choices |-> a, logprob |-> b, returns |-> c]
    OBVIOUS
  <2>2. "choices" \notin DOMAIN <<>>
    OBVIOUS
  <2> QED
    BY <2>1, <2>2
<1> QED
  BY <1>1 DEF ChainState, NoExecution

LEMMA FreeChoicesAre ==
  ASSUME NEW A, prog \in Prog PROVE Chain!FreeChoices(A) = StructOf(A) \cup NonstructOf(A)
<1>1. ASSUME NEW n PROVE n \in Chain!FreeChoices(A) <=> n \in StructOf(A) \cup NonstructOf(A)
  BY Zenon DEF Chain!FreeChoices, StructOf, NonstructOf
<1> QED
  BY <1>1

\* An execution that a trace is the result of is one that the chain visits.
Visited(e, tr) ==
  /\ e.holds
  /\ [choices |-> e.choices, logprob |-> e.logprob, returns |-> e.returns]
       = [choices |-> ChoicesOf(tr), logprob |-> tr.logprob, returns |-> tr.returnValue]

LEMMA ReachedIsVisited ==
  ASSUME NEW p, NEW tr, NEW A, Reaches(p, tr, A), tr.conditionsSatisfied
  PROVE  \E e \in Chain!ExecutionsFrom(p, A) : Visited(e, tr) /\ e.logprob = tr.logprob
BY SameExecutions DEF Reaches, Visited

LEMMA FirstRefines ==
  ASSUME TypeInv, prog \in Settled, Initialise PROVE Chain!First
<1>1. PICK tr \in TraceUpdates(prog, EmptyTrace, FALSE) : tr.conditionsSatisfied /\ curr' = tr
  BY DEF Initialise
<1>2. Reaches(prog, tr, NoChoices)
  BY <1>1, FirstExecutes DEF TypeInv
<1>3. PICK e \in Chain!ExecutionsFrom(prog, NoChoices) : Visited(e, tr)
  BY <1>1, <1>2, ReachedIsVisited
<1>4. /\ pc = "starting" /\ pc' = "iterating" /\ curr' = tr
      /\ UNCHANGED <<prog, i, samps>>
  BY <1>1 DEF Initialise
<1>5. ChainState = NoExecution
  BY <1>4 DEF ChainState
<1>6. ChainState' = [choices |-> e.choices, logprob |-> e.logprob, returns |-> e.returns]
  BY <1>3, <1>4 DEF ChainState, Visited
<1> QED
  BY <1>3, <1>4, <1>5, <1>6
  DEF Chain!First, Chain!Visit, ChainState, Visited, Chain!NoExecution, NoExecution,
      Chain!NoChoices, NoChoices

\* The end of an iteration that keeps the trace tr.
LEMMA SampleRefines ==
  ASSUME TypeInv, prog \in Settled, NEW tr, NextReturns(tr), prog' = prog,
         Iterating \/ pc = "deciding"
  PROVE  /\ ChainState' = [choices |-> ChoicesOf(tr), logprob |-> tr.logprob,
                           returns |-> tr.returnValue]
         /\ ChainState # NoExecution
         /\ ChainState = [choices |-> ChoicesOf(curr), logprob |-> curr.logprob,
                          returns |-> curr.returnValue]
         /\ ChainState.choices = ChoicesOf(curr)
         /\ ChainI <= NumSamps * Lag /\ ChainI' = ChainI + 1
         /\ ChainSamps' = IF ChainI % Lag = 0
                          THEN Append(ChainSamps, [sample |-> ChainState'.returns,
                                                   logprob |-> ChainState'.logprob])
                          ELSE ChainSamps
<1>1. ChainState' = [choices |-> ChoicesOf(tr), logprob |-> tr.logprob, returns |-> tr.returnValue]
  BY DEF ChainState, NextReturns
<1>2. /\ ChainState = [choices |-> ChoicesOf(curr), logprob |-> curr.logprob,
                       returns |-> curr.returnValue]
      /\ ChainState # NoExecution
  BY ChainStateExists DEF ChainState, Iterating
<1>3. i <= NumSamps * Lag /\ i' = i + 1
  BY DEF TypeInv, NextReturns, Iterating
<1>4. samps' = IF i % Lag = 0
               THEN Append(samps, [sample |-> tr.returnValue, logprob |-> tr.logprob])
               ELSE samps
  BY DEF NextReturns
<1>5. ChainI = i /\ ChainI' = i' /\ ChainSamps = samps /\ ChainSamps' = samps'
  BY DEF ChainI, ChainSamps
<1> QED
  BY <1>1, <1>2, <1>3, <1>4, <1>5

\* An iteration that stays at the same execution.
LEMMA StayRefines ==
  ASSUME TypeInv, prog \in Settled, NEW tr, NextReturns(tr), prog' = prog,
         Iterating \/ pc = "deciding", ChoicesOf(tr) = ChoicesOf(curr),
         tr.logprob = curr.logprob, tr.returnValue = curr.returnValue
  PROVE  Chain!Step
<1>1. /\ ChainState' = ChainState
      /\ ChainState # NoExecution
      /\ ChainI <= NumSamps * Lag /\ ChainI' = ChainI + 1
      /\ ChainSamps' = IF ChainI % Lag = 0
                       THEN Append(ChainSamps, [sample |-> ChainState'.returns,
                                                logprob |-> ChainState'.logprob])
                       ELSE ChainSamps
  BY SampleRefines
<1> QED
  BY <1>1 DEF Chain!Step, Chain!Sample, ChainState, ChainI, ChainSamps, Chain!NoExecution, NoExecution

\* An iteration that changes one choice and executes the program.
LEMMA MoveRefines ==
  ASSUME TypeInv, prog \in Settled, NEW tr, NextReturns(tr), prog' = prog,
         Iterating \/ pc = "deciding", tr.conditionsSatisfied, tr.logprob \notin {NegInf, NaN},
         NEW name \in Struct(curr) \cup Nonstruct(curr),
         LET c == ChoicesOf(curr)[name]
         IN  \E val \in Proposal(c.erp, c.val, c.params) :
               Reaches(prog, tr, With(ChoicesOf(curr), name, val))
  PROVE  Chain!Step
<1> DEFINE A == ChoicesOf(curr)
           c == A[name]
<1>1. PICK val \in Proposal(c.erp, c.val, c.params) : Reaches(prog, tr, With(A, name, val))
  OBVIOUS
<1>2. PICK e \in Chain!ExecutionsFrom(prog, With(A, name, val)) :
        Visited(e, tr) /\ e.logprob = tr.logprob
  BY <1>1, ReachedIsVisited
<1>3. name \in Chain!FreeChoices(A)
  BY FreeChoicesAre, FreeByChoices DEF TypeInv
<1>4. /\ ChainState' = [choices |-> e.choices, logprob |-> e.logprob, returns |-> e.returns]
      /\ ChainState # NoExecution /\ ChainState.choices = A
      /\ ChainI <= NumSamps * Lag /\ ChainI' = ChainI + 1
      /\ ChainSamps' = IF ChainI % Lag = 0
                       THEN Append(ChainSamps, [sample |-> ChainState'.returns,
                                                logprob |-> ChainState'.logprob])
                       ELSE ChainSamps
  BY <1>2, SampleRefines DEF Visited
<1> HIDE DEF A
<1>5. \E n \in Chain!FreeChoices(A) : \E v \in Proposal(A[n].erp, A[n].val, A[n].params) :
        \E f \in Chain!ExecutionsFrom(prog, Chain!With(A, n, v)) :
          /\ f.logprob \notin {NegInf, NaN} /\ f.holds
          /\ ChainState' = [choices |-> f.choices, logprob |-> f.logprob, returns |-> f.returns]
  BY <1>1, <1>2, <1>3, <1>4 DEF Visited, Chain!With, With
<1> QED
  BY <1>4, <1>5
  DEF Chain!Step, Chain!Sample, Chain!Visit, ChainState, ChainI, ChainSamps,
      Chain!NoExecution, NoExecution

LEMMA RerunRefines ==
  ASSUME RerunsSettle, TypeInv, Chained, ConditionsKept, prog \in Settled, Rerun PROVE Chain!Step
<1>1. PICK tr \in TraceUpdates(prog, curr, FALSE) : NextReturns(tr)
  BY DEF Rerun
<1>2. /\ Iterating /\ prog' = prog /\ pc # "starting"
      /\ Struct(curr) = {} /\ Nonstruct(curr) = {}
  BY DEF Rerun, Iterating
<1>3. Reaches(prog, tr, ChoicesOf(curr)) /\ tr.conditionsSatisfied
  BY <1>1, <1>2, RerunSettles
<1>4. PICK e \in Chain!ExecutionsFrom(prog, ChoicesOf(curr)) : Visited(e, tr)
  BY <1>3, ReachedIsVisited
<1>5. Chain!FreeChoices(ChoicesOf(curr)) = {}
  BY <1>2, FreeChoicesAre, FreeByChoices DEF TypeInv
<1>6. /\ ChainState' = [choices |-> e.choices, logprob |-> e.logprob, returns |-> e.returns]
      /\ ChainState # NoExecution /\ ChainState.choices = ChoicesOf(curr)
      /\ ChainI <= NumSamps * Lag /\ ChainI' = ChainI + 1
      /\ ChainSamps' = IF ChainI % Lag = 0
                       THEN Append(ChainSamps, [sample |-> ChainState'.returns,
                                                logprob |-> ChainState'.logprob])
                       ELSE ChainSamps
  BY <1>1, <1>2, <1>4, SampleRefines DEF Visited
<1> QED
  BY <1>2, <1>4, <1>5, <1>6
  DEF Chain!Step, Chain!Sample, Chain!Visit, ChainState, ChainI, ChainSamps, Visited,
      Chain!NoExecution, NoExecution

LEMMA DiffuseRefines ==
  ASSUME RerunsSettle, TypeInv, Chained, ConditionsKept, prog \in Settled,
         DiffuseAccept \/ DiffuseReject \/ DiffuseRerun
  PROVE  Chain!Step
<1>1. Iterating /\ prog' = prog /\ pc # "starting" /\ Struct(curr) \cup Nonstruct(curr) # {}
  BY DEF DiffuseAccept, DiffuseReject, DiffuseRerun, MayDiffuse, Iterating
<1>2. CASE DiffuseAccept
  <2>1. PICK name \in Nonstruct(curr) : \E p \in Proposals(curr, name) :
          p.trace.conditionsSatisfied /\ NextReturns(p.trace)
    BY <1>2 DEF DiffuseAccept
  <2>2. PICK p \in Proposals(curr, name) : p.trace.conditionsSatisfied /\ NextReturns(p.trace)
    BY <2>1
  <2>3. PICK tr : tr = p.trace
    OBVIOUS
  <2>4. LET c == ChoicesOf(curr)[name]
        IN  \E val \in Proposal(c.erp, c.val, c.params) :
              Reaches(prog, tr, With(ChoicesOf(curr), name, val))
    BY <1>1, <2>3, ProposalExecutes
  <2>5. tr.logprob \notin {NegInf, NaN}
    BY <1>2, <2>2, <2>3, AcceptedIsPossible DEF NextReturns, TypeInv
  <2> QED
    BY <1>1, <2>2, <2>3, <2>4, <2>5, MoveRefines
<1>3. CASE DiffuseReject
  <2>1. NextReturns(curr)
    BY <1>3 DEF DiffuseReject
  <2> QED
    BY <1>1, <2>1, StayRefines
<1>4. CASE DiffuseRerun
  <2>1. PICK tr \in TraceUpdates(prog, curr, TRUE) : NextReturns(tr)
    BY <1>4 DEF DiffuseRerun
  <2>2. Nonstruct(curr) = {} /\ Struct(curr) # {}
    BY <1>1, <1>4 DEF DiffuseRerun
  <2>3. /\ ChoicesOf(tr) = ChoicesOf(curr) /\ tr.logprob = curr.logprob
        /\ tr.returnValue = curr.returnValue
    BY <1>1, <2>1, <2>2, RerunSettles
  <2> QED
    BY <1>1, <2>1, <2>3, StayRefines
<1> QED
  BY <1>2, <1>3, <1>4

\* A jump with annealing: the new trace has its structural values from the
\* current one, and its other values are possible.
LEMMA AnnealRefines ==
  ASSUME DrawsPossible, TypeInv, Chained, prog \in Settled, JumpAccept, jump.aStep # 0
  PROVE  Chain!Step
<1>1. PICK tr, name : tr = jump.new /\ name = jump.name
  OBVIOUS
<1>2. /\ pc = "deciding" /\ prog' = prog /\ tr.conditionsSatisfied /\ NextReturns(tr)
      /\ prog \in Prog
  BY <1>1 DEF JumpAccept, Deciding, TypeInv
<1>3. /\ Held(prog, tr) /\ name \in Struct(curr)
      /\ KeepsStructural(ChoicesOf(curr), ChoicesOf(tr), name)
  BY <1>1, <1>2 DEF Chained, JumpHeld
<1>4. prog \in {p \in Prog : Kernel(p).annealSteps > 0}
  <2>1. jump.aStep \in 0..AnnealSteps
    BY <1>2 DEF TypeInv, JumpOK
  <2>2. AnnealSteps \in Nat
    BY <1>2, Numbers
  <2>3. AnnealSteps > 0
    BY <2>1, <2>2
  <2> QED
    BY <1>2, <2>3 DEF AnnealSteps
<1>5. tr.logprob \notin {NegInf, NaN}
  BY <1>2, AcceptedIsPossible DEF NextReturns
<1>6. PICK A, B : A = ChoicesOf(curr) /\ B = ChoicesOf(tr)
  OBVIOUS
<1>7. Assigns(B)
  BY <1>3, <1>6, ChoicesAssign DEF Held
<1>8. PICK e \in ExecutionsFrom(prog, B) :
        /\ e.choices = B /\ e.holds = tr.conditionsSatisfied /\ e.logprob = tr.logprob
        /\ e.returns = tr.returnValue
  BY <1>3, <1>6 DEF Held, IsExecution
<1>9. \E f \in ExecutionsFrom(prog, NoChoices) :
        /\ f.choices = e.choices /\ f.order = e.order /\ f.logprob = e.logprob
        /\ f.holds = e.holds /\ f.returns = e.returns
  <2>1. Possible(e)
    BY <1>5, <1>8 DEF Possible
  <2> QED
    BY <1>2, <1>7, <2>1, Redrawn
<1>10. PICK f \in Chain!ExecutionsFrom(prog, NoChoices) :
         /\ f.choices = B /\ f.logprob = tr.logprob /\ f.holds /\ f.returns = tr.returnValue
  BY <1>2, <1>8, <1>9, SameExecutions
<1>11. name \in Chain!FreeChoices(A) /\ A[name].structural = TRUE
  <2>1. name \in StructOf(A)
    BY <1>3, <1>6, FreeByChoices
  <2>2. A[name].structural = TRUE
    BY <2>1, Zenon DEF StructOf
  <2> QED
    BY <1>2, <2>1, <2>2, FreeChoicesAre
<1>12. /\ ChainState' = [choices |-> f.choices, logprob |-> f.logprob, returns |-> f.returns]
       /\ ChainState # NoExecution /\ ChainState.choices = A
       /\ ChainI <= NumSamps * Lag /\ ChainI' = ChainI + 1
       /\ ChainSamps' = IF ChainI % Lag = 0
                        THEN Append(ChainSamps, [sample |-> ChainState'.returns,
                                                 logprob |-> ChainState'.logprob])
                        ELSE ChainSamps
  BY <1>2, <1>6, <1>10, SampleRefines
<1>13. \A m \in (DOMAIN A \cap DOMAIN f.choices) \ {name} :
         A[m].structural = TRUE /\ ~f.choices[m].conditioned => f.choices[m].val = A[m].val
  BY <1>3, <1>6, <1>10 DEF KeepsStructural
<1>14. Chain!Anneal
  BY <1>4, <1>5, <1>10, <1>11, <1>12, <1>13
  DEF Chain!Anneal, Chain!Visit, ChainState, Chain!NoChoices, NoChoices, NoExecution,
      Chain!NoExecution
<1> QED
  BY <1>2, <1>12, <1>14
  DEF Chain!Step, Chain!Sample, ChainState, ChainI, ChainSamps, Chain!NoExecution, NoExecution

LEMMA DecideRefines ==
  ASSUME DrawsPossible, TypeInv, Chained, prog \in Settled, JumpAccept \/ JumpReject
  PROVE  Chain!Step
<1>1. pc = "deciding" /\ prog' = prog /\ JumpHeld
  BY DEF JumpAccept, JumpReject, Deciding, Chained
<1>2. CASE JumpReject
  <2>1. NextReturns(curr)
    BY <1>2 DEF JumpReject
  <2> QED
    BY <1>1, <2>1, StayRefines
<1>3. CASE JumpAccept /\ jump.aStep = 0
  <2>1. PICK tr, name : tr = jump.new /\ name = jump.name
    OBVIOUS
  <2>2. tr.conditionsSatisfied /\ NextReturns(tr)
    BY <1>3, <2>1 DEF JumpAccept
  <2>3. tr.logprob \notin {NegInf, NaN}
    BY <1>3, <2>2, AcceptedIsPossible DEF NextReturns, TypeInv
  <2>4. name \in Struct(curr)
    BY <1>1, <2>1 DEF JumpHeld
  <2>5. LET c == ChoicesOf(curr)[name]
        IN  \E val \in Proposal(c.erp, c.val, c.params) :
              Reaches(prog, tr, With(ChoicesOf(curr), name, val))
    BY <1>1, <1>3, <2>1 DEF JumpHeld, Proposed
  <2> QED
    BY <1>1, <2>2, <2>3, <2>4, <2>5, MoveRefines
<1>4. CASE JumpAccept /\ jump.aStep # 0
  BY <1>4, AnnealRefines
<1> QED
  BY <1>2, <1>3, <1>4

LEMMA StepRefines ==
  ASSUME RerunsSettle, DrawsPossible, TypeInv, Chained, ConditionsKept, [Next]_vars
  PROVE  [Chain!First \/ Chain!Step]_(Chain!svars)
<1>1. CASE prog \notin Settled
  <2>1. prog' = prog
    BY DEF Next, Initialise, Rerun, DiffuseAccept, DiffuseReject, DiffuseRerun, Jump, JumpAccept,
           JumpReject, AnnealAccept, AnnealReject, Annealed, JumpFails, AnnealFails, DecideFails,
           Fail, Finish, Done, vars
  <2> QED
    BY <1>1, <2>1 DEF Chain!svars
<1>2. CASE prog \in Settled
  <2>1. CASE Initialise
    BY <1>2, <2>1, FirstRefines
  <2>2. CASE Rerun
    BY <1>2, <2>2, RerunRefines
  <2>3. CASE DiffuseAccept \/ DiffuseReject \/ DiffuseRerun
    BY <1>2, <2>3, DiffuseRefines
  <2>4. CASE JumpAccept \/ JumpReject
    BY <1>2, <2>4, DecideRefines
  <2>5. CASE Jump \/ AnnealAccept \/ AnnealReject \/ JumpFails \/ AnnealFails \/ DecideFails
             \/ Finish \/ UNCHANGED vars
    <3>1. UNCHANGED <<prog, curr, i, samps>> /\ (pc = "starting" <=> pc' = "starting")
      BY <2>5 DEF Jump, AnnealAccept, AnnealReject, Annealed, JumpFails, AnnealFails, DecideFails,
                  Fail, Finish, MayJump, Iterating, vars
    <3> QED
      BY <3>1 DEF Chain!svars
  <2> QED
    BY <2>1, <2>2, <2>3, <2>4, <2>5 DEF Next, Done
<1> QED
  BY <1>1, <1>2

\* The chain of traces that the kernel makes of a settled program is a chain of
\* samples: an iteration stays, moves to what executing the program from the
\* current choices, one of them changed, gives, or, after annealing, to an
\* execution that keeps the structural choices but the one changed.
THEOREM ChainImplemented ==
  ASSUME RerunsSettle, DrawsPossible PROVE Spec => ImplementsChain
<1> DEFINE J == TypeInv /\ Chained /\ ConditionsKept
<1>1. Init => Chain!ChainInit
  BY DEF Init, Chain!ChainInit, Chain!NoExecution, NoExecution
<1>2. J /\ [Next]_vars => [Chain!First \/ Chain!Step]_(Chain!svars)
  BY StepRefines
<1>3. Spec => []J
  BY ConditionsAlways
<1> HIDE DEF J
<1> QED
  BY <1>1, <1>2, <1>3, PTL DEF Spec, ImplementsChain, Chain!ChainSpec
===============================================================================
