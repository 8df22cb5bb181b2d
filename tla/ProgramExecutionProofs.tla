------------------------ MODULE ProgramExecutionProofs ------------------------
(***************************************************************************)
(* A trace in the course of an update is an execution under way, and a trace*)
(* at the end of one an execution: lemmas about ProgramExecutions.         *)
(***************************************************************************)
EXTENDS ProgramExecutions, ExecutionTraceProofs

(***************************************************************************)
(* Executions, call by call.                                               *)
(***************************************************************************)

\* The executions after each call are defined by those before it.
Extended(p, A, X) == UNION {Continuations(p, A, e) : e \in X}
LEMMA AfterSteps ==
  ASSUME NEW p, NEW A
  PROVE  /\ After(p, A)[0] = {Start}
         /\ \A n \in Nat : After(p, A)[n + 1] = Extended(p, A, After(p, A)[n])
<1> DEFINE IsStart(g, m) == g = [n \in 0..m |-> IF n = 0 THEN {Start} ELSE Extended(p, A, g[n - 1])]
           T(m) == {k \in 0..m : \E g : IsStart(g, k)}
<1>1. ASSUME NEW m \in Nat
      PROVE  \E g : IsStart(g, m)
  <2>1. 0 \in T(m)
    <3> DEFINE g == [n \in 0..0 |-> {Start}]
    <3>1. g = [n \in 0..0 |-> IF n = 0 THEN {Start} ELSE Extended(p, A, g[n - 1])]
      OBVIOUS
    <3> HIDE DEF g
    <3> QED
      BY <3>1
  <2>2. ASSUME NEW k \in 0..m, k # 0, k - 1 \in T(m)
        PROVE  k \in T(m)
    <3>1. PICK g : IsStart(g, k - 1)
      BY <2>2
    <3> DEFINE h == [n \in 0..k |-> IF n = k THEN Extended(p, A, g[k - 1]) ELSE g[n]]
    <3>2. \A n \in 0..k : n # 0 => n - 1 \in 0..k - 1 /\ n - 1 \in 0..k /\ n - 1 # k
      BY <2>2
    <3>3. \A n \in 0..k - 1 : g[n] = IF n = 0 THEN {Start} ELSE Extended(p, A, g[n - 1])
      BY <3>1
    <3>4. \A n \in 0..k : n # k => n \in 0..k - 1
      BY <2>2
    <3>5. \A n \in 0..k : h[n] = IF n = 0 THEN {Start} ELSE Extended(p, A, h[n - 1])
      <4> SUFFICES ASSUME NEW n \in 0..k
                   PROVE  h[n] = IF n = 0 THEN {Start} ELSE Extended(p, A, h[n - 1])
        OBVIOUS
      <4>1. n # 0 => h[n - 1] = g[n - 1]
        BY <3>2
      <4>2. n # k => h[n] = g[n]
        OBVIOUS
      <4>3. h[k] = Extended(p, A, g[k - 1])
        BY <2>2
      <4> HIDE DEF h
      <4> QED
        BY <2>2, <3>3, <3>4, <4>1, <4>2, <4>3
    <3>6. h = [n \in 0..k |-> h[n]]
      OBVIOUS
    <3> HIDE DEF h
    <3>7. IsStart(h, k)
      BY <3>5, <3>6
    <3> QED
      BY <3>7
  <2> HIDE DEF T
  <2>3. 0..m \subseteq T(m)
    BY <2>1, <2>2, Induction
  <2>4. m \in T(m)
    BY <2>3
  <2> QED
    BY <2>4 DEF T
\* Two of them agree where both are defined.
<1>2. ASSUME NEW m \in Nat, NEW g, IsStart(g, m), NEW k \in Nat, NEW h, IsStart(h, k), m <= k
      PROVE  \A n \in 0..m : g[n] = h[n]
  <2> DEFINE S == {n \in 0..m : g[n] = h[n]}
  <2>1. /\ \A n \in 0..m : g[n] = IF n = 0 THEN {Start} ELSE Extended(p, A, g[n - 1])
        /\ \A n \in 0..k : h[n] = IF n = 0 THEN {Start} ELSE Extended(p, A, h[n - 1])
    BY <1>2
  <2>2. \A n \in 0..m : n \in 0..k
    BY <1>2
  <2> HIDE DEF IsStart
  <2>3. 0 \in S
    BY <2>1, <2>2
  <2>4. \A n \in 0..m : n # 0 /\ n - 1 \in S => n \in S
    BY <2>1, <2>2
  <2> HIDE DEF S
  <2>5. 0..m \subseteq S
    BY <2>3, <2>4, Induction
  <2> QED
    BY <2>5 DEF S
<1> DEFINE run == [m \in Nat |-> CHOOSE g : IsStart(g, m)]
           f == [n \in Nat |-> run[n][n]]
<1>3. \A m \in Nat : IsStart(run[m], m)
  BY <1>1
<1>4. f[0] = {Start}
  <2>1. run[0] = [n \in 0..0 |-> IF n = 0 THEN {Start} ELSE Extended(p, A, run[0][n - 1])]
    BY <1>3
  <2> HIDE DEF run
  <2>2. 0 \in 0..0 /\ 0 \in Nat
    OBVIOUS
  <2>3. run[0][0] = {Start}
    BY <2>1, <2>2
  <2> QED
    BY <2>2, <2>3
<1>5. \A n \in Nat : n # 0 => f[n] = Extended(p, A, f[n - 1])
  <2> SUFFICES ASSUME NEW n \in Nat, n # 0
               PROVE  f[n] = Extended(p, A, f[n - 1])
    OBVIOUS
  <2>1. n - 1 \in Nat /\ n - 1 <= n /\ n - 1 \in 0..n - 1 /\ n \in 0..n
    OBVIOUS
  <2>2. run[n][n] = Extended(p, A, run[n][n - 1])
    <3>1. run[n] = [l \in 0..n |-> IF l = 0 THEN {Start} ELSE Extended(p, A, run[n][l - 1])]
      BY <1>3
    <3> HIDE DEF run
    <3> QED
      BY <2>1, <3>1
  <2>3. run[n - 1][n - 1] = run[n][n - 1]
    <3> HIDE DEF run, IsStart
    <3> QED
      BY <1>2, <1>3, <2>1
  <2> HIDE DEF run
  <2> QED
    BY <2>1, <2>2, <2>3
<1>6. f = [n \in Nat |-> IF n = 0 THEN {Start} ELSE Extended(p, A, f[n - 1])]
  <2>1. f = [n \in Nat |-> f[n]]
    OBVIOUS
  <2> HIDE DEF f
  <2> QED
    BY <1>4, <1>5, <2>1
<1> HIDE DEF f
<1>7. After(p, A) = CHOOSE g : g = [n \in Nat |-> IF n = 0 THEN {Start} ELSE Extended(p, A, g[n - 1])]
  BY DEF After, Extended
<1>8. After(p, A) = [n \in Nat |-> IF n = 0 THEN {Start} ELSE Extended(p, A, After(p, A)[n - 1])]
  BY <1>6, <1>7
<1>9. \A n \in Nat : n + 1 \in Nat /\ n + 1 # 0 /\ (n + 1) - 1 = n
  OBVIOUS
<1> QED
  BY <1>8, <1>9

\* After one call more.
LEMMA OneCallMore ==
  ASSUME NEW p, NEW A, NEW h, IsSequence(h), NEW val,
         NEW e \in After(p, A)[Len(h)], NEW f \in Continuations(p, A, e)
  PROVE  f \in After(p, A)[Len(Append(h, val))]
<1>1. Len(h) \in Nat /\ Len(Append(h, val)) = Len(h) + 1
  BY SequenceDomain, AppendSequence
<1>2. After(p, A)[Len(h) + 1] = Extended(p, A, After(p, A)[Len(h)])
  BY <1>1, AfterSteps
<1> QED
  BY <1>1, <1>2 DEF Extended

(***************************************************************************)
(* A trace in the course of an update, seen as an execution: its active    *)
(* records are the choices made so far.                                    *)
(***************************************************************************)

ActiveChoices(tr) == [n \in ActiveNames(tr) |-> ChoiceOf(GetRecord(tr, n))]
Names(tr) == [k \in DOMAIN tr.varlist |-> ListRecord(tr, k).name]
View(tr, h, d) ==
  [hist |-> h, counters |-> tr.loopcounters, choices |-> ActiveChoices(tr),
   order |-> Names(tr), logprob |-> tr.logprob, drawn |-> d,
   holds |-> tr.conditionsSatisfied, returns |-> None]

\* What an update relies on: no cached log probability is out of date, the names
\* that the execution has met are those counted, and the flat list holds no
\* record that the execution has not met, and none twice.
Cached(tr) ==
  \A n \in DOMAIN tr.vars :
    GetRecord(tr, n).logprob =
      ErpLogprob(GetRecord(tr, n).erp, GetRecord(tr, n).val, GetRecord(tr, n).params)
Numbered(tr) ==
  \A n \in ActiveNames(tr) : n[2] \in Nat /\ n[2] < Count(tr.loopcounters, n[1])
Listing(tr) ==
  /\ tr.currVarIndex = Len(tr.varlist) + 1
  /\ Listed(tr) \subseteq {tr.vars[n] : n \in ActiveNames(tr)}
  /\ \A j, k \in DOMAIN tr.varlist : tr.varlist[j] = tr.varlist[k] => j = k

\* A trace that is updated without the flat list.
Updating(tr) == UpdatedOK(tr) /\ Cached(tr) /\ Numbered(tr) /\ Listing(tr)

\* new is tr after a lookup that returned val to call.
NewChoice(call, val) ==
  [erp |-> call.erp, params |-> call.params, val |-> val,
   structural |-> call.structural, conditioned |-> IsConditioned(call)]
Recorded(tr, new, call, val) ==
  LET name == CurrentName(call, tr.loopcounters)
  IN  /\ Updating(new)
      /\ name \notin ActiveNames(tr)
      /\ ActiveNames(new) = ActiveNames(tr) \cup {name}
      /\ DOMAIN new.vars = DOMAIN tr.vars \cup {name}
      /\ ChoiceOf(GetRecord(new, name)) = NewChoice(call, val)
      /\ \A n \in DOMAIN tr.vars \ {name} : GetRecord(new, n) = GetRecord(tr, n)
      /\ Names(new) = Append(Names(tr), name)
      /\ new.loopcounters = Bump(tr.loopcounters, name[1])
      /\ new.logprob = Plus(tr.logprob, ErpLogprob(call.erp, val, call.params))
      /\ new.conditionsSatisfied = tr.conditionsSatisfied

\* val is what an execution gets for this call when it goes by the assignment A.
Draws(A, name, call, val, isDrawn) ==
  /\ isDrawn = (~IsConditioned(call) /\ ~Usable(A, name, call))
  /\ IsConditioned(call) => val = call.conditionedValue
  /\ ~IsConditioned(call) /\ Usable(A, name, call) => val = A[name].val
  /\ isDrawn => val \in SampleImpl(call.erp, call.params)

LEMMA LookupContinues ==
  ASSUME NEW p, NEW A, NEW tr, NEW h, NEW d, NEW val, NEW isDrawn,
         Computation(p, h).op = "erp",
         Draws(A, CurrentName(Computation(p, h), tr.loopcounters), Computation(p, h), val, isDrawn)
  PROVE  Choose(View(tr, h, d), Computation(p, h), val, isDrawn)
           \in Continuations(p, A, View(tr, h, d))
<1> DEFINE e == View(tr, h, d)
           call == Computation(p, h)
           name == CurrentName(call, tr.loopcounters)
<1>1. e.hist = h /\ e.counters = tr.loopcounters
  BY DEF View
<1> HIDE DEF e
<1>2. Continuations(p, A, e) =
        {Choose(e, call, v, ~IsConditioned(call) /\ ~Usable(A, name, call)) :
           v \in CASE IsConditioned(call)      -> {call.conditionedValue}
                   [] ~IsConditioned(call) /\ Usable(A, name, call) -> {A[name].val}
                   [] OTHER -> SampleImpl(call.erp, call.params)}
  BY <1>1 DEF Continuations
<1> QED
  BY <1>2 DEF Draws, e

LEMMA ChooseView ==
  ASSUME NEW tr, NEW new, NEW call, NEW val, NEW h, NEW d, NEW isDrawn, Recorded(tr, new, call, val)
  PROVE  Choose(View(tr, h, d), call, val, isDrawn) =
           View(new, Append(h, val),
                IF isDrawn THEN Plus(d, ErpLogprob(call.erp, val, call.params)) ELSE d)
<1> DEFINE name == CurrentName(call, tr.loopcounters)
           choices == [n \in ActiveNames(tr) \cup {name} |->
                         IF n = name THEN NewChoice(call, val) ELSE ActiveChoices(tr)[n]]
<1>1. ActiveChoices(new) = choices
  <2>1. \A n \in ActiveNames(tr) : n # name /\ n \in DOMAIN tr.vars
    BY DEF Recorded, ActiveNames
  <2> QED
    BY <2>1 DEF Recorded, ActiveChoices
<1> DEFINE e == View(tr, h, d)
           lp == ErpLogprob(call.erp, val, call.params)
<1>2. /\ e.hist = h /\ e.counters = tr.loopcounters /\ e.choices = ActiveChoices(tr)
      /\ e.order = Names(tr) /\ e.logprob = tr.logprob /\ e.drawn = d
      /\ e.holds = tr.conditionsSatisfied /\ e.returns = None
      /\ e = [f \in {"hist", "counters", "choices", "order", "logprob", "drawn", "holds", "returns"}
                |-> e[f]]
  BY DEF View
<1> HIDE DEF e
<1>3. DOMAIN e.choices = ActiveNames(tr)
  BY <1>2 DEF ActiveChoices
<1>4. Choose(e, call, val, isDrawn) =
        [e EXCEPT !.hist = Append(h, val), !.counters = Bump(tr.loopcounters, name[1]),
                  !.choices = choices, !.order = Append(Names(tr), name),
                  !.logprob = Plus(tr.logprob, lp),
                  !.drawn = IF isDrawn THEN Plus(d, lp) ELSE d]
  <2> DEFINE chosen == [n \in DOMAIN e.choices \cup {name} |->
                          IF n = name THEN NewChoice(call, val) ELSE e.choices[n]]
  <2>1. chosen = choices
    BY <1>2, <1>3
  <2>2. Choose(e, call, val, isDrawn) =
          [e EXCEPT !.hist = Append(e.hist, val), !.counters = Bump(e.counters, name[1]),
                    !.choices = chosen, !.order = Append(e.order, name),
                    !.logprob = Plus(e.logprob, lp),
                    !.drawn = IF isDrawn THEN Plus(e.drawn, lp) ELSE e.drawn]
    BY <1>2 DEF Choose, NewChoice
  <2> QED
    BY <1>2, <2>1, <2>2
<1> HIDE DEF choices, name, lp
<1>5. Choose(e, call, val, isDrawn) =
        [hist |-> Append(h, val), counters |-> Bump(tr.loopcounters, name[1]), choices |-> choices,
         order |-> Append(Names(tr), name), logprob |-> Plus(tr.logprob, lp),
         drawn |-> IF isDrawn THEN Plus(d, lp) ELSE d,
         holds |-> tr.conditionsSatisfied, returns |-> None]
  BY <1>2, <1>4
<1> QED
  BY <1>1, <1>5 DEF View, Recorded, e, name, lp

\* An update keeps to what executing the program from the trace's own choices
\* would do; and to what executing it from the assignment A would do, where the
\* records it has not met are those of A.
Follows(p, tr, h) ==
  \A A : (\A n \in ActiveNames(tr) : n \in DOMAIN A /\ A[n] = ChoiceOf(GetRecord(tr, n)))
         => View(tr, h, 0) \in After(p, A)[Len(h)]
Rest(tr, A) ==
  \A n : n \notin ActiveNames(tr) =>
    /\ n \in DOMAIN A <=> n \in DOMAIN tr.vars
    /\ n \in DOMAIN A => A[n] = ChoiceOf(GetRecord(tr, n))
Moves(p, tr, h, A) == Rest(tr, A) /\ \E d : View(tr, h, d) \in After(p, A)[Len(h)]

LEMMA RecordedFollows ==
  ASSUME NEW p, NEW tr, NEW new, NEW h, IsSequence(h), NEW val, Computation(p, h).op = "erp",
         Recorded(tr, new, Computation(p, h), val), Follows(p, tr, h),
         IsConditioned(Computation(p, h)) => val = Computation(p, h).conditionedValue
  PROVE  Follows(p, new, Append(h, val))
<1> DEFINE call == Computation(p, h)
           name == CurrentName(call, tr.loopcounters)
<1> SUFFICES ASSUME NEW A,
                    \A n \in ActiveNames(new) : n \in DOMAIN A /\ A[n] = ChoiceOf(GetRecord(new, n))
             PROVE  View(new, Append(h, val), 0) \in After(p, A)[Len(Append(h, val))]
  BY DEF Follows
<1>1. View(tr, h, 0) \in After(p, A)[Len(h)]
  <2>1. \A n \in ActiveNames(tr) : n \in ActiveNames(new) /\ n # name /\ n \in DOMAIN tr.vars
    BY DEF Recorded, ActiveNames
  <2>2. \A n \in ActiveNames(tr) : n \in DOMAIN A /\ A[n] = ChoiceOf(GetRecord(tr, n))
    BY <2>1 DEF Recorded
  <2> QED
    BY <2>2 DEF Follows
<1>2. name \in DOMAIN A /\ A[name] = NewChoice(call, val)
  BY DEF Recorded
<1> PICK isDrawn : isDrawn = FALSE
  OBVIOUS
<1>3. Draws(A, name, call, val, isDrawn)
  <2>1. Usable(A, name, call) /\ A[name].val = val
    BY <1>2 DEF Usable, NewChoice
  <2> HIDE DEF name, call
  <2> QED
    BY <2>1, Zenon DEF Draws, call
<1>4. View(new, Append(h, val), 0) \in Continuations(p, A, View(tr, h, 0))
  <2>1. Choose(View(tr, h, 0), call, val, isDrawn) \in Continuations(p, A, View(tr, h, 0))
    BY <1>3, LookupContinues
  <2>2. Choose(View(tr, h, 0), call, val, isDrawn) = View(new, Append(h, val), 0)
    BY ChooseView
  <2> QED
    BY <2>1, <2>2
<1> QED
  BY <1>1, <1>4, OneCallMore

LEMMA RecordedMoves ==
  ASSUME NEW p, NEW tr, NEW new, NEW h, IsSequence(h), NEW val, Computation(p, h).op = "erp",
         Recorded(tr, new, Computation(p, h), val), NEW A, Moves(p, tr, h, A), NEW isDrawn,
         Draws(A, CurrentName(Computation(p, h), tr.loopcounters), Computation(p, h), val, isDrawn)
  PROVE  Moves(p, new, Append(h, val), A)
<1> DEFINE call == Computation(p, h)
           name == CurrentName(call, tr.loopcounters)
           lp == ErpLogprob(call.erp, val, call.params)
<1>1. Rest(new, A)
  BY DEF Moves, Rest, Recorded
<1>2. PICK d : View(tr, h, d) \in After(p, A)[Len(h)]
  BY DEF Moves
<1>3. \E d2 : View(new, Append(h, val), d2) \in Continuations(p, A, View(tr, h, d))
  <2>1. Choose(View(tr, h, d), call, val, isDrawn) \in Continuations(p, A, View(tr, h, d))
    BY LookupContinues
  <2>2. Choose(View(tr, h, d), call, val, isDrawn)
          = View(new, Append(h, val), IF isDrawn THEN Plus(d, lp) ELSE d)
    BY ChooseView
  <2> QED
    BY <2>1, <2>2
<1> QED
  BY <1>1, <1>2, <1>3, OneCallMore DEF Moves

\* The name of the next lookup is one that the execution has not met.
LEMMA FreshName ==
  ASSUME NEW tr, Updating(tr), NEW call
  PROVE  LET name == CurrentName(call, tr.loopcounters)
         IN  /\ name \notin ActiveNames(tr)
             /\ name[2] \in Nat
             /\ \A n : (n \in ActiveNames(tr) \/ n = name) =>
                  n[2] \in Nat /\ n[2] < Count(Bump(tr.loopcounters, name[1]), n[1])
<1> DEFINE counters == tr.loopcounters
           key == CounterKey(call, counters)
           name == CurrentName(call, counters)
<1>1. name[1] = key /\ name[2] = Count(counters, key)
  BY DEF CurrentName
<1>2. counters \in [DOMAIN counters -> Nat]
  BY DEF Updating, UpdatedOK, TraceOK
<1>3. \A k : Count(counters, k) \in Nat
  BY <1>2 DEF Count
<1>4. \A k : Count(Bump(counters, key), k) = IF k = key THEN Count(counters, key) + 1
                                                        ELSE Count(counters, k)
  BY DEF Count, Bump
<1>5. \A n \in ActiveNames(tr) : n[2] \in Nat /\ n[2] < Count(counters, n[1])
  BY DEF Updating, Numbered
<1> HIDE DEF counters, key, name
<1>6. name \notin ActiveNames(tr)
  BY <1>1, <1>3, <1>5
<1>7. ASSUME NEW n, n \in ActiveNames(tr) \/ n = name
      PROVE  n[2] \in Nat /\ n[2] < Count(Bump(counters, key), n[1])
  <2>1. CASE n = name
    BY <2>1, <1>1, <1>3, <1>4
  <2>2. CASE n \in ActiveNames(tr)
    BY <2>2, <1>3, <1>4, <1>5
  <2> QED
    BY <1>7, <2>1, <2>2
<1> QED
  BY <1>1, <1>3, <1>6, <1>7 DEF counters, name

LEMMA RefreshedChoice ==
  ASSUME NEW rec, RecordOK(rec), NEW call \in ErpCalls,
         rec.erp = call.erp, rec.structural = call.structural,
         rec.logprob = ErpLogprob(rec.erp, rec.val, rec.params)
  PROVE  LET new == Refresh(rec, call)
             val == IF IsConditioned(call) THEN call.conditionedValue ELSE rec.val
         IN  /\ ChoiceOf(new) = NewChoice(call, val)
             /\ new.val = val /\ new.name = rec.name /\ new.active
             /\ new.logprob = ErpLogprob(new.erp, new.val, new.params)
             /\ new.logprob = ErpLogprob(call.erp, val, call.params)
<1> DEFINE val == IF IsConditioned(call) THEN call.conditionedValue ELSE rec.val
           new == Refresh(rec, call)
<1>1. /\ new.params = call.params /\ new.val = val /\ new.active
      /\ new.conditioned = IsConditioned(call) /\ new.name = rec.name
      /\ new.erp = rec.erp /\ new.structural = rec.structural
      /\ new.logprob = IF rec.params # call.params \/ val # rec.val
                       THEN ErpLogprob(call.erp, val, call.params) ELSE rec.logprob
  BY DEF Refresh, RecordOK, HasFields, RecordFields
<1> HIDE DEF val, new
<1>2. new.logprob = ErpLogprob(call.erp, val, call.params)
  BY <1>1
<1>3. ChoiceOf(new) = NewChoice(call, val)
  BY <1>1 DEF ChoiceOf, NewChoice
<1> QED
  BY <1>1, <1>2, <1>3 DEF val, new

\* Records of different names are different records.
LEMMA OwnRecords ==
  ASSUME NEW tr, NamedRecords(tr), NEW m \in DOMAIN tr.vars, NEW n \in DOMAIN tr.vars,
         tr.vars[m] = tr.vars[n]
  PROVE  m = n
BY DEF NamedRecords, GetRecord

LEMMA NamesAppend ==
  ASSUME NEW tr, NEW new, tr.varlist \in Seq(DOMAIN tr.recs), NEW id,
         id \in DOMAIN new.recs, DOMAIN tr.recs \subseteq DOMAIN new.recs,
         \A k \in DOMAIN tr.recs : new.recs[k].name = tr.recs[k].name,
         new.varlist = Append(tr.varlist, id), NEW name, new.recs[id].name = name
  PROVE  Names(new) = Append(Names(tr), name)
<1> DEFINE l == tr.varlist
           n == Len(l)
<1>1. l \in Seq(DOMAIN tr.recs) /\ n \in Nat /\ DOMAIN l = 1..n
  OBVIOUS
<1>2. IsSequence(l)
  BY <1>1 DEF IsSequence
<1>3. /\ DOMAIN new.varlist = 1..n + 1
      /\ \A k \in 1..n : new.varlist[k] = l[k] /\ l[k] \in DOMAIN tr.recs
      /\ new.varlist[n + 1] = id
  BY <1>1, <1>2, AppendSequence
<1>4. Names(tr) = [k \in 1..n |-> tr.recs[l[k]].name]
  BY <1>1 DEF Names, ListRecord
<1>5. IsSequence(Names(tr)) /\ Len(Names(tr)) = n
  BY <1>1, <1>4, FunctionSequence
<1> DEFINE s == Append(Names(tr), name)
<1>6. /\ IsSequence(s) /\ DOMAIN s = 1..n + 1
      /\ \A k \in 1..n : s[k] = Names(tr)[k]
      /\ s[n + 1] = name
  BY <1>5, AppendSequence
<1>7. s = [k \in 1..n + 1 |-> s[k]]
  <2> DEFINE S == {s[k] : k \in DOMAIN s}
  <2>1. s \in Seq(S)
    BY <1>6 DEF IsSequence
  <2> HIDE DEF s, S
  <2>2. s \in [1..Len(s) -> S]
    BY <2>1, LenProperties
  <2> QED
    BY <2>2, <1>6
<1> HIDE DEF s, l, n
<1>8. \A k \in 1..n + 1 : s[k] = new.recs[new.varlist[k]].name
  BY <1>1, <1>3, <1>4, <1>6
<1>9. Names(new) = [k \in 1..n + 1 |-> new.recs[new.varlist[k]].name]
  BY <1>3 DEF Names, ListRecord
<1>10. Names(new) = s
  BY <1>7, <1>8, <1>9
<1> QED
  BY <1>10 DEF s

\* The flat list and the database after a lookup that appends the record id,
\* stored under the name, to the list.
LEMMA ListingAppend ==
  ASSUME NEW tr, Updating(tr), NEW new, UpdatedOK(new), NEW name, NEW id,
         name \notin ActiveNames(tr), ActiveNames(new) = ActiveNames(tr) \cup {name},
         name \in DOMAIN new.vars, new.vars[name] = id,
         id \notin Listed(tr), id \in DOMAIN new.recs, DOMAIN tr.recs \subseteq DOMAIN new.recs,
         \A n \in DOMAIN tr.vars \ {name} : n \in DOMAIN new.vars /\ new.vars[n] = tr.vars[n],
         new.varlist = Append(tr.varlist, id), new.currVarIndex = tr.currVarIndex + 1
  PROVE  Listing(new)
<1> DEFINE l == tr.varlist
           n == Len(l)
<1>1. l \in Seq(DOMAIN tr.recs) /\ n \in Nat /\ DOMAIN l = 1..n
  BY DEF Updating, UpdatedOK, TraceOK
<1>2. IsSequence(l)
  BY <1>1 DEF IsSequence
<1>3. /\ DOMAIN new.varlist = 1..n + 1 /\ Len(new.varlist) = n + 1
      /\ \A k \in 1..n : new.varlist[k] = l[k]
      /\ new.varlist[n + 1] = id
  BY <1>2, AppendSequence
<1>4. \A k \in 1..n : l[k] # id
  BY <1>1 DEF Listed
<1>5. \A j, k \in 1..n : l[j] = l[k] => j = k
  BY <1>1 DEF Updating, Listing
<1>6. \A j \in 1..n + 1 : j # n + 1 => j \in 1..n
  BY <1>1
<1>7. new.currVarIndex = Len(new.varlist) + 1
  BY <1>3 DEF Updating, Listing
<1>8. Listed(new) = Listed(tr) \cup {id}
  <2> DEFINE S == DOMAIN new.recs
  <2>1. tr.varlist \in Seq(S) /\ id \in S
    BY <1>1
  <2> HIDE DEF S, l
  <2>2. \A k \in S : new.varlist = Append(tr.varlist, k) => Listed(new) = Listed(tr) \cup {k}
    BY <2>1, ListedAppend
  <2> QED
    BY <2>1, <2>2
<1>9. Listed(new) \subseteq {new.vars[m] : m \in ActiveNames(new)}
  <2>1. \A m \in ActiveNames(tr) : m \in ActiveNames(new) /\ new.vars[m] = tr.vars[m]
    BY DEF ActiveNames
  <2>2. Listed(tr) \subseteq {tr.vars[m] : m \in ActiveNames(tr)}
    BY DEF Updating, Listing
  <2> QED
    BY <1>8, <2>1, <2>2
<1> HIDE DEF l, n
<1>10. \A j, k \in DOMAIN new.varlist : new.varlist[j] = new.varlist[k] => j = k
  BY <1>3, <1>4, <1>5, <1>6
<1> QED
  BY <1>7, <1>9, <1>10 DEF Listing

LEMMA ReuseRecorded ==
  ASSUME NEW tr, Updating(tr), NEW call \in ErpCalls,
         Matches(tr, CurrentName(call, tr.loopcounters), call)
  PROVE  LET new == ReuseNamed(tr, call)
             rec == GetRecord(tr, CurrentName(call, tr.loopcounters))
             val == IF IsConditioned(call) THEN call.conditionedValue ELSE rec.val
         IN  /\ Recorded(tr, new, call, val)
             /\ GetRecord(new, CurrentName(call, tr.loopcounters)).val = val
<1> DEFINE name == CurrentName(call, tr.loopcounters)
           id == tr.vars[name]
           old == tr.recs[id]
           rec == Refresh(old, call)
           new == ReuseNamed(tr, call)
           val == IF IsConditioned(call) THEN call.conditionedValue ELSE old.val
<1>1. /\ new.recs = [tr.recs EXCEPT ![id] = rec]
      /\ new.vars = tr.vars /\ new.varlist = Append(tr.varlist, id)
      /\ new.currVarIndex = tr.currVarIndex + 1
      /\ new.loopcounters = Bump(tr.loopcounters, name[1])
      /\ new.logprob = Plus(tr.logprob, rec.logprob)
      /\ new.conditionsSatisfied = tr.conditionsSatisfied
  BY ReuseNamedFields DEF Updating, UpdatedOK, TraceOK
<1>2. /\ name \in DOMAIN tr.vars /\ id \in DOMAIN tr.recs
      /\ DOMAIN new.recs = DOMAIN tr.recs
      /\ \A k \in DOMAIN tr.recs : new.recs[k].name = tr.recs[k].name
  BY ReuseNamedOK DEF Updating, UpdatedOK
<1>3. UpdatedOK(new)
  BY ReuseNamedUpdated DEF Updating
<1>4. /\ RecordOK(old) /\ old.erp = call.erp /\ old.structural = call.structural
      /\ old.logprob = ErpLogprob(old.erp, old.val, old.params) /\ old.name = name
  BY <1>2 DEF Updating, UpdatedOK, TraceOK, Matches, Cached, GetRecord, NamedRecords
<1>5. /\ ChoiceOf(rec) = NewChoice(call, val)
      /\ rec.val = val /\ rec.name = name /\ rec.active
      /\ rec.logprob = ErpLogprob(rec.erp, rec.val, rec.params)
      /\ rec.logprob = ErpLogprob(call.erp, val, call.params)
  <2> HIDE DEF old
  <2> QED
    BY <1>4, RefreshedChoice
<1>6. /\ name \notin ActiveNames(tr)
      /\ \A n : (n \in ActiveNames(tr) \/ n = name) =>
           n[2] \in Nat /\ n[2] < Count(Bump(tr.loopcounters, name[1]), n[1])
  BY FreshName
<1> HIDE DEF name, old, rec, new, val
<1>7. GetRecord(new, name) = rec
  BY <1>1, <1>2 DEF GetRecord
<1>8. \A n \in DOMAIN tr.vars \ {name} : GetRecord(new, n) = GetRecord(tr, n)
  <2> SUFFICES ASSUME NEW n \in DOMAIN tr.vars \ {name} PROVE GetRecord(new, n) = GetRecord(tr, n)
    OBVIOUS
  <2>1. tr.vars[n] # id
    BY <1>2, OwnRecords DEF Updating, UpdatedOK
  <2>2. tr.vars[n] \in DOMAIN tr.recs
    BY DEF Updating, UpdatedOK, TraceOK
  <2> QED
    BY <1>1, <2>1, <2>2 DEF GetRecord
<1>9. ActiveNames(new) = ActiveNames(tr) \cup {name}
  BY <1>1, <1>2, <1>5, <1>7, <1>8 DEF ActiveNames
<1>10. Cached(new)
  BY <1>1, <1>5, <1>7, <1>8 DEF Updating, Cached
<1>11. Numbered(new)
  BY <1>1, <1>6, <1>9 DEF Numbered
<1>12. Listing(new)
  <2>1. id \notin Listed(tr)
    <3> SUFFICES ASSUME id \in Listed(tr) PROVE FALSE
      OBVIOUS
    <3>1. PICK n \in ActiveNames(tr) : tr.vars[n] = id
      BY DEF Updating, Listing
    <3>2. n = name
      BY <1>2, <3>1, OwnRecords DEF Updating, UpdatedOK, ActiveNames
    <3> QED
      BY <1>6, <3>1, <3>2
  <2> HIDE DEF id
  <2> QED
    BY <1>1, <1>2, <1>3, <1>6, <1>9, <2>1, ListingAppend DEF id
<1>13. Names(new) = Append(Names(tr), name)
  <2>1. tr.varlist \in Seq(DOMAIN tr.recs)
    BY DEF Updating, UpdatedOK, TraceOK
  <2>2. new.recs[id].name = name
    BY <1>2, <1>4 DEF old
  <2>3. /\ id \in DOMAIN new.recs /\ DOMAIN tr.recs \subseteq DOMAIN new.recs
        /\ \A k \in DOMAIN tr.recs : new.recs[k].name = tr.recs[k].name
        /\ new.varlist = Append(tr.varlist, id)
    BY <1>1, <1>2
  <2> HIDE DEF id
  <2>4. \A k, m : /\ k \in DOMAIN new.recs /\ new.varlist = Append(tr.varlist, k)
                 /\ new.recs[k].name = m
                 => Names(new) = Append(Names(tr), m)
    BY <2>1, <2>3, NamesAppend
  <2> QED
    BY <2>2, <2>3, <2>4
<1>14. Updating(new)
  BY <1>3, <1>10, <1>11, <1>12 DEF Updating
<1>15. Recorded(tr, new, call, val)
  BY <1>1, <1>2, <1>5, <1>6, <1>7, <1>8, <1>9, <1>13, <1>14 DEF Recorded, name
<1> QED
  BY <1>5, <1>7, <1>15 DEF new, name, val, old, GetRecord

LEMMA CreateRecorded ==
  ASSUME NEW tr, Updating(tr), NEW call \in ErpCalls, NEW val \in Value
  PROVE  Recorded(tr, Create(tr, call, val), call, val)
<1> DEFINE name == CurrentName(call, tr.loopcounters)
           id == Len(tr.recs) + 1
           ll == ErpLogprob(call.erp, val, call.params)
           rec == NewRecord(name, call.erp, call.params, val, ll, call.structural, IsConditioned(call))
           new == Create(tr, call, val)
<1>1. /\ new.currVarIndex = tr.currVarIndex + 1
      /\ new.loopcounters = Bump(tr.loopcounters, name[1])
      /\ new.logprob = Plus(tr.logprob, ll)
      /\ new.conditionsSatisfied = tr.conditionsSatisfied
  <2>1. HasFields(tr, TraceFields)
    BY DEF Updating, UpdatedOK, TraceOK
  <2> QED
    BY <2>1 DEF Create, HasFields, TraceFields
<1>2. /\ DOMAIN new.vars = DOMAIN tr.vars \cup {name}
      /\ \A n \in DOMAIN new.vars : new.vars[n] = IF n = name THEN id ELSE tr.vars[n]
      /\ new.varlist = Append(tr.varlist, id)
      /\ DOMAIN new.recs = DOMAIN tr.recs \cup {id} /\ id \notin DOMAIN tr.recs
      /\ \A k \in DOMAIN tr.recs : new.recs[k] = tr.recs[k]
  BY CreateOK DEF Updating, UpdatedOK
<1>3. UpdatedOK(new)
  BY CreateUpdated DEF Updating
<1>4. new.recs[id] = rec
  <2>1. new.recs = Append(tr.recs, rec)
    BY CreateRecs DEF Updating, UpdatedOK, TraceOK
  <2>2. IsSequence(tr.recs)
    BY DEF Updating, UpdatedOK, TraceOK
  <2> HIDE DEF rec, new
  <2> QED
    BY <2>1, <2>2, AppendSequence
<1>5. /\ ChoiceOf(rec) = NewChoice(call, val) /\ rec.name = name /\ rec.active
      /\ rec.logprob = ErpLogprob(rec.erp, rec.val, rec.params) /\ rec.logprob = ll
  BY DEF ChoiceOf, NewChoice, NewRecord
<1>6. /\ name \notin ActiveNames(tr)
      /\ \A n : (n \in ActiveNames(tr) \/ n = name) =>
           n[2] \in Nat /\ n[2] < Count(Bump(tr.loopcounters, name[1]), n[1])
  BY FreshName
<1> HIDE DEF name, id, rec, new, ll
<1>7. GetRecord(new, name) = rec
  BY <1>2, <1>4 DEF GetRecord
<1>8. \A n \in DOMAIN tr.vars \ {name} : GetRecord(new, n) = GetRecord(tr, n)
  <2>1. \A n \in DOMAIN tr.vars : tr.vars[n] \in DOMAIN tr.recs
    BY DEF Updating, UpdatedOK, TraceOK
  <2> QED
    BY <1>2, <2>1 DEF GetRecord
<1>9. ActiveNames(new) = ActiveNames(tr) \cup {name}
  BY <1>2, <1>5, <1>6, <1>7, <1>8 DEF ActiveNames
<1>10. Cached(new)
  BY <1>2, <1>5, <1>7, <1>8 DEF Updating, Cached
<1>11. Numbered(new)
  BY <1>1, <1>6, <1>9 DEF Numbered
<1>12. tr.varlist \in Seq(DOMAIN tr.recs)
  BY DEF Updating, UpdatedOK, TraceOK
<1>13. Listing(new)
  <2>1. id \notin Listed(tr)
    BY <1>2, <1>12 DEF Listed
  <2>2. /\ name \in DOMAIN new.vars /\ new.vars[name] = id /\ id \in DOMAIN new.recs
        /\ DOMAIN tr.recs \subseteq DOMAIN new.recs
        /\ \A n \in DOMAIN tr.vars \ {name} : n \in DOMAIN new.vars /\ new.vars[n] = tr.vars[n]
    BY <1>2
  <2> QED
    BY <1>1, <1>2, <1>3, <1>6, <1>9, <2>1, <2>2, ListingAppend
<1>14. Names(new) = Append(Names(tr), name)
  <2>1. DOMAIN tr.recs \subseteq DOMAIN new.recs /\ id \in DOMAIN new.recs /\ new.recs[id].name = name
    BY <1>2, <1>4, <1>5
  <2>2. \A k, m : /\ k \in DOMAIN new.recs /\ new.varlist = Append(tr.varlist, k)
                 /\ new.recs[k].name = m
                 => Names(new) = Append(Names(tr), m)
    BY <1>2, <1>12, <2>1, NamesAppend
  <2> QED
    BY <1>2, <2>1, <2>2
<1>15. Updating(new)
  BY <1>3, <1>10, <1>11, <1>13 DEF Updating
<1>16. Recorded(tr, new, call, val)
  BY <1>1, <1>2, <1>5, <1>6, <1>7, <1>8, <1>9, <1>14, <1>15 DEF Recorded, name, ll
<1> QED
  BY <1>16 DEF new

\* The calls that look no variable up.
LEMMA SilentStep ==
  ASSUME NEW p, NEW tr, NEW new, NEW h, IsSequence(h), NEW val,
         \A A, d : \E d2 : /\ d = 0 => d2 = 0
                           /\ View(new, Append(h, val), d2) \in Continuations(p, A, View(tr, h, d)),
         new.recs = tr.recs, new.vars = tr.vars
  PROVE  /\ Follows(p, tr, h) => Follows(p, new, Append(h, val))
         /\ \A A : Moves(p, tr, h, A) => Moves(p, new, Append(h, val), A)
<1>1. ActiveNames(new) = ActiveNames(tr) /\ \A n : GetRecord(new, n) = GetRecord(tr, n)
  BY DEF ActiveNames, GetRecord
<1>2. ASSUME Follows(p, tr, h) PROVE Follows(p, new, Append(h, val))
  <2> SUFFICES ASSUME NEW A,
                      \A n \in ActiveNames(new) : n \in DOMAIN A /\ A[n] = ChoiceOf(GetRecord(new, n))
               PROVE  View(new, Append(h, val), 0) \in After(p, A)[Len(Append(h, val))]
    BY DEF Follows
  <2>1. View(tr, h, 0) \in After(p, A)[Len(h)]
    BY <1>1, <1>2 DEF Follows
  <2>2. View(new, Append(h, val), 0) \in Continuations(p, A, View(tr, h, 0))
    OBVIOUS
  <2> QED
    BY <2>1, <2>2, OneCallMore
<1>3. ASSUME NEW A, Moves(p, tr, h, A) PROVE Moves(p, new, Append(h, val), A)
  <2>1. Rest(new, A)
    BY <1>1, <1>3 DEF Moves, Rest
  <2>2. PICK d : View(tr, h, d) \in After(p, A)[Len(h)]
    BY <1>3 DEF Moves
  <2>3. PICK d2 : View(new, Append(h, val), d2) \in Continuations(p, A, View(tr, h, d))
    OBVIOUS
  <2> QED
    BY <2>1, <2>2, <2>3, OneCallMore DEF Moves
<1> QED
  BY <1>2, <1>3

LEMMA FactorContinues ==
  ASSUME NEW p, NEW tr, HasFields(tr, TraceFields), NEW h, NEW A, NEW d,
         Computation(p, h).op = "factor"
  PROVE  View(AddFactor(tr, Computation(p, h).num), Append(h, None), d)
           \in Continuations(p, A, View(tr, h, d))
<1> DEFINE e == View(tr, h, d)
           new == AddFactor(tr, Computation(p, h).num)
<1>1. /\ new.loopcounters = tr.loopcounters /\ new.recs = tr.recs /\ new.vars = tr.vars
      /\ new.varlist = tr.varlist /\ new.conditionsSatisfied = tr.conditionsSatisfied
      /\ new.logprob = Plus(tr.logprob, Computation(p, h).num)
  BY DEF AddFactor, HasFields, TraceFields
<1>2. ActiveChoices(new) = ActiveChoices(tr) /\ Names(new) = Names(tr)
  BY <1>1 DEF ActiveChoices, ActiveNames, GetRecord, Names, ListRecord
<1> HIDE DEF new
<1>3. View(new, Append(h, None), d) =
        [[e EXCEPT !.hist = Append(@, None)] EXCEPT !.logprob = Plus(@, Computation(p, h).num)]
  <2> DEFINE f == [e EXCEPT !.hist = Append(@, None)]
  <2>1. f = [hist |-> Append(h, None), counters |-> tr.loopcounters, choices |-> ActiveChoices(tr),
             order |-> Names(tr), logprob |-> tr.logprob, drawn |-> d,
             holds |-> tr.conditionsSatisfied, returns |-> None]
    BY DEF View
  <2>2. /\ f.hist = Append(h, None) /\ f.counters = tr.loopcounters /\ f.choices = ActiveChoices(tr)
        /\ f.order = Names(tr) /\ f.logprob = tr.logprob /\ f.drawn = d
        /\ f.holds = tr.conditionsSatisfied /\ f.returns = None
        /\ f = [g \in {"hist", "counters", "choices", "order", "logprob", "drawn", "holds", "returns"}
                  |-> f[g]]
    BY <2>1
  <2> DEFINE x == Plus(tr.logprob, Computation(p, h).num)
  <2> HIDE DEF f, x
  <2>3. View(new, Append(h, None), d) =
          [hist |-> Append(h, None), counters |-> tr.loopcounters, choices |-> ActiveChoices(tr),
           order |-> Names(tr), logprob |-> x, drawn |-> d, holds |-> tr.conditionsSatisfied, returns |-> None]
    BY <1>1, <1>2 DEF View, x
  <2>4. [f EXCEPT !.logprob = x] =
          [hist |-> Append(h, None), counters |-> tr.loopcounters, choices |-> ActiveChoices(tr),
           order |-> Names(tr), logprob |-> x, drawn |-> d,
           holds |-> tr.conditionsSatisfied, returns |-> None]
    BY <2>2
  <2>5. f.logprob = tr.logprob
    BY <2>1
  <2> QED
    BY <2>3, <2>4, <2>5 DEF f, x
<1>4. e.hist = h
  BY DEF View
<1> HIDE DEF e
<1>5. Continuations(p, A, e) =
        {[[e EXCEPT !.hist = Append(@, None)] EXCEPT !.logprob = Plus(@, Computation(p, h).num)]}
  BY <1>4 DEF Continuations
<1> QED
  BY <1>3, <1>5 DEF e, new

LEMMA ConditionContinues ==
  ASSUME NEW p, NEW tr, HasFields(tr, TraceFields), NEW h, NEW A, NEW d,
         Computation(p, h).op = "condition"
  PROVE  View(ConditionOn(tr, Computation(p, h).holds), Append(h, None), d)
           \in Continuations(p, A, View(tr, h, d))
<1> DEFINE e == View(tr, h, d)
           new == ConditionOn(tr, Computation(p, h).holds)
<1>1. /\ new.loopcounters = tr.loopcounters /\ new.recs = tr.recs /\ new.vars = tr.vars
      /\ new.varlist = tr.varlist /\ new.logprob = tr.logprob
      /\ new.conditionsSatisfied = (tr.conditionsSatisfied /\ Computation(p, h).holds)
  BY DEF ConditionOn, HasFields, TraceFields
<1>2. ActiveChoices(new) = ActiveChoices(tr) /\ Names(new) = Names(tr)
  BY <1>1 DEF ActiveChoices, ActiveNames, GetRecord, Names, ListRecord
<1> HIDE DEF new
<1>3. View(new, Append(h, None), d) =
        [[e EXCEPT !.hist = Append(@, None)] EXCEPT !.holds = @ /\ Computation(p, h).holds]
  <2> DEFINE f == [e EXCEPT !.hist = Append(@, None)]
  <2>1. f = [hist |-> Append(h, None), counters |-> tr.loopcounters, choices |-> ActiveChoices(tr),
             order |-> Names(tr), logprob |-> tr.logprob, drawn |-> d,
             holds |-> tr.conditionsSatisfied, returns |-> None]
    BY DEF View
  <2>2. /\ f.hist = Append(h, None) /\ f.counters = tr.loopcounters /\ f.choices = ActiveChoices(tr)
        /\ f.order = Names(tr) /\ f.logprob = tr.logprob /\ f.drawn = d
        /\ f.holds = tr.conditionsSatisfied /\ f.returns = None
        /\ f = [g \in {"hist", "counters", "choices", "order", "logprob", "drawn", "holds", "returns"}
                  |-> f[g]]
    BY <2>1
  <2> DEFINE x == (tr.conditionsSatisfied /\ Computation(p, h).holds)
  <2> HIDE DEF f, x
  <2>3. View(new, Append(h, None), d) =
          [hist |-> Append(h, None), counters |-> tr.loopcounters, choices |-> ActiveChoices(tr),
           order |-> Names(tr), logprob |-> tr.logprob, drawn |-> d, holds |-> x, returns |-> None]
    BY <1>1, <1>2 DEF View, x
  <2>4. [f EXCEPT !.holds = x] =
          [hist |-> Append(h, None), counters |-> tr.loopcounters, choices |-> ActiveChoices(tr),
           order |-> Names(tr), logprob |-> tr.logprob, drawn |-> d, holds |-> x, returns |-> None]
    BY <2>2
  <2>5. f.holds = tr.conditionsSatisfied
    BY <2>1
  <2> QED
    BY <2>3, <2>4, <2>5 DEF f, x
<1>4. e.hist = h
  BY DEF View
<1> HIDE DEF e
<1>5. Continuations(p, A, e) =
        {[[e EXCEPT !.hist = Append(@, None)] EXCEPT !.holds = @ /\ Computation(p, h).holds]}
  BY <1>4 DEF Continuations
<1> QED
  BY <1>3, <1>5 DEF e, new

LEMMA NestedContinues ==
  ASSUME NEW p, NEW tr, NEW h, NEW A, NEW d,
         Computation(p, h).op = "nested", NEW val \in Computation(p, h).outcomes
  PROVE  View(tr, Append(h, val), d) \in Continuations(p, A, View(tr, h, d))
<1> DEFINE e == View(tr, h, d)
<1>1. View(tr, Append(h, val), d) = [e EXCEPT !.hist = Append(@, val)]
  BY DEF View
<1>2. e.hist = h
  BY DEF View
<1> HIDE DEF e
<1>3. Continuations(p, A, e) =
        {[e EXCEPT !.hist = Append(@, v)] : v \in Computation(p, h).outcomes}
  BY <1>2 DEF Continuations
<1> QED
  BY <1>1, <1>3 DEF e

(***************************************************************************)
(* The beginning of an update.                                             *)
(***************************************************************************)

LEMMA Begun ==
  ASSUME NEW p, NEW new, UpdatedOK(new), Cached(new), ActiveNames(new) = {},
         new.varlist = <<>>, new.currVarIndex = 1, new.loopcounters = <<>>,
         new.logprob = 0, new.conditionsSatisfied = TRUE
  PROVE  /\ Updating(new) /\ Follows(p, new, <<>>)
         /\ \A A : Rest(new, A) => Moves(p, new, <<>>, A)
<1>1. Updating(new)
  BY DEF Updating, Numbered, Listing, Listed
<1>2. View(new, <<>>, 0) = Start
  <2>1. ActiveChoices(new) = NoChoices
    BY DEF ActiveChoices, NoChoices
  <2>2. Names(new) = <<>>
    BY DEF Names
  <2> QED
    BY <2>1, <2>2 DEF View, Start
<1>3. \A A : View(new, <<>>, 0) \in After(p, A)[Len(<<>>)]
  <2>1. Len(<<>>) = 0
    OBVIOUS
  <2> QED
    BY <1>2, <2>1, AfterSteps
<1> QED
  BY <1>1, <1>3 DEF Follows, Moves

LEMMA BegunAgain ==
  ASSUME NEW p, NEW tr, TraceOK(tr), NamedRecords(tr), Cached(tr)
  PROVE  LET new == BeginUpdate(tr, FALSE)
         IN  Updating(new) /\ Follows(p, new, <<>>) /\ Moves(p, new, <<>>, ChoicesOf(tr))
<1> DEFINE new == BeginUpdate(tr, FALSE)
<1>1. /\ new.recs = [id \in DOMAIN tr.recs |->
                       IF id \in Stored(tr) THEN [tr.recs[id] EXCEPT !.active = FALSE]
                                            ELSE tr.recs[id]]
      /\ new.vars = tr.vars /\ new.varlist = <<>>
      /\ new.currVarIndex = 1 /\ new.loopcounters = <<>>
      /\ new.logprob = 0 /\ new.conditionsSatisfied = TRUE
  <2>1. HasFields(tr, TraceFields)
    BY DEF TraceOK
  <2> QED
    BY <2>1 DEF BeginUpdate, HasFields, TraceFields
<1>2. UpdatedOK(new)
  BY BeginUpdated
<1> HIDE DEF new
<1>3. ASSUME NEW n \in DOMAIN tr.vars
      PROVE  LET rec == GetRecord(tr, n)
             IN  /\ GetRecord(new, n) = [rec EXCEPT !.active = FALSE]
                 /\ RecordOK(rec)
  <2>1. tr.vars[n] \in DOMAIN tr.recs /\ tr.vars[n] \in Stored(tr)
    BY DEF TraceOK, Stored
  <2> QED
    BY <1>1, <2>1 DEF GetRecord, TraceOK
<1>4. ASSUME NEW n \in DOMAIN tr.vars
      PROVE  LET rec == GetRecord(tr, n)
                 copy == GetRecord(new, n)
             IN  /\ ChoiceOf(copy) = ChoiceOf(rec) /\ ~copy.active
                 /\ copy.logprob = rec.logprob /\ copy.erp = rec.erp
                 /\ copy.val = rec.val /\ copy.params = rec.params
  BY <1>3 DEF RecordOK, HasFields, RecordFields, ChoiceOf
<1>5. ActiveNames(new) = {}
  BY <1>1, <1>4 DEF ActiveNames
<1>6. Cached(new)
  BY <1>1, <1>4 DEF Cached
<1>7. Rest(new, ChoicesOf(tr))
  BY <1>1, <1>4 DEF Rest, ChoicesOf
<1>8. Updating(new) /\ Follows(p, new, <<>>) /\ Moves(p, new, <<>>, ChoicesOf(tr))
  BY <1>1, <1>2, <1>5, <1>6, <1>7, Begun
<1> QED
  BY <1>8 DEF new

LEMMA BegunAfresh ==
  ASSUME NEW p, NEW tr, TraceOK(tr)
  PROVE  LET new == BeginUpdate(ClearVars(tr), FALSE)
         IN  Updating(new) /\ Follows(p, new, <<>>) /\ Moves(p, new, <<>>, NoChoices)
<1> DEFINE cleared == ClearVars(tr)
           new == BeginUpdate(cleared, FALSE)
<1>1. HasFields(cleared, TraceFields) /\ cleared.vars = <<>>
  BY OtherFields DEF TraceOK
<1>2. /\ new.vars = <<>> /\ new.varlist = <<>>
      /\ new.currVarIndex = 1 /\ new.loopcounters = <<>>
      /\ new.logprob = 0 /\ new.conditionsSatisfied = TRUE
  <2> HIDE DEF cleared
  <2> QED
    BY <1>1 DEF BeginUpdate, HasFields, TraceFields
<1>3. UpdatedOK(new)
  BY AttemptUpdated
<1> HIDE DEF new
<1>4. ActiveNames(new) = {} /\ Cached(new) /\ Rest(new, NoChoices)
  BY <1>2 DEF ActiveNames, Cached, Rest, NoChoices
<1>5. Updating(new) /\ Follows(p, new, <<>>) /\ Moves(p, new, <<>>, NoChoices)
  BY <1>2, <1>3, <1>4, Begun
<1> QED
  BY <1>5 DEF new, cleared

LEMMA CopiedChoices ==
  ASSUME NEW tr, TraceOK(tr), FlatListIsDatabase(tr), Cached(tr)
  PROVE  LET new == DeepCopy(tr)
         IN  /\ TraceOK(new) /\ NamedRecords(new) /\ Cached(new)
             /\ DOMAIN new.vars = DOMAIN tr.vars
             /\ \A n \in DOMAIN tr.vars : GetRecord(new, n) = CopyRecord(GetRecord(tr, n))
             /\ ChoicesOf(new) = ChoicesOf(tr)
<1> DEFINE new == DeepCopy(tr)
<1>1. /\ TraceOK(new) /\ NamedRecords(new)
      /\ DOMAIN new.vars = {ListRecord(tr, k).name : k \in DOMAIN tr.varlist}
  BY DeepCopyOK DEF NamedRecords
<1>2. /\ DOMAIN new.recs = DOMAIN tr.varlist
      /\ \A k \in DOMAIN new.recs : new.recs[k] = CopyRecord(ListRecord(tr, k))
      /\ \A n \in DOMAIN new.vars : new.vars[n] = LastPosition(tr, n)
  BY DeepCopyFields
<1> HIDE DEF new
<1>3. tr.varlist \in Seq(DOMAIN tr.recs)
  BY DEF TraceOK
<1>4. /\ Listed(tr) = Stored(tr)
      /\ \A n \in DOMAIN tr.vars : GetRecord(tr, n).name = n
  BY DEF FlatListIsDatabase
<1>5. ASSUME NEW k \in DOMAIN tr.varlist
      PROVE  LET n == ListRecord(tr, k).name
             IN  n \in DOMAIN tr.vars /\ tr.vars[n] = tr.varlist[k]
  <2>1. PICK m \in DOMAIN tr.vars : tr.vars[m] = tr.varlist[k]
    BY <1>4 DEF Listed, Stored
  <2> QED
    BY <1>4, <2>1 DEF ListRecord, GetRecord
<1>6. ASSUME NEW n \in DOMAIN tr.vars
      PROVE  n \in DOMAIN new.vars
  <2>1. PICK k \in DOMAIN tr.varlist : tr.vars[n] = tr.varlist[k]
    BY <1>4 DEF Listed, Stored
  <2> QED
    BY <1>1, <1>4, <2>1 DEF ListRecord, GetRecord
<1>7. DOMAIN new.vars = DOMAIN tr.vars
  BY <1>1, <1>5, <1>6
<1>8. ASSUME NEW n \in DOMAIN tr.vars
      PROVE  GetRecord(new, n) = CopyRecord(GetRecord(tr, n))
  <2>1. n \in {ListRecord(tr, k).name : k \in DOMAIN tr.varlist}
    BY <1>1, <1>6
  <2>2. LastPosition(tr, n) \in DOMAIN tr.varlist /\ ListRecord(tr, LastPosition(tr, n)).name = n
    BY <1>3, <2>1, LastPositionOK
  <2>3. tr.vars[n] = tr.varlist[LastPosition(tr, n)]
    BY <1>5, <2>2
  <2> QED
    BY <1>2, <1>6, <2>2, <2>3 DEF GetRecord, ListRecord
<1>9. ASSUME NEW n \in DOMAIN tr.vars
      PROVE  LET rec == GetRecord(tr, n)
                 copy == GetRecord(new, n)
             IN  /\ ChoiceOf(copy) = ChoiceOf(rec)
                 /\ copy.logprob = rec.logprob /\ copy.erp = rec.erp
                 /\ copy.val = rec.val /\ copy.params = rec.params
  <2>1. RecordOK(GetRecord(tr, n))
    BY DEF TraceOK, GetRecord
  <2> QED
    BY <1>8, <2>1 DEF CopyRecord, RecordOK, HasFields, RecordFields, ChoiceOf
<1>10. Cached(new)
  BY <1>7, <1>9 DEF Cached
<1>11. ChoicesOf(new) = ChoicesOf(tr)
  BY <1>7, <1>9 DEF ChoicesOf
<1> QED
  BY <1>1, <1>7, <1>8, <1>10, <1>11 DEF new

LEMMA SetChoices ==
  ASSUME NEW tr, TraceOK(tr), NamedRecords(tr), Cached(tr), NEW name \in DOMAIN tr.vars,
         NEW val \in Value
  PROVE  LET new == SetVar(tr, name, val)
         IN  /\ TraceOK(new) /\ NamedRecords(new) /\ Cached(new)
             /\ ChoicesOf(new) = With(ChoicesOf(tr), name, val)
<1> DEFINE new == SetVar(tr, name, val)
           id == tr.vars[name]
           old == tr.recs[id]
           rec == [old EXCEPT !.val = val, !.logprob = ErpLogprob(old.erp, val, old.params)]
<1>1. /\ TraceOK(new) /\ new.vars = tr.vars /\ DOMAIN new.recs = DOMAIN tr.recs
      /\ \A k \in DOMAIN tr.recs : new.recs[k].name = tr.recs[k].name
  BY SetVarOK
<1>2. new.recs = [tr.recs EXCEPT ![id] = rec]
  <2>1. HasFields(tr, TraceFields)
    BY DEF TraceOK
  <2> QED
    BY <2>1 DEF SetVar, GetRecord, HasFields, TraceFields
<1>3. \A n \in DOMAIN tr.vars : tr.vars[n] \in DOMAIN tr.recs
  BY DEF TraceOK
<1>4. NamedRecords(new)
  <2> HIDE DEF new
  <2> QED
    BY <1>1, <1>3 DEF NamedRecords, GetRecord
<1>5. /\ rec.erp = old.erp /\ rec.params = old.params /\ rec.val = val
      /\ rec.structural = old.structural /\ rec.conditioned = old.conditioned
      /\ rec.logprob = ErpLogprob(rec.erp, rec.val, rec.params)
  <2>1. RecordOK(old)
    BY <1>3 DEF TraceOK
  <2> HIDE DEF old
  <2> QED
    BY <2>1 DEF RecordOK, HasFields, RecordFields
<1> HIDE DEF new, rec
<1>6. GetRecord(new, name) = rec
  BY <1>1, <1>2, <1>3 DEF GetRecord
<1>7. \A n \in DOMAIN tr.vars \ {name} : GetRecord(new, n) = GetRecord(tr, n)
  <2> SUFFICES ASSUME NEW n \in DOMAIN tr.vars \ {name} PROVE GetRecord(new, n) = GetRecord(tr, n)
    OBVIOUS
  <2>1. tr.vars[n] # id
    BY OwnRecords
  <2> QED
    BY <1>1, <1>2, <1>3, <2>1 DEF GetRecord
<1>8. Cached(new)
  BY <1>1, <1>5, <1>6, <1>7 DEF Cached
<1>9. ChoicesOf(new) = With(ChoicesOf(tr), name, val)
  <2> DEFINE A == ChoicesOf(tr)
             c == ChoiceOf(old)
  <2>1. DOMAIN A = DOMAIN tr.vars /\ A[name] = c
    BY DEF ChoicesOf, GetRecord
  <2>2. ChoiceOf(rec) = [c EXCEPT !.val = val]
    BY <1>5 DEF ChoiceOf
  <2>3. With(A, name, val) = [A EXCEPT ![name] = [c EXCEPT !.val = val]]
    BY <2>1 DEF With
  <2>4. With(A, name, val) = [n \in DOMAIN tr.vars |-> IF n = name THEN [c EXCEPT !.val = val]
                                                       ELSE ChoiceOf(GetRecord(tr, n))]
    BY <2>1, <2>3 DEF ChoicesOf
  <2> HIDE DEF c
  <2>5. ChoicesOf(new) = [n \in DOMAIN tr.vars |-> IF n = name THEN [c EXCEPT !.val = val]
                                                   ELSE ChoiceOf(GetRecord(tr, n))]
    BY <1>1, <1>6, <1>7, <2>2 DEF ChoicesOf
  <2> QED
    BY <2>4, <2>5
<1> QED
  BY <1>1, <1>4, <1>8, <1>9 DEF new

(***************************************************************************)
(* The end of an update.                                                   *)
(***************************************************************************)

\* A trace between updates.
Held(p, tr) == TraceOK(tr) /\ FlatListIsDatabase(tr) /\ Cached(tr) /\ IsExecution(p, tr)

\* An execution from the assignment A gives this trace.
Reaches(p, tr, A) ==
  \E e \in ExecutionsFrom(p, A) :
    /\ e.choices = ChoicesOf(tr) /\ e.logprob = tr.logprob
    /\ e.holds = tr.conditionsSatisfied /\ e.returns = tr.returnValue

\* The execution that ends where the update has got to.
Returns(p, tr, h, A) ==
  \E e \in ExecutionsFrom(p, A) :
    /\ e.choices = ActiveChoices(tr) /\ e.order = Names(tr) /\ e.logprob = tr.logprob
    /\ e.holds = tr.conditionsSatisfied /\ e.returns = Computation(p, h).val

LEMMA Returned ==
  ASSUME NEW p \in Prog, NEW tr, NEW h \in Histories(p), Computation(p, h).op = "return",
         IsSequence(h), NEW A, NEW d, View(tr, h, d) \in After(p, A)[Len(h)]
  PROVE  Returns(p, tr, h, A)
<1> DEFINE v == View(tr, h, d)
           e == [v EXCEPT !.returns = Computation(p, v.hist).val]
<1>1. /\ v.hist = h /\ e.choices = ActiveChoices(tr) /\ e.order = Names(tr)
      /\ e.logprob = tr.logprob /\ e.holds = tr.conditionsSatisfied
      /\ e.returns = Computation(p, h).val
  BY DEF View
<1> HIDE DEF v
<1>2. e \in ExecutionsFrom(p, A)
  <2>1. Len(h) \in Lengths[p]
    BY DEF Lengths
  <2>2. v \in UNION {After(p, A)[n] : n \in Lengths[p]}
    BY <2>1 DEF v
  <2> QED
    BY <1>1, <2>2 DEF ExecutionsFrom
<1> HIDE DEF e
<1> QED
  BY <1>1, <1>2 DEF Returns

LEMMA Ended ==
  ASSUME NEW p \in Prog, NEW tr, Updating(tr), NEW h \in Histories(p), IsSequence(h),
         Computation(p, h).op = "return"
  PROVE  LET new == EndUpdate(tr, Computation(p, h).val)
         IN  /\ Follows(p, tr, h) => Held(p, new)
             /\ \A A : Moves(p, tr, h, A) => Reaches(p, new, A)
<1> DEFINE val == Computation(p, h).val
           new == EndUpdate(tr, val)
<1>1. /\ TraceOK(tr) /\ NamedRecords(tr) /\ ActiveListed(tr)
      /\ HasFields(tr, TraceFields) /\ val \in Value
  BY CallTypes DEF Updating, UpdatedOK, TraceOK
<1>2. /\ DOMAIN new.vars = ActiveNames(tr)
      /\ \A n \in DOMAIN new.vars : new.vars[n] = tr.vars[n]
      /\ new.recs = tr.recs /\ new.varlist = tr.varlist /\ new.logprob = tr.logprob
      /\ new.conditionsSatisfied = tr.conditionsSatisfied /\ new.returnValue = val
  <2> HIDE DEF val
  <2> QED
    BY <1>1 DEF EndUpdate, HasFields, TraceFields
<1>3. TraceOK(new)
  BY <1>1, EndUpdateOK
<1> HIDE DEF new, val
<1>4. \A n \in ActiveNames(tr) : n \in DOMAIN tr.vars /\ GetRecord(new, n) = GetRecord(tr, n)
  BY <1>2 DEF ActiveNames, GetRecord
<1>5. ChoicesOf(new) = ActiveChoices(tr)
  BY <1>2, <1>4 DEF ChoicesOf, ActiveChoices
<1>6. [k \in DOMAIN new.varlist |-> ListRecord(new, k).name] = Names(tr)
  BY <1>2 DEF Names, ListRecord
<1>7. Cached(new)
  BY <1>2, <1>4 DEF Updating, Cached
<1>8. FlatListIsDatabase(new)
  <2>1. Listed(new) = Listed(tr) /\ Stored(new) = {tr.vars[n] : n \in ActiveNames(tr)}
    BY <1>2 DEF Listed, Stored
  <2>2. Listed(tr) \subseteq {tr.vars[n] : n \in ActiveNames(tr)}
    BY DEF Updating, Listing
  <2>3. \A n \in ActiveNames(tr) : tr.vars[n] \in Listed(tr)
    BY <1>1 DEF ActiveListed, ActiveNames
  <2>4. Listed(new) = Stored(new)
    BY <2>1, <2>2, <2>3
  <2>5. \A n \in DOMAIN new.vars : GetRecord(new, n).name = n
    BY <1>1, <1>2, <1>4 DEF NamedRecords
  <2>6. \A j, k \in DOMAIN new.varlist : new.varlist[j] = new.varlist[k] => j = k
    BY <1>2 DEF Updating, Listing
  <2> QED
    BY <2>4, <2>5, <2>6 DEF FlatListIsDatabase
<1>9. ASSUME Follows(p, tr, h) PROVE Held(p, new)
  <2> DEFINE A == ChoicesOf(new)
  <2>1. \A n \in ActiveNames(tr) : n \in DOMAIN A /\ A[n] = ChoiceOf(GetRecord(tr, n))
    BY <1>2, <1>4 DEF ChoicesOf
  <2> HIDE DEF A
  <2>2. View(tr, h, 0) \in After(p, A)[Len(h)]
    BY <1>9, <2>1 DEF Follows
  <2>3. Returns(p, tr, h, A)
    BY <2>2, Returned
  <2>4. IsExecution(p, new)
    BY <1>2, <1>5, <1>6, <2>3 DEF IsExecution, Returns, A, val
  <2> QED
    BY <1>3, <1>7, <1>8, <2>4 DEF Held
<1>10. ASSUME NEW A, Moves(p, tr, h, A) PROVE Reaches(p, new, A)
  <2>1. PICK d : View(tr, h, d) \in After(p, A)[Len(h)]
    BY <1>10 DEF Moves
  <2>2. Returns(p, tr, h, A)
    BY <2>1, Returned
  <2> QED
    BY <1>2, <1>5, <2>2 DEF Reaches, Returns, val
<1> QED
  BY <1>9, <1>10 DEF new, val

(***************************************************************************)
(* One call of the program.                                                *)
(***************************************************************************)

\* The call that returned val took the trace tr to new and kept what an update
\* keeps to.
Keeps(p, tr, h, new, val) ==
  /\ Updating(new)
  /\ Follows(p, tr, h) => Follows(p, new, Append(h, val))
  /\ \A A : Moves(p, tr, h, A) => Moves(p, new, Append(h, val), A)

LEMMA ReuseKeeps ==
  ASSUME NEW p, NEW tr, Updating(tr), NEW h, IsSequence(h),
         Computation(p, h).op = "erp", Computation(p, h) \in ErpCalls,
         Matches(tr, CurrentName(Computation(p, h), tr.loopcounters), Computation(p, h)),
         NEW val,
         val = GetRecord(ReuseNamed(tr, Computation(p, h)),
                         CurrentName(Computation(p, h), tr.loopcounters)).val
  PROVE  Keeps(p, tr, h, ReuseNamed(tr, Computation(p, h)), val)
<1> DEFINE call == Computation(p, h)
           name == CurrentName(call, tr.loopcounters)
           new == ReuseNamed(tr, call)
           rec == GetRecord(tr, name)
<1>1. /\ val = IF IsConditioned(call) THEN call.conditionedValue ELSE rec.val
      /\ Recorded(tr, new, call, val)
  BY ReuseRecorded
<1>2. name \notin ActiveNames(tr)
  BY FreshName
<1>3. name \in DOMAIN tr.vars /\ rec.erp = call.erp /\ rec.structural = call.structural
  BY DEF Matches
<1> HIDE DEF new
<1>4. Follows(p, tr, h) => Follows(p, new, Append(h, val))
  <2>1. IsConditioned(call) => val = call.conditionedValue
    BY <1>1
  <2> QED
    BY <1>1, <2>1, RecordedFollows
<1>5. ASSUME NEW A, Moves(p, tr, h, A) PROVE Moves(p, new, Append(h, val), A)
  <2>1. name \in DOMAIN A /\ A[name] = ChoiceOf(rec)
    BY <1>2, <1>3, <1>5 DEF Moves, Rest
  <2>2. Usable(A, name, call) /\ A[name].val = rec.val
    BY <1>3, <2>1 DEF Usable, ChoiceOf
  <2>3. PICK isDrawn : isDrawn = FALSE
    OBVIOUS
  <2>4. ~IsConditioned(call) => val = A[name].val
    BY <1>1, <2>2
  <2>5. IsConditioned(call) => val = call.conditionedValue
    BY <1>1
  <2> HIDE DEF name, call
  <2>6. Draws(A, name, call, val, isDrawn)
    BY <2>2, <2>3, <2>4, <2>5, Zenon DEF Draws
  <2> QED
    BY <1>1, <1>5, <2>6, RecordedMoves DEF name, call
<1>6. Updating(new)
  BY <1>1 DEF Recorded
<1> QED
  BY <1>4, <1>5, <1>6 DEF Keeps, new

LEMMA CreateKeeps ==
  ASSUME NEW p, NEW tr, Updating(tr), NEW h, IsSequence(h),
         Computation(p, h).op = "erp", Computation(p, h) \in ErpCalls,
         ~Matches(tr, CurrentName(Computation(p, h), tr.loopcounters), Computation(p, h)),
         NEW val \in Value, val \in InitialValues(Computation(p, h))
  PROVE  Keeps(p, tr, h, Create(tr, Computation(p, h), val), val)
<1> DEFINE call == Computation(p, h)
           name == CurrentName(call, tr.loopcounters)
           new == Create(tr, call, val)
<1>1. Recorded(tr, new, call, val)
  BY CreateRecorded
<1>2. name \notin ActiveNames(tr)
  BY FreshName
<1> HIDE DEF new
<1>3. IsConditioned(call) => val = call.conditionedValue
  BY DEF InitialValues
<1>4. Follows(p, tr, h) => Follows(p, new, Append(h, val))
  BY <1>1, <1>3, RecordedFollows
<1>5. ASSUME NEW A, Moves(p, tr, h, A) PROVE Moves(p, new, Append(h, val), A)
  <2>1. /\ name \in DOMAIN A <=> name \in DOMAIN tr.vars
        /\ name \in DOMAIN A => A[name] = ChoiceOf(GetRecord(tr, name))
    BY <1>2, <1>5 DEF Moves, Rest
  <2>2. ~Usable(A, name, call)
    BY <2>1 DEF Usable, ChoiceOf, Matches
  <2>3. PICK isDrawn : isDrawn = ~IsConditioned(call)
    OBVIOUS
  <2>4. ~IsConditioned(call) => val \in SampleImpl(call.erp, call.params)
    BY DEF InitialValues
  <2> HIDE DEF name, call
  <2>5. Draws(A, name, call, val, isDrawn)
    BY <1>3, <2>2, <2>3, <2>4, Zenon DEF Draws
  <2> QED
    BY <1>1, <1>5, <2>5, RecordedMoves DEF name, call
<1>6. Updating(new)
  BY <1>1 DEF Recorded
<1> QED
  BY <1>4, <1>5, <1>6 DEF Keeps, new

\* A call that changes neither records nor lists.
LEMMA UpdatingStays ==
  ASSUME NEW tr, Updating(tr), NEW new, UpdatedOK(new), new.recs = tr.recs, new.vars = tr.vars,
         new.varlist = tr.varlist, new.currVarIndex = tr.currVarIndex,
         new.loopcounters = tr.loopcounters
  PROVE  Updating(new)
<1>1. \A n : GetRecord(new, n) = GetRecord(tr, n)
  BY DEF GetRecord
<1>2. ActiveNames(new) = ActiveNames(tr)
  BY <1>1 DEF ActiveNames
<1>3. Cached(new)
  BY <1>1 DEF Updating, Cached
<1>4. Numbered(new)
  BY <1>2 DEF Updating, Numbered
<1>5. Listing(new)
  <2>1. /\ tr.currVarIndex = Len(tr.varlist) + 1
        /\ Listed(tr) \subseteq {tr.vars[n] : n \in ActiveNames(tr)}
        /\ \A j, k \in DOMAIN tr.varlist : tr.varlist[j] = tr.varlist[k] => j = k
    BY DEF Updating, Listing
  <2>2. Listed(new) = Listed(tr)
    BY DEF Listed
  <2>3. Listed(new) \subseteq {new.vars[n] : n \in ActiveNames(new)}
    BY <1>2, <2>1, <2>2
  <2> QED
    BY <2>1, <2>3, Zenon DEF Listing
<1> QED
  BY <1>3, <1>4, <1>5 DEF Updating

LEMMA FactorKeeps ==
  ASSUME NEW p, NEW tr, Updating(tr), NEW h, IsSequence(h), Computation(p, h).op = "factor",
         NEW val, val = None
  PROVE  Keeps(p, tr, h, AddFactor(tr, Computation(p, h).num), val)
<1> DEFINE new == AddFactor(tr, Computation(p, h).num)
<1>1. HasFields(tr, TraceFields)
  BY DEF Updating, UpdatedOK, TraceOK
<1>2. /\ new.recs = tr.recs /\ new.vars = tr.vars /\ new.varlist = tr.varlist
      /\ new.currVarIndex = tr.currVarIndex /\ new.loopcounters = tr.loopcounters
  BY <1>1 DEF AddFactor, HasFields, TraceFields
<1>3. UpdatedOK(new)
  BY FactorUpdated DEF Updating
<1>4. \A A, d : View(new, Append(h, val), d) \in Continuations(p, A, View(tr, h, d))
  BY <1>1, FactorContinues
<1> HIDE DEF new
<1>5. Updating(new)
  BY <1>2, <1>3, UpdatingStays
<1>6. \A A, d : \E d2 : /\ d = 0 => d2 = 0
                        /\ View(new, Append(h, val), d2) \in Continuations(p, A, View(tr, h, d))
  BY <1>4
<1> QED
  BY <1>2, <1>5, <1>6, SilentStep DEF Keeps, new

LEMMA ConditionKeeps ==
  ASSUME NEW p, NEW tr, Updating(tr), NEW h, IsSequence(h), Computation(p, h).op = "condition",
         Computation(p, h).holds \in BOOLEAN, NEW val, val = None
  PROVE  Keeps(p, tr, h, ConditionOn(tr, Computation(p, h).holds), val)
<1> DEFINE new == ConditionOn(tr, Computation(p, h).holds)
<1>1. HasFields(tr, TraceFields)
  BY DEF Updating, UpdatedOK, TraceOK
<1>2. /\ new.recs = tr.recs /\ new.vars = tr.vars /\ new.varlist = tr.varlist
      /\ new.currVarIndex = tr.currVarIndex /\ new.loopcounters = tr.loopcounters
  BY <1>1 DEF ConditionOn, HasFields, TraceFields
<1>3. UpdatedOK(new)
  BY ConditionUpdated DEF Updating
<1>4. \A A, d : View(new, Append(h, val), d) \in Continuations(p, A, View(tr, h, d))
  BY <1>1, ConditionContinues
<1> HIDE DEF new
<1>5. Updating(new)
  BY <1>2, <1>3, UpdatingStays
<1>6. \A A, d : \E d2 : /\ d = 0 => d2 = 0
                        /\ View(new, Append(h, val), d2) \in Continuations(p, A, View(tr, h, d))
  BY <1>4
<1> QED
  BY <1>2, <1>5, <1>6, SilentStep DEF Keeps, new

LEMMA NestedKeeps ==
  ASSUME NEW p, NEW tr, Updating(tr), NEW h, IsSequence(h), Computation(p, h).op = "nested",
         NEW val \in Computation(p, h).outcomes
  PROVE  Keeps(p, tr, h, tr, val)
<1>1. \A A, d : View(tr, Append(h, val), d) \in Continuations(p, A, View(tr, h, d))
  BY NestedContinues
<1>2. \A A, d : \E d2 : /\ d = 0 => d2 = 0
                        /\ View(tr, Append(h, val), d2) \in Continuations(p, A, View(tr, h, d))
  BY <1>1
<1> QED
  BY <1>2, SilentStep DEF Keeps

(***************************************************************************)
(* Reruns of programs without nested queries: with all choices given there *)
(* is one execution only, so its conditions hold as they did.              *)
(***************************************************************************)

Assigns(A) == \A n \in DOMAIN A : A[n].val \in Value

ExecutionFields ==
  {"hist", "counters", "choices", "order", "logprob", "drawn", "holds", "returns"}

ExecutionOK(p, e) ==
  /\ HasFields(e, ExecutionFields)
  /\ e.hist \in Histories(p)
  /\ e.counters \in [DOMAIN e.counters -> Nat]
  /\ \A n \in DOMAIN e.choices : n[2] \in Nat /\ n[2] < Count(e.counters, n[1])

\* What e chose, A has.
Within(e, A) == \A n \in DOMAIN e.choices : n \in DOMAIN A /\ A[n] = e.choices[n]

\* The values that a call can get.
Drawable(A, name, call) ==
  CASE IsConditioned(call)      -> {call.conditionedValue}
    [] ~IsConditioned(call) /\ Usable(A, name, call) -> {A[name].val}
    [] OTHER -> SampleImpl(call.erp, call.params)

LEMMA ErpContinuations ==
  ASSUME NEW p, NEW A, NEW e, Computation(p, e.hist).op = "erp"
  PROVE  LET call == Computation(p, e.hist)
             name == CurrentName(call, e.counters)
         IN  Continuations(p, A, e) =
               {Choose(e, call, v, ~IsConditioned(call) /\ ~Usable(A, name, call)) :
                  v \in Drawable(A, name, call)}
BY DEF Continuations, Drawable

LEMMA ChosenFields ==
  ASSUME NEW e, HasFields(e, ExecutionFields), NEW call, NEW val, NEW isDrawn
  PROVE  LET name == CurrentName(call, e.counters)
             f == Choose(e, call, val, isDrawn)
         IN  /\ HasFields(f, ExecutionFields)
             /\ f.hist = Append(e.hist, val)
             /\ f.counters = Bump(e.counters, name[1])
             /\ DOMAIN f.choices = DOMAIN e.choices \cup {name}
             /\ \A n \in DOMAIN e.choices \ {name} : f.choices[n] = e.choices[n]
             /\ f.choices[name] = NewChoice(call, val)
             /\ f.order = Append(e.order, name)
             /\ f.logprob = Plus(e.logprob, ErpLogprob(call.erp, val, call.params))
             /\ f.holds = e.holds
BY DEF Choose, NewChoice, HasFields, ExecutionFields

\* The other calls choose nothing.
LEMMA SilentFields ==
  ASSUME NEW p, NEW A, NEW e, HasFields(e, ExecutionFields), Computation(p, e.hist).op # "erp",
         NEW f \in Continuations(p, A, e)
  PROVE  /\ HasFields(f, ExecutionFields)
         /\ \E v \in Results(Computation(p, e.hist)) : f.hist = Append(e.hist, v)
         /\ f.counters = e.counters /\ f.choices = e.choices /\ f.order = e.order
         /\ Computation(p, e.hist).op \in {"factor", "condition", "nested"}
<1> DEFINE call == Computation(p, e.hist)
           silent == [e EXCEPT !.hist = Append(@, None)]
<1>1. CASE call.op = "factor"
  <2>1. f = [silent EXCEPT !.logprob = Plus(@, call.num)]
    BY <1>1 DEF Continuations
  <2> QED
    BY <1>1, <2>1 DEF HasFields, ExecutionFields, Results
<1>2. CASE call.op = "condition"
  <2>1. f = [silent EXCEPT !.holds = @ /\ call.holds]
    BY <1>2 DEF Continuations
  <2> QED
    BY <1>2, <2>1 DEF HasFields, ExecutionFields, Results
<1>3. CASE call.op = "nested"
  <2>1. PICK val \in call.outcomes : f = [e EXCEPT !.hist = Append(@, val)]
    BY <1>3 DEF Continuations
  <2> QED
    BY <1>3, <2>1 DEF HasFields, ExecutionFields, Results
<1>4. call.op \in {"factor", "condition", "nested"}
  BY DEF Continuations
<1> QED
  BY <1>1, <1>2, <1>3, <1>4

LEMMA ContinuationOK ==
  ASSUME NEW p \in Prog, NEW A, Assigns(A), NEW e, ExecutionOK(p, e),
         NEW f \in Continuations(p, A, e)
  PROVE  /\ ExecutionOK(p, f)
         /\ Within(f, A) => Within(e, A)
<1> DEFINE call == Computation(p, e.hist)
<1>1. CASE call.op = "erp"
  <2> DEFINE name == CurrentName(call, e.counters)
             key == CounterKey(call, e.counters)
  <2>1. call \in ErpCalls
    BY <1>1, CallTypes DEF ExecutionOK
  <2>2. PICK v \in Drawable(A, name, call) :
          f = Choose(e, call, v, ~IsConditioned(call) /\ ~Usable(A, name, call))
    BY <1>1, ErpContinuations
  <2>3. v \in Value
    <3>1. call.erp \in Erp /\ call.params \in Params /\ call.conditionedValue \in Value \cup {None}
      BY <2>1 DEF ErpCalls
    <3> HIDE DEF name, call
    <3> QED
      BY <2>2, <3>1, ErpAssumption DEF Drawable, IsConditioned, Usable, Assigns
  <2>4. HasFields(e, ExecutionFields)
    BY DEF ExecutionOK
  <2> DEFINE isDrawn == ~IsConditioned(call) /\ ~Usable(A, name, call)
  <2>5. /\ HasFields(f, ExecutionFields)
        /\ f.hist = Append(e.hist, v)
        /\ f.counters = Bump(e.counters, name[1])
        /\ DOMAIN f.choices = DOMAIN e.choices \cup {name}
        /\ \A n \in DOMAIN e.choices \ {name} : f.choices[n] = e.choices[n]
    <3> HIDE DEF isDrawn
    <3>1. f = Choose(e, call, v, isDrawn)
      BY <2>2 DEF isDrawn
    <3> QED
      BY <2>4, <3>1, ChosenFields
  <2>6. f.hist \in Histories(p)
    <3>1. v \in Results(call)
      BY <1>1, <2>3 DEF Results
    <3> QED
      BY <2>5, <3>1, CallTypes DEF ExecutionOK
  <2>7. name[1] = key /\ name[2] = Count(e.counters, key)
    BY DEF CurrentName
  <2>8. e.counters \in [DOMAIN e.counters -> Nat]
    BY DEF ExecutionOK
  <2>9. f.counters \in [DOMAIN f.counters -> Nat]
    BY <2>5, <2>8, BumpType
  <2> HIDE DEF name, key, isDrawn
  <2>10. \A k : Count(e.counters, k) \in Nat
    BY <2>8 DEF Count
  <2>11. \A k : Count(f.counters, k) = IF k = key THEN Count(e.counters, key) + 1
                                                  ELSE Count(e.counters, k)
    BY <2>5, <2>7 DEF Count, Bump
  <2>12. \A n \in DOMAIN e.choices : n[2] \in Nat /\ n[2] < Count(e.counters, n[1])
    BY DEF ExecutionOK
  <2>13. name \notin DOMAIN e.choices
    BY <2>7, <2>10, <2>12
  <2>14. ASSUME NEW n \in DOMAIN f.choices PROVE n[2] \in Nat /\ n[2] < Count(f.counters, n[1])
    <3>1. CASE n = name
      BY <3>1, <2>7, <2>10, <2>11
    <3>2. CASE n \in DOMAIN e.choices
      BY <3>2, <2>10, <2>11, <2>12
    <3> QED
      BY <2>5, <3>1, <3>2
  <2>15. Within(f, A) => Within(e, A)
    BY <2>5, <2>13 DEF Within
  <2> QED
    BY <2>5, <2>6, <2>9, <2>14, <2>15 DEF ExecutionOK
<1>2. CASE call.op # "erp"
  <2>1. HasFields(e, ExecutionFields)
    BY DEF ExecutionOK
  <2>2. /\ HasFields(f, ExecutionFields)
        /\ \E v \in Results(call) : f.hist = Append(e.hist, v)
        /\ f.counters = e.counters /\ f.choices = e.choices
    BY <1>2, <2>1, SilentFields
  <2>3. f.hist \in Histories(p)
    BY <2>2, CallTypes DEF ExecutionOK
  <2> QED
    BY <2>2, <2>3 DEF ExecutionOK, Within
<1> QED
  BY <1>1, <1>2

\* One continuation agrees with A only when it is the only one.
LEMMA OneContinuation ==
  ASSUME NEW p \in Prog, NEW A, NEW e, ExecutionOK(p, e), Computation(p, e.hist).op # "nested",
         NEW f \in Continuations(p, A, e), Within(f, A), NEW g \in Continuations(p, A, e)
  PROVE  f = g
<1> DEFINE call == Computation(p, e.hist)
<1>1. CASE call.op = "erp"
  <2> DEFINE name == CurrentName(call, e.counters)
             isDrawn == ~IsConditioned(call) /\ ~Usable(A, name, call)
  <2>1. /\ \E v \in Drawable(A, name, call) : f = Choose(e, call, v, isDrawn)
        /\ \E v \in Drawable(A, name, call) : g = Choose(e, call, v, isDrawn)
    BY <1>1, ErpContinuations
  <2> HIDE DEF isDrawn
  <2>2. PICK v \in Drawable(A, name, call) : f = Choose(e, call, v, isDrawn)
    BY <2>1
  <2>3. name \in DOMAIN f.choices /\ f.choices[name] = NewChoice(call, v)
    <3>1. HasFields(e, ExecutionFields)
      BY DEF ExecutionOK
    <3> QED
      BY <2>2, <3>1, ChosenFields
  <2>4. Usable(A, name, call)
    BY <2>3 DEF Within, Usable, NewChoice
  <2>5. \A u, w \in Drawable(A, name, call) : u = w
    <3> HIDE DEF name, call
    <3> QED
      BY <2>4 DEF Drawable
  <2> QED
    BY <2>1, <2>5
<1>2. CASE call.op # "erp"
  BY <1>2 DEF Continuations
<1> QED
  BY <1>1, <1>2

\* The executions after n calls.
LEMMA AfterOK ==
  ASSUME NEW p \in Prog, NEW A, Assigns(A), NEW m \in Nat
  PROVE  \A n \in 0..m : \A e \in After(p, A)[n] : ExecutionOK(p, e)
<1> DEFINE T == {n \in 0..m : \A e \in After(p, A)[n] : ExecutionOK(p, e)}
<1>1. 0 \in T
  <2>1. ExecutionOK(p, Start)
    <3>1. <<>> \in Histories(p)
      BY ComputationAssumption
    <3> QED
      BY <3>1 DEF Start, ExecutionOK, HasFields, ExecutionFields, NoChoices
  <2> QED
    BY <2>1, AfterSteps
<1>2. ASSUME NEW n \in 0..m, n # 0, n - 1 \in T PROVE n \in T
  <2>1. n - 1 \in Nat /\ n = (n - 1) + 1
    BY <1>2
  <2>2. After(p, A)[n] = Extended(p, A, After(p, A)[n - 1])
    BY <2>1, AfterSteps
  <2>3. \A e \in After(p, A)[n - 1] : ExecutionOK(p, e)
    BY <1>2
  <2>4. \A f \in After(p, A)[n] : ExecutionOK(p, f)
    BY <2>2, <2>3, ContinuationOK DEF Extended
  <2> QED
    BY <2>4
<1> HIDE DEF T
<1>3. 0..m \subseteq T
  BY <1>1, <1>2, Induction
<1> QED
  BY <1>3 DEF T

\* Each comes from one before it.
LEMMA Nonempty ==
  ASSUME NEW p, NEW A, NEW m \in Nat, After(p, A)[m] # {}
  PROVE  \A n \in 0..m : After(p, A)[n] # {}
<1> DEFINE B == {k \in 0..m : After(p, A)[m - k] # {}}
<1>1. 0 \in B
  OBVIOUS
<1>2. ASSUME NEW k \in 0..m, k # 0, k - 1 \in B PROVE k \in B
  <2> DEFINE n == m - k
  <2>1. n \in Nat /\ m - (k - 1) = n + 1
    BY <1>2
  <2>2. After(p, A)[n + 1] = Extended(p, A, After(p, A)[n])
    BY <2>1, AfterSteps
  <2>3. After(p, A)[n + 1] # {}
    BY <1>2, <2>1
  <2> QED
    BY <2>2, <2>3 DEF Extended
<1> HIDE DEF B
<1>3. 0..m \subseteq B
  BY <1>1, <1>2, Induction
<1>4. \A n \in 0..m : m - n \in 0..m /\ m - (m - n) = n
  OBVIOUS
<1> QED
  BY <1>3, <1>4 DEF B

NestsNothing(p) == \A h \in Histories(p) : Computation(p, h).op # "nested"

\* All executions up to one that chooses what A has are the same.
LEMMA OneExecution ==
  ASSUME NEW p \in Prog, NestsNothing(p), NEW A, Assigns(A), NEW m \in Nat,
         NEW e \in After(p, A)[m], Within(e, A)
  PROVE  \A n \in 0..m : \A f, g \in After(p, A)[n] : f = g /\ Within(f, A)
<1> DEFINE X(n) == After(p, A)[n]
           B == {k \in 0..m : \E f \in X(m - k) : Within(f, A)}
           T == {n \in 0..m : \A f, g \in X(n) : f = g}
<1>1. \A n \in 0..m : \A f \in X(n) : ExecutionOK(p, f)
  BY AfterOK
<1>2. \A n \in 0..m : n # 0 => X(n) = Extended(p, A, X(n - 1))
  <2> SUFFICES ASSUME NEW n \in 0..m, n # 0 PROVE X(n) = Extended(p, A, X(n - 1))
    OBVIOUS
  <2>1. n - 1 \in Nat /\ n = (n - 1) + 1
    OBVIOUS
  <2> QED
    BY <2>1, AfterSteps
<1>3. X(0) = {Start}
  BY AfterSteps
<1>4. X(m) = After(p, A)[m]
  OBVIOUS
<1> HIDE DEF X
<1>5. \A n \in 0..m : \E f \in X(n) : Within(f, A)
  <2>1. 0 \in B
    BY <1>4
  <2>2. ASSUME NEW k \in 0..m, k # 0, k - 1 \in B PROVE k \in B
    <3>1. PICK f \in X(m - (k - 1)) : Within(f, A)
      BY <2>2
    <3> DEFINE n == m - (k - 1)
    <3>2. n \in 0..m /\ n # 0 /\ n - 1 = m - k /\ n - 1 \in 0..m
      BY <2>2
    <3>3. PICK g \in X(n - 1) : f \in Continuations(p, A, g)
      BY <1>2, <3>1, <3>2 DEF Extended
    <3>4. Within(g, A)
      BY <1>1, <3>1, <3>2, <3>3, ContinuationOK
    <3> QED
      BY <2>2, <3>2, <3>3, <3>4
  <2> HIDE DEF B
  <2>3. 0..m \subseteq B
    BY <2>1, <2>2, Induction
  <2>4. \A n \in 0..m : m - n \in 0..m /\ m - (m - n) = n
    OBVIOUS
  <2> QED
    BY <2>3, <2>4 DEF B
<1>6. 0 \in T
  BY <1>3
<1>7. ASSUME NEW n \in 0..m, n # 0, n - 1 \in T PROVE n \in T
  <2>1. n - 1 \in 0..m /\ (\A f, g \in X(n - 1) : f = g)
    BY <1>7
  <2>2. PICK f \in X(n) : Within(f, A)
    BY <1>5
  <2>3. PICK d \in X(n - 1) : f \in Continuations(p, A, d)
    BY <1>2, <1>7, <2>2 DEF Extended
  <2>4. ExecutionOK(p, d) /\ Computation(p, d.hist).op # "nested"
    BY <1>1, <2>1, <2>3 DEF ExecutionOK, NestsNothing
  <2>5. ASSUME NEW g \in X(n) PROVE f = g
    <3>1. g \in Continuations(p, A, d)
      BY <1>2, <1>7, <2>1, <2>3, <2>5 DEF Extended
    <3> QED
      BY <2>2, <2>3, <2>4, <3>1, OneContinuation
  <2> QED
    BY <2>5
<1> HIDE DEF T
<1>8. 0..m \subseteq T
  BY <1>6, <1>7, Induction
<1> QED
  BY <1>5, <1>8 DEF T, X

(***************************************************************************)
(* Outlines, call by call.                                                 *)
(***************************************************************************)

\* The outlines after each call are defined by those before it.
Extending(p, X) == UNION {Outlined(p, o) : o \in X}
LEMMA OutlineSteps ==
  ASSUME NEW p
  PROVE  /\ Outlines(p)[0] = {NoOutline}
         /\ \A n \in Nat : Outlines(p)[n + 1] = Extending(p, Outlines(p)[n])
<1> DEFINE IsStart(g, m) == g = [n \in 0..m |-> IF n = 0 THEN {NoOutline} ELSE Extending(p, g[n - 1])]
           T(m) == {k \in 0..m : \E g : IsStart(g, k)}
<1>1. ASSUME NEW m \in Nat
      PROVE  \E g : IsStart(g, m)
  <2>1. 0 \in T(m)
    <3> DEFINE g == [n \in 0..0 |-> {NoOutline}]
    <3>1. g = [n \in 0..0 |-> IF n = 0 THEN {NoOutline} ELSE Extending(p, g[n - 1])]
      OBVIOUS
    <3> HIDE DEF g
    <3> QED
      BY <3>1
  <2>2. ASSUME NEW k \in 0..m, k # 0, k - 1 \in T(m)
        PROVE  k \in T(m)
    <3>1. PICK g : IsStart(g, k - 1)
      BY <2>2
    <3> DEFINE h == [n \in 0..k |-> IF n = k THEN Extending(p, g[k - 1]) ELSE g[n]]
    <3>2. \A n \in 0..k : n # 0 => n - 1 \in 0..k - 1 /\ n - 1 \in 0..k /\ n - 1 # k
      BY <2>2
    <3>3. \A n \in 0..k - 1 : g[n] = IF n = 0 THEN {NoOutline} ELSE Extending(p, g[n - 1])
      BY <3>1
    <3>4. \A n \in 0..k : n # k => n \in 0..k - 1
      BY <2>2
    <3>5. \A n \in 0..k : h[n] = IF n = 0 THEN {NoOutline} ELSE Extending(p, h[n - 1])
      <4> SUFFICES ASSUME NEW n \in 0..k
                   PROVE  h[n] = IF n = 0 THEN {NoOutline} ELSE Extending(p, h[n - 1])
        OBVIOUS
      <4>1. n # 0 => h[n - 1] = g[n - 1]
        BY <3>2
      <4>2. n # k => h[n] = g[n]
        OBVIOUS
      <4>3. h[k] = Extending(p, g[k - 1])
        BY <2>2
      <4> HIDE DEF h
      <4> QED
        BY <2>2, <3>3, <3>4, <4>1, <4>2, <4>3
    <3>6. h = [n \in 0..k |-> h[n]]
      OBVIOUS
    <3> HIDE DEF h
    <3>7. IsStart(h, k)
      BY <3>5, <3>6
    <3> QED
      BY <3>7
  <2> HIDE DEF T
  <2>3. 0..m \subseteq T(m)
    BY <2>1, <2>2, Induction
  <2>4. m \in T(m)
    BY <2>3
  <2> QED
    BY <2>4 DEF T
\* Two of them agree where both are defined.
<1>2. ASSUME NEW m \in Nat, NEW g, IsStart(g, m), NEW k \in Nat, NEW h, IsStart(h, k), m <= k
      PROVE  \A n \in 0..m : g[n] = h[n]
  <2> DEFINE S == {n \in 0..m : g[n] = h[n]}
  <2>1. /\ \A n \in 0..m : g[n] = IF n = 0 THEN {NoOutline} ELSE Extending(p, g[n - 1])
        /\ \A n \in 0..k : h[n] = IF n = 0 THEN {NoOutline} ELSE Extending(p, h[n - 1])
    BY <1>2
  <2>2. \A n \in 0..m : n \in 0..k
    BY <1>2
  <2> HIDE DEF IsStart
  <2>3. 0 \in S
    BY <2>1, <2>2
  <2>4. \A n \in 0..m : n # 0 /\ n - 1 \in S => n \in S
    BY <2>1, <2>2
  <2> HIDE DEF S
  <2>5. 0..m \subseteq S
    BY <2>3, <2>4, Induction
  <2> QED
    BY <2>5 DEF S
<1> DEFINE run == [m \in Nat |-> CHOOSE g : IsStart(g, m)]
           f == [n \in Nat |-> run[n][n]]
<1>3. \A m \in Nat : IsStart(run[m], m)
  BY <1>1
<1>4. f[0] = {NoOutline}
  <2>1. run[0] = [n \in 0..0 |-> IF n = 0 THEN {NoOutline} ELSE Extending(p, run[0][n - 1])]
    BY <1>3
  <2> HIDE DEF run
  <2>2. 0 \in 0..0 /\ 0 \in Nat
    OBVIOUS
  <2>3. run[0][0] = {NoOutline}
    BY <2>1, <2>2
  <2> QED
    BY <2>2, <2>3
<1>5. \A n \in Nat : n # 0 => f[n] = Extending(p, f[n - 1])
  <2> SUFFICES ASSUME NEW n \in Nat, n # 0
               PROVE  f[n] = Extending(p, f[n - 1])
    OBVIOUS
  <2>1. n - 1 \in Nat /\ n - 1 <= n /\ n - 1 \in 0..n - 1 /\ n \in 0..n
    OBVIOUS
  <2>2. run[n][n] = Extending(p, run[n][n - 1])
    <3>1. run[n] = [l \in 0..n |-> IF l = 0 THEN {NoOutline} ELSE Extending(p, run[n][l - 1])]
      BY <1>3
    <3> HIDE DEF run
    <3> QED
      BY <2>1, <3>1
  <2>3. run[n - 1][n - 1] = run[n][n - 1]
    <3> HIDE DEF run, IsStart
    <3> QED
      BY <1>2, <1>3, <2>1
  <2> HIDE DEF run
  <2> QED
    BY <2>1, <2>2, <2>3
<1>6. f = [n \in Nat |-> IF n = 0 THEN {NoOutline} ELSE Extending(p, f[n - 1])]
  <2>1. f = [n \in Nat |-> f[n]]
    OBVIOUS
  <2> HIDE DEF f
  <2> QED
    BY <1>4, <1>5, <2>1
<1> HIDE DEF f
<1>7. Outlines(p) = CHOOSE g : g = [n \in Nat |-> IF n = 0 THEN {NoOutline} ELSE Extending(p, g[n - 1])]
  BY DEF Outlines, Extending
<1>8. Outlines(p) = [n \in Nat |-> IF n = 0 THEN {NoOutline} ELSE Extending(p, Outlines(p)[n - 1])]
  BY <1>6, <1>7
<1>9. \A n \in Nat : n + 1 \in Nat /\ n + 1 # 0 /\ (n + 1) - 1 = n
  OBVIOUS
<1> QED
  BY <1>8, <1>9

\* The beginning of a sequence.
First(s, k) == [j \in 1..k |-> s[j]]

LEMMA FirstOfAppend ==
  ASSUME NEW s, IsSequence(s), NEW v
  PROVE  /\ First(s, Len(s)) = s
         /\ \A k \in 0..Len(s) : First(Append(s, v), k) = First(s, k)
<1>1. Len(s) \in Nat /\ DOMAIN s = 1..Len(s)
  BY SequenceDomain
<1>2. First(s, Len(s)) = s
  <2>1. s = [j \in DOMAIN s |-> s[j]]
    BY DEF IsSequence
  <2> QED
    BY <1>1, <2>1 DEF First
<1>3. ASSUME NEW k \in 0..Len(s) PROVE First(Append(s, v), k) = First(s, k)
  <2> DEFINE t == Append(s, v)
  <2>1. \A j \in 1..Len(s) : t[j] = s[j]
    BY AppendSequence
  <2> HIDE DEF t
  <2>2. \A j \in 1..k : t[j] = s[j]
    BY <1>1, <2>1
  <2> QED
    BY <2>2 DEF First, t
<1> QED
  BY <1>2, <1>3

LEMMA FirstAndNext ==
  ASSUME NEW s, IsSequence(s), NEW k \in Nat, k < Len(s)
  PROVE  /\ IsSequence(First(s, k)) /\ Len(First(s, k)) = k
         /\ Append(First(s, k), s[k + 1]) = First(s, k + 1)
<1> DEFINE b == First(s, k)
           t == Append(b, s[k + 1])
<1>1. IsSequence(b) /\ Len(b) = k
  <2>1. DOMAIN b = 1..k /\ b = [j \in 1..k |-> b[j]]
    BY DEF First
  <2> HIDE DEF b
  <2> QED
    BY <2>1, FunctionSequence
<1>2. \A j \in 1..k : b[j] = s[j]
  BY DEF First
<1> HIDE DEF b
<1>3. /\ IsSequence(t) /\ DOMAIN t = 1..k + 1
      /\ \A j \in 1..k : t[j] = b[j]
      /\ t[k + 1] = s[k + 1]
  BY <1>1, AppendSequence
<1>4. t = [j \in DOMAIN t |-> t[j]]
  BY <1>3 DEF IsSequence
<1> HIDE DEF t
<1>5. \A j \in 1..k + 1 : t[j] = s[j]
  BY <1>2, <1>3
<1>6. t = First(s, k + 1)
  BY <1>3, <1>4, <1>5 DEF First
<1> QED
  BY <1>1, <1>6 DEF t, b

\* The turns on the way to an outline are turns of the program.
Turned(p, s) ==
  \A k \in 0..Len(s) - 1 : [made |-> First(s, k), next |-> {s[k + 1].shape}] \in Turns(p)

OutlineFields == {"hist", "counters", "made"}
OutlineOK(p, n, o) ==
  /\ HasFields(o, OutlineFields)
  /\ o.hist \in Histories(p) /\ Len(o.hist) = n
  /\ IsSequence(o.made) /\ Turned(p, o.made)

LEMMA HistoryAppend ==
  ASSUME NEW p \in Prog, NEW h \in Histories(p), NEW v \in Results(Computation(p, h))
  PROVE  /\ IsSequence(h)
         /\ Append(h, v) \in Histories(p) /\ Len(Append(h, v)) = Len(h) + 1
<1>1. IsSequence(h)
  <2>1. h \in Seq(Value \cup {None})
    BY ComputationAssumption
  <2> QED
    BY <2>1 DEF IsSequence
<1> QED
  BY <1>1, CallTypes, AppendSequence

\* The turn that an outline is at.
LEMMA OutlineTurns ==
  ASSUME NEW p \in Prog, NEW n \in Nat, NEW o \in Outlines(p)[n], o.hist \in Histories(p), Len(o.hist) = n,
         Computation(p, o.hist).op \in {"erp", "return"}
  PROVE  [made |-> o.made, next |-> Comes(p, o)] \in Turns(p)
<1>1. n \in Lengths[p]
  BY DEF Lengths
<1>2. o \in UNION {Outlines(p)[m] : m \in Lengths[p]}
  BY <1>1
<1> QED
  BY <1>2 DEF Turns

\* What an outline's choice of a value extends it to.
Outlining(o, call, val) ==
  [hist |-> Append(o.hist, val), counters |-> Bump(o.counters, CounterKey(call, o.counters)),
   made |-> Append(o.made, Made(call, o.counters, val))]

LEMMA OutlinedOK ==
  ASSUME NEW p \in Prog, NEW n \in Nat, NEW o \in Outlines(p)[n], OutlineOK(p, n, o),
         NEW f \in Outlined(p, o)
  PROVE  OutlineOK(p, n + 1, f)
<1> DEFINE call == Computation(p, o.hist)
<1>1. CASE call.op = "erp"
  <2>1. call \in ErpCalls
    BY <1>1, CallTypes DEF OutlineOK
  <2>2. PICK val \in IF IsConditioned(call) THEN {call.conditionedValue} ELSE Value :
          f = Outlining(o, call, val)
    BY <1>1 DEF Outlined, Outlining
  <2>3. val \in Value
    <3>1. call.conditionedValue \in Value \cup {None}
      BY <2>1 DEF ErpCalls
    <3> HIDE DEF call
    <3> QED
      BY <2>2, <3>1 DEF IsConditioned
  <2>4. f.hist \in Histories(p) /\ Len(f.hist) = n + 1
    <3>1. val \in Results(call)
      BY <1>1, <2>3 DEF Results
    <3> QED
      BY <2>2, <3>1, HistoryAppend DEF OutlineOK, Outlining
  <2> DEFINE m == Made(call, o.counters, val)
             s == o.made
  <2>5. IsSequence(s) /\ Turned(p, s)
    BY DEF OutlineOK
  <2>6. f.made = Append(s, m) /\ HasFields(f, OutlineFields)
    BY <2>2 DEF Outlining, HasFields, OutlineFields
  <2>7. [made |-> s, next |-> {m.shape}] \in Turns(p)
    <3>1. Comes(p, o) = {m.shape}
      BY <1>1 DEF Comes, Made
    <3>2. [made |-> o.made, next |-> Comes(p, o)] \in Turns(p)
      BY <1>1, OutlineTurns DEF OutlineOK
    <3> QED
      BY <3>1, <3>2
  <2> HIDE DEF m, s
  <2>8. /\ IsSequence(Append(s, m)) /\ Len(Append(s, m)) = Len(s) + 1 /\ Len(s) \in Nat
        /\ \A k \in 1..Len(s) : Append(s, m)[k] = s[k]
        /\ Append(s, m)[Len(s) + 1] = m
    BY <2>5, AppendSequence, SequenceDomain
  <2>9. Turned(p, Append(s, m))
    <3> DEFINE t == Append(s, m)
    <3> SUFFICES ASSUME NEW k \in 0..Len(t) - 1
                 PROVE  [made |-> First(t, k), next |-> {t[k + 1].shape}] \in Turns(p)
      BY DEF Turned
    <3>1. k \in 0..Len(s)
      BY <2>8
    <3>2. First(t, k) = First(s, k) /\ First(s, Len(s)) = s
      BY <2>5, <3>1, FirstOfAppend
    <3> HIDE DEF t
    <3>3. CASE k = Len(s)
      BY <2>7, <2>8, <3>2, <3>3 DEF t
    <3>4. CASE k # Len(s)
      <4>1. k \in 0..Len(s) - 1 /\ k + 1 \in 1..Len(s)
        BY <2>8, <3>1, <3>4
      <4>2. t[k + 1] = s[k + 1]
        BY <2>8, <4>1 DEF t
      <4> QED
        BY <2>5, <3>2, <4>1, <4>2 DEF Turned
    <3> QED
      BY <3>3, <3>4
  <2> QED
    BY <2>4, <2>6, <2>8, <2>9 DEF OutlineOK
<1>2. CASE call.op # "erp"
  <2>1. PICK val \in Results(call) : f = [o EXCEPT !.hist = Append(@, val)]
    BY <1>2 DEF Outlined
  <2>2. f.hist = Append(o.hist, val) /\ f.made = o.made /\ HasFields(f, OutlineFields)
    BY <2>1 DEF OutlineOK, HasFields, OutlineFields
  <2>3. f.hist \in Histories(p) /\ Len(f.hist) = n + 1
    BY <2>2, HistoryAppend DEF OutlineOK
  <2> QED
    BY <2>2, <2>3 DEF OutlineOK
<1> QED
  BY <1>1, <1>2

LEMMA OutlinesOK ==
  ASSUME NEW p \in Prog, NEW n \in Nat, NEW o \in Outlines(p)[n]
  PROVE  OutlineOK(p, n, o)
<1> DEFINE T == {k \in 0..n : \A f \in Outlines(p)[k] : OutlineOK(p, k, f)}
<1>1. 0 \in T
  <2>1. <<>> \in Histories(p) /\ Len(<<>>) = 0 /\ IsSequence(<<>>)
    BY ComputationAssumption DEF IsSequence
  <2>2. OutlineOK(p, 0, NoOutline)
    BY <2>1 DEF NoOutline, OutlineOK, HasFields, OutlineFields, Turned
  <2> QED
    BY <2>2, OutlineSteps
<1>2. ASSUME NEW k \in 0..n, k # 0, k - 1 \in T PROVE k \in T
  <2>1. k - 1 \in Nat /\ k = (k - 1) + 1
    BY <1>2
  <2>2. \A f \in Outlines(p)[k - 1] : OutlineOK(p, k - 1, f)
    BY <1>2
  <2>3. Outlines(p)[k] = Extending(p, Outlines(p)[k - 1])
    BY <2>1, OutlineSteps
  <2>4. \A f \in Outlines(p)[k] : OutlineOK(p, k, f)
    BY <2>1, <2>2, <2>3, OutlinedOK DEF Extending
  <2> QED
    BY <2>4
<1> HIDE DEF T
<1>3. 0..n \subseteq T
  BY <1>1, <1>2, Induction
<1> QED
  BY <1>3 DEF T

\* The choices of an execution, all of them, in their order.
Planned(p, s) ==
  /\ IsSequence(s) /\ Turned(p, s)
  /\ [made |-> s, next |-> {}] \in Turns(p)

LEMMA OutlinePlanned ==
  ASSUME NEW p \in Prog, NEW n \in Nat, NEW o \in Outlines(p)[n],
         Computation(p, o.hist).op = "return"
  PROVE  Planned(p, o.made)
<1>1. OutlineOK(p, n, o)
  BY OutlinesOK
<1>2. Comes(p, o) = {}
  BY DEF Comes
<1>3. [made |-> o.made, next |-> {}] \in Turns(p)
  BY <1>1, <1>2, OutlineTurns DEF OutlineOK
<1> QED
  BY <1>1, <1>3 DEF OutlineOK, Planned

(***************************************************************************)
(* The outline of an execution.                                            *)
(***************************************************************************)

LEMMA AppendIs ==
  ASSUME NEW s, IsSequence(s), NEW v
  PROVE  Append(s, v) = [k \in 1..Len(s) + 1 |-> IF k = Len(s) + 1 THEN v ELSE s[k]]
<1> DEFINE t == Append(s, v)
           n == Len(s)
<1>1. /\ IsSequence(t) /\ DOMAIN t = 1..n + 1 /\ n \in Nat
      /\ \A k \in 1..n : t[k] = s[k]
      /\ t[n + 1] = v
  BY AppendSequence, SequenceDomain
<1> HIDE DEF t, n
<1>2. t = [k \in DOMAIN t |-> t[k]]
  BY <1>1 DEF IsSequence
<1>3. \A k \in 1..n + 1 : t[k] = IF k = n + 1 THEN v ELSE s[k]
  BY <1>1
<1>4. t = [k \in 1..n + 1 |-> IF k = n + 1 THEN v ELSE s[k]]
  BY <1>1, <1>2, <1>3
<1> QED
  BY <1>4 DEF t, n

\* The choice of an execution or of a trace, as its outline has it.
ChoiceMade(name, c) ==
  [shape |-> [name |-> name, erp |-> c.erp, structural |-> c.structural,
              conditioned |-> c.conditioned],
   val |-> IF IsFree(c.structural, c.conditioned) THEN c.val ELSE None]
MadeOf(order, choices) == [k \in DOMAIN order |-> ChoiceMade(order[k], choices[order[k]])]
OutlineOf(e) == [hist |-> e.hist, counters |-> e.counters, made |-> MadeOf(e.order, e.choices)]

\* The order lists the choices, each once.
Lists(order, choices) ==
  /\ IsSequence(order)
  /\ DOMAIN choices = {order[k] : k \in DOMAIN order}
  /\ \A j, k \in DOMAIN order : order[j] = order[k] => j = k

\* The choices B keep the values of A where they can.
Keeping(A, B) ==
  \A m \in DOMAIN B : ~B[m].conditioned /\ Usable(A, m, B[m]) => B[m].val = A[m].val

\* t is s with v at its end.
Adds(s, v, t) == t = Append(s, v)

LEMMA MadeOfAppend ==
  ASSUME NEW order, NEW A, NEW B, Lists(order, A), NEW name, name \notin DOMAIN A,
         DOMAIN B = DOMAIN A \cup {name}, \A n \in DOMAIN A : B[n] = A[n],
         NEW t, Adds(order, name, t),
         NEW s, Adds(MadeOf(order, A), ChoiceMade(name, B[name]), s)
  PROVE  Lists(t, B) /\ MadeOf(t, B) = s
<1> DEFINE n == Len(order)
           made == MadeOf(order, A)
           new == ChoiceMade(name, B[name])
<1>1. n \in Nat /\ DOMAIN order = 1..n /\ IsSequence(order)
  BY SequenceDomain DEF Lists
<1>2. /\ IsSequence(t) /\ DOMAIN t = 1..n + 1
      /\ \A k \in 1..n : t[k] = order[k]
      /\ t[n + 1] = name
  BY <1>1, AppendSequence DEF Adds
<1>3. \A k \in 1..n : order[k] \in DOMAIN A
  BY <1>1 DEF Lists
<1>4. made = [k \in 1..n |-> ChoiceMade(order[k], A[order[k]])]
  BY <1>1 DEF MadeOf
<1>5. IsSequence(made) /\ Len(made) = n
  <2> HIDE DEF made
  <2>1. DOMAIN made = 1..n /\ made = [k \in 1..n |-> made[k]]
    BY <1>4
  <2> QED
    BY <1>1, <2>1, FunctionSequence
<1> HIDE DEF n, made
<1>12. s = Append(made, new)
  BY DEF made, new, Adds
<1>6. Append(made, new) = [k \in 1..n + 1 |-> IF k = n + 1 THEN new ELSE made[k]]
  BY <1>5, AppendIs
<1>7. ASSUME NEW k \in 1..n + 1
      PROVE  ChoiceMade(t[k], B[t[k]]) = IF k = n + 1 THEN new ELSE made[k]
  <2>1. CASE k = n + 1
    BY <1>2, <2>1
  <2>2. CASE k # n + 1
    <3>1. k \in 1..n
      BY <1>1, <2>2
    <3>2. t[k] = order[k] /\ B[t[k]] = A[order[k]]
      BY <1>2, <1>3, <3>1
    <3> QED
      BY <1>4, <2>2, <3>1, <3>2
  <2> QED
    BY <2>1, <2>2
<1>8. MadeOf(t, B) = [k \in 1..n + 1 |-> ChoiceMade(t[k], B[t[k]])]
  BY <1>2 DEF MadeOf
<1> HIDE DEF new
<1>9. MadeOf(t, B) = Append(made, new)
  BY <1>6, <1>7, <1>8
<1>10. DOMAIN B = {t[k] : k \in DOMAIN t}
  <2>1. ASSUME NEW m \in DOMAIN B PROVE \E k \in DOMAIN t : t[k] = m
    <3>1. CASE m = name
      BY <1>1, <1>2, <3>1
    <3>2. CASE m \in DOMAIN A
      <4>1. PICK k \in 1..n : order[k] = m
        BY <1>1, <3>2 DEF Lists
      <4> QED
        BY <1>1, <1>2, <4>1
    <3> QED
      BY <3>1, <3>2
  <2>2. ASSUME NEW k \in DOMAIN t PROVE t[k] \in DOMAIN B
    <3>1. k = n + 1 \/ k \in 1..n
      BY <1>1, <1>2
    <3> QED
      BY <1>2, <1>3, <3>1
  <2> QED
    BY <2>1, <2>2
<1>11. \A j, k \in DOMAIN t : t[j] = t[k] => j = k
  <2>1. \A k \in DOMAIN t : k = n + 1 \/ k \in 1..n
    BY <1>1, <1>2
  <2>2. \A k \in 1..n : t[k] # name
    BY <1>2, <1>3
  <2>3. \A j, k \in 1..n : order[j] = order[k] => j = k
    BY <1>1 DEF Lists
  <2> QED
    BY <1>1, <1>2, <2>1, <2>2, <2>3
<1> QED
  BY <1>2, <1>9, <1>10, <1>11, <1>12 DEF Lists

ExecutionPlanned(p, A, n, e) ==
  /\ OutlineOf(e) \in Outlines(p)[n]
  /\ Lists(e.order, e.choices) /\ Keeping(A, e.choices)

LEMMA FreshChoice ==
  ASSUME NEW p, NEW e, ExecutionOK(p, e), NEW call
  PROVE  CurrentName(call, e.counters) \notin DOMAIN e.choices
<1> DEFINE key == CounterKey(call, e.counters)
           name == CurrentName(call, e.counters)
<1>1. name[1] = key /\ name[2] = Count(e.counters, key)
  BY DEF CurrentName
<1>2. Count(e.counters, key) \in Nat
  BY DEF Count, ExecutionOK
<1> HIDE DEF key, name
<1>3. name \notin DOMAIN e.choices
  BY <1>1, <1>2 DEF ExecutionOK
<1> QED
  BY <1>3 DEF name

LEMMA ContinuationPlanned ==
  ASSUME NEW p \in Prog, NEW A, Assigns(A), NEW n \in Nat, NEW e, ExecutionOK(p, e),
         ExecutionPlanned(p, A, n, e), NEW f \in Continuations(p, A, e)
  PROVE  ExecutionPlanned(p, A, n + 1, f)
<1> DEFINE call == Computation(p, e.hist)
           o == OutlineOf(e)
<1>1. o.hist = e.hist /\ o.counters = e.counters /\ o.made = MadeOf(e.order, e.choices)
  BY DEF OutlineOf
<1>2. HasFields(e, ExecutionFields) /\ e.hist \in Histories(p)
  BY DEF ExecutionOK
<1>3. Outlined(p, o) \subseteq Outlines(p)[n + 1]
  BY OutlineSteps DEF Extending, ExecutionPlanned
<1>4. CASE call.op = "erp"
  <2> DEFINE name == CurrentName(call, e.counters)
             isDrawn == ~IsConditioned(call) /\ ~Usable(A, name, call)
  <2>1. call \in ErpCalls
    BY <1>2, <1>4, CallTypes
  <2>2. PICK v \in Drawable(A, name, call) : f = Choose(e, call, v, isDrawn)
    BY <1>4, ErpContinuations
  <2>3. v \in Value
    <3>1. call.erp \in Erp /\ call.params \in Params /\ call.conditionedValue \in Value \cup {None}
      BY <2>1 DEF ErpCalls
    <3> HIDE DEF name, call
    <3> QED
      BY <2>2, <3>1, ErpAssumption DEF Drawable, IsConditioned, Usable, Assigns
  <2>4. name \notin DOMAIN e.choices
    BY FreshChoice
  <2>5. /\ f.hist = Append(e.hist, v)
        /\ f.counters = Bump(e.counters, name[1])
        /\ DOMAIN f.choices = DOMAIN e.choices \cup {name}
        /\ \A m \in DOMAIN e.choices : f.choices[m] = e.choices[m]
        /\ f.choices[name] = NewChoice(call, v)
        /\ f.order = Append(e.order, name)
    <3> HIDE DEF isDrawn
    <3> QED
      BY <1>2, <2>2, <2>4, ChosenFields
  <2>6. name[1] = CounterKey(call, e.counters)
    BY DEF CurrentName
  <2>7. ChoiceMade(name, f.choices[name]) = Made(call, e.counters, v)
    BY <2>5 DEF ChoiceMade, Made, Shape, NewChoice
  <2>8. /\ Lists(f.order, f.choices)
        /\ MadeOf(f.order, f.choices) = Append(o.made, Made(call, e.counters, v))
    <3> HIDE DEF name, o, call
    <3>1. Lists(e.order, e.choices)
      BY DEF ExecutionPlanned
    <3>2. Adds(e.order, name, f.order)
      BY <2>5 DEF Adds
    <3>3. PICK s : Adds(MadeOf(e.order, e.choices), ChoiceMade(name, f.choices[name]), s)
      BY DEF Adds
    <3>4. Lists(f.order, f.choices) /\ MadeOf(f.order, f.choices) = s
      <4>1. PICK B : B = f.choices
        OBVIOUS
      <4>2. PICK C : C = e.choices
        OBVIOUS
      <4>3. PICK order : order = e.order
        OBVIOUS
      <4>4. PICK t : t = f.order
        OBVIOUS
      <4>5. PICK nm : nm = name
        OBVIOUS
      <4>6. /\ Lists(order, C) /\ nm \notin DOMAIN C
            /\ DOMAIN B = DOMAIN C \cup {nm} /\ \A m \in DOMAIN C : B[m] = C[m]
        BY <2>4, <2>5, <3>1, <4>1, <4>2, <4>3, <4>5
      <4>7. Adds(order, nm, t) /\ Adds(MadeOf(order, C), ChoiceMade(nm, B[nm]), s)
        BY <3>2, <3>3, <4>1, <4>2, <4>3, <4>4, <4>5
      <4>8. Lists(t, B) /\ MadeOf(t, B) = s
        BY ONLY <4>6, <4>7, MadeOfAppend
      <4> QED
        BY <4>8, <4>1, <4>4
    <3> QED
      BY <1>1, <2>7, <3>3, <3>4 DEF Adds
  <2>9. OutlineOf(f) \in Outlines(p)[n + 1]
    <3>1. OutlineOf(f) = Outlining(o, call, v)
      BY <1>1, <2>5, <2>6, <2>8 DEF OutlineOf, Outlining
    <3>2. v \in IF IsConditioned(call) THEN {call.conditionedValue} ELSE Value
      BY <2>2, <2>3 DEF Drawable
    <3>3. Outlining(o, call, v) \in Outlined(p, o)
      <4> HIDE DEF o
      <4> QED
        BY <1>1, <1>4, <3>2 DEF Outlined, Outlining
    <3> QED
      BY <1>3, <3>1, <3>3
  <2>10. Keeping(A, f.choices)
    <3> SUFFICES ASSUME NEW m \in DOMAIN f.choices, ~f.choices[m].conditioned,
                        Usable(A, m, f.choices[m])
                 PROVE  f.choices[m].val = A[m].val
      BY DEF Keeping
    <3>1. CASE m = name
      <4>1. ~IsConditioned(call) /\ Usable(A, name, call) /\ f.choices[m].val = v
        BY <2>5, <3>1 DEF NewChoice, Usable
      <4> HIDE DEF name, call
      <4> QED
        BY <2>2, <3>1, <4>1 DEF Drawable
    <3>2. CASE m # name
      BY <2>5, <3>2 DEF ExecutionPlanned, Keeping
    <3> QED
      BY <3>1, <3>2
  <2> QED
    BY <2>8, <2>9, <2>10 DEF ExecutionPlanned
<1>5. CASE call.op # "erp"
  <2>1. /\ f.counters = e.counters /\ f.choices = e.choices /\ f.order = e.order
        /\ \E v \in Results(call) : f.hist = Append(e.hist, v)
    BY <1>2, <1>5, SilentFields
  <2>2. PICK v \in Results(call) : f.hist = Append(e.hist, v)
    BY <2>1
  <2>3. OutlineOf(f) = [hist |-> Append(o.hist, v), counters |-> o.counters, made |-> o.made]
    BY <1>1, <2>1, <2>2 DEF OutlineOf
  <2>4. HasFields(o, OutlineFields)
    BY DEF OutlineOf, HasFields, OutlineFields
  <2>5. OutlineOf(f) \in Outlined(p, o)
    <3> HIDE DEF o
    <3>1. [hist |-> Append(o.hist, v), counters |-> o.counters, made |-> o.made]
            = [o EXCEPT !.hist = Append(@, v)]
      BY <2>4 DEF HasFields, OutlineFields
    <3> QED
      BY <1>1, <1>5, <2>3, <3>1 DEF Outlined
  <2> QED
    BY <1>3, <2>1, <2>5 DEF ExecutionPlanned
<1> QED
  BY <1>4, <1>5

LEMMA ExecutionsPlanned ==
  ASSUME NEW p \in Prog, NEW A, Assigns(A), NEW n \in Nat, NEW e \in After(p, A)[n]
  PROVE  ExecutionPlanned(p, A, n, e)
<1> DEFINE T == {k \in 0..n : \A f \in After(p, A)[k] : ExecutionPlanned(p, A, k, f)}
<1>1. 0 \in T
  <2>1. OutlineOf(Start) = NoOutline
    BY DEF OutlineOf, Start, NoOutline, MadeOf
  <2>2. ExecutionPlanned(p, A, 0, Start)
    BY <2>1, OutlineSteps DEF ExecutionPlanned, Start, NoChoices, Lists, Keeping, IsSequence
  <2> QED
    BY <2>2, AfterSteps
<1>2. ASSUME NEW k \in 0..n, k # 0, k - 1 \in T PROVE k \in T
  <2>1. k - 1 \in Nat /\ k - 1 \in 0..n /\ k = (k - 1) + 1
    BY <1>2
  <2>2. \A f \in After(p, A)[k - 1] : ExecutionOK(p, f) /\ ExecutionPlanned(p, A, k - 1, f)
    BY <1>2, <2>1, AfterOK
  <2>3. After(p, A)[k] = Extended(p, A, After(p, A)[k - 1])
    BY <2>1, AfterSteps
  <2>4. \A f \in After(p, A)[k] : ExecutionPlanned(p, A, k, f)
    BY <2>1, <2>2, <2>3, ContinuationPlanned DEF Extended
  <2> QED
    BY <2>4
<1> HIDE DEF T
<1>3. 0..n \subseteq T
  BY <1>1, <1>2, Induction
<1> QED
  BY <1>3 DEF T

\* An execution that has returned: its last step but the result.
LEMMA ReturnedFrom ==
  ASSUME NEW p \in Prog, NEW A, Assigns(A), NEW e \in ExecutionsFrom(p, A)
  PROVE  \E n \in Nat : \E f \in After(p, A)[n] :
           /\ Computation(p, f.hist).op = "return" /\ e.returns = Computation(p, f.hist).val
           /\ ExecutionOK(p, f) /\ e = [f EXCEPT !.returns = Computation(p, f.hist).val]
           /\ e.hist = f.hist /\ e.choices = f.choices /\ e.order = f.order
           /\ e.logprob = f.logprob /\ e.holds = f.holds
<1>1. \A k \in Lengths[p] : k \in Nat
  BY ComputationAssumption DEF Lengths
<1>2. PICK n \in Nat : \E f \in After(p, A)[n] :
        /\ Computation(p, f.hist).op = "return"
        /\ e = [f EXCEPT !.returns = Computation(p, f.hist).val]
  BY <1>1 DEF ExecutionsFrom
<1>3. PICK f \in After(p, A)[n] :
        /\ Computation(p, f.hist).op = "return"
        /\ e = [f EXCEPT !.returns = Computation(p, f.hist).val]
  BY <1>2
<1>4. ExecutionOK(p, f)
  BY <1>3, AfterOK
<1>5. HasFields(f, ExecutionFields)
  BY <1>4 DEF ExecutionOK
<1>6. /\ e.returns = Computation(p, f.hist).val /\ e.hist = f.hist /\ e.choices = f.choices
      /\ e.order = f.order /\ e.logprob = f.logprob /\ e.holds = f.holds
  BY <1>3, <1>5 DEF HasFields, ExecutionFields
<1> QED
  BY <1>3, <1>4, <1>6

\* The choices of an execution are planned, and keep what they can.
LEMMA ReturnedPlanned ==
  ASSUME NEW p \in Prog, NEW A, Assigns(A), NEW e \in ExecutionsFrom(p, A)
  PROVE  /\ Lists(e.order, e.choices) /\ Keeping(A, e.choices)
         /\ Planned(p, MadeOf(e.order, e.choices))
<1>1. PICK n \in Nat : \E f \in After(p, A)[n] :
        Computation(p, f.hist).op = "return" /\ e.choices = f.choices /\ e.order = f.order
  BY ReturnedFrom
<1>2. PICK f \in After(p, A)[n] :
        Computation(p, f.hist).op = "return" /\ e.choices = f.choices /\ e.order = f.order
  BY <1>1
<1>3. ExecutionPlanned(p, A, n, f)
  BY ExecutionsPlanned
<1>4. OutlineOf(f).hist = f.hist /\ OutlineOf(f).made = MadeOf(f.order, f.choices)
  BY DEF OutlineOf
<1>5. Planned(p, OutlineOf(f).made)
  BY <1>2, <1>3, <1>4, OutlinePlanned DEF ExecutionPlanned
<1> QED
  BY <1>2, <1>3, <1>4, <1>5 DEF ExecutionPlanned

(***************************************************************************)
(* The choices of a trace, all of them, in the order of its flat list.     *)
(***************************************************************************)

Shapes(tr) == [k \in DOMAIN tr.varlist |-> ChoiceMade(ListRecord(tr, k).name, ListRecord(tr, k))]

\* The record at a position is the one stored under its name.
LEMMA ListedRecord ==
  ASSUME NEW tr, FlatListIsDatabase(tr), NEW k \in DOMAIN tr.varlist
  PROVE  LET name == ListRecord(tr, k).name
         IN  name \in DOMAIN tr.vars /\ tr.vars[name] = tr.varlist[k] /\ GetRecord(tr, name) = ListRecord(tr, k)
<1>1. PICK n \in DOMAIN tr.vars : tr.vars[n] = tr.varlist[k]
  BY DEF FlatListIsDatabase, Listed, Stored
<1>2. ListRecord(tr, k).name = n
  BY <1>1 DEF FlatListIsDatabase, GetRecord, ListRecord
<1> QED
  BY <1>1, <1>2 DEF GetRecord, ListRecord

LEMMA ShapesAre ==
  ASSUME NEW tr, FlatListIsDatabase(tr)
  PROVE  Shapes(tr) = MadeOf(Names(tr), ChoicesOf(tr))
<1> DEFINE order == Names(tr)
           A == ChoicesOf(tr)
<1>1. DOMAIN order = DOMAIN tr.varlist /\ \A k \in DOMAIN tr.varlist : order[k] = ListRecord(tr, k).name
  BY DEF Names
<1>2. ASSUME NEW k \in DOMAIN tr.varlist
      PROVE  ChoiceMade(order[k], A[order[k]]) = ChoiceMade(ListRecord(tr, k).name, ListRecord(tr, k))
  <2>1. A[order[k]] = ChoiceOf(ListRecord(tr, k))
    <3>1. order[k] \in DOMAIN tr.vars /\ GetRecord(tr, order[k]) = ListRecord(tr, k)
      BY <1>1, ListedRecord
    <3> HIDE DEF order
    <3> QED
      BY <3>1 DEF ChoicesOf
  <2> HIDE DEF A, order
  <2> QED
    BY <1>1, <2>1 DEF ChoiceMade, ChoiceOf
<1> HIDE DEF A, order
<1>3. MadeOf(order, A) = Shapes(tr)
  BY <1>1, <1>2 DEF MadeOf, Shapes
<1> QED
  BY <1>3 DEF order, A

LEMMA ChoicesAssign ==
  ASSUME NEW tr, TraceOK(tr) PROVE Assigns(ChoicesOf(tr))
<1>1. \A n \in DOMAIN tr.vars : GetRecord(tr, n).val \in Value
  BY DEF TraceOK, GetRecord, RecordOK
<1> QED
  BY <1>1 DEF Assigns, ChoicesOf, ChoiceOf

LEMMA HeldPlanned ==
  ASSUME NEW p \in Prog, NEW tr, Held(p, tr)
  PROVE  Lists(Names(tr), ChoicesOf(tr)) /\ Planned(p, Shapes(tr))
<1> DEFINE A == ChoicesOf(tr)
<1>1. Assigns(A)
  BY ChoicesAssign DEF Held
<1>2. Shapes(tr) = MadeOf(Names(tr), A)
  BY ShapesAre DEF Held
<1> HIDE DEF A
<1>3. PICK e \in ExecutionsFrom(p, A) : e.choices = A /\ e.order = Names(tr)
  BY DEF Held, IsExecution, Names, A
<1>4. Lists(e.order, e.choices) /\ Planned(p, MadeOf(e.order, e.choices))
  BY <1>1, ReturnedPlanned
<1> QED
  BY <1>2, <1>3, <1>4 DEF A

\* Records with the same names and choices.
LEMMA SameShapes ==
  ASSUME NEW tr, NEW new, DOMAIN new.varlist = DOMAIN tr.varlist,
         \A k \in DOMAIN tr.varlist :
           /\ ListRecord(new, k).name = ListRecord(tr, k).name
           /\ ListRecord(new, k).erp = ListRecord(tr, k).erp
           /\ ListRecord(new, k).structural = ListRecord(tr, k).structural
           /\ ListRecord(new, k).conditioned = ListRecord(tr, k).conditioned
           /\ IsFree(ListRecord(tr, k).structural, ListRecord(tr, k).conditioned)
                => ListRecord(new, k).val = ListRecord(tr, k).val
  PROVE  Shapes(new) = Shapes(tr)
<1>1. ASSUME NEW k \in DOMAIN tr.varlist
      PROVE  ChoiceMade(ListRecord(new, k).name, ListRecord(new, k))
               = ChoiceMade(ListRecord(tr, k).name, ListRecord(tr, k))
  BY DEF ChoiceMade
<1> QED
  BY <1>1 DEF Shapes

\* What an update with the structure fixed begins from.
Fixable(p, tr) == TraceOK(tr) /\ FlatListIsDatabase(tr) /\ Cached(tr) /\ Planned(p, Shapes(tr))

LEMMA HeldFixable ==
  ASSUME NEW p \in Prog, NEW tr, Held(p, tr) PROVE Fixable(p, tr)
BY HeldPlanned DEF Held, Fixable

\* A copy has the same variables, in the same order.
LEMMA CopyList ==
  ASSUME NEW tr, TraceOK(tr), FlatListIsDatabase(tr), Cached(tr)
  PROVE  LET new == DeepCopy(tr)
         IN  /\ FlatListIsDatabase(new) /\ Shapes(new) = Shapes(tr) /\ Names(new) = Names(tr)
<1> DEFINE new == DeepCopy(tr)
<1>1. /\ DOMAIN new.vars = DOMAIN tr.vars
      /\ \A n \in DOMAIN tr.vars : GetRecord(new, n) = CopyRecord(GetRecord(tr, n))
      /\ NamedRecords(new) /\ TraceOK(new)
  BY CopiedChoices
<1>2. /\ DOMAIN new.recs = DOMAIN tr.varlist
      /\ \A k \in DOMAIN new.recs : new.recs[k] = CopyRecord(ListRecord(tr, k))
      /\ DOMAIN new.varlist = DOMAIN tr.varlist
      /\ \A k \in DOMAIN new.varlist : new.varlist[k] = k
      /\ \A n \in DOMAIN new.vars : new.vars[n] = LastPosition(tr, n)
      /\ DOMAIN new.vars = {ListRecord(tr, k).name : k \in DOMAIN tr.varlist}
  BY DeepCopyFields
<1> HIDE DEF new
<1>3. \A k \in DOMAIN tr.varlist : ListRecord(new, k) = CopyRecord(ListRecord(tr, k))
  BY <1>2 DEF ListRecord
<1>4. tr.varlist \in Seq(DOMAIN tr.recs) /\ \A id \in DOMAIN tr.recs : RecordOK(tr.recs[id])
  BY DEF TraceOK
<1>5. \A k \in DOMAIN tr.varlist : RecordOK(ListRecord(tr, k))
  BY <1>4 DEF ListRecord
<1>6. \A k \in DOMAIN tr.varlist :
        LET old == ListRecord(tr, k)
            copy == ListRecord(new, k)
        IN  /\ copy.name = old.name /\ copy.erp = old.erp /\ copy.structural = old.structural
            /\ copy.conditioned = old.conditioned /\ copy.val = old.val
  BY <1>3, <1>5 DEF CopyRecord, RecordOK, HasFields, RecordFields
<1>7. Shapes(new) = Shapes(tr)
  BY <1>2, <1>6, SameShapes
<1>8. Names(new) = Names(tr)
  BY <1>2, <1>6 DEF Names
<1>9. FlatListIsDatabase(new)
  <2>1. \A k \in DOMAIN tr.varlist : \E n \in DOMAIN new.vars : new.vars[n] = k
    <3> SUFFICES ASSUME NEW k \in DOMAIN tr.varlist PROVE \E n \in DOMAIN new.vars : new.vars[n] = k
      OBVIOUS
    <3> DEFINE n == ListRecord(tr, k).name
    <3>1. n \in DOMAIN new.vars /\ n \in {ListRecord(tr, j).name : j \in DOMAIN tr.varlist}
      BY <1>2
    <3>2. LastPosition(tr, n) \in DOMAIN tr.varlist /\ ListRecord(tr, LastPosition(tr, n)).name = n
      BY <1>4, <3>1, LastPositionOK
    <3>3. tr.varlist[LastPosition(tr, n)] = tr.varlist[k]
      BY <3>2, ListedRecord
    <3>4. LastPosition(tr, n) = k
      BY <3>2, <3>3 DEF FlatListIsDatabase
    <3> QED
      BY <1>2, <3>1, <3>4
  <2>2. \A n \in DOMAIN new.vars : new.vars[n] \in DOMAIN tr.varlist
    BY <1>1, <1>2 DEF TraceOK
  <2>3. Listed(new) = DOMAIN tr.varlist
    BY <1>2 DEF Listed
  <2>4. Stored(new) = DOMAIN tr.varlist
    BY <2>1, <2>2 DEF Stored
  <2> QED
    BY <1>1, <1>2, <2>3, <2>4 DEF FlatListIsDatabase, NamedRecords
<1> QED
  BY <1>7, <1>8, <1>9 DEF new

\* So it has when the value of a variable is changed that leaves the structure
\* alone; and in any case the same variables in the same order.
LEMMA SetList ==
  ASSUME NEW tr, TraceOK(tr), FlatListIsDatabase(tr), NEW name \in DOMAIN tr.vars, NEW val \in Value
  PROVE  LET new == SetVar(tr, name, val)
             rec == GetRecord(tr, name)
         IN  /\ FlatListIsDatabase(new) /\ Names(new) = Names(tr)
             /\ ~IsFree(rec.structural, rec.conditioned) => Shapes(new) = Shapes(tr)
<1> DEFINE new == SetVar(tr, name, val)
           id == tr.vars[name]
           old == tr.recs[id]
           rec == [old EXCEPT !.val = val, !.logprob = ErpLogprob(old.erp, val, old.params)]
<1>1. /\ new.vars = tr.vars /\ DOMAIN new.recs = DOMAIN tr.recs
      /\ \A k \in DOMAIN tr.recs : new.recs[k].name = tr.recs[k].name
  BY SetVarOK
<1>2. new.recs = [tr.recs EXCEPT ![id] = rec] /\ new.varlist = tr.varlist
  <2>1. HasFields(tr, TraceFields)
    BY DEF TraceOK
  <2> QED
    BY <2>1 DEF SetVar, GetRecord, HasFields, TraceFields
<1>3. id \in DOMAIN tr.recs /\ RecordOK(old) /\ old = GetRecord(tr, name)
  BY DEF TraceOK, GetRecord
<1>4. /\ rec.erp = old.erp /\ rec.structural = old.structural /\ rec.conditioned = old.conditioned
      /\ rec.name = old.name
  <2> HIDE DEF old
  <2> QED
    BY <1>3 DEF RecordOK, HasFields, RecordFields
<1>5. /\ \A k \in DOMAIN tr.varlist : tr.varlist[k] \in DOMAIN tr.recs
      /\ \A n \in DOMAIN tr.vars : tr.vars[n] \in DOMAIN tr.recs
  BY DEF TraceOK
<1> HIDE DEF new, rec
<1>6. \A k \in DOMAIN tr.recs : new.recs[k] = IF k = id THEN rec ELSE tr.recs[k]
  BY <1>2
<1>7. Names(new) = Names(tr)
  BY <1>1, <1>2, <1>5 DEF Names, ListRecord
<1>8. FlatListIsDatabase(new)
  <2>1. Listed(new) = Listed(tr) /\ Stored(new) = Stored(tr)
    BY <1>1, <1>2 DEF Listed, Stored
  <2>2. \A n \in DOMAIN new.vars : GetRecord(new, n).name = n
    <3>1. \A n \in DOMAIN tr.vars : tr.recs[tr.vars[n]].name = n
      BY DEF FlatListIsDatabase, GetRecord
    <3> QED
      BY <1>1, <1>5, <3>1 DEF GetRecord
  <2>3. \A j, k \in DOMAIN new.varlist : new.varlist[j] = new.varlist[k] => j = k
    BY <1>2 DEF FlatListIsDatabase
  <2>4. Listed(tr) = Stored(tr)
    BY DEF FlatListIsDatabase
  <2> QED
    BY <2>1, <2>2, <2>3, <2>4 DEF FlatListIsDatabase
<1>9. ASSUME ~IsFree(old.structural, old.conditioned) PROVE Shapes(new) = Shapes(tr)
  <2>1. ASSUME NEW k \in DOMAIN tr.varlist
        PROVE  /\ ListRecord(new, k).name = ListRecord(tr, k).name
               /\ ListRecord(new, k).erp = ListRecord(tr, k).erp
               /\ ListRecord(new, k).structural = ListRecord(tr, k).structural
               /\ ListRecord(new, k).conditioned = ListRecord(tr, k).conditioned
               /\ IsFree(ListRecord(tr, k).structural, ListRecord(tr, k).conditioned)
                    => ListRecord(new, k).val = ListRecord(tr, k).val
    <3>1. CASE tr.varlist[k] = id
      <4>1. ListRecord(new, k) = rec /\ ListRecord(tr, k) = old
        BY <1>2, <1>3, <1>6, <3>1 DEF ListRecord
      <4> HIDE DEF old
      <4> QED
        BY <1>4, <1>9, <4>1
    <3>2. CASE tr.varlist[k] # id
      <4>1. ListRecord(new, k) = ListRecord(tr, k)
        BY <1>2, <1>5, <1>6, <3>2 DEF ListRecord
      <4> QED
        BY <4>1
    <3> QED
      BY <3>1, <3>2
  <2>2. DOMAIN new.varlist = DOMAIN tr.varlist
    BY <1>2
  <2> QED
    BY <2>1, <2>2, SameShapes
<1> QED
  BY <1>3, <1>7, <1>8, <1>9 DEF new

(***************************************************************************)
(* An update with the structure fixed takes its records from the flat list,*)
(* in turn, and counts no names. It does what an update by names would do: *)
(* the trace with only the part of the flat list that has been met, and    *)
(* with the counters c, is one that is updated by names.                   *)
(***************************************************************************)

Met(tr, c) ==
  [tr EXCEPT !.varlist = First(tr.varlist, tr.currVarIndex - 1), !.loopcounters = c]

LEMMA HistorySequence == ASSUME NEW p \in Prog, NEW h \in Histories(p) PROVE IsSequence(h)
<1>1. h \in Seq(Value \cup {None})
  BY ComputationAssumption
<1> QED
  BY <1>1 DEF IsSequence

LEMMA SameTrace ==
  ASSUME NEW tr, HasFields(tr, TraceFields), NEW new, HasFields(new, TraceFields),
         new.recs = tr.recs, new.vars = tr.vars, new.varlist = tr.varlist,
         new.currVarIndex = tr.currVarIndex, new.logprob = tr.logprob,
         new.newlogprob = tr.newlogprob, new.oldlogprob = tr.oldlogprob,
         new.loopcounters = tr.loopcounters,
         new.conditionsSatisfied = tr.conditionsSatisfied, new.returnValue = tr.returnValue
  PROVE  new = tr
<1>1. \A f \in TraceFields : new[f] = tr[f]
  BY DEF TraceFields
<1> QED
  BY <1>1 DEF HasFields

LEMMA MetFields ==
  ASSUME NEW tr, HasFields(tr, TraceFields), NEW c
  PROVE  LET new == Met(tr, c)
         IN  /\ HasFields(new, TraceFields)
             /\ new.recs = tr.recs /\ new.vars = tr.vars
             /\ new.varlist = First(tr.varlist, tr.currVarIndex - 1)
             /\ new.currVarIndex = tr.currVarIndex /\ new.logprob = tr.logprob
             /\ new.newlogprob = tr.newlogprob /\ new.oldlogprob = tr.oldlogprob
             /\ new.loopcounters = c
             /\ new.conditionsSatisfied = tr.conditionsSatisfied
             /\ new.returnValue = tr.returnValue
BY DEF Met, HasFields, TraceFields

\* An update by names that may go by the assignment A, and one that takes its
\* records from a flat list with the choices s.
Freely(p, tr, h, A) == Updating(tr) /\ Follows(p, tr, h) /\ Moves(p, tr, h, A)
MetSoFar(p, tr, h, c, s) ==
  [hist |-> h, counters |-> c, made |-> First(s, tr.currVarIndex - 1)] \in Outlines(p)[Len(h)]
FixedAs(p, tr, h, A, s) ==
  /\ TraceOK(tr) /\ FlatListIsDatabase(tr) /\ Shapes(tr) = s /\ Planned(p, s)
  /\ \E c : MetSoFar(p, tr, h, c, s) /\ Freely(p, Met(tr, c), h, A)
UnderWay(p, tr, h, A, s, fixed) ==
  IF fixed THEN KeepsStructure(p) /\ FixedAs(p, tr, h, A, s) ELSE Freely(p, tr, h, A)

LEMMA ShapesFields ==
  ASSUME NEW tr, TraceOK(tr), NEW s, Shapes(tr) = s
  PROVE  /\ IsSequence(s) /\ Len(s) = Len(tr.varlist) /\ Len(s) \in Nat
         /\ tr.currVarIndex \in 1..Len(s) + 1
         /\ \A k \in 1..Len(s) : s[k] = ChoiceMade(ListRecord(tr, k).name, ListRecord(tr, k))
         /\ tr.varlist \in Seq(DOMAIN tr.recs) /\ DOMAIN tr.varlist = 1..Len(s)
         /\ IsSequence(tr.varlist)
<1>1. tr.varlist \in Seq(DOMAIN tr.recs) /\ tr.currVarIndex \in 1..Len(tr.varlist) + 1
  BY DEF TraceOK
<1>2. Len(tr.varlist) \in Nat /\ DOMAIN tr.varlist = 1..Len(tr.varlist) /\ IsSequence(tr.varlist)
  BY <1>1 DEF IsSequence
<1>3. s = [k \in 1..Len(tr.varlist) |-> ChoiceMade(ListRecord(tr, k).name, ListRecord(tr, k))]
  BY <1>2 DEF Shapes
<1>4. IsSequence(s) /\ Len(s) = Len(tr.varlist)
  <2>1. DOMAIN s = 1..Len(tr.varlist) /\ s = [k \in 1..Len(tr.varlist) |-> s[k]]
    BY <1>3
  <2> QED
    BY <1>2, <2>1, FunctionSequence
<1> QED
  BY <1>1, <1>2, <1>3, <1>4

\* The record at the current position is the one that a lookup by name would
\* have found.
LEMMA FixedTurn ==
  ASSUME NEW p \in Prog, KeepsStructure(p), NEW h \in Histories(p), Computation(p, h).op = "erp",
         NEW tr, TraceOK(tr), NEW s, Shapes(tr) = s, Planned(p, s), NEW c, MetSoFar(p, tr, h, c, s)
  PROVE  LET rec == ListRecord(tr, tr.currVarIndex)
             call == Computation(p, h)
         IN  /\ VarIsInFlatList(tr)
             /\ rec.name = CurrentName(call, c) /\ rec.erp = call.erp
             /\ rec.structural = call.structural /\ rec.conditioned = IsConditioned(call)
             /\ s[tr.currVarIndex] = ChoiceMade(rec.name, rec)
<1> DEFINE k == tr.currVarIndex - 1
           call == Computation(p, h)
           o == [hist |-> h, counters |-> c, made |-> First(s, k)]
           rec == ListRecord(tr, tr.currVarIndex)
<1>1. /\ IsSequence(s) /\ Len(s) = Len(tr.varlist) /\ Len(s) \in Nat
      /\ tr.currVarIndex \in 1..Len(s) + 1
      /\ \A j \in 1..Len(s) : s[j] = ChoiceMade(ListRecord(tr, j).name, ListRecord(tr, j))
  BY ShapesFields
<1>2. k \in 0..Len(s) /\ tr.currVarIndex = k + 1
  BY <1>1
<1>3. o \in Outlines(p)[Len(h)] /\ Len(h) \in Nat
  <2>1. IsSequence(h)
    BY HistorySequence
  <2> QED
    BY <2>1, SequenceDomain DEF MetSoFar
<1>4. [made |-> First(s, k), next |-> {Shape(call, c)}] \in Turns(p)
  <2>1. o.hist = h /\ o.made = First(s, k) /\ Comes(p, o) = {Shape(call, c)}
    BY DEF Comes
  <2> HIDE DEF o
  <2>2. [made |-> o.made, next |-> Comes(p, o)] \in Turns(p)
    BY <1>3, <2>1, OutlineTurns
  <2> QED
    BY <2>1, <2>2
<1> HIDE DEF o, k, rec
<1>5. k # Len(s)
  <2> SUFFICES ASSUME k = Len(s) PROVE FALSE
    OBVIOUS
  <2>1. First(s, k) = s
    BY <1>1, FirstOfAppend
  <2>2. [made |-> s, next |-> {}] \in Turns(p)
    BY DEF Planned
  <2>3. \A a, b \in Turns(p) : a.made = b.made => a.next = b.next
    BY DEF KeepsStructure
  <2>4. {Shape(call, c)} = {}
    BY <1>4, <2>1, <2>2, <2>3
  <2> QED
    BY <2>4
<1>6. [made |-> First(s, k), next |-> {s[k + 1].shape}] \in Turns(p)
  <2>1. k \in 0..Len(s) - 1
    BY <1>1, <1>2, <1>5
  <2> QED
    BY <2>1 DEF Planned, Turned
<1>7. s[k + 1].shape = Shape(call, c)
  <2>1. \A a, b \in Turns(p) : a.made = b.made => a.next = b.next
    BY DEF KeepsStructure
  <2>2. {s[k + 1].shape} = {Shape(call, c)}
    BY <1>4, <1>6, <2>1
  <2> QED
    BY <2>2
<1>8. k + 1 \in 1..Len(s) /\ VarIsInFlatList(tr)
  BY <1>1, <1>2, <1>5 DEF VarIsInFlatList
<1>9. s[k + 1] = ChoiceMade(rec.name, rec)
  BY <1>1, <1>2, <1>8 DEF rec
<1>10. rec.name = CurrentName(call, c) /\ rec.erp = call.erp
       /\ rec.structural = call.structural /\ rec.conditioned = IsConditioned(call)
  <2>1. Shape(call, c) = [name |-> rec.name, erp |-> rec.erp, structural |-> rec.structural,
                          conditioned |-> rec.conditioned]
    BY <1>7, <1>9 DEF ChoiceMade
  <2>2. /\ Shape(call, c).name = CurrentName(call, c) /\ Shape(call, c).erp = call.erp
        /\ Shape(call, c).structural = call.structural
        /\ Shape(call, c).conditioned = IsConditioned(call)
    BY DEF Shape
  <2> QED
    BY <2>1, <2>2
<1> QED
  BY <1>2, <1>8, <1>9, <1>10 DEF rec

\* A record taken from the flat list leaves there what there was.
LEMMA ListedStays ==
  ASSUME NEW tr, TraceOK(tr), FlatListIsDatabase(tr), VarIsInFlatList(tr), NEW call \in ErpCalls,
         LET rec == ListRecord(tr, tr.currVarIndex)
         IN  rec.erp = call.erp /\ rec.structural = call.structural
             /\ rec.conditioned = IsConditioned(call)
  PROVE  LET new == ReuseListed(tr, call)
             rec == ListRecord(tr, tr.currVarIndex)
         IN  /\ TraceOK(new) /\ FlatListIsDatabase(new) /\ Shapes(new) = Shapes(tr)
             /\ ListRecord(new, tr.currVarIndex).val
                  = IF IsConditioned(call) THEN call.conditionedValue ELSE rec.val
             /\ ListRecord(new, tr.currVarIndex).val \in Value
<1> DEFINE new == ReuseListed(tr, call)
           id == tr.varlist[tr.currVarIndex]
           old == tr.recs[id]
           rec == Refresh(old, call)
<1>1. /\ TraceOK(new) /\ id \in DOMAIN tr.recs
      /\ new.vars = tr.vars /\ new.varlist = tr.varlist
      /\ DOMAIN new.recs = DOMAIN tr.recs
      /\ \A k \in DOMAIN tr.recs : new.recs[k].name = tr.recs[k].name
      /\ new.recs[id].val \in Value
  BY ReuseListedOK
<1>2. new.recs = [tr.recs EXCEPT ![id] = rec]
  BY ReuseListedFields DEF TraceOK
<1>3. /\ old = ListRecord(tr, tr.currVarIndex) /\ RecordOK(old)
  BY <1>1 DEF ListRecord, TraceOK
<1>4. /\ rec.name = old.name /\ rec.erp = old.erp /\ rec.structural = old.structural
      /\ rec.conditioned = IsConditioned(call)
      /\ rec.val = IF IsConditioned(call) THEN call.conditionedValue ELSE old.val
  <2> HIDE DEF old
  <2> QED
    BY <1>3 DEF Refresh, RecordOK, HasFields, RecordFields
<1>5. /\ \A k \in DOMAIN tr.varlist : tr.varlist[k] \in DOMAIN tr.recs
      /\ \A n \in DOMAIN tr.vars : tr.vars[n] \in DOMAIN tr.recs
  BY DEF TraceOK
<1> HIDE DEF new, rec
<1>6. \A k \in DOMAIN tr.recs : new.recs[k] = IF k = id THEN rec ELSE tr.recs[k]
  BY <1>2
<1>7. FlatListIsDatabase(new)
  <2>1. Listed(new) = Listed(tr) /\ Stored(new) = Stored(tr)
    BY <1>1 DEF Listed, Stored
  <2>2. \A n \in DOMAIN new.vars : GetRecord(new, n).name = n
    <3>1. \A n \in DOMAIN tr.vars : tr.recs[tr.vars[n]].name = n
      BY DEF FlatListIsDatabase, GetRecord
    <3> QED
      BY <1>1, <1>5, <3>1 DEF GetRecord
  <2>3. \A j, k \in DOMAIN new.varlist : new.varlist[j] = new.varlist[k] => j = k
    BY <1>1 DEF FlatListIsDatabase
  <2>4. Listed(tr) = Stored(tr)
    BY DEF FlatListIsDatabase
  <2> QED
    BY <2>1, <2>2, <2>3, <2>4 DEF FlatListIsDatabase
<1>8. Shapes(new) = Shapes(tr)
  <2>1. /\ rec.name = old.name /\ rec.erp = old.erp /\ rec.structural = old.structural
        /\ rec.conditioned = old.conditioned
        /\ IsFree(old.structural, old.conditioned) => rec.val = old.val
    BY <1>3, <1>4 DEF IsFree
  <2>2. ASSUME NEW k \in DOMAIN tr.varlist
        PROVE  /\ ListRecord(new, k).name = ListRecord(tr, k).name
               /\ ListRecord(new, k).erp = ListRecord(tr, k).erp
               /\ ListRecord(new, k).structural = ListRecord(tr, k).structural
               /\ ListRecord(new, k).conditioned = ListRecord(tr, k).conditioned
               /\ IsFree(ListRecord(tr, k).structural, ListRecord(tr, k).conditioned)
                    => ListRecord(new, k).val = ListRecord(tr, k).val
    <3>1. CASE tr.varlist[k] = id
      <4>1. ListRecord(new, k) = rec /\ ListRecord(tr, k) = old
        BY <1>1, <1>6, <3>1 DEF ListRecord
      <4> HIDE DEF old
      <4> QED
        BY <2>1, <4>1
    <3>2. CASE tr.varlist[k] # id
      <4>1. ListRecord(new, k) = ListRecord(tr, k)
        BY <1>1, <1>5, <1>6, <3>2 DEF ListRecord
      <4> QED
        BY <4>1
    <3> QED
      BY <3>1, <3>2
  <2>3. DOMAIN new.varlist = DOMAIN tr.varlist
    BY <1>1
  <2> QED
    BY <2>2, <2>3, SameShapes
<1>9. ListRecord(new, tr.currVarIndex) = rec /\ rec.val \in Value
  BY <1>1, <1>6 DEF ListRecord
<1> QED
  BY <1>1, <1>3, <1>4, <1>7, <1>8, <1>9 DEF new

\* A lookup in the flat list is, on the part that has been met, one by name.
LEMMA ListedIsNamed ==
  ASSUME NEW tr, TraceOK(tr), FlatListIsDatabase(tr), VarIsInFlatList(tr), NEW call \in ErpCalls,
         NEW c,
         LET rec == ListRecord(tr, tr.currVarIndex)
         IN  rec.name = CurrentName(call, c) /\ rec.erp = call.erp /\ rec.structural = call.structural
  PROVE  LET name == CurrentName(call, c)
             met == Met(tr, c)
         IN  /\ Matches(met, CurrentName(call, met.loopcounters), call)
             /\ CurrentName(call, met.loopcounters) = name
             /\ ReuseNamed(met, call) = Met(ReuseListed(tr, call), Bump(c, name[1]))
             /\ GetRecord(ReuseNamed(met, call), name)
                  = ListRecord(ReuseListed(tr, call), tr.currVarIndex)
<1> DEFINE name == CurrentName(call, c)
           met == Met(tr, c)
           idx == tr.currVarIndex
           id == tr.varlist[idx]
           d == Bump(c, name[1])
           next == ReuseListed(tr, call)
           named == ReuseNamed(met, call)
           new == Met(next, d)
<1>1. HasFields(tr, TraceFields)
  BY DEF TraceOK
<1>2. /\ HasFields(met, TraceFields)
      /\ met.recs = tr.recs /\ met.vars = tr.vars
      /\ met.varlist = First(tr.varlist, idx - 1)
      /\ met.currVarIndex = idx /\ met.logprob = tr.logprob
      /\ met.newlogprob = tr.newlogprob /\ met.oldlogprob = tr.oldlogprob
      /\ met.loopcounters = c
      /\ met.conditionsSatisfied = tr.conditionsSatisfied
      /\ met.returnValue = tr.returnValue
  BY <1>1, MetFields
<1>3. idx \in Nat /\ 1 <= idx /\ idx <= Len(tr.varlist) /\ IsSequence(tr.varlist) /\ Len(tr.varlist) \in Nat
  <2>1. tr.varlist \in Seq(DOMAIN tr.recs) /\ tr.currVarIndex \in 1..Len(tr.varlist) /\ Len(tr.varlist) \in Nat
    BY DEF TraceOK, VarIsInFlatList
  <2> QED
    BY <2>1 DEF IsSequence
<1>4. name \in DOMAIN tr.vars /\ tr.vars[name] = id /\ GetRecord(tr, name) = ListRecord(tr, idx)
  <2>1. idx \in DOMAIN tr.varlist
    BY <1>3, SequenceDomain
  <2> QED
    BY <2>1, ListedRecord
<1>5. Matches(met, name, call)
  BY <1>2, <1>4 DEF Matches, GetRecord
<1>6. /\ HasFields(named, TraceFields)
      /\ named.recs = [met.recs EXCEPT ![met.vars[name]] = Refresh(met.recs[met.vars[name]], call)]
      /\ named.vars = met.vars /\ named.varlist = Append(met.varlist, met.vars[name])
      /\ named.currVarIndex = met.currVarIndex + 1
      /\ named.loopcounters = Bump(met.loopcounters, name[1])
      /\ named.logprob = Plus(met.logprob, Refresh(met.recs[met.vars[name]], call).logprob)
      /\ named.newlogprob = met.newlogprob
      /\ named.conditionsSatisfied = met.conditionsSatisfied
      /\ named.returnValue = met.returnValue
  <2> HIDE DEF met
  <2> QED
    BY <1>2, ReuseNamedFields
<1>7. named.oldlogprob = met.oldlogprob
  <2> HIDE DEF met
  <2> QED
    BY <1>2 DEF ReuseNamed, HasFields, TraceFields
<1>8. /\ HasFields(next, TraceFields)
      /\ next.recs = [tr.recs EXCEPT ![id] = Refresh(tr.recs[id], call)]
      /\ next.vars = tr.vars /\ next.varlist = tr.varlist
      /\ next.currVarIndex = idx + 1
      /\ next.logprob = Plus(tr.logprob, Refresh(tr.recs[id], call).logprob)
      /\ next.newlogprob = tr.newlogprob
      /\ next.conditionsSatisfied = tr.conditionsSatisfied
      /\ next.returnValue = tr.returnValue
  BY <1>1, ReuseListedFields
<1>9. next.oldlogprob = tr.oldlogprob
  BY <1>1 DEF ReuseListed, HasFields, TraceFields
<1> HIDE DEF next, met, named
<1>10. /\ HasFields(new, TraceFields)
       /\ new.recs = next.recs /\ new.vars = next.vars
       /\ new.varlist = First(next.varlist, next.currVarIndex - 1)
       /\ new.currVarIndex = next.currVarIndex /\ new.logprob = next.logprob
       /\ new.newlogprob = next.newlogprob /\ new.oldlogprob = next.oldlogprob
       /\ new.loopcounters = d
       /\ new.conditionsSatisfied = next.conditionsSatisfied
       /\ new.returnValue = next.returnValue
  BY <1>8, MetFields
<1>11. named.varlist = new.varlist
  <2>1. PICK k \in Nat : k = idx - 1
    BY <1>3
  <2>2. k < Len(tr.varlist) /\ k + 1 = idx
    BY <1>3, <2>1
  <2>3. Append(First(tr.varlist, k), tr.varlist[k + 1]) = First(tr.varlist, k + 1)
    BY <1>3, <2>2, FirstAndNext
  <2>4. named.varlist = Append(First(tr.varlist, k), tr.varlist[k + 1])
    BY <1>2, <1>4, <1>6, <2>1, <2>2
  <2>5. new.varlist = First(tr.varlist, k + 1)
    <3>1. next.currVarIndex - 1 = k + 1
      BY <1>3, <1>8, <2>1
    <3> QED
      BY <1>8, <1>10, <3>1
  <2> QED
    BY <2>3, <2>4, <2>5
<1> HIDE DEF new, d
<1>12. named = new
  <2>1. /\ named.recs = new.recs /\ named.vars = new.vars
        /\ named.currVarIndex = new.currVarIndex /\ named.logprob = new.logprob
        /\ named.newlogprob = new.newlogprob /\ named.oldlogprob = new.oldlogprob
        /\ named.loopcounters = new.loopcounters
        /\ named.conditionsSatisfied = new.conditionsSatisfied
        /\ named.returnValue = new.returnValue
    BY <1>2, <1>4, <1>6, <1>7, <1>8, <1>9, <1>10 DEF d
  <2> QED
    BY <1>6, <1>10, <1>11, <2>1, SameTrace
<1>13. GetRecord(named, name) = ListRecord(next, idx)
  BY <1>2, <1>4, <1>6, <1>8 DEF GetRecord, ListRecord
<1> QED
  BY <1>2, <1>5, <1>12, <1>13 DEF met, named, new, next, d

LEMMA NextOutline ==
  ASSUME NEW p \in Prog, NEW h \in Histories(p), NEW val, NEW o \in Outlines(p)[Len(h)],
         NEW f \in Outlined(p, o)
  PROVE  f \in Outlines(p)[Len(Append(h, val))]
<1>1. IsSequence(h)
  BY HistorySequence
<1>2. Len(h) \in Nat /\ Len(Append(h, val)) = Len(h) + 1
  BY <1>1, SequenceDomain, AppendSequence
<1>3. Outlines(p)[Len(h) + 1] = Extending(p, Outlines(p)[Len(h)])
  BY <1>2, OutlineSteps
<1> QED
  BY <1>2, <1>3 DEF Extending

(***************************************************************************)
(* A call goes on as the update has gone.                                  *)
(***************************************************************************)

\* The outline that is met so far, as the call of an execution extends it.
LEMMA MetGoesOn ==
  ASSUME NEW p \in Prog, NEW h \in Histories(p), NEW tr, NEW c, NEW s, MetSoFar(p, tr, h, c, s),
         NEW val \in Results(Computation(p, h)), Computation(p, h).op # "erp",
         NEW new, new.currVarIndex = tr.currVarIndex
  PROVE  MetSoFar(p, new, Append(h, val), c, s)
<1> DEFINE made == First(s, tr.currVarIndex - 1)
           o == [hist |-> h, counters |-> c, made |-> made]
           f == [hist |-> Append(h, val), counters |-> c, made |-> made]
<1>1. o \in Outlines(p)[Len(h)]
  BY DEF MetSoFar
<1>2. f \in Outlined(p, o)
  <2>1. o.hist = h /\ [o EXCEPT !.hist = Append(@, val)] = f
    OBVIOUS
  <2> HIDE DEF o, f
  <2> QED
    BY <2>1 DEF Outlined
<1>3. f \in Outlines(p)[Len(Append(h, val))]
  <2> HIDE DEF o, f
  <2> QED
    BY <1>1, <1>2, NextOutline
<1> QED
  BY <1>3 DEF MetSoFar

LEMMA SilentGoesOn ==
  ASSUME NEW p \in Prog, NEW h \in Histories(p), NEW val \in Results(Computation(p, h)),
         Computation(p, h).op # "erp", NEW tr, NEW A, NEW s, NEW fixed, UnderWay(p, tr, h, A, s, fixed),
         NEW new, fixed => TraceOK(new), new.recs = tr.recs, new.vars = tr.vars,
         new.varlist = tr.varlist, new.currVarIndex = tr.currVarIndex,
         Updating(tr) => Keeps(p, tr, h, new, val),
         \A c : TraceOK(tr) /\ Updating(Met(tr, c)) => Keeps(p, Met(tr, c), h, Met(new, c), val)
  PROVE  UnderWay(p, new, Append(h, val), A, s, fixed)
<1>1. CASE ~fixed
  <2>1. Freely(p, tr, h, A)
    BY <1>1 DEF UnderWay
  <2>2. Freely(p, new, Append(h, val), A)
    BY <2>1 DEF Freely, Keeps
  <2> QED
    BY <1>1, <2>2 DEF UnderWay
<1>2. CASE fixed
  <2>1. /\ KeepsStructure(p) /\ TraceOK(tr) /\ FlatListIsDatabase(tr) /\ Shapes(tr) = s /\ Planned(p, s)
        /\ \E c : MetSoFar(p, tr, h, c, s) /\ Freely(p, Met(tr, c), h, A)
    BY <1>2 DEF UnderWay, FixedAs
  <2>2. PICK c : MetSoFar(p, tr, h, c, s) /\ Freely(p, Met(tr, c), h, A)
    BY <2>1
  <2>3. FlatListIsDatabase(new) /\ Shapes(new) = s
    BY <2>1 DEF FlatListIsDatabase, Listed, Stored, GetRecord, ListRecord, Shapes
  <2>4. Freely(p, Met(new, c), Append(h, val), A)
    BY <2>1, <2>2 DEF Freely, Keeps
  <2>5. MetSoFar(p, new, Append(h, val), c, s)
    BY <2>2, MetGoesOn
  <2> QED
    BY <1>2, <2>1, <2>3, <2>4, <2>5 DEF UnderWay, FixedAs
<1> QED
  BY <1>1, <1>2

LEMMA FactorGoesOn ==
  ASSUME NEW p \in Prog, NEW h \in Histories(p), Computation(p, h).op = "factor",
         NEW tr, UpdatedOK(tr), NEW A, NEW s, NEW fixed, UnderWay(p, tr, h, A, s, fixed)
  PROVE  UnderWay(p, AddFactor(tr, Computation(p, h).num), Append(h, None), A, s, fixed)
<1>1. PICK num : num = Computation(p, h).num
  OBVIOUS
<1>2. PICK new : new = AddFactor(tr, num)
  OBVIOUS
<1>3. HasFields(tr, TraceFields)
  BY DEF UpdatedOK, TraceOK
<1>4. /\ new.recs = tr.recs /\ new.vars = tr.vars /\ new.varlist = tr.varlist
      /\ new.currVarIndex = tr.currVarIndex /\ HasFields(new, TraceFields)
  BY <1>2, <1>3 DEF AddFactor, HasFields, TraceFields
<1>5. TraceOK(new)
  BY <1>1, <1>2, FactorUpdated DEF UpdatedOK
<1>6. IsSequence(h) /\ None \in Results(Computation(p, h))
  BY HistorySequence DEF Results
<1>7. Updating(tr) => Keeps(p, tr, h, new, None)
  BY <1>1, <1>2, <1>6, FactorKeeps
<1>8. ASSUME NEW c, Updating(Met(tr, c)) PROVE Keeps(p, Met(tr, c), h, Met(new, c), None)
  <2>1. AddFactor(Met(tr, c), num) = Met(new, c)
    BY <1>2, <1>3 DEF AddFactor, Met, HasFields, TraceFields
  <2>2. PICK met : met = Met(tr, c)
    OBVIOUS
  <2>3. Keeps(p, met, h, AddFactor(met, Computation(p, h).num), None)
    BY <1>6, <1>8, <2>2, FactorKeeps
  <2> QED
    BY <1>1, <2>1, <2>2, <2>3
<1>9. UnderWay(p, new, Append(h, None), A, s, fixed)
  BY <1>4, <1>5, <1>6, <1>7, <1>8, SilentGoesOn
<1> QED
  BY <1>1, <1>2, <1>9

LEMMA ConditionGoesOn ==
  ASSUME NEW p \in Prog, NEW h \in Histories(p), Computation(p, h).op = "condition",
         NEW tr, UpdatedOK(tr), NEW A, NEW s, NEW fixed, UnderWay(p, tr, h, A, s, fixed)
  PROVE  UnderWay(p, ConditionOn(tr, Computation(p, h).holds), Append(h, None), A, s, fixed)
<1>1. PICK holds : holds = Computation(p, h).holds
  OBVIOUS
<1>2. PICK new : new = ConditionOn(tr, holds)
  OBVIOUS
<1>3. HasFields(tr, TraceFields)
  BY DEF UpdatedOK, TraceOK
<1>4. /\ new.recs = tr.recs /\ new.vars = tr.vars /\ new.varlist = tr.varlist
      /\ new.currVarIndex = tr.currVarIndex /\ HasFields(new, TraceFields)
  BY <1>2, <1>3 DEF ConditionOn, HasFields, TraceFields
<1>5. Computation(p, h).holds \in BOOLEAN
  BY CallTypes
<1>6. TraceOK(new)
  BY <1>1, <1>2, <1>5, ConditionUpdated DEF UpdatedOK
<1>7. IsSequence(h) /\ None \in Results(Computation(p, h))
  BY HistorySequence DEF Results
<1>8. Updating(tr) => Keeps(p, tr, h, new, None)
  BY <1>1, <1>2, <1>5, <1>7, ConditionKeeps
<1>9. ASSUME NEW c, Updating(Met(tr, c)) PROVE Keeps(p, Met(tr, c), h, Met(new, c), None)
  <2>1. ConditionOn(Met(tr, c), holds) = Met(new, c)
    <3>1. PICK met : met = Met(tr, c)
      OBVIOUS
    <3>2. PICK next : next = Met(new, c)
      OBVIOUS
    <3>3. /\ HasFields(met, TraceFields) /\ met.recs = tr.recs /\ met.vars = tr.vars
          /\ met.varlist = First(tr.varlist, tr.currVarIndex - 1)
          /\ met.currVarIndex = tr.currVarIndex /\ met.logprob = tr.logprob
          /\ met.newlogprob = tr.newlogprob /\ met.oldlogprob = tr.oldlogprob
          /\ met.loopcounters = c /\ met.conditionsSatisfied = tr.conditionsSatisfied
          /\ met.returnValue = tr.returnValue
      BY <1>3, <3>1, MetFields
    <3>4. /\ HasFields(next, TraceFields) /\ next.recs = new.recs /\ next.vars = new.vars
          /\ next.varlist = First(new.varlist, new.currVarIndex - 1)
          /\ next.currVarIndex = new.currVarIndex /\ next.logprob = new.logprob
          /\ next.newlogprob = new.newlogprob /\ next.oldlogprob = new.oldlogprob
          /\ next.loopcounters = c /\ next.conditionsSatisfied = new.conditionsSatisfied
          /\ next.returnValue = new.returnValue
      BY <1>4, <3>2, MetFields
    <3>5. \A a : HasFields(a, TraceFields) =>
            LET b == ConditionOn(a, holds)
            IN  /\ HasFields(b, TraceFields) /\ b.recs = a.recs /\ b.vars = a.vars
                /\ b.varlist = a.varlist /\ b.currVarIndex = a.currVarIndex
                /\ b.logprob = a.logprob /\ b.newlogprob = a.newlogprob
                /\ b.oldlogprob = a.oldlogprob /\ b.loopcounters = a.loopcounters
                /\ b.conditionsSatisfied = (a.conditionsSatisfied /\ holds)
                /\ b.returnValue = a.returnValue
      BY DEF ConditionOn, HasFields, TraceFields
    <3>6. PICK b : b = ConditionOn(met, holds)
      OBVIOUS
    <3>7. b = next
      BY <1>2, <1>3, <3>3, <3>4, <3>5, <3>6, SameTrace
    <3> QED
      BY <3>1, <3>2, <3>6, <3>7
  <2>2. PICK met : met = Met(tr, c)
    OBVIOUS
  <2>3. Keeps(p, met, h, ConditionOn(met, Computation(p, h).holds), None)
    BY <1>5, <1>7, <1>9, <2>2, ConditionKeeps
  <2> QED
    BY <1>1, <2>1, <2>2, <2>3
<1>10. UnderWay(p, new, Append(h, None), A, s, fixed)
  BY <1>4, <1>6, <1>7, <1>8, <1>9, SilentGoesOn
<1> QED
  BY <1>1, <1>2, <1>10

LEMMA NestedGoesOn ==
  ASSUME NEW p \in Prog, NEW h \in Histories(p), Computation(p, h).op = "nested",
         NEW val \in Computation(p, h).outcomes,
         NEW tr, UpdatedOK(tr), NEW A, NEW s, NEW fixed, UnderWay(p, tr, h, A, s, fixed)
  PROVE  UnderWay(p, tr, Append(h, val), A, s, fixed)
<1>1. IsSequence(h) /\ val \in Results(Computation(p, h))
  BY HistorySequence DEF Results
<1>2. Updating(tr) => Keeps(p, tr, h, tr, val)
  BY <1>1, NestedKeeps
<1>3. ASSUME NEW c, Updating(Met(tr, c)) PROVE Keeps(p, Met(tr, c), h, Met(tr, c), val)
  BY <1>1, <1>3, NestedKeeps
<1> QED
  BY <1>1, <1>2, <1>3, SilentGoesOn DEF UpdatedOK

\* A record that is taken from the flat list continues the outline that is met.
LEMMA MetNext ==
  ASSUME NEW p \in Prog, NEW h \in Histories(p), Computation(p, h).op = "erp",
         NEW tr, NEW c, NEW s, IsSequence(s), MetSoFar(p, tr, h, c, s),
         tr.currVarIndex \in 1..Len(s), NEW new, new.currVarIndex = tr.currVarIndex + 1,
         NEW val \in Value,
         IsConditioned(Computation(p, h)) => val = Computation(p, h).conditionedValue,
         s[tr.currVarIndex] = Made(Computation(p, h), c, val)
  PROVE  MetSoFar(p, new, Append(h, val), Bump(c, CurrentName(Computation(p, h), c)[1]), s)
<1>1. PICK call : call = Computation(p, h)
  OBVIOUS
<1>2. PICK k \in Nat : k = tr.currVarIndex - 1
  OBVIOUS
<1>3. /\ tr.currVarIndex = k + 1 /\ k < Len(s) /\ new.currVarIndex - 1 = k + 1
  BY <1>2, SequenceDomain
<1> DEFINE made == First(s, k)
           d == Bump(c, CounterKey(call, c))
           o == [hist |-> h, counters |-> c, made |-> made]
           f == [hist |-> Append(h, val), counters |-> d, made |-> Append(made, Made(call, c, val))]
<1>4. o \in Outlines(p)[Len(h)]
  BY <1>2 DEF MetSoFar
<1>5. f \in Outlined(p, o)
  <2>1. o.hist = h /\ o.counters = c /\ o.made = made
    OBVIOUS
  <2>2. f = [hist |-> Append(o.hist, val), counters |-> Bump(o.counters, CounterKey(call, o.counters)),
             made |-> Append(o.made, Made(call, o.counters, val))]
    BY <2>1
  <2> HIDE DEF o, f
  <2> QED
    BY <1>1, <2>1, <2>2 DEF Outlined
<1>6. Append(made, Made(call, c, val)) = First(s, k + 1)
  BY <1>1, <1>3, FirstAndNext
<1>7. CurrentName(call, c)[1] = CounterKey(call, c)
  BY DEF CurrentName
<1>8. f \in Outlines(p)[Len(Append(h, val))]
  <2> HIDE DEF o, f
  <2> QED
    BY <1>4, <1>5, NextOutline
<1> QED
  BY <1>1, <1>3, <1>6, <1>7, <1>8 DEF MetSoFar

LEMMA ListedGoesOn ==
  ASSUME NEW p \in Prog, NEW h \in Histories(p), Computation(p, h).op = "erp",
         NEW tr, NEW A, NEW s, NEW fixed, UnderWay(p, tr, h, A, s, fixed), VarIsInFlatList(tr)
  PROVE  LET new == ReuseListed(tr, Computation(p, h))
         IN  UnderWay(p, new, Append(h, ListRecord(new, tr.currVarIndex).val), A, s, fixed)
<1>1. PICK call : call = Computation(p, h)
  OBVIOUS
<1>2. fixed
  <2> SUFFICES ASSUME ~fixed PROVE FALSE
    OBVIOUS
  <2>1. tr.currVarIndex = Len(tr.varlist) + 1 /\ TraceOK(tr)
    BY DEF UnderWay, Freely, Updating, UpdatedOK, Listing
  <2>2. Len(tr.varlist) \in Nat
    BY <2>1 DEF TraceOK
  <2> QED
    BY <2>1, <2>2 DEF VarIsInFlatList
<1>3. /\ KeepsStructure(p) /\ TraceOK(tr) /\ FlatListIsDatabase(tr) /\ Shapes(tr) = s /\ Planned(p, s)
      /\ \E c : MetSoFar(p, tr, h, c, s) /\ Freely(p, Met(tr, c), h, A)
  BY <1>2 DEF UnderWay, FixedAs
<1>4. PICK c : MetSoFar(p, tr, h, c, s) /\ Freely(p, Met(tr, c), h, A)
  BY <1>3
<1>5. PICK idx : idx = tr.currVarIndex
  OBVIOUS
<1>6. PICK rec : rec = ListRecord(tr, idx)
  OBVIOUS
<1>7. PICK name : name = CurrentName(call, c)
  OBVIOUS
<1>8. /\ rec.name = name /\ rec.erp = call.erp
      /\ rec.structural = call.structural /\ rec.conditioned = IsConditioned(call)
      /\ s[idx] = ChoiceMade(rec.name, rec)
  BY <1>1, <1>3, <1>4, <1>5, <1>6, <1>7, FixedTurn
<1>9. call \in ErpCalls
  BY <1>1, CallTypes
<1>10. PICK new : new = ReuseListed(tr, call)
  OBVIOUS
<1>11. PICK val : val = ListRecord(new, idx).val
  OBVIOUS
<1>12. /\ TraceOK(new) /\ FlatListIsDatabase(new) /\ Shapes(new) = s
       /\ val = IF IsConditioned(call) THEN call.conditionedValue ELSE rec.val
       /\ val \in Value
  BY <1>3, <1>5, <1>6, <1>8, <1>9, <1>10, <1>11, ListedStays
<1>13. PICK met : met = Met(tr, c)
  OBVIOUS
<1>14. PICK d : d = Bump(c, name[1])
  OBVIOUS
<1>15. /\ Matches(met, CurrentName(call, met.loopcounters), call)
       /\ CurrentName(call, met.loopcounters) = name
       /\ ReuseNamed(met, call) = Met(new, d)
       /\ GetRecord(ReuseNamed(met, call), name) = ListRecord(new, idx)
  BY <1>3, <1>5, <1>6, <1>7, <1>8, <1>9, <1>10, <1>13, <1>14, ListedIsNamed
<1>16. Freely(p, Met(new, d), Append(h, val), A)
  <2>1. Updating(met) /\ Follows(p, met, h) /\ Moves(p, met, h, A) /\ IsSequence(h)
    BY <1>4, <1>13, HistorySequence DEF Freely
  <2>2. val = GetRecord(ReuseNamed(met, Computation(p, h)),
                        CurrentName(Computation(p, h), met.loopcounters)).val
    BY <1>1, <1>11, <1>15
  <2>3. Keeps(p, met, h, ReuseNamed(met, Computation(p, h)), val)
    BY <1>1, <1>9, <1>15, <2>1, <2>2, ReuseKeeps
  <2>4. Keeps(p, met, h, Met(new, d), val)
    BY <1>1, <1>15, <2>3
  <2> QED
    BY <2>1, <2>4 DEF Keeps, Freely
<1>17. MetSoFar(p, new, Append(h, val), d, s)
  <2>1. s[idx] = Made(call, c, val)
    <3>1. Shape(call, c) = [name |-> rec.name, erp |-> rec.erp, structural |-> rec.structural,
                            conditioned |-> rec.conditioned]
      BY <1>7, <1>8 DEF Shape
    <3>2. IsFree(call.structural, IsConditioned(call)) => val = rec.val
      BY <1>12 DEF IsFree
    <3> QED
      BY <1>8, <3>1, <3>2 DEF Made, ChoiceMade
  <2>2. IsSequence(s) /\ idx \in 1..Len(s)
    BY <1>3, <1>5, ShapesFields DEF VarIsInFlatList
  <2>3. new.currVarIndex = tr.currVarIndex + 1
    BY <1>3, <1>10, ReuseListedFields DEF TraceOK
  <2>4. IsConditioned(call) => val = call.conditionedValue
    BY <1>12
  <2> QED
    BY <1>1, <1>4, <1>5, <1>7, <1>12, <1>14, <2>1, <2>2, <2>3, <2>4, MetNext
<1>18. UnderWay(p, new, Append(h, val), A, s, fixed)
  BY <1>2, <1>3, <1>12, <1>16, <1>17 DEF UnderWay, FixedAs
<1> QED
  BY <1>1, <1>5, <1>10, <1>11, <1>18

\* With the structure fixed, every lookup is in the flat list.
LEMMA NotListed ==
  ASSUME NEW p \in Prog, NEW h \in Histories(p), Computation(p, h).op = "erp",
         NEW tr, NEW A, NEW s, NEW fixed, UnderWay(p, tr, h, A, s, fixed), ~VarIsInFlatList(tr)
  PROVE  ~fixed
<1> SUFFICES ASSUME fixed PROVE FALSE
  OBVIOUS
<1>1. /\ KeepsStructure(p) /\ TraceOK(tr) /\ Shapes(tr) = s /\ Planned(p, s)
      /\ \E c : MetSoFar(p, tr, h, c, s)
  BY DEF UnderWay, FixedAs
<1>2. PICK c : MetSoFar(p, tr, h, c, s)
  BY <1>1
<1> QED
  BY <1>1, <1>2, FixedTurn

LEMMA NamedGoesOn ==
  ASSUME NEW p \in Prog, NEW h \in Histories(p), Computation(p, h).op = "erp",
         NEW tr, NEW A, NEW s, NEW fixed, UnderWay(p, tr, h, A, s, fixed), ~VarIsInFlatList(tr),
         Matches(tr, CurrentName(Computation(p, h), tr.loopcounters), Computation(p, h)),
         NEW val,
         val = GetRecord(ReuseNamed(tr, Computation(p, h)),
                         CurrentName(Computation(p, h), tr.loopcounters)).val
  PROVE  UnderWay(p, ReuseNamed(tr, Computation(p, h)), Append(h, val), A, s, fixed)
<1>1. ~fixed /\ Computation(p, h) \in ErpCalls /\ IsSequence(h)
  BY NotListed, CallTypes, HistorySequence
<1>2. Freely(p, tr, h, A)
  BY <1>1 DEF UnderWay
<1>3. Keeps(p, tr, h, ReuseNamed(tr, Computation(p, h)), val)
  BY <1>1, <1>2, ReuseKeeps DEF Freely
<1> QED
  BY <1>1, <1>2, <1>3 DEF UnderWay, Freely, Keeps

LEMMA NewGoesOn ==
  ASSUME NEW p \in Prog, NEW h \in Histories(p), Computation(p, h).op = "erp",
         NEW tr, NEW A, NEW s, NEW fixed, UnderWay(p, tr, h, A, s, fixed), ~VarIsInFlatList(tr),
         ~Matches(tr, CurrentName(Computation(p, h), tr.loopcounters), Computation(p, h)),
         NEW val \in InitialValues(Computation(p, h))
  PROVE  UnderWay(p, Create(tr, Computation(p, h), val), Append(h, val), A, s, fixed)
<1>1. ~fixed /\ Computation(p, h) \in ErpCalls /\ IsSequence(h)
  BY NotListed, CallTypes, HistorySequence
<1>2. Freely(p, tr, h, A)
  BY <1>1 DEF UnderWay
<1>3. val \in Value
  BY <1>1, ErpAssumption DEF InitialValues, IsConditioned, ErpCalls
<1>4. Keeps(p, tr, h, Create(tr, Computation(p, h), val), val)
  BY <1>1, <1>2, <1>3, CreateKeeps DEF Freely
<1> QED
  BY <1>1, <1>2, <1>4 DEF UnderWay, Freely, Keeps

(***************************************************************************)
(* The beginning and the end of an update.                                 *)
(***************************************************************************)

LEMMA UpdateBegins ==
  ASSUME NEW p \in Prog, NEW tr, Fixable(p, tr), NEW fixed \in BOOLEAN, fixed => KeepsStructure(p)
  PROVE  UnderWay(p, BeginUpdate(tr, fixed), <<>>, ChoicesOf(tr), Shapes(tr), fixed)
<1>1. TraceOK(tr) /\ FlatListIsDatabase(tr) /\ NamedRecords(tr) /\ Cached(tr) /\ Planned(p, Shapes(tr))
  BY DEF Fixable, FlatListIsDatabase, NamedRecords
<1>2. PICK named : named = BeginUpdate(tr, FALSE)
  OBVIOUS
<1>3. Freely(p, named, <<>>, ChoicesOf(tr))
  BY <1>1, <1>2, BegunAgain DEF Freely
<1>4. CASE ~fixed
  <2>1. fixed = FALSE
    BY <1>4
  <2> QED
    BY <1>2, <1>3, <2>1 DEF UnderWay
<1>5. CASE fixed
  <2>1. fixed = TRUE
    BY <1>5
  <2>2. PICK new : new = BeginUpdate(tr, TRUE)
    OBVIOUS
  <2>3. HasFields(tr, TraceFields)
    BY <1>1 DEF TraceOK
  <2>4. /\ HasFields(new, TraceFields)
        /\ new.recs = [id \in DOMAIN tr.recs |->
                         IF id \in Stored(tr) THEN [tr.recs[id] EXCEPT !.active = FALSE]
                                              ELSE tr.recs[id]]
        /\ new.vars = tr.vars /\ new.varlist = tr.varlist
        /\ new.currVarIndex = 1 /\ new.loopcounters = <<>>
        /\ new.logprob = 0 /\ new.newlogprob = 0 /\ new.oldlogprob = tr.oldlogprob
        /\ new.conditionsSatisfied = TRUE /\ new.returnValue = tr.returnValue
    BY <2>2, <2>3 DEF BeginUpdate, HasFields, TraceFields
  <2>5. /\ HasFields(named, TraceFields)
        /\ named.recs = new.recs
        /\ named.vars = tr.vars /\ named.varlist = <<>>
        /\ named.currVarIndex = 1 /\ named.loopcounters = <<>>
        /\ named.logprob = 0 /\ named.newlogprob = 0 /\ named.oldlogprob = tr.oldlogprob
        /\ named.conditionsSatisfied = TRUE /\ named.returnValue = tr.returnValue
    BY <1>2, <2>3, <2>4 DEF BeginUpdate, HasFields, TraceFields
  <2>6. TraceOK(new)
    BY <1>1, <2>2, BeginUpdateOK
  <2>7. \A id \in DOMAIN tr.recs :
          /\ new.recs[id].name = tr.recs[id].name /\ new.recs[id].erp = tr.recs[id].erp
          /\ new.recs[id].structural = tr.recs[id].structural
          /\ new.recs[id].conditioned = tr.recs[id].conditioned
          /\ new.recs[id].val = tr.recs[id].val
    <3>1. \A id \in DOMAIN tr.recs : RecordOK(tr.recs[id])
      BY <1>1 DEF TraceOK
    <3>2. \A rec : RecordOK(rec) =>
            LET copy == [rec EXCEPT !.active = FALSE]
            IN  /\ copy.name = rec.name /\ copy.erp = rec.erp /\ copy.structural = rec.structural
                /\ copy.conditioned = rec.conditioned /\ copy.val = rec.val
      BY DEF RecordOK, HasFields, RecordFields
    <3> SUFFICES ASSUME NEW id \in DOMAIN tr.recs
                 PROVE  /\ new.recs[id].name = tr.recs[id].name /\ new.recs[id].erp = tr.recs[id].erp
                        /\ new.recs[id].structural = tr.recs[id].structural
                        /\ new.recs[id].conditioned = tr.recs[id].conditioned
                        /\ new.recs[id].val = tr.recs[id].val
      OBVIOUS
    <3>3. PICK rec : rec = tr.recs[id]
      OBVIOUS
    <3>4. new.recs[id] = [rec EXCEPT !.active = FALSE] \/ new.recs[id] = rec
      BY <2>4, <3>3
    <3> QED
      BY <3>1, <3>2, <3>3, <3>4
  <2>8. /\ \A k \in DOMAIN tr.varlist : tr.varlist[k] \in DOMAIN tr.recs
        /\ \A n \in DOMAIN tr.vars : tr.vars[n] \in DOMAIN tr.recs
    BY <1>1 DEF TraceOK
  <2>9. Shapes(new) = Shapes(tr)
    <3>1. DOMAIN new.varlist = DOMAIN tr.varlist
      BY <2>4
    <3>2. \A k \in DOMAIN tr.varlist :
           /\ ListRecord(new, k).name = ListRecord(tr, k).name
           /\ ListRecord(new, k).erp = ListRecord(tr, k).erp
           /\ ListRecord(new, k).structural = ListRecord(tr, k).structural
           /\ ListRecord(new, k).conditioned = ListRecord(tr, k).conditioned
           /\ ListRecord(new, k).val = ListRecord(tr, k).val
      BY <2>4, <2>7, <2>8 DEF ListRecord
    <3> QED
      BY <3>1, <3>2, SameShapes
  <2>10. FlatListIsDatabase(new)
    <3>1. Listed(new) = Listed(tr) /\ Stored(new) = Stored(tr)
      BY <2>4 DEF Listed, Stored
    <3>2. \A n \in DOMAIN new.vars : GetRecord(new, n).name = n
      BY <1>1, <2>4, <2>7, <2>8 DEF NamedRecords, GetRecord
    <3>3. \A j, k \in DOMAIN new.varlist : new.varlist[j] = new.varlist[k] => j = k
      BY <1>1, <2>4 DEF FlatListIsDatabase
    <3>4. Listed(tr) = Stored(tr)
      BY <1>1 DEF FlatListIsDatabase
    <3> QED
      BY <3>1, <3>2, <3>3, <3>4 DEF FlatListIsDatabase
  <2>11. First(tr.varlist, 0) = <<>> /\ First(Shapes(tr), 0) = <<>>
    BY DEF First
  <2>12. PICK met : met = Met(new, <<>>)
    OBVIOUS
  <2>13. met = named
    <3>1. /\ HasFields(met, TraceFields) /\ met.recs = new.recs /\ met.vars = new.vars
          /\ met.varlist = First(new.varlist, new.currVarIndex - 1)
          /\ met.currVarIndex = new.currVarIndex /\ met.logprob = new.logprob
          /\ met.newlogprob = new.newlogprob /\ met.oldlogprob = new.oldlogprob
          /\ met.loopcounters = <<>> /\ met.conditionsSatisfied = new.conditionsSatisfied
          /\ met.returnValue = new.returnValue
      BY <2>4, <2>12, MetFields
    <3>2. new.currVarIndex - 1 = 0
      BY <2>4
    <3>3. met.varlist = <<>>
      BY <2>4, <2>11, <3>1, <3>2
    <3>4. /\ met.recs = named.recs /\ met.vars = named.vars /\ met.varlist = named.varlist
          /\ met.currVarIndex = named.currVarIndex /\ met.logprob = named.logprob
          /\ met.newlogprob = named.newlogprob /\ met.oldlogprob = named.oldlogprob
          /\ met.loopcounters = named.loopcounters
          /\ met.conditionsSatisfied = named.conditionsSatisfied
          /\ met.returnValue = named.returnValue
      BY ONLY <2>4, <2>5, <3>1, <3>3
    <3> QED
      BY ONLY <2>5, <3>1, <3>4, SameTrace
  <2>14. MetSoFar(p, new, <<>>, <<>>, Shapes(tr))
    <3>1. new.currVarIndex - 1 = 0 /\ Len(<<>>) = 0
      BY <2>4
    <3>2. NoOutline \in Outlines(p)[0]
      BY OutlineSteps
    <3> QED
      BY <2>11, <3>1, <3>2 DEF MetSoFar, NoOutline
  <2>15. Freely(p, Met(new, <<>>), <<>>, ChoicesOf(tr))
    BY <1>3, <2>12, <2>13
  <2>16. FixedAs(p, new, <<>>, ChoicesOf(tr), Shapes(tr))
    BY <1>1, <2>6, <2>9, <2>10, <2>14, <2>15 DEF FixedAs
  <2> QED
    BY <1>5, <2>1, <2>2, <2>16 DEF UnderWay
<1> QED
  BY <1>4, <1>5

LEMMA AttemptBegins ==
  ASSUME NEW p \in Prog, NEW tr, TraceOK(tr), NEW s
  PROVE  UnderWay(p, BeginUpdate(ClearVars(tr), FALSE), <<>>, NoChoices, s, FALSE)
BY BegunAfresh DEF UnderWay, Freely

\* When a program that keeps its structure returns, the flat list has been met
\* to its end.
LEMMA FixedReturn ==
  ASSUME NEW p \in Prog, KeepsStructure(p), NEW h \in Histories(p), Computation(p, h).op = "return",
         NEW tr, TraceOK(tr), NEW s, Shapes(tr) = s, Planned(p, s), NEW c, MetSoFar(p, tr, h, c, s)
  PROVE  First(tr.varlist, tr.currVarIndex - 1) = tr.varlist
<1> DEFINE k == tr.currVarIndex - 1
           o == [hist |-> h, counters |-> c, made |-> First(s, k)]
<1>1. /\ IsSequence(s) /\ Len(s) = Len(tr.varlist) /\ Len(s) \in Nat
      /\ tr.currVarIndex \in 1..Len(s) + 1
      /\ IsSequence(tr.varlist)
  BY ShapesFields
<1>2. k \in 0..Len(s) /\ tr.currVarIndex = k + 1
  BY <1>1
<1>3. o \in Outlines(p)[Len(h)] /\ Len(h) \in Nat
  <2>1. IsSequence(h)
    BY HistorySequence
  <2> QED
    BY <2>1, SequenceDomain DEF MetSoFar
<1>4. [made |-> First(s, k), next |-> {}] \in Turns(p)
  <2>1. o.hist = h /\ o.made = First(s, k) /\ Comes(p, o) = {}
    BY DEF Comes
  <2> HIDE DEF o
  <2>2. [made |-> o.made, next |-> Comes(p, o)] \in Turns(p)
    BY <1>3, <2>1, OutlineTurns
  <2> QED
    BY <2>1, <2>2
<1> HIDE DEF o, k
<1>5. k = Len(s)
  <2> SUFFICES ASSUME k # Len(s) PROVE FALSE
    OBVIOUS
  <2>1. k \in 0..Len(s) - 1
    BY <1>1, <1>2
  <2>2. [made |-> First(s, k), next |-> {s[k + 1].shape}] \in Turns(p)
    BY <2>1 DEF Planned, Turned
  <2>3. \A a, b \in Turns(p) : a.made = b.made => a.next = b.next
    BY DEF KeepsStructure
  <2>4. {s[k + 1].shape} = {}
    BY <1>4, <2>2, <2>3
  <2> QED
    BY <2>4
<1>6. First(tr.varlist, k) = tr.varlist
  BY <1>1, <1>5, FirstOfAppend
<1> QED
  BY <1>6 DEF k

Kept(tr) == [n \in ActiveNames(tr) |-> tr.vars[n]]
LeftLogprob(tr) == SumLogprobs(tr, DOMAIN tr.vars \ ActiveNames(tr))
LEMMA EndUpdateIs ==
  ASSUME NEW tr, HasFields(tr, TraceFields), NEW val
  PROVE  LET new == EndUpdate(tr, val)
         IN  /\ HasFields(new, TraceFields) /\ new.recs = tr.recs
             /\ new.vars = Kept(tr) /\ new.varlist = tr.varlist
             /\ new.currVarIndex = tr.currVarIndex /\ new.logprob = tr.logprob
             /\ new.newlogprob = tr.newlogprob
             /\ new.oldlogprob = LeftLogprob(tr)
             /\ new.loopcounters = <<>> /\ new.conditionsSatisfied = tr.conditionsSatisfied
             /\ new.returnValue = val
BY DEF EndUpdate, Kept, LeftLogprob, HasFields, TraceFields

LEMMA UpdateEnds ==
  ASSUME NEW p \in Prog, NEW h \in Histories(p), Computation(p, h).op = "return",
         NEW tr, NEW A, NEW s, NEW fixed, UnderWay(p, tr, h, A, s, fixed)
  PROVE  LET new == EndUpdate(tr, Computation(p, h).val)
         IN  Held(p, new) /\ Reaches(p, new, A) /\ (fixed => Shapes(new) = s)
<1>1. PICK val : val = Computation(p, h).val
  OBVIOUS
<1>2. IsSequence(h)
  BY HistorySequence
<1>3. ASSUME NEW named, Freely(p, named, h, A)
      PROVE  Held(p, EndUpdate(named, val)) /\ Reaches(p, EndUpdate(named, val), A)
  BY <1>1, <1>2, <1>3, Ended DEF Freely
<1>4. CASE ~fixed
  <2>1. Freely(p, tr, h, A)
    BY <1>4 DEF UnderWay
  <2> QED
    BY <1>1, <1>3, <1>4, <2>1
<1>5. CASE fixed
  <2>1. /\ KeepsStructure(p) /\ TraceOK(tr) /\ Shapes(tr) = s /\ Planned(p, s)
        /\ \E c : MetSoFar(p, tr, h, c, s) /\ Freely(p, Met(tr, c), h, A)
    BY <1>5 DEF UnderWay, FixedAs
  <2>2. PICK c : MetSoFar(p, tr, h, c, s) /\ Freely(p, Met(tr, c), h, A)
    BY <2>1
  <2>3. PICK met : met = Met(tr, c)
    OBVIOUS
  <2>4. HasFields(tr, TraceFields)
    BY <2>1 DEF TraceOK
  <2>5. /\ HasFields(met, TraceFields) /\ met.recs = tr.recs /\ met.vars = tr.vars
        /\ met.varlist = First(tr.varlist, tr.currVarIndex - 1)
        /\ met.currVarIndex = tr.currVarIndex /\ met.logprob = tr.logprob
        /\ met.newlogprob = tr.newlogprob /\ met.oldlogprob = tr.oldlogprob
        /\ met.conditionsSatisfied = tr.conditionsSatisfied
        /\ met.returnValue = tr.returnValue
    BY <2>3, <2>4, MetFields
  <2>6. met.varlist = tr.varlist
    BY <2>1, <2>2, <2>5, FixedReturn
  <2>7. \A n : GetRecord(met, n) = GetRecord(tr, n)
    BY <2>5 DEF GetRecord
  <2>8. ActiveNames(met) = ActiveNames(tr)
    BY <2>5, <2>7 DEF ActiveNames
  <2>9. \A S : SumLogprobs(met, S) = SumLogprobs(tr, S)
    BY <2>5 DEF SumLogprobs, GetRecord
  <2>10. PICK a : a = EndUpdate(met, val)
    OBVIOUS
  <2>11. PICK b : b = EndUpdate(tr, val)
    OBVIOUS
  <2>12. /\ HasFields(a, TraceFields) /\ a.recs = met.recs
         /\ a.vars = Kept(met) /\ a.varlist = met.varlist
         /\ a.currVarIndex = met.currVarIndex /\ a.logprob = met.logprob
         /\ a.newlogprob = met.newlogprob
         /\ a.oldlogprob = LeftLogprob(met)
         /\ a.loopcounters = <<>> /\ a.conditionsSatisfied = met.conditionsSatisfied
         /\ a.returnValue = val
    BY ONLY <2>5, <2>10, EndUpdateIs
  <2>13. /\ HasFields(b, TraceFields) /\ b.recs = tr.recs
         /\ b.vars = Kept(tr) /\ b.varlist = tr.varlist
         /\ b.currVarIndex = tr.currVarIndex /\ b.logprob = tr.logprob
         /\ b.newlogprob = tr.newlogprob
         /\ b.oldlogprob = LeftLogprob(tr)
         /\ b.loopcounters = <<>> /\ b.conditionsSatisfied = tr.conditionsSatisfied
         /\ b.returnValue = val
    BY ONLY <2>4, <2>11, EndUpdateIs
  <2>14. a.vars = b.vars /\ a.oldlogprob = b.oldlogprob
    BY <2>5, <2>8, <2>9, <2>12, <2>13 DEF Kept, LeftLogprob
  <2>15. a = b
    BY <2>5, <2>6, <2>12, <2>13, <2>14, SameTrace
  <2>16. Held(p, b) /\ Reaches(p, b, A)
    BY <1>3, <2>2, <2>3, <2>10, <2>15
  <2>17. Shapes(b) = s
    BY <2>1, <2>13 DEF Shapes, ListRecord
  <2> QED
    BY <1>1, <2>11, <2>16, <2>17
<1> QED
  BY <1>4, <1>5

(***************************************************************************)
(* A rerun of a program without nested queries, from the choices of an     *)
(* execution, is that execution.                                           *)
(***************************************************************************)

LEMMA SameRerun ==
  ASSUME NEW p \in Prog, NestsNothing(p), NEW A, Assigns(A),
         NEW e0 \in ExecutionsFrom(p, A), e0.choices = A, NEW f0 \in ExecutionsFrom(p, A)
  PROVE  /\ e0.choices = f0.choices /\ e0.order = f0.order /\ e0.logprob = f0.logprob
         /\ e0.holds = f0.holds /\ e0.returns = f0.returns
<1>1. PICK n \in Nat : \E e \in After(p, A)[n] :
        /\ Computation(p, e.hist).op = "return" /\ e0.returns = Computation(p, e.hist).val
        /\ e0.choices = e.choices /\ e0.order = e.order
        /\ e0.logprob = e.logprob /\ e0.holds = e.holds
  BY ReturnedFrom
<1>2. PICK e \in After(p, A)[n] :
        /\ Computation(p, e.hist).op = "return" /\ e0.returns = Computation(p, e.hist).val
        /\ e0.choices = e.choices /\ e0.order = e.order
        /\ e0.logprob = e.logprob /\ e0.holds = e.holds
  BY <1>1
<1>3. PICK m \in Nat : \E f \in After(p, A)[m] :
        /\ Computation(p, f.hist).op = "return" /\ f0.returns = Computation(p, f.hist).val
        /\ f0.choices = f.choices /\ f0.order = f.order
        /\ f0.logprob = f.logprob /\ f0.holds = f.holds
  BY ReturnedFrom
<1>4. PICK f \in After(p, A)[m] :
        /\ Computation(p, f.hist).op = "return" /\ f0.returns = Computation(p, f.hist).val
        /\ f0.choices = f.choices /\ f0.order = f.order
        /\ f0.logprob = f.logprob /\ f0.holds = f.holds
  BY <1>3
<1>5. Within(e, A)
  BY <1>2 DEF Within
\* A returned execution does not go on.
<1>6. \A k \in Nat : After(p, A)[k + 1] = UNION {Continuations(p, A, d) : d \in After(p, A)[k]}
  BY AfterSteps DEF Extended
<1>7. Continuations(p, A, e) = {} /\ Continuations(p, A, f) = {}
  BY <1>2, <1>4 DEF Continuations
<1>8. e = f
  <2>1. \A k \in 0..n : \A d, g \in After(p, A)[k] : d = g /\ Within(d, A)
    BY <1>5, OneExecution
  <2>2. CASE m = n
    BY <2>1, <2>2
  <2>3. CASE m < n
    <3>1. m \in 0..n /\ m + 1 \in 0..n
      BY <2>3
    <3>2. After(p, A)[m + 1] = {}
      BY <1>6, <1>7, <2>1, <3>1
    <3> QED
      BY <3>1, <3>2, Nonempty
  <2>4. CASE n < m
    <3>1. After(p, A)[n + 1] = {}
      BY <1>6, <1>7, <2>1
    <3> QED
      BY <2>4, <3>1, Nonempty
  <2> QED
    BY <2>2, <2>3, <2>4
<1> QED
  BY <1>2, <1>4, <1>8

(***************************************************************************)
(* Two executions of a program, compared by their choices.                 *)
(***************************************************************************)

\* The same choices, with the same values where these may change the structure.
SameStructure(A, B) ==
  /\ DOMAIN A = DOMAIN B
  /\ \A n \in DOMAIN A :
       /\ A[n].erp = B[n].erp /\ A[n].structural = B[n].structural
       /\ A[n].conditioned = B[n].conditioned
       /\ IsFree(A[n].structural, A[n].conditioned) => A[n].val = B[n].val

\* B keeps the values that A has for structural choices, but for the choice name.
KeepsStructural(A, B, name) ==
  \A m \in (DOMAIN A \cap DOMAIN B) \ {name} :
    A[m].structural = TRUE /\ ~B[m].conditioned => B[m].val = A[m].val

LEMMA ChoiceMadeTells ==
  ASSUME NEW m, NEW c, NEW n, NEW d, ChoiceMade(m, c) = ChoiceMade(n, d)
  PROVE  /\ m = n /\ c.erp = d.erp /\ c.structural = d.structural /\ c.conditioned = d.conditioned
         /\ IsFree(c.structural, c.conditioned) => c.val = d.val
<1>1. /\ ChoiceMade(m, c).shape = [name |-> m, erp |-> c.erp, structural |-> c.structural,
                                   conditioned |-> c.conditioned]
      /\ ChoiceMade(n, d).shape = [name |-> n, erp |-> d.erp, structural |-> d.structural,
                                   conditioned |-> d.conditioned]
      /\ ChoiceMade(m, c).val = IF IsFree(c.structural, c.conditioned) THEN c.val ELSE None
      /\ ChoiceMade(n, d).val = IF IsFree(d.structural, d.conditioned) THEN d.val ELSE None
  BY DEF ChoiceMade
<1>2. m = n /\ c.erp = d.erp /\ c.structural = d.structural /\ c.conditioned = d.conditioned
  BY <1>1
<1> QED
  BY <1>1, <1>2

LEMMA MadeAt ==
  ASSUME NEW order, NEW A, Lists(order, A)
  PROVE  /\ IsSequence(MadeOf(order, A)) /\ Len(MadeOf(order, A)) = Len(order)
         /\ Len(order) \in Nat /\ DOMAIN order = 1..Len(order)
         /\ \A k \in 1..Len(order) : MadeOf(order, A)[k] = ChoiceMade(order[k], A[order[k]])
<1>1. Len(order) \in Nat /\ DOMAIN order = 1..Len(order)
  BY SequenceDomain DEF Lists
<1>2. IsSequence(MadeOf(order, A)) /\ Len(MadeOf(order, A)) = Len(order)
  <2>1. MadeOf(order, A) = [k \in 1..Len(order) |-> ChoiceMade(order[k], A[order[k]])]
    BY <1>1 DEF MadeOf
  <2>2. ASSUME NEW s, NEW n \in Nat, DOMAIN s = 1..n, s = [k \in DOMAIN s |-> s[k]]
        PROVE  IsSequence(s) /\ Len(s) = n
    BY <2>2 DEF IsSequence
  <2>3. PICK s : s = MadeOf(order, A)
    OBVIOUS
  <2>4. DOMAIN s = 1..Len(order) /\ s = [k \in DOMAIN s |-> s[k]]
    BY <2>1, <2>3
  <2>5. IsSequence(s) /\ Len(s) = Len(order)
    BY <1>1, <2>2, <2>4
  <2> QED
    BY <2>3, <2>5
<1> QED
  BY <1>1, <1>2 DEF MadeOf

LEMMA MadeTells ==
  ASSUME NEW order, NEW A, Lists(order, A), NEW others, NEW B, Lists(others, B),
         MadeOf(order, A) = MadeOf(others, B)
  PROVE  SameStructure(A, B)
<1>1. /\ DOMAIN order = 1..Len(order) /\ DOMAIN others = 1..Len(order)
      /\ \A k \in 1..Len(order) :
           ChoiceMade(order[k], A[order[k]]) = ChoiceMade(others[k], B[others[k]])
  BY MadeAt
<1>2. \A k \in 1..Len(order) : order[k] = others[k]
  BY <1>1, ChoiceMadeTells
<1>3. DOMAIN A = {order[k] : k \in 1..Len(order)} /\ DOMAIN B = {others[k] : k \in 1..Len(order)}
  BY <1>1 DEF Lists
<1>4. DOMAIN A = DOMAIN B
  BY <1>2, <1>3
<1>5. ASSUME NEW n \in DOMAIN A
      PROVE  /\ A[n].erp = B[n].erp /\ A[n].structural = B[n].structural
             /\ A[n].conditioned = B[n].conditioned
             /\ IsFree(A[n].structural, A[n].conditioned) => A[n].val = B[n].val
  <2>1. PICK k \in 1..Len(order) : order[k] = n
    BY <1>3
  <2>2. PICK c, d : c = A[n] /\ d = B[n]
    OBVIOUS
  <2>3. ChoiceMade(n, c) = ChoiceMade(n, d)
    BY <1>1, <1>2, <2>1, <2>2
  <2> QED
    BY <2>2, <2>3, ChoiceMadeTells
<1> QED
  BY <1>4, <1>5 DEF SameStructure

\* A name has one primitive, and one mark.
LEMMA MarkedAlike ==
  ASSUME NEW p, MarksChoices(p), NEW order, NEW A, Lists(order, A), Planned(p, MadeOf(order, A)),
         NEW others, NEW B, Lists(others, B), Planned(p, MadeOf(others, B)),
         NEW n, n \in DOMAIN A, n \in DOMAIN B
  PROVE  A[n].erp = B[n].erp /\ A[n].structural = B[n].structural
<1>1. ASSUME NEW o, NEW C, Lists(o, C), Planned(p, MadeOf(o, C)), n \in DOMAIN C
      PROVE  \E s \in Turns(p) : \E c \in s.next :
               c.name = n /\ c.erp = C[n].erp /\ c.structural = C[n].structural
  <2>1. PICK k \in DOMAIN o : o[k] = n
    BY <1>1 DEF Lists
  <2>2. PICK s : s = MadeOf(o, C)
    OBVIOUS
  <2>3. /\ Len(s) = Len(o) /\ Len(o) \in Nat /\ k \in 1..Len(o)
        /\ s[k] = ChoiceMade(n, C[n])
    BY <1>1, <2>1, <2>2, MadeAt
  <2>4. k - 1 \in 0..Len(s) - 1 /\ (k - 1) + 1 = k
    BY <2>3
  <2>5. [made |-> First(s, k - 1), next |-> {s[k].shape}] \in Turns(p)
    BY <1>1, <2>2, <2>4 DEF Planned, Turned
  <2>6. s[k].shape.name = n /\ s[k].shape.erp = C[n].erp /\ s[k].shape.structural = C[n].structural
    BY <2>3 DEF ChoiceMade
  <2>7. PICK t \in Turns(p) : t.next = {s[k].shape}
    BY <2>5
  <2> QED
    BY <2>6, <2>7
<1>2. PICK s \in Turns(p) : \E c \in s.next :
        c.name = n /\ c.erp = A[n].erp /\ c.structural = A[n].structural
  BY <1>1
<1>3. PICK t \in Turns(p) : \E c \in t.next :
        c.name = n /\ c.erp = B[n].erp /\ c.structural = B[n].structural
  BY <1>1
<1>4. \A c \in s.next, d \in t.next : c.name = d.name => c.erp = d.erp /\ c.structural = d.structural
  BY DEF MarksChoices
<1> QED
  BY <1>2, <1>3, <1>4

\* A choice that is changed is met again: the executions before and after the
\* change go the same way until they come to it.
LEMMA ChangedIsMet ==
  ASSUME NEW p, KeepsStructure(p), NEW order, NEW A, Lists(order, A), Planned(p, MadeOf(order, A)),
         NEW name \in DOMAIN A, NEW C,
         \A m \in DOMAIN A \ {name} : m \in DOMAIN C /\ C[m] = A[m],
         NEW others, NEW B, Lists(others, B), Planned(p, MadeOf(others, B)), Keeping(C, B)
  PROVE  name \in DOMAIN B
<1>1. PICK s, t : s = MadeOf(order, A) /\ t = MadeOf(others, B)
  OBVIOUS
<1>2. /\ IsSequence(s) /\ Len(s) = Len(order) /\ Len(s) \in Nat /\ DOMAIN order = 1..Len(s)
      /\ \A k \in 1..Len(s) : s[k] = ChoiceMade(order[k], A[order[k]])
      /\ IsSequence(t) /\ Len(t) = Len(others) /\ Len(t) \in Nat /\ DOMAIN others = 1..Len(t)
      /\ \A k \in 1..Len(t) : t[k] = ChoiceMade(others[k], B[others[k]])
  BY <1>1, MadeAt
<1>3. PICK j \in 1..Len(s) : order[j] = name
  BY <1>2 DEF Lists
<1>4. \A a, b \in Turns(p) : a.made = b.made => a.next = b.next
  BY DEF KeepsStructure
\* Where they have gone the same way, they come to the same choice.
<1>5. ASSUME NEW k \in Nat, k < Len(s), k <= Len(t), First(s, k) = First(t, k)
      PROVE  k < Len(t) /\ s[k + 1].shape = t[k + 1].shape
  <2>1. [made |-> First(s, k), next |-> {s[k + 1].shape}] \in Turns(p)
    <3>1. k \in 0..Len(s) - 1
      BY <1>2, <1>5
    <3> QED
      BY <1>1, <3>1 DEF Planned, Turned
  <2>2. k # Len(t)
    <3> SUFFICES ASSUME k = Len(t) PROVE FALSE
      OBVIOUS
    <3>1. First(t, k) = t
      BY <1>2, FirstOfAppend
    <3>2. [made |-> t, next |-> {}] \in Turns(p)
      BY <1>1 DEF Planned
    <3>3. {s[k + 1].shape} = {}
      BY <1>4, <1>5, <2>1, <3>1, <3>2
    <3> QED
      BY <3>3
  <2>3. [made |-> First(t, k), next |-> {t[k + 1].shape}] \in Turns(p)
    <3>1. k \in 0..Len(t) - 1
      BY <1>2, <1>5, <2>2
    <3> QED
      BY <1>1, <3>1 DEF Planned, Turned
  <2>4. {s[k + 1].shape} = {t[k + 1].shape}
    BY <1>4, <1>5, <2>1, <2>3
  <2>5. s[k + 1].shape = t[k + 1].shape
    BY <2>4
  <2>6. k < Len(t)
    BY <1>2, <1>5, <2>2
  <2> QED
    BY <2>5, <2>6
\* Before the change, the choice has the same value in both.
<1>6. ASSUME NEW k \in 1..Len(s), k < j, k <= Len(t), s[k].shape = t[k].shape
      PROVE  s[k] = t[k]
  <2>1. PICK m, c, n, d : m = order[k] /\ c = A[order[k]] /\ n = others[k] /\ d = B[others[k]]
    OBVIOUS
  <2>2. k \in 1..Len(t)
    BY <1>2, <1>6
  <2>3. s[k] = ChoiceMade(m, c) /\ t[k] = ChoiceMade(n, d)
    BY <1>2, <2>1, <2>2
  <2>4. [name |-> m, erp |-> c.erp, structural |-> c.structural, conditioned |-> c.conditioned]
          = [name |-> n, erp |-> d.erp, structural |-> d.structural, conditioned |-> d.conditioned]
    BY <1>6, <2>3 DEF ChoiceMade
  <2>5. m = n /\ c.erp = d.erp /\ c.structural = d.structural /\ c.conditioned = d.conditioned
    BY <2>4
  <2>6. m \in DOMAIN A /\ m # name /\ m \in DOMAIN B
    <3>1. k # j /\ k \in DOMAIN order /\ j \in DOMAIN order /\ k \in DOMAIN others
      BY <1>2, <1>6, <2>2
    <3> QED
      BY <1>3, <2>1, <2>5, <3>1 DEF Lists
  <2>7. m \in DOMAIN C /\ C[m] = c /\ B[m] = d
    BY <2>1, <2>5, <2>6
  <2>8. IsFree(c.structural, c.conditioned) => c.val = d.val
    <3> SUFFICES ASSUME ~c.conditioned PROVE c.val = d.val
      BY DEF IsFree
    <3>1. ~B[m].conditioned /\ Usable(C, m, B[m])
      BY <2>5, <2>7 DEF Usable
    <3> QED
      BY <2>6, <2>7, <3>1 DEF Keeping
  <2> QED
    BY <2>3, <2>4, <2>5, <2>8 DEF ChoiceMade
<1> DEFINE T == {k \in 0..j - 1 : k <= Len(t) /\ First(s, k) = First(t, k)}
<1>7. j \in Nat /\ j - 1 \in Nat /\ j <= Len(s)
  BY <1>2, <1>3
<1>8. 0 \in T
  BY <1>2, <1>7 DEF First
<1>9. ASSUME NEW k \in 0..j - 1, k # 0, k - 1 \in T
      PROVE  k \in T
  <2>1. PICK i \in Nat : i = k - 1 /\ k = i + 1 /\ i < Len(s) /\ k < j /\ k \in 1..Len(s)
    BY <1>2, <1>7, <1>9
  <2>2. i <= Len(t) /\ First(s, i) = First(t, i)
    BY <1>9, <2>1
  <2>3. i < Len(t) /\ s[k].shape = t[k].shape
    BY <1>5, <2>1, <2>2
  <2>4. s[k] = t[k] /\ k <= Len(t)
    BY <1>2, <1>6, <2>1, <2>3
  <2>5. Append(First(s, i), s[k]) = First(s, k) /\ Append(First(t, i), t[k]) = First(t, k)
    BY <1>2, <2>1, <2>3, FirstAndNext
  <2> QED
    BY <2>2, <2>4, <2>5
<1> HIDE DEF T
<1>10. 0..j - 1 \subseteq T
  BY <1>7, <1>8, <1>9, Induction
<1>11. PICK k \in Nat : k = j - 1 /\ j = k + 1 /\ k < Len(s) /\ k <= Len(t) /\ First(s, k) = First(t, k)
  BY <1>7, <1>10 DEF T
<1>12. k < Len(t) /\ s[j].shape = t[j].shape
  BY <1>5, <1>11
<1>13. j \in 1..Len(t)
  BY <1>2, <1>7, <1>11, <1>12
<1>14. s[j].shape.name = name /\ t[j].shape.name = others[j]
  <2>1. s[j] = ChoiceMade(order[j], A[order[j]]) /\ t[j] = ChoiceMade(others[j], B[others[j]])
    BY <1>2, <1>13
  <2> QED
    BY <1>3, <2>1 DEF ChoiceMade
<1>15. others[j] = name
  BY <1>12, <1>14
<1> QED
  BY <1>2, <1>13, <1>15 DEF Lists

\* Traces, so compared.
LEMMA HeldStructure ==
  ASSUME NEW p \in Prog, NEW tr, Held(p, tr), NEW new, Held(p, new), Shapes(new) = Shapes(tr)
  PROVE  SameStructure(ChoicesOf(tr), ChoicesOf(new))
<1>1. Lists(Names(tr), ChoicesOf(tr)) /\ Lists(Names(new), ChoicesOf(new))
  BY HeldPlanned
<1>2. Shapes(tr) = MadeOf(Names(tr), ChoicesOf(tr)) /\ Shapes(new) = MadeOf(Names(new), ChoicesOf(new))
  BY ShapesAre DEF Held
<1> QED
  BY <1>1, <1>2, MadeTells

LEMMA HeldAlike ==
  ASSUME NEW p \in Prog, MarksChoices(p), NEW tr, Held(p, tr), NEW new, Held(p, new),
         NEW n, n \in DOMAIN tr.vars, n \in DOMAIN new.vars
  PROVE  /\ GetRecord(tr, n).erp = GetRecord(new, n).erp
         /\ GetRecord(tr, n).structural = GetRecord(new, n).structural
<1> DEFINE A == ChoicesOf(tr)  B == ChoicesOf(new)
<1>1. /\ Lists(Names(tr), A) /\ Planned(p, MadeOf(Names(tr), A))
      /\ Lists(Names(new), B) /\ Planned(p, MadeOf(Names(new), B))
  BY HeldPlanned, ShapesAre DEF Held
<1>2. n \in DOMAIN A /\ n \in DOMAIN B
  BY DEF ChoicesOf
<1>3. /\ A[n].erp = GetRecord(tr, n).erp /\ A[n].structural = GetRecord(tr, n).structural
      /\ B[n].erp = GetRecord(new, n).erp /\ B[n].structural = GetRecord(new, n).structural
  BY DEF ChoicesOf, ChoiceOf
<1> HIDE DEF A, B
<1>4. A[n].erp = B[n].erp /\ A[n].structural = B[n].structural
  BY <1>1, <1>2, MarkedAlike
<1> QED
  BY <1>3, <1>4

\* A copy is what the same execution gives.
LEMMA CopyIsHeld ==
  ASSUME NEW p \in Prog, NEW tr, Held(p, tr)
  PROVE  /\ Held(p, DeepCopy(tr)) /\ ChoicesOf(DeepCopy(tr)) = ChoicesOf(tr)
         /\ Shapes(DeepCopy(tr)) = Shapes(tr) /\ DOMAIN DeepCopy(tr).vars = DOMAIN tr.vars
<1>1. PICK new : new = DeepCopy(tr)
  OBVIOUS
<1>2. /\ TraceOK(new) /\ Cached(new) /\ ChoicesOf(new) = ChoicesOf(tr)
      /\ DOMAIN new.vars = DOMAIN tr.vars
  BY <1>1, CopiedChoices DEF Held
<1>3. FlatListIsDatabase(new) /\ Shapes(new) = Shapes(tr) /\ Names(new) = Names(tr)
  BY <1>1, CopyList DEF Held
<1>4. /\ new.logprob = tr.logprob /\ new.conditionsSatisfied = tr.conditionsSatisfied
      /\ new.returnValue = tr.returnValue
  BY <1>1 DEF DeepCopy, EmptyTrace
<1>5. IsExecution(p, new)
  <2>1. PICK e \in ExecutionsFrom(p, ChoicesOf(tr)) :
          /\ e.choices = ChoicesOf(tr) /\ e.order = Names(tr) /\ e.logprob = tr.logprob
          /\ e.holds = tr.conditionsSatisfied /\ e.returns = tr.returnValue
    BY DEF Held, IsExecution, Names
  <2> QED
    BY <1>2, <1>3, <1>4, <2>1 DEF IsExecution, Names
<1> QED
  BY <1>1, <1>2, <1>3, <1>5 DEF Held

\* What a change of one choice leads to.
LEMMA ReachedKeeps ==
  ASSUME NEW p \in Prog, NEW tr, Held(p, tr), NEW name \in DOMAIN tr.vars, NEW val \in Value,
         NEW new, Reaches(p, new, With(ChoicesOf(tr), name, val))
  PROVE  /\ Keeping(With(ChoicesOf(tr), name, val), ChoicesOf(new))
         /\ KeepsStructure(p) => name \in DOMAIN new.vars
<1> DEFINE A == ChoicesOf(tr)
           C == With(A, name, val)
           B == ChoicesOf(new)
<1>1. Assigns(A) /\ DOMAIN A = DOMAIN tr.vars /\ DOMAIN B = DOMAIN new.vars
  <2>1. Assigns(A)
    BY ChoicesAssign DEF Held
  <2> QED
    BY <2>1 DEF ChoicesOf
<1>2. Lists(Names(tr), A) /\ Planned(p, MadeOf(Names(tr), A))
  BY HeldPlanned, ShapesAre DEF Held
<1>3. PICK e \in ExecutionsFrom(p, C) : e.choices = B
  BY DEF Reaches
<1>4. \A m \in DOMAIN A : HasFields(A[m], {"erp", "params", "val", "structural", "conditioned"})
  BY DEF ChoicesOf, ChoiceOf, HasFields
<1> HIDE DEF A, B
<1>5. /\ DOMAIN C = DOMAIN A /\ C[name].val = val
      /\ \A m \in DOMAIN A \ {name} : C[m] = A[m]
  BY <1>1, <1>4 DEF With, HasFields
<1> HIDE DEF C
<1>6. Assigns(C)
  BY <1>1, <1>5 DEF Assigns
<1>7. /\ Lists(e.order, B) /\ Keeping(C, B) /\ Planned(p, MadeOf(e.order, B))
  BY <1>3, <1>6, ReturnedPlanned
<1>8. KeepsStructure(p) => name \in DOMAIN B
  <2>1. \A m \in DOMAIN A \ {name} : m \in DOMAIN C /\ C[m] = A[m]
    BY <1>5
  <2> QED
    BY <1>1, <1>2, <1>7, <2>1, ChangedIsMet
<1> QED
  BY <1>1, <1>7, <1>8 DEF A, B, C

(***************************************************************************)
(* Where every value that is possible can be drawn, the executions that    *)
(* are not impossible are among those from no choices at all: each value   *)
(* that was given could have been drawn.                                   *)
(***************************************************************************)

DrawsPossible ==
  \A erp \in Erp, params \in Params, val \in Value :
    ErpLogprob(erp, val, params) \notin {NegInf, NaN} => val \in SampleImpl(erp, params)

Possible(e) == e.logprob \notin {NegInf, NaN}

\* The same execution, but for which of its values were drawn.
SameChosen(e, f) ==
  /\ e.hist = f.hist /\ e.counters = f.counters /\ e.choices = f.choices /\ e.order = f.order
  /\ e.logprob = f.logprob /\ e.holds = f.holds

LEMMA PossibleSum ==
  ASSUME NEW x, NEW y, Plus(x, y) \notin {NegInf, NaN}
  PROVE  x \notin {NegInf, NaN} /\ y \notin {NegInf, NaN}
BY SpecialsAssumption DEF Plus

LEMMA ChosenAlike ==
  ASSUME NEW e, HasFields(e, ExecutionFields), NEW f, HasFields(f, ExecutionFields),
         SameChosen(e, f), NEW call, NEW val, NEW a, NEW b
  PROVE  SameChosen(Choose(e, call, val, a), Choose(f, call, val, b))
<1>1. PICK c : c = e.choices /\ c = f.choices
  BY DEF SameChosen
<1>2. PICK name : name = CurrentName(call, e.counters) /\ name = CurrentName(call, f.counters)
  BY DEF SameChosen
<1>3. PICK s : s = [n \in DOMAIN c \cup {name} |-> IF n = name THEN NewChoice(call, val) ELSE c[n]]
  OBVIOUS
<1>4. Choose(e, call, val, a).choices = s
  BY <1>1, <1>2, <1>3 DEF Choose, NewChoice, HasFields, ExecutionFields
<1>5. Choose(f, call, val, b).choices = s
  BY <1>1, <1>2, <1>3 DEF Choose, NewChoice, HasFields, ExecutionFields
<1>6. PICK g, h : g = Choose(e, call, val, a) /\ h = Choose(f, call, val, b)
  OBVIOUS
<1>7. g.hist = h.hist
  BY <1>6 DEF SameChosen, Choose, HasFields, ExecutionFields
<1>8. g.order = h.order
  BY <1>2, <1>6 DEF SameChosen, Choose, HasFields, ExecutionFields
<1>9. g.counters = h.counters /\ g.logprob = h.logprob /\ g.holds = h.holds
  BY <1>2, <1>6 DEF SameChosen, Choose, HasFields, ExecutionFields
<1> QED
  BY <1>4, <1>5, <1>6, <1>7, <1>8, <1>9 DEF SameChosen

LEMMA RedrawnStep ==
  ASSUME DrawsPossible, NEW p \in Prog, NEW A, Assigns(A), NEW e, ExecutionOK(p, e),
         NEW f \in Continuations(p, A, e), Possible(f), NEW d, ExecutionOK(p, d), SameChosen(e, d)
  PROVE  Possible(e) /\ \E g \in Continuations(p, NoChoices, d) : SameChosen(f, g)
<1> DEFINE call == Computation(p, e.hist)
<1>1. HasFields(e, ExecutionFields) /\ HasFields(d, ExecutionFields) /\ call = Computation(p, d.hist)
  BY DEF ExecutionOK, SameChosen
<1>2. CASE call.op = "erp"
  <2> DEFINE name == CurrentName(call, e.counters)
             a == ~IsConditioned(call) /\ ~Usable(A, name, call)
             b == ~IsConditioned(call) /\ ~Usable(NoChoices, name, call)
  <2>1. PICK v \in Drawable(A, name, call) : f = Choose(e, call, v, a)
    BY <1>2, ErpContinuations
  <2>2. name = CurrentName(call, d.counters)
    BY DEF SameChosen
  <2>3. \A w \in Drawable(NoChoices, name, call) :
          Choose(d, call, w, b) \in Continuations(p, NoChoices, d)
    <3>1. PICK B : B = NoChoices
      OBVIOUS
    <3>2. \A w \in Drawable(B, CurrentName(call, d.counters), call) :
            Choose(d, call, w, ~IsConditioned(call) /\ ~Usable(B, CurrentName(call, d.counters), call))
              \in Continuations(p, B, d)
      BY <1>1, <1>2, ErpContinuations
    <3> QED
      BY <2>2, <3>1, <3>2
  <2>4. call \in ErpCalls
    BY <1>2, CallTypes DEF ExecutionOK
  <2>5. call.erp \in Erp /\ call.params \in Params /\ call.conditionedValue \in Value \cup {None}
    BY <2>4 DEF ErpCalls
  <2> HIDE DEF name, call, a, b
  <2>6. v \in Value
    BY <2>1, <2>5, ErpAssumption DEF Drawable, IsConditioned, Usable, Assigns
  <2>7. f.logprob = Plus(e.logprob, ErpLogprob(call.erp, v, call.params))
    BY <1>1, <2>1, ChosenFields
  <2>8. Possible(e) /\ ErpLogprob(call.erp, v, call.params) \notin {NegInf, NaN}
    BY <2>7, PossibleSum DEF Possible
  <2>9. v \in SampleImpl(call.erp, call.params)
    BY <2>5, <2>6, <2>8 DEF DrawsPossible
  <2>10. ~Usable(NoChoices, name, call)
    BY DEF Usable, NoChoices
  <2>11. v \in Drawable(NoChoices, name, call)
    BY <2>1, <2>9, <2>10 DEF Drawable
  <2>12. SameChosen(f, Choose(d, call, v, b))
    BY <1>1, <2>1, ChosenAlike
  <2> QED
    BY <2>3, <2>8, <2>11, <2>12
<1>3. CASE call.op = "factor"
  <2>1. f = [[e EXCEPT !.hist = Append(@, None)] EXCEPT !.logprob = Plus(@, call.num)]
    BY <1>3 DEF Continuations
  <2>2. PICK g : g = [[d EXCEPT !.hist = Append(@, None)] EXCEPT !.logprob = Plus(@, call.num)]
    OBVIOUS
  <2>3. g \in Continuations(p, NoChoices, d)
    BY <1>1, <1>3, <2>2 DEF Continuations
  <2>4. /\ f.hist = Append(e.hist, None) /\ f.counters = e.counters /\ f.choices = e.choices
        /\ f.order = e.order /\ f.logprob = Plus(e.logprob, call.num) /\ f.holds = e.holds
    BY <1>1, <2>1 DEF HasFields, ExecutionFields
  <2>5. /\ g.hist = Append(d.hist, None) /\ g.counters = d.counters /\ g.choices = d.choices
        /\ g.order = d.order /\ g.logprob = Plus(d.logprob, call.num) /\ g.holds = d.holds
    BY <1>1, <2>2 DEF HasFields, ExecutionFields
  <2>6. SameChosen(f, g)
    BY <2>4, <2>5 DEF SameChosen
  <2>7. Possible(e)
    BY <2>4, PossibleSum DEF Possible
  <2> QED
    BY <2>3, <2>6, <2>7
<1>4. CASE call.op = "condition"
  <2>1. f = [[e EXCEPT !.hist = Append(@, None)] EXCEPT !.holds = @ /\ call.holds]
    BY <1>4 DEF Continuations
  <2>2. PICK g : g = [[d EXCEPT !.hist = Append(@, None)] EXCEPT !.holds = @ /\ call.holds]
    OBVIOUS
  <2>3. g \in Continuations(p, NoChoices, d)
    BY <1>1, <1>4, <2>2 DEF Continuations
  <2>4. /\ f.hist = Append(e.hist, None) /\ f.counters = e.counters /\ f.choices = e.choices
        /\ f.order = e.order /\ f.logprob = e.logprob /\ f.holds = (e.holds /\ call.holds)
    BY <1>1, <2>1 DEF HasFields, ExecutionFields
  <2>5. /\ g.hist = Append(d.hist, None) /\ g.counters = d.counters /\ g.choices = d.choices
        /\ g.order = d.order /\ g.logprob = d.logprob /\ g.holds = (d.holds /\ call.holds)
    BY <1>1, <2>2 DEF HasFields, ExecutionFields
  <2>6. SameChosen(f, g)
    BY <2>4, <2>5 DEF SameChosen
  <2>7. Possible(e)
    BY <2>4 DEF Possible
  <2> QED
    BY <2>3, <2>6, <2>7
<1>5. CASE call.op = "nested"
  <2>1. PICK val \in call.outcomes : f = [e EXCEPT !.hist = Append(@, val)]
    BY <1>5 DEF Continuations
  <2>2. PICK g : g = [d EXCEPT !.hist = Append(@, val)]
    OBVIOUS
  <2>3. g \in Continuations(p, NoChoices, d)
    BY <1>1, <1>5, <2>2 DEF Continuations
  <2>4. /\ f.hist = Append(e.hist, val) /\ f.counters = e.counters /\ f.choices = e.choices
        /\ f.order = e.order /\ f.logprob = e.logprob /\ f.holds = e.holds
    BY <1>1, <2>1 DEF HasFields, ExecutionFields
  <2>5. /\ g.hist = Append(d.hist, val) /\ g.counters = d.counters /\ g.choices = d.choices
        /\ g.order = d.order /\ g.logprob = d.logprob /\ g.holds = d.holds
    BY <1>1, <2>2 DEF HasFields, ExecutionFields
  <2>6. SameChosen(f, g)
    BY <2>4, <2>5 DEF SameChosen
  <2>7. Possible(e)
    BY <2>4 DEF Possible
  <2> QED
    BY <2>3, <2>6, <2>7
<1>6. call.op \in {"erp", "factor", "condition", "nested"}
  BY DEF Continuations
<1> QED
  BY <1>2, <1>3, <1>4, <1>5, <1>6

LEMMA RedrawnAfter ==
  ASSUME DrawsPossible, NEW p \in Prog, NEW A, Assigns(A), NEW m \in Nat
  PROVE  \A n \in 0..m : \A e \in After(p, A)[n] :
           Possible(e) => \E f \in After(p, NoChoices)[n] : SameChosen(e, f)
<1> DEFINE OK(n) == \A e \in After(p, A)[n] :
                      Possible(e) => \E f \in After(p, NoChoices)[n] : SameChosen(e, f)
           T == {n \in 0..m : OK(n)}
<1>1. 0 \in T
  <2>1. After(p, A)[0] = {Start} /\ After(p, NoChoices)[0] = {Start}
    BY AfterSteps
  <2> QED
    BY <2>1 DEF SameChosen
<1>2. ASSUME NEW n \in 0..m, n # 0, n - 1 \in T PROVE n \in T
  <2>1. n - 1 \in 0..m /\ n - 1 \in Nat /\ n = (n - 1) + 1
    BY <1>2
  <2>2. /\ After(p, A)[n] = Extended(p, A, After(p, A)[n - 1])
        /\ After(p, NoChoices)[n] = Extended(p, NoChoices, After(p, NoChoices)[n - 1])
    BY <2>1, AfterSteps
  <2>3. /\ \A e \in After(p, A)[n - 1] : ExecutionOK(p, e)
        /\ \A e \in After(p, NoChoices)[n - 1] : ExecutionOK(p, e)
    BY <2>1, AfterOK DEF Assigns, NoChoices
  <2>4. ASSUME NEW f \in After(p, A)[n], Possible(f)
        PROVE  \E g \in After(p, NoChoices)[n] : SameChosen(f, g)
    <3>1. PICK e \in After(p, A)[n - 1] : f \in Continuations(p, A, e)
      BY <2>2 DEF Extended
    <3>2. ASSUME NEW d \in After(p, NoChoices)[n - 1], SameChosen(e, d)
          PROVE  Possible(e) /\ \E g \in Continuations(p, NoChoices, d) : SameChosen(f, g)
      BY <2>3, <2>4, <3>1, <3>2, RedrawnStep
    <3>3. Possible(e)
      BY <2>3, <2>4, <3>1, RedrawnStep DEF SameChosen
    <3>4. PICK d \in After(p, NoChoices)[n - 1] : SameChosen(e, d)
      BY <1>2, <3>1, <3>3
    <3>5. PICK g \in Continuations(p, NoChoices, d) : SameChosen(f, g)
      BY <3>2, <3>4
    <3> QED
      BY <2>2, <3>4, <3>5 DEF Extended
  <2> QED
    BY <2>4
<1> HIDE DEF T
<1>3. 0..m \subseteq T
  BY <1>1, <1>2, Induction
<1> QED
  BY <1>3 DEF T

LEMMA Redrawn ==
  ASSUME DrawsPossible, NEW p \in Prog, NEW A, Assigns(A), NEW e \in ExecutionsFrom(p, A), Possible(e)
  PROVE  \E f \in ExecutionsFrom(p, NoChoices) :
           /\ f.choices = e.choices /\ f.order = e.order /\ f.logprob = e.logprob
           /\ f.holds = e.holds /\ f.returns = e.returns
<1> DEFINE Finished(B) == {d \in UNION {After(p, B)[n] : n \in Lengths[p]} :
                          Computation(p, d.hist).op = "return"}
           WithReturn(d) == [d EXCEPT !.returns = Computation(p, d.hist).val]
<1>1. \A B : ExecutionsFrom(p, B) = {WithReturn(d) : d \in Finished(B)}
  BY DEF ExecutionsFrom
<1> HIDE DEF WithReturn
<1>2. PICK d \in Finished(A) : e = WithReturn(d)
  BY <1>1
<1>3. PICK n \in Lengths[p] : d \in After(p, A)[n] /\ Computation(p, d.hist).op = "return"
  BY <1>2
<1>4. n \in Nat
  BY <1>3, ComputationAssumption DEF Lengths
<1>5. ExecutionOK(p, d)
  BY <1>3, <1>4, AfterOK
<1>6. \A x : HasFields(x, ExecutionFields) =>
        /\ WithReturn(x).choices = x.choices /\ WithReturn(x).order = x.order
        /\ WithReturn(x).logprob = x.logprob /\ WithReturn(x).holds = x.holds
        /\ WithReturn(x).returns = Computation(p, x.hist).val
  BY DEF WithReturn, HasFields, ExecutionFields
<1>7. Possible(d)
  BY <1>2, <1>5, <1>6 DEF Possible, ExecutionOK
<1>8. PICK f \in After(p, NoChoices)[n] : SameChosen(d, f)
  BY <1>3, <1>4, <1>7, RedrawnAfter
<1>9. ExecutionOK(p, f)
  <2>1. PICK B : B = NoChoices
    OBVIOUS
  <2>2. Assigns(B)
    BY <2>1 DEF Assigns, NoChoices
  <2>3. \A k \in 0..n : \A x \in After(p, B)[k] : ExecutionOK(p, x)
    BY <1>4, <2>2, AfterOK
  <2> QED
    BY <1>4, <1>8, <2>1, <2>3
<1>10. f \in Finished(NoChoices)
  BY <1>3, <1>8 DEF SameChosen
<1>11. WithReturn(f) \in ExecutionsFrom(p, NoChoices)
  BY <1>1, <1>10
<1> HIDE DEF Finished
<1>12. /\ WithReturn(f).choices = e.choices /\ WithReturn(f).order = e.order
       /\ WithReturn(f).logprob = e.logprob /\ WithReturn(f).holds = e.holds
       /\ WithReturn(f).returns = e.returns
  BY <1>2, <1>5, <1>6, <1>8, <1>9 DEF SameChosen, ExecutionOK
<1> QED
  BY <1>11, <1>12
===============================================================================
