-------------------------------- MODULE Programs --------------------------------
(***************************************************************************)
(* The programs and primitives of the model-checking runs. The programs    *)
(* are those of probabilistic/test.lua, with its distributions on reals    *)
(* replaced by a three-valued multinomial and its loops shortened. The     *)
(* weights are integers chosen so that different sums of them differ.      *)
(***************************************************************************)
EXTENDS Integers, Sequences

CONSTANTS None, NegInf, PosInf, NaN

MCErp == {"flip", "multinomial"}
MCValue == 0..3
MCSite == {"a", "b", "c", "inner"}

\* Parameters of flip are 1 to 4 (4 is flip(1.0)), those of multinomial 5 and 6.
MCParams == 1..6
Weight == << <<-7, -3>>, <<-19, -11>>, <<-1, -23>>, <<NegInf, 0>>,
             <<NegInf, -5, -13, -2>>, <<NegInf, -31, -4, -17>> >>
MCErpLogprob(erp, val, params) ==
  IF val + 1 \in DOMAIN Weight[params] THEN Weight[params][val + 1] ELSE NegInf
MCSampleImpl(erp, params) ==
  {v \in MCValue : MCErpLogprob(erp, v, params) # NegInf}
MCProposal(erp, cur, params) ==
  IF erp = "flip" THEN {IF cur = 0 THEN 1 ELSE 0}
  ELSE MCSampleImpl(erp, params) \ {cur}
MCLogProposalProb(erp, cur, val, params) ==
  IF erp = "flip" THEN 0
  ELSE IF val \notin MCSampleImpl(erp, params) \ {cur} THEN NegInf
  ELSE MCErpLogprob(erp, val, params) + 100 * cur
MCLog(n) == IF n = 0 THEN NegInf ELSE 1009 * (n - 1)

-------------------------------------------------------------------------------
Draw(stack, erp, params, structural) ==
  [op |-> "erp", stack |-> stack, erp |-> erp, params |-> params,
   structural |-> structural, conditionedValue |-> None]
\* isStructural, as the programs pass it: true, or left out.
Mark(b) == IF b THEN TRUE ELSE None
Observe(stack, erp, params, val) ==
  [op |-> "erp", stack |-> stack, erp |-> erp, params |-> params,
   structural |-> FALSE, conditionedValue |-> val]
Factor(num) == [op |-> "factor", num |-> num]
Condition(b) == [op |-> "condition", holds |-> b]
Nested(S) == [op |-> "nested", outcomes |-> S]
Return(v) == [op |-> "return", val |-> v]
Bit(b) == IF b THEN 1 ELSE 0

\* test.lua:254-263, its first flip marked structural or not.
Branches(h, mark) ==
  CASE Len(h) = 0 -> Draw(<<"a">>, "flip", 1, Mark(mark))
    [] Len(h) = 1 -> IF h[1] = 1 THEN Draw(<<"b">>, "flip", 2, None)
                                 ELSE Draw(<<"c">>, "flip", 3, None)
    [] OTHER      -> Return(h[2])

\* test.lua:398-406.
TransDimensional(h) ==
  LET last == h[Len(h)]
  IN  CASE Len(h) = 0                -> Draw(<<"a">>, "flip", 1, TRUE)
        [] Len(h) = 1 /\ h[1] = 1    -> Draw(<<"b">>, "multinomial", 5, None)
        [] Len(h) = 1                -> Draw(<<"c">>, "flip", 2, None)
        [] Len(h) = 2 /\ h[1] = 1    -> Draw(<<"c">>, "flip", IF h[2] = 1 THEN 1 ELSE 3, None)
        [] Len(h) = 2                -> Condition(last = 1)
        [] Len(h) = 3 /\ h[1] = 1    -> Condition(last = 1)
        [] OTHER                     -> Return(h[2])

\* Without its condition: both branches go on to make the choice at site c.
Unconditioned(h) ==
  LET call == TransDimensional(h) IN IF call.op = "condition" THEN Return(h[Len(h)]) ELSE call

\* test.lua:309-322, at most three rounds of the loop.
PowerLaw(h, mark) ==
  IF (Len(h) > 0 /\ h[Len(h)] = 1) \/ Len(h) >= 3 THEN Return(Bit(Len(h) < 2))
  ELSE Draw(<<"a">>, "flip", 1, Mark(mark))

\* test.lua:265-268, and 234-242 after it.
RandomWeight(h) ==
  CASE Len(h) = 0 -> Draw(<<"a">>, "flip", 1, None)
    [] Len(h) = 1 -> Draw(<<"b">>, "flip", IF h[1] = 1 THEN 2 ELSE 3, None)
    [] Len(h) = 2 -> Condition(h[1] = 1 \/ h[2] = 1)
    [] OTHER      -> Return(Bit(h[1] = 1 /\ h[2] = 1))

\* test.lua:440-453: a loop whose first choices are observed. The observed
\* value depends on a choice before it here, and so does a factor.
Observed(h) ==
  CASE Len(h) = 0 -> Draw(<<"a">>, "flip", 1, None)
    [] Len(h) = 1 -> Observe(<<"b">>, "flip", 2, IF h[1] = 1 THEN 1 ELSE 0)
    [] Len(h) = 2 -> Draw(<<"b">>, "flip", 3, FALSE)
    [] Len(h) = 3 -> Factor(IF h[3] = 1 THEN -41 ELSE 43)
    [] OTHER      -> Return(h[3])

\* A zero-probability world, excluded by a factor instead of a condition.
Impossible(h) ==
  CASE Len(h) = 0 -> Draw(<<"a">>, "flip", 1, None)
    [] Len(h) = 1 -> Factor(IF h[1] = 1 THEN 0 ELSE NegInf)
    [] Len(h) = 2 -> Draw(<<"b">>, "multinomial", 6, None)
    [] OTHER      -> Return(h[3])

\* A loop that calls flip at site c either directly or through a function, as
\* proc() does in test.lua:270-276 and a memoized function in 370-381.
CallSites(h) ==
  CASE Len(h) = 0        -> Draw(<<"a">>, "flip", 1, TRUE)
    [] Len(h) \in {1, 2} -> IF Len(h) = 1 /\ h[1] = 1 THEN Draw(<<"c">>, "flip", 2, None)
                            ELSE Draw(<<"c", "inner">>, "flip", 2, None)
    [] OTHER             -> Return(h[2])

\* Nothing left to change: every choice is observed, at a parameter that gives
\* a value probability one.
Determined(h) ==
  CASE Len(h) = 0 -> Observe(<<"a">>, "flip", 4, 1)
    [] Len(h) = 1 -> Condition(h[1] = 1)
    [] OTHER      -> Return(h[1])

\* test.lua:360-368, the two flips memoized by a random argument.
RandomArgument(h) ==
  CASE Len(h) = 0                   -> Draw(<<"a">>, "flip", 1, None)
    [] Len(h) = 1                   -> Draw(<<"b", "inner">>, "flip", 2, None)
    [] Len(h) = 2                   -> Draw(<<"a">>, "flip", 3, None)
    [] Len(h) = 3 /\ h[1] # h[3]    -> Draw(<<"c", "inner">>, "flip", 2, None)
    [] Len(h) = 3                   -> Return(h[2])
    [] OTHER                        -> Return(Bit(h[2] = 1 /\ h[4] = 1))

\* test.lua:254-263 with a condition on the branch taken.
ConditionedBranches(h) ==
  CASE Len(h) = 2 -> Condition(h[2] = 1)
    [] Len(h) = 3 -> Return(h[1])
    [] OTHER      -> Branches(h, TRUE)

\* A choice that is structural or not by a choice before it.
StructuralByChoice(h) ==
  CASE Len(h) = 0 -> Draw(<<"a">>, "flip", 1, TRUE)
    [] Len(h) = 1 -> Draw(<<"b">>, "flip", 2, Mark(h[1] = 1))
    [] OTHER      -> Return(h[2])

\* test.lua:383-395: the program's only random choices are those of a nested
\* query.
Query(h) == IF Len(h) = 0 THEN Nested({0, 1}) ELSE Return(h[1])

\* Which choices are made depends on the outcome.
QueriedBranch(h) ==
  CASE Len(h) = 0             -> Nested({0, 1})
    [] Len(h) = 1             -> Draw(IF h[1] = 1 THEN <<"a">> ELSE <<"b">>, "flip", 1, TRUE)
    [] Len(h) = 2 /\ h[1] = 1 -> Draw(<<"c">>, "flip", 2, None)
    [] OTHER                  -> Return(h[2])

\* A structural choice that only one value of an unmarked one leads to: an
\* annealing step may take away the variable that the jump has changed.
HiddenChoice(h) ==
  CASE Len(h) = 0             -> Draw(<<"a">>, "flip", 1, None)
    [] Len(h) = 1 /\ h[1] = 1 -> Draw(<<"b">>, "flip", 2, TRUE)
    [] OTHER                  -> Return(h[1])

MCComputation(p, h) ==
  CASE p = "branches"           -> Branches(h, TRUE)
    [] p = "branches, unmarked" -> Branches(h, FALSE)
    [] p = "trans-dimensional"  -> TransDimensional(h)
    [] p = "unconditioned"      -> Unconditioned(h)
    [] p = "power law"          -> PowerLaw(h, TRUE)
    [] p = "power law, unmarked" -> PowerLaw(h, FALSE)
    [] p = "random weight"      -> RandomWeight(h)
    [] p = "observed"           -> Observed(h)
    [] p = "impossible"         -> Impossible(h)
    [] p = "call sites"         -> CallSites(h)
    [] p = "determined"         -> Determined(h)
    [] p = "random argument"    -> RandomArgument(h)
    [] p = "conditioned branches" -> ConditionedBranches(h)
    [] p = "structural by choice" -> StructuralByChoice(h)
    [] p = "query"              -> Query(h)
    [] p = "queried branch"     -> QueriedBranch(h)
    [] p = "hidden choice"      -> HiddenChoice(h)

\* The programs whose structural choices, if any, are marked: those that the
\* diffusion kernel is meant for.
Marked == {"branches", "trans-dimensional", "unconditioned", "power law", "random weight",
           "observed", "impossible", "call sites", "determined", "conditioned branches", "query"}
Unmarked == {"branches, unmarked", "power law, unmarked", "random argument"}
\* Those in which other things than structural choices change the structure.
Unsettled == {"structural by choice", "queried branch", "hidden choice"}
AllPrograms == Marked \cup Unmarked \cup Unsettled

\* The histories of each program, by length: those that its calls lead to when
\* a random primitive may return any value at all.
MaxCalls == 6
Outcomes(call) ==
  CASE call.op = "erp"    -> MCValue
    [] call.op = "nested" -> call.outcomes
    [] call.op = "return" -> {}
    [] OTHER              -> {None}
MCHistories == [p \in AllPrograms |->
  LET ofLength[n \in 0..MaxCalls] ==
        IF n = 0 THEN {<<>>}
        ELSE UNION {{Append(h, v) : v \in Outcomes(MCComputation(p, h))} : h \in ofLength[n - 1]}
  IN  UNION {ofLength[n] : n \in 0..MaxCalls}]
===============================================================================
