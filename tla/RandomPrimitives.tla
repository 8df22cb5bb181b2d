--------------------------- MODULE RandomPrimitives ---------------------------
(***************************************************************************)
(* Random primitives (probabilistic/erp.lua): how flip, multinomial,       *)
(* uniform and gaussian draw a value and propose another, and the          *)
(* probabilities they give for it.                                         *)
(*                                                                         *)
(* math.random is a choice among equally likely draws, and a probability   *)
(* is a weight out of a total, of which the code takes the logarithm. The  *)
(* continuous distributions are put on a grid of integers, on which the    *)
(* number of draws that give a value is its density.                       *)
(***************************************************************************)
EXTENDS Integers, Sequences, FiniteSets, FiniteSetsExt, Functions

CONSTANTS
  Erp,         \* which of the primitives are looked at
  Grain,       \* flip's probability is p out of Grain
  Thetas,      \* parameters of multinomial: sequences of weights
  Points,      \* the grid of uniform and gaussian: an interval of integers
  Bell,        \* Bell[d]: gaussian's density at distance d - 1 from its mean
  None         \* no value yet

ASSUME PrimitivesAssumption ==
  /\ Erp \subseteq {"flip", "multinomial", "uniform", "gaussian"}
  /\ Grain \in Nat \ {0}
  /\ Thetas \subseteq Seq(Nat)
  /\ Points \subseteq Int
  /\ Bell \in Seq(Nat)

VARIABLES
  erp,      \* the primitive of a variable
  params,   \* its parameters
  val       \* its value

vars == <<erp, params, val>>

\* flip: p. uniform: its bounds. gaussian: its mean; sigma is in Bell.
ParamsOf(e) ==
  CASE e = "flip"        -> 0..Grain
    [] e = "multinomial" -> Thetas
    [] e = "uniform"     -> {b \in Points \X Points : b[1] < b[2]}
    [] e = "gaussian"    -> Points
-------------------------------------------------------------------------------
(* Multinomial. A draw of x = math.random() * sum(theta) is the middle of   *)
(* one of 4 * sum(theta) / 4 equal parts, in quarters of a weight, or 0: a  *)
(* draw below Epsilon, the initial probAccum, which has no weight to speak  *)
(* of (erp.lua:80 has 0.00000001).                                          *)

Unit == 4
Epsilon == 1

Parts(theta) == {Unit * j + 2 : j \in 0..SumFunction(theta) - 1}

\* multinomial_sample: result is one more than the outcome where the loop ends.
LoopEnds(theta, x) ==
  LET probAccum[result \in 1..Len(theta) + 1] ==
        IF result = 1 THEN Epsilon ELSE probAccum[result - 1] + Unit * theta[result - 1]
  IN  Min({result \in 1..Len(theta) + 1 : result > Len(theta) \/ x <= probAccum[result]})

\* Mutant: the result is not taken back by one.
MultinomialSampleNext(theta, x) == LoopEnds(theta, x)

MultinomialSample(theta, x) == LoopEnds(theta, x) - 1

\* newparams: theta with the weight of currval set to 0. A value one beyond its
\* end extends it; others outside leave its array part alone.
ProjectedOut(theta, currval) ==
  CASE currval \in DOMAIN theta  -> [theta EXCEPT ![currval] = 0]
    [] currval = Len(theta) + 1  -> Append(theta, 0)
    [] OTHER                     -> theta
-------------------------------------------------------------------------------
(* The primitives. Draws are those that carry the weight of a distribution, *)
(* AllDraws those that can happen.                                          *)

Distance(x, y) == IF x < y THEN y - x ELSE x - y
AtDistance(d) == IF d + 1 \in DOMAIN Bell THEN Bell[d + 1] ELSE 0
Around(mu) == {x \in mu - Len(Bell)..mu + Len(Bell) : AtDistance(Distance(x, mu)) > 0}

Draws(e, p) ==
  CASE e = "flip"        -> 0..Grain - 1
    [] e = "multinomial" -> Parts(p)
    [] e = "uniform"     -> p[1]..p[2]
    [] e = "gaussian"    ->
         UNION {{x} \X (1..AtDistance(Distance(x, p))) : x \in Around(p)}
AllDraws(e, p) == Draws(e, p) \cup (IF e = "multinomial" THEN {0} ELSE {})

\* sample_impl(params), by the draw.
SampleImpl(e, p, draw) ==
  CASE e = "flip"        -> IF draw < p THEN 1 ELSE 0
    [] e = "multinomial" -> MultinomialSample(p, draw)
    [] e = "uniform"     -> draw
    [] e = "gaussian"    -> draw[1]

\* logprob(val, params), as weight and total.
Weight(e, v, p) ==
  CASE e = "flip"        -> IF v # 0 THEN p ELSE Grain - p
    [] e = "multinomial" -> IF v \in DOMAIN p THEN p[v] ELSE 0
    [] e = "uniform"     -> IF v < p[1] \/ v > p[2] THEN 0 ELSE 1
    [] e = "gaussian"    -> AtDistance(Distance(v, p))
Total(e, p) ==
  CASE e = "flip"        -> Grain
    [] e = "multinomial" -> SumFunction(p)
    [] e = "uniform"     -> p[2] - p[1] + 1
    [] e = "gaussian"    -> Cardinality(Draws(e, p))

\* proposal(currval, params): flip and multinomial have their own, the others
\* that of the base class, a sample.
ProposalDraws(e, cur, p) ==
  IF e = "multinomial" THEN AllDraws(e, ProjectedOut(p, cur)) ELSE AllDraws(e, p)
Proposal(e, cur, p, draw) ==
  CASE e = "flip"        -> IF cur = 0 THEN 1 ELSE 0
    [] e = "multinomial" -> MultinomialSample(ProjectedOut(p, cur), draw)
    [] OTHER             -> SampleImpl(e, p, draw)

\* logProposalProb(currval, propval, params), as weight and total: gaussian has
\* a drift kernel here.
ProposalWeight(e, cur, prop, p) ==
  CASE e = "flip"        -> 1
    [] e = "multinomial" -> Weight(e, prop, ProjectedOut(p, cur))
    [] e = "gaussian"    -> Weight(e, prop, cur)
    [] OTHER             -> Weight(e, prop, p)

\* Mutant: the current value keeps its weight in the total.
ProposalTotalUnprojected(e, cur, p) == IF e = "flip" THEN 1 ELSE Total(e, p)

ProposalTotal(e, cur, p) ==
  CASE e = "flip"        -> 1
    [] e = "multinomial" -> Total(e, ProjectedOut(p, cur))
    [] e = "gaussian"    -> Total(e, cur)
    [] OTHER             -> Total(e, p)
-------------------------------------------------------------------------------
(* The life of a variable: it is sampled, its parameters change from one   *)
(* execution to the next, and new values are proposed for it.              *)

Init ==
  /\ erp \in Erp
  /\ params \in ParamsOf(erp)
  /\ val = None

Sample ==
  /\ val = None
  /\ \E draw \in AllDraws(erp, params) : val' = SampleImpl(erp, params, draw)
  /\ UNCHANGED <<erp, params>>

Propose ==
  /\ val # None
  /\ \E draw \in ProposalDraws(erp, val, params) : val' = Proposal(erp, val, params, draw)
  /\ UNCHANGED <<erp, params>>

ChangeParams ==
  /\ val # None
  /\ params' \in ParamsOf(erp)
  /\ UNCHANGED <<erp, val>>

Next == Sample \/ Propose \/ ChangeParams

Spec == Init /\ [][Next]_vars
-------------------------------------------------------------------------------
(* Properties. *)

\* As many of the draws give v as its weight says, out of the total.
Drawn(v, draws, Value(_), weight, total) ==
  total > 0 => Cardinality({d \in draws : Value(d) = v}) * total = weight * Cardinality(draws)

\* The log probability of a value is that of sampling it: the loop of
\* multinomial_sample (erp.lua:77-87) ends at an outcome as often as the
\* weights of multinomial_logprob (89-96) say, and at none but those.
SamplesAsWeighted ==
  \A v \in (IF erp = "flip" THEN {0, 1} ELSE Points) :
    Drawn(v, Draws(erp, params), LAMBDA d : SampleImpl(erp, params, d),
          Weight(erp, v, params), Total(erp, params))

\* The log proposal probability of a value that is proposed is that of
\* proposing it, from any current value, also one that the present parameters
\* would not give (erp.lua:34-42, 59-65, 106-118, 186-194).
ProposesAsDeclared ==
  val # None =>
    LET p == IF erp = "multinomial" THEN ProjectedOut(params, val) ELSE params
    IN  \A draw \in ProposalDraws(erp, val, params) :
          LET v == Proposal(erp, val, params, draw)
          IN  Drawn(v, Draws(erp, p), LAMBDA d : Proposal(erp, val, params, d),
                    ProposalWeight(erp, val, v, params), ProposalTotal(erp, val, params))
===============================================================================
