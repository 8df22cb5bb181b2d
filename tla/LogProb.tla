------------------------------- MODULE LogProb -------------------------------
(***************************************************************************)
(* Log probabilities as the program computes them: IEEE doubles, of which  *)
(* the model keeps what the kernels' decisions depend on, the finite       *)
(* values (integers here: only sums, differences and comparisons are       *)
(* taken), the two infinities and the NaN that infinities produce.         *)
(* Rounding is not modelled.                                               *)
(***************************************************************************)
EXTENDS Integers

CONSTANTS
  NegInf,   \* -math.huge, the log of an impossible value
  PosInf,   \* math.huge
  NaN       \* what PosInf + NegInf evaluates to

ASSUME SpecialsAssumption ==
  /\ NegInf \notin Int /\ PosInf \notin Int /\ NaN \notin Int
  /\ NegInf # PosInf /\ NegInf # NaN /\ PosInf # NaN

LP == Int \cup {NegInf, PosInf, NaN}

\* x + y.
Plus(x, y) ==
  CASE x \in Int /\ y \in Int                               -> x + y
    [] NegInf \in {x, y} /\ {x, y} \cap {PosInf, NaN} = {}  -> NegInf
    [] PosInf \in {x, y} /\ {x, y} \cap {NegInf, NaN} = {}  -> PosInf
    [] OTHER                                                -> NaN

\* -x.
Negate(x) ==
  CASE x \in Int  -> -x
    [] x = NegInf -> PosInf
    [] x = PosInf -> NegInf
    [] OTHER      -> NaN

Minus(x, y) == Plus(x, Negate(y))

\* Mutant: the comparison the other way round, not (thresh <= log(random())).
NotAboveLogRandom(thresh) == thresh # NegInf

\* Whether math.log(math.random()) < thresh can be true, and whether it can be
\* false. The left side is some negative number, -infinity included; a
\* comparison with NaN is false, and nothing is below -infinity.
LogRandomBelow(thresh) == thresh \notin {NegInf, NaN}
LogRandomNotBelow(thresh) == thresh \in {NegInf, NaN} \/ (thresh \in Int /\ thresh < 0)
===============================================================================
