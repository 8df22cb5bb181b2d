SPECIFICATION Spec
CONSTANTS
  None = None
  Erp = {"flip", "multinomial", "uniform"}
  Grain = 5
  Thetas <- MCThetas
  Points <- MCPoints
  Bell <- MCBell
INVARIANTS
  SamplesAsWeighted
  ProposesAsDeclared
