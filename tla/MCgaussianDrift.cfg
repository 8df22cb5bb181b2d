SPECIFICATION Spec
CONSTANTS
  None = None
  Erp = {"gaussian"}
  Grain = 1
  Thetas <- MCThetas
  Points <- MCPoints
  Bell <- MCBell
INVARIANTS
  ProposesAsDeclared
