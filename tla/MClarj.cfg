SPECIFICATION Spec
CONSTANTS
  NegInf = NegInf
  PosInf = PosInf
  NaN = NaN
  None = None
  Prog <- MCProg
  Erp <- MCErp
  Params <- MCParams
  Value <- MCValue
  Site <- MCSite
  Histories <- MCHistories
  Computation <- MCComputation
  SampleImpl <- MCSampleImpl
  Proposal <- MCProposal
  ErpLogprob <- MCErpLogprob
  LogProposalProb <- MCLogProposalProb
  Log <- MCLog
  CallBound = 6
  Settled <- MCSettled
  Kernel <- MCKernel
  NumSamps = 2
  Lag = 1
INVARIANTS
  TypeOK
  TracesAreExecutions
  SharedValuesAgree
  NeverFails
  CountersAddUp
  ConditionsHold
  JumpReversible
PROPERTIES
  AcceptsOnlyPossible
  ImplementsChain
