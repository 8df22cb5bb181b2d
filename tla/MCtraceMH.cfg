SPECIFICATION FairSpec
CONSTANTS
  NegInf = NegInf
  PosInf = PosInf
  NaN = NaN
  None = None
  Prog <- MCProg
  Erp <- MCErp
  Params <- MCParams
  Value <- MCValue
  Site <- MCSite
  Histories <- MCHistories
  Computation <- MCComputation
  SampleImpl <- MCSampleImpl
  Proposal <- MCProposal
  ErpLogprob <- MCErpLogprob
  LogProposalProb <- MCLogProposalProb
  Log <- MCLog
  Structural <- MCStructural
  Nonstructural = TRUE
  NumSamps = 2
  Lag = 2
INVARIANTS
  TypeOK
  TracesAreExecutions
  FlatListAgrees
  FlatListsAreDatabases
  ProposalProbabilities
  ConditionsHold
PROPERTIES
  AcceptsOnlyPossible
  ImplementsChain
  ChainCompletes
