-------------------------------- MODULE MCLARJ --------------------------------
EXTENDS LARJChain, TLC

P == INSTANCE Programs

MCErp == P!MCErp
MCValue == P!MCValue
MCSite == P!MCSite
MCParams == P!MCParams
MCHistories(p) == P!MCHistories[p.name]
MCComputation(p, h) == P!MCComputation(p.name, h)
MCSampleImpl(e, p) == P!MCSampleImpl(e, p)
MCProposal(e, c, p) == P!MCProposal(e, c, p)
MCErpLogprob(e, v, p) == P!MCErpLogprob(e, v, p)
MCLogProposalProb(e, c, v, p) == P!MCLogProposalProb(e, c, v, p)
MCLog(n) == P!MCLog(n)

\* A program and its kernel.
MCKernel(p) == p.kernel
RunWith(annealSteps, jumpFreq, names) ==
  [name : names, kernel : [annealSteps : {annealSteps}, jumpFreq : {jumpFreq}]]
MCSettled ==
  UNION {RunWith(0, 50, P!Marked), RunWith(0, None, P!Marked), RunWith(3, None, P!Marked)}
MCProg == MCSettled \cup RunWith(3, None, P!Unsettled)
===============================================================================
