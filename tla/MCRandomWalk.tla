------------------------------ MODULE MCRandomWalk ------------------------------
EXTENDS RandomWalkChain, TLC

P == INSTANCE Programs

MCErp == P!MCErp
MCValue == P!MCValue
MCSite == P!MCSite
MCParams == P!MCParams
MCHistories(p) == P!MCHistories[p.name]
MCComputation(p, h) == P!MCComputation(p.name, h)
MCSampleImpl(e, p) == P!MCSampleImpl(e, p)
MCProposal(e, c, p) == P!MCProposal(e, c, p)
MCErpLogprob(e, v, p) == P!MCErpLogprob(e, v, p)
MCLogProposalProb(e, c, v, p) == P!MCLogProposalProb(e, c, v, p)
MCLog(n) == P!MCLog(n)

\* A program and its kernel.
RunWith(kernel, names) == [name : names, kernel : {kernel}]
MCStructural == RunWith("traceMH", P!Marked \cup P!Unmarked)
MCProg == MCStructural \cup RunWith("diffusion", P!Marked)
===============================================================================
