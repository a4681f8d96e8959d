\* DESIGN.md:165 against a decision that names the run only.
SPECIFICATION Spec
CONSTANTS
  Threads = {t1}
  Keys <- MCKeys
  Clients = {c1}
  MaxProposals = 2
INVARIANT DecisionFitsProposal
