\* DESIGN.md:187 against a decided map that is never cleared.
SPECIFICATION FairSpec
CONSTANTS
  Threads = {t1}
  MaxProposals = 2
  Polls <- MCPolls
  MaxClicks = 1
PROPERTY FreshProposalShown
