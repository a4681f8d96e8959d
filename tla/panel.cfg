\* One tab, two polls in flight, two clicks, and other surfaces deciding too.
SPECIFICATION FairSpec
CONSTANTS
  Threads = {t1}
  MaxProposals = 2
  Polls <- MCPolls
  MaxClicks = 2
INVARIANTS
  TypeOK
  PageIsTrue
PROPERTIES
  WaitingResolves
  UndecidedIsShown
