\* DESIGN.md:81 against an exception in classify.
SPECIFICATION FairSpec
CONSTANTS
  Pods <- OnePod
  Watched <- MCEval
  PodStates <- Pend
  Debounce <- MCDebounce
  MaxCrashes = 0
PROPERTY KeepsWatching
