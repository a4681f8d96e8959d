\* SPEC.md:55 outside the namespace of the harness.
SPECIFICATION FairSpec
CONSTANTS
  Pods <- OutOfEval
  Watched <- MCDefault
  PodStates <- Pend
  Debounce <- MCDebounce
  MaxCrashes = 0
PROPERTY UnschedulableFires
