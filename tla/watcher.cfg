\* One pod through every state, the watcher anywhere in its sweep, a restart.
SPECIFICATION FairSpec
CONSTANTS
  Pods <- OnePod
  Watched <- MCEval
  PodStates <- EveryState
  Debounce <- MCDebounce
  MaxCrashes = 1
INVARIANTS
  TypeOK
  OneActiveRun
PROPERTIES
  DebounceHolds
  PersistentFailureFires
