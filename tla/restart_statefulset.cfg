\* SPEC.md:137 against the replacement of a StatefulSet's pod.
SPECIFICATION Spec
CONSTANTS
  Names <- StatefulPods
  Controller <- StatefulSetOf
  Bare = "bare"
  Stable <- MCStable
  PodStates <- MCStates
  MaxLives = 2
  MaxListFailures = 0
INVARIANT FailedFixEscalates
\* As in restart.cfg.
CHECK_DEADLOCK FALSE
