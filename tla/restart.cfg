\* Pods of two Deployments and a bare one, and a list call that may fail.
SPECIFICATION Spec
CONSTANTS
  Names <- Deployments
  Controller <- DeploymentOf
  Bare = "bare"
  Stable <- MCStable
  PodStates <- MCStates
  MaxLives = 1
  MaxListFailures = 1
INVARIANTS
  TypeOK
  HealthyIsSpared
  VerdictIsTrue
\* Once the names are used up and their pods gone, nothing happens any more.
CHECK_DEADLOCK FALSE
