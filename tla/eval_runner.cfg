\* Two scenarios, two invocations: the second meets what the first one left.
SPECIFICATION FairSpec
CONSTANTS
  Scenarios <- MCScenarios
  MaxInvocations = 2
INVARIANTS
  TypeOK
  NoConflict
  CleansUp
  ReportIsTrue
PROPERTY RunnerEnds
\* After the last invocation nobody starts another.
CHECK_DEADLOCK FALSE
