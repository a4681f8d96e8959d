\* Two shells, three targets, two run directories, failures and kills anywhere.
SPECIFICATION Spec
CONSTANTS
  ScenarioSeq <- MCScenarioSeq
  KnownRootCause <- MCKnown
  Vocab <- MCVocab
  StepLogs <- MCStepLogs
  Models <- MCModels
  Shells = {sh1, sh2}
  MaxRuns = 2
  MaxTargets = 3
SYMMETRY MCSymmetry
INVARIANTS
  TypeOK
  TrajectoryFair
  CountsAddUp
  RepliesContained
  SuccessIsPublished
  ProvenanceSaysWhoRan
PROPERTY
  PublishedStays
\* After the last target of the bound nothing is left to do.
CHECK_DEADLOCK FALSE
