\* SPEC.md:163-165 against a run that raises after the deletion.
SPECIFICATION Spec
CONSTANTS
  Threads = {t1}
  Namespaces <- MCNamespaces
  WriteNamespaces <- MCWriteNamespaces
  ExecuteNamespaces <- MCExecuteNamespaces
  TTL = 1
  MaxTime = 5
  MaxProposals = 3
INVARIANT EveryRestartAudited
\* A run that has closed or failed stops for good.
CHECK_DEADLOCK FALSE
