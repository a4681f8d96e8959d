\* The graph under its registry, past an expiry and into a second proposal, with
\* a client, lost answers and crashes; fairness on the worker threads only.
SPECIFICATION AgentFairSpec
CONSTANTS
  Threads = {t1}
  Clients = {c1}
  Namespaces <- MCNamespaces
  WriteNamespaces <- MCWriteNamespaces
  ExecuteNamespaces <- MCExecuteNamespaces
  TTL = 1
  MaxTime = 3
  MaxProposals = 2
INVARIANTS
  TypeOK
  RestartsApproved
  NoRetry
  RestartsInScope
  OutcomeTruthful
  AuditMatchesProposal
  RegistryTypeOK
  OneInvoker
  DecidedOnce
  NotifiedOnce
  RegistryAgrees
  RestartsDecided
PROPERTIES
  ImplementsGate
  ImplementsService
  NothingUnregistered
  RunningEnds
