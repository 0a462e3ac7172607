SPECIFICATION JavaSpec
CONSTANTS
  Job = {j1, j2, j3}
  NoJob = NoJob
  Worker = {w1, w2, w3}
  MAX_THREAD_COUNT = 3
  Function = {f}
  Owner = {activity, fragment}
  MaxTranslators = 2
  MaxObservers = 3
  MaxVersion = 2
  None = None
  Thread = {t1, t2, t3}
  MaxScopes = 3
  NoScope = NoScope
INVARIANTS
  CountMatchesWorkers
  ConcurrencyBound
  JobsConserved
  IdleMeansDone
  AttachedInMap
  QuietMeansSeen
  OneScope
  NoScopeMissed
PROPERTIES
  QueuedIsDone
  IsJobPool
  RemovedTranslatorQuiet
  StaleIsCalled
CHECK_DEADLOCK FALSE
