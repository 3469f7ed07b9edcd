CONSTANTS
  bound = bound
  free = free
  file = file
  Apps = {bound, free, file}
  Priority <- MCPriority
  Local = {file}
  Bound = {bound}
  Codes = {"autostart", "prefetch", "kill"}
  MaxParallel = 1
  MaxEvents = 3
CHECK_DEADLOCK FALSE
SPECIFICATION FairSpec
INVARIANTS
  TypeOK
  MostUrgentRun
  ProcessesOwned
  RemovedIsClean
  SignaledPresent
PROPERTIES
  StartSettles
