CONSTANTS
  Pids = {p1, p2, p3}
  Buffers = {b1, b2}
  NoBuffer = NoBuffer
  MaxFilters = 2
  MaxTasks = 2
  MaxSections = 3
  MaxNetworks = 2
SPECIFICATION Spec
INVARIANTS
  SectionsAreCurrent
CHECK_DEADLOCK FALSE
