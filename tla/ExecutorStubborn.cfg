\* The documented timeout against a child that ignores its signal.
CONSTANTS
  Parts = {"executor"}
  e1 = e1
  e2 = e2
  Execs <- MCExecs
  Stubborn <- OnlyFirst
  Unkillable <- Nobody
  MayDie = FALSE
  MaxBytes = 4
  Chunks <- MCChunks
  MaxWritten = 1
  TaskIds <- MCTaskIds
  NoTask = NoTask
  TaskSets <- WithAndWithout
  Graphs <- EveryGraph
  Statuses <- SomeStatuses
  FirstIds = {1}
  MaxAsks = 1
  None = None
SPECIFICATION MCSpec
CHECK_DEADLOCK FALSE
PROPERTIES
  TimeoutEnforced
