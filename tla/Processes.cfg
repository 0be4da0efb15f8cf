\* Executor: two calls, one of whose children cannot be signalled and would
\* ignore it; the process may die.  Process runner: chunks that end before, at and
\* across a cap of four bytes and inside a character.  Passes: every graph of two or
\* three tasks.  Rename session: a server that numbers its requests like the client or not.
CONSTANTS
  Parts = {"executor", "runner", "passes", "rename"}
  e1 = e1
  e2 = e2
  Execs <- MCExecs
  Stubborn <- OnlyFirst
  Unkillable <- OnlyFirst
  MayDie = TRUE
  MaxBytes = 4
  Chunks <- MCChunks
  MaxWritten = 6
  TaskIds <- MCTaskIds
  NoTask = NoTask
  TaskSets <- WithAndWithout
  Graphs <- EveryGraph
  Statuses <- SomeStatuses
  FirstIds = {1, 100}
  MaxAsks = 2
  None = None
SPECIFICATION MCSpec
CHECK_DEADLOCK FALSE
INVARIANTS
  LogMatchesCalls
  SuccessIsGenuine
  OutputIsCapped
  Correct
  MarksDoomed
  QuietServerIsExact
PROPERTIES
  CallersAreAnswered
  WorkEnds
