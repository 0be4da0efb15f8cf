\* Crash, restart and refused commands over all graphs.
CONSTANTS
  TaskIds <- MCTaskIds
  TaskSets <- SomeTasks
  Graphs <- AllGraphs
  PriorityMaps <- Prioritised
  RetryMaps <- OneRetry
  Concurrencies = {2}
  FastFails = {TRUE, FALSE}
  Refusals <- SomeRefused
  MaxCrashes = 1
SPECIFICATION FairSpec
INVARIANTS
  DependenciesFirst
  AwaitIsDurable
  RepetitionsBound
  NoQueuedBehindFailure
PROPERTIES
  FastFailStopsLaunches
  ReaderSpec
  RunEnds
