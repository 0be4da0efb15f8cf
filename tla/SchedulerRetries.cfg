\* The documented retry limit against the code's.
CONSTANTS
  TaskIds <- MCTaskIds
  TaskSets <- SomeTasks
  Graphs <- ValidGraphs
  PriorityMaps <- Uniform
  RetryMaps <- NoRetry
  Concurrencies = {2}
  FastFails = {FALSE}
  Refusals <- NoneRefused
  MaxCrashes = 0
SPECIFICATION Spec
INVARIANTS
  RetriesEnforced
