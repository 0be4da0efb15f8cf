\* Two overlapping commands, each of which may be killed at any point.
CONSTANTS
  p1 = p1
  p2 = p2
  r1 = r1
  r2 = r2
  w1 = w1
  c1 = c1
  Procs <- TwoProcs
  Runs <- TwoRuns
  Plans <- OnePlan
  Checks <- OneCheck
  MaxCommands = 2
  Selections <- Selected
  MaxKills = 2
  Reports <- OneReport
SYMMETRY Symmetry
SPECIFICATION Spec
CHECK_DEADLOCK FALSE
INVARIANTS
  FilesResolve
  EventsAgree
  AloneIsInStep
PROPERTIES
  TraceRefines
