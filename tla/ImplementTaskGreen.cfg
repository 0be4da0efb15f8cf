\* One command after another: is a green run one whose checks pass?
CONSTANTS
  p1 = p1
  p2 = p2
  r1 = r1
  r2 = r2
  w1 = w1
  c1 = c1
  Procs <- OneProc
  Runs <- TwoRuns
  Plans <- OnePlan
  Checks <- OneCheck
  MaxCommands = 2
  Selections <- AnySelection
  MaxKills = 0
  Reports <- OneReport
SPECIFICATION Spec
CHECK_DEADLOCK FALSE
INVARIANT
  GreenMeansChecksPass
