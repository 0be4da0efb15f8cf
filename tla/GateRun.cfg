\* Two overlapping commands on one run, or one at a time, with every pause, which
\* may be killed.
CONSTANTS
  p1 = p1
  p2 = p2
  r1 = r1
  Procs <- TwoProcs
  Runs <- OneRun
  LastGate = 2
  Required <- MCRequired
  PlanFields <- MCPlanFields
  Pauses <- MCPauses
  MayCrash = TRUE
  MaxHistory = 5
  MaxOverlapHistory = 3
  MaxSched = 1
SPECIFICATION MCSpec
SYMMETRY Symmetry
CHECK_DEADLOCK FALSE
INVARIANTS
  GatesEarned
  HistoryReplays
  RecordsAgreeAlone
PROPERTIES
  NothingIsLostAlone
