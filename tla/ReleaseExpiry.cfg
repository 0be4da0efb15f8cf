\* One process: no overlap is needed.
CONSTANTS
  p1 = p1
  p2 = p2
  o1 = o1
  n1 = n1
  r1 = r1
  r2 = r2
  Procs <- OneProc
  Overrides <- OneOverride
  BenchRuns <- TwoRuns
  Names <- OneName
  Policies <- TwoPolicies
  Candidates <- OneCandidate
  Anchored <- Production
  BlockOnWarn <- Production
  Disallowed <- NeverOverridden
  MaxUses <- Uses
  MaxDuration <- Hours
  Others <- Quality
  Findings <- SomeFindings
  Coverages <- AskedFor
  MaxTime = 2
  MaxCommands = 4
  MaxKills = 0
SYMMETRY Symmetry
SPECIFICATION Spec
CHECK_DEADLOCK FALSE
INVARIANTS
  OverridesExpire
