\* Two overlapping commands, one of which may be killed.
CONSTANTS
  p1 = p1
  p2 = p2
  o1 = o1
  n1 = n1
  r1 = r1
  r2 = r2
  Procs <- TwoProcs
  Overrides <- OneOverride
  BenchRuns <- TwoRuns
  Names <- OneName
  Policies <- TwoPolicies
  Candidates <- OneCandidate
  Anchored <- Production
  BlockOnWarn <- Production
  Disallowed <- NeverOverridden
  MaxUses <- Uses
  MaxDuration <- Hours
  Others <- Quality
  Findings <- SomeFindings
  Coverages <- AskedFor
  MaxTime = 2
  MaxCommands = 4
  MaxKills = 1
SYMMETRY Symmetry
SPECIFICATION Spec
CHECK_DEADLOCK FALSE
INVARIANTS
  ProductionAnchored
  OverridesAreAgreed
  UsesAreCounted
