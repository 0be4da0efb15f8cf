\* Snapshots: two branches, two contents, two commits, one snapshot.  Features: two,
\* one of them under two names, two commands or edits, memory windows of two.  Workspace
\* edits: up to three items about two paths.  Renames: every project of a dozen
\* occurrences of which at most one is what spelling does not tell, and of three files.
\* Rewrite: three files, two runs.  Ecosystem: two bundles.  Installation: two versions.
\* Scaffold: four skills for two features, one edit by the user.
CONSTANTS
  Parts = {"ecosystem", "snapshots", "feature", "edit", "go", "java", "rewrite", "install", "scaffold"}
  gov = gov
  node = node
  Branches = {main, side}
  Contents = {c1, c2}
  MaxCommits = 2
  MaxTaken = 1
  Features = {f, g, fx}
  Slug <- MCSlug
  HistoryWindow = 2
  PatternWindow = 2
  MaxActs = 2
  Sources = {x1, x2, x3}
  Asks <- MCAsks
  MaxRuns = 2
  Shipped = {plan, ship}
  Versions = {v1, v2}
  Ships <- MCShips
  GoProjects <- MCGoProjects
  JavaProjects <- MCJavaProjects
  Places = {"project", "global"}
  main = main
  c1 = c1
  f = f
  g = g
  fx = fx
  fa = fa
  fb = fb
  fc = fc
  p = p
  q = q
  lib = lib
  fn = fn
  oldName = oldName
  newName = newName
  x1 = x1
  x2 = x2
  x3 = x3
  v1 = v1
  v2 = v2
  plan = plan
  ship = ship
  Bundles = {gov, node}
  Typos = {typo}
  Governance = gov
  Requires <- MCRequires
  Presets <- MCPresets
  None = None
  Torn = Torn
SPECIFICATION MCSpec
CHECK_DEADLOCK FALSE
INVARIANTS
  AppliedSettles
  ReportsAreTrue
  
  RetryFinishes
  CommandsFinishTheJob
  EditsAreExact
PROPERTIES
  RecordsAreTrue
