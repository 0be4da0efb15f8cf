\* Reviews: four files, one plan, three changes of the tree or of what else a review
\* reads, one review.  Ultrawork: two runs, a trusted reviewer and another, two changes.
\* Benchmark: three runs, three weeks, a window of two.  Readiness: six worlds, one change.
\* Repair: two runs of at most two rounds, two moves.
\* Evidence: three projects, five ways to ask, two commands and two changes.
\* Commands: eight projects, three commands or changes of the project.
CONSTANTS
  Parts = {"merge", "ultrawork", "benchmark", "readiness", "repair", "evidence", "commands"}
  None = None
  w1 = w1
  lib = lib
  api = api
  spec = spec
  big = big
  mine = mine
  other = other
  ann = ann
  bob = bob
  c1 = c1
  c2 = c2
  Torn = Torn
  Tasks <- OnePlan
  Files <- MCFiles
  Tests <- MCTests
  Sources <- MCSources
  Api <- MCApi
  Sensitive <- MCApi
  Services <- MCBig
  Marked <- MCBig
  Chained <- MCApi
  Lines <- MCLines
  Changes <- MCChanges
  Makings <- MCMakings
  Asks <- MCAsks
  Projects <- MCProjects
  MaxMoves = 3
  MaxReviews = 1
  Ids <- MCIds
  Trusted <- MCTrusted
  Reviewers <- MCReviewers
  Outcomes <- MCOutcomes
  Supplies <- MCSupplies
  Cases <- MCCases
  Covers <- MCCovers
  Suites <- MCSuites
  Presets <- MCPresets
  Worlds <- MCWorlds
  Answers <- MCAnswers
  Toolchains <- MCToolchains
  Runs <- MCRuns
  Interface <- MCInterface
  Endings <- MCEndings
  Objective <- MCObjective
  Biases <- MCBiases
  Histories <- MCHistories
  Trees <- MCTrees
  MaxRounds <- MCMaxRounds
  Policies <- MCPolicies
  Candidates <- MCCandidates
  Copies <- MCCopies
  Grants <- MCGrants
  Ages <- MCAges
  Questions <- MCQuestions
  Packages <- MCPackages
  Skills <- MCSkills
  Lists <- MCLists
  HasKey = TRUE
  Mine = mine
  MaxChanges = 2
  Window = 2
  MaxRuns = 3
  MaxWeek = 3
  MaxSwaps = 1
  MaxSteps = 2
  MaxShifts = 2
  MaxCommands = 2
  MaxTurns = 3
SPECIFICATION MCSpec
CHECK_DEADLOCK FALSE
INVARIANTS
  VerdictsAgree
  ReadyIsTrue
  ReviewsAreSigned
  BenchmarksAreHonest
  ClaimsAreProven
  AdviceIsSound
PROPERTIES
  MinimumIsKept
