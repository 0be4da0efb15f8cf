----------------------------- MODULE ReviewGate -----------------------------
(***************************************************************************)
(* review-gate report (cli/review-gate-cli.js) and the quality gate it     *)
(* calls (core/quality-gate.js), over a working tree that its user goes on *)
(* changing.  A review reads the plan and its coder run, then the index,   *)
(* then the working tree, then awaits the quality gate, then reads the     *)
(* benchmark history, judges what it read and writes its report.           *)
(*                                                                         *)
(* A file is one of a few kinds, for what the review tells from its name   *)
(* and from the text of its change; the checks of a plugin workspace, and  *)
(* those of a feature, are left out.                                       *)
(***************************************************************************)
EXTENDS Naturals, FiniteSets, FiniteSetsExt

CONSTANTS
  Tasks,      \* implementation plans; a plan's coder run goes by its name
  Files, Tests, Sources, Api, Sensitive, Services,   \* the kinds of file
  Marked, Chained,   \* files whose changes hold debug marks, promise chains
  Lines,      \* the lines a file's change has
  Changes,    \* the sets of files a user changes at once
  Makings,    \* what a plan and its run are made with: [status, snapshot, targets, style,
              \* surface], with a surface [allowed, expected] or None
  Asks,       \* what a review is asked for: [quality, elsewhere, drifts]
  Projects,   \* [git, manifest, ignored, scan, red]: what the gates find in the project
  MaxMoves,   \* bound on what the user and other commands do
  MaxReviews, \* bound on the reviews begun
  None

ASSUME ReviewAssumption ==
  /\ Tests \cup Sources \cup Api \cup Sensitive \cup Services \cup Marked \cup Chained \subseteq Files
  /\ Tests \cap Sources = {}
  /\ Lines \in [Files -> Nat] /\ MaxMoves \in Nat /\ MaxReviews \in Nat
  /\ IsFiniteSet(Files) /\ Changes \subseteq SUBSET Files

\* The statuses of a coder run, and the surfaces its patch may be held to.
Statuses == {"initialized", "green", "needs_fix"}
Surfaces == [allowed : Nat, expected : SUBSET Files]

\* What the quality gate looks at: a project's scripts, and the project.
Scripts == {"lint", "typecheck", "build"}
Checks == Scripts \cup {"package.json", "package.json.parse", ".gitignore", "static.scan.failures",
                        "static.scan.warnings"}

ASSUME MakingsAssumption == \A m \in Makings :
  /\ m.status \in Statuses /\ m.style \in BOOLEAN /\ m.targets \subseteq Files
  /\ m.surface \in Surfaces \cup {None}

ASSUME ProjectsAssumption ==
  /\ \A p \in Projects : /\ p.git \in BOOLEAN /\ p.manifest \in {"valid", "none", "broken"}
                         /\ p.red \subseteq Scripts
  /\ \A a \in Asks : a.quality \in {"none", "fast", "full"} /\ a.elsewhere \in BOOLEAN

\* What is missing is not taken for something else.
ASSUME NoneAssumption ==
  /\ None \notin Tasks /\ None \notin Surfaces
  /\ None \notin [status : Statuses, surface : Surfaces \cup {None}, style : BOOLEAN]
  /\ None \notin [failed : SUBSET Checks, warned : SUBSET Checks]
  /\ None \notin {"accept", "warning", "reject", "apply", "narrow_patch", "split_or_rollback"}

VARIABLES
  tree,      \* the files staged, unstaged and untracked
  setup,     \* the member of Projects that the project is
  bucket,    \* what the benchmark history says of the task
  plans,     \* the plans' plan.json
  runs,      \* the coder runs' files
  latestRun, \* the run coder-loop/latest.json names
  look,      \* the review under way
  review,    \* reviews/merge-gate/latest.json
  stale,     \* history: what the latest review read has changed since it began
  moves, begun   \* history: how much the user and other commands have done, reviews begun

reviewVars == <<tree, setup, bucket, plans, runs, latestRun, look, review, stale, moves, begun>>

Idle == [at |-> "idle"]
When(holds, name) == IF holds THEN {name} ELSE {}

Buckets == {"unknown", "low", "improving", "medium", "high"}

Init ==
  /\ tree = [staged |-> {}, unstaged |-> {}, untracked |-> {}]
  /\ setup \in Projects
  /\ bucket \in Buckets
  /\ plans = [t \in Tasks |-> None] /\ runs = [t \in Tasks |-> None]
  /\ latestRun = None
  /\ look = Idle /\ review = None
  /\ stale = TRUE /\ moves = 0 /\ begun = 0

------------------------------------------------------------------------------
(* What goes on beside a review: none of it is known to it. *)

Move == /\ moves < MaxMoves /\ moves' = moves + 1 /\ stale' = TRUE
        /\ look' = IF look = Idle THEN Idle ELSE [look EXCEPT !.moved = TRUE]
        /\ UNCHANGED <<review, begun>>

Edit == \E changed \in Changes :
  /\ Move /\ tree' = [tree EXCEPT !.unstaged = @ \cup changed]
  /\ UNCHANGED <<setup, bucket, plans, runs, latestRun>>

AddFile == \E f \in Files :
  /\ f \notin tree.staged \cup tree.unstaged /\ Move
  /\ tree' = [tree EXCEPT !.untracked = @ \cup {f}]
  /\ UNCHANGED <<setup, bucket, plans, runs, latestRun>>

\* git add --all
Stage ==
  /\ setup.git /\ tree.unstaged \cup tree.untracked # {} /\ Move
  /\ tree' = [staged |-> UNION {tree.staged, tree.unstaged, tree.untracked},
              unstaged |-> {}, untracked |-> {}]
  /\ UNCHANGED <<setup, bucket, plans, runs, latestRun>>

Configure ==
  /\ setup' \in {s \in Projects \ {setup} : s.git = setup.git} /\ Move
  /\ UNCHANGED <<tree, bucket, plans, runs, latestRun>>

Measure ==
  /\ bucket' \in Buckets \ {bucket} /\ Move
  /\ UNCHANGED <<tree, setup, plans, runs, latestRun>>

\* implement-task: a run, validated or not, and a plan that says what the run's
\* status, the snapshot and the benchmark history are at that moment.
Plan == \E t \in Tasks, m \in Makings :
  /\ plans[t] = None /\ Move
  /\ runs' = [runs EXCEPT ![t] = [status |-> m.status, surface |-> m.surface, style |-> m.style]]
  /\ plans' = [plans EXCEPT ![t] = [status |-> m.status, snapshot |-> m.snapshot,
                                    targets |-> m.targets, bucket |-> bucket]]
  /\ latestRun' = t
  /\ UNCHANGED <<tree, setup, bucket>>

\* coder-loop run: the run's file and the pointer to it, not the plan.
Round == \E t \in Tasks, status \in {"green", "needs_fix"} :
  /\ runs[t] # None /\ Move
  /\ runs' = [runs EXCEPT ![t].status = status]
  /\ latestRun' = t
  /\ UNCHANGED <<tree, setup, bucket, plans>>

------------------------------------------------------------------------------
(* The quality gate, which the review always asks to be strict. *)

Failed(full) ==
  UNION {When(setup.manifest = "broken", "package.json.parse"),
         When("fail" \in setup.scan, "static.scan.failures"),
         When("warn" \in setup.scan, "static.scan.warnings"),
         IF full /\ setup.manifest = "valid" THEN setup.red ELSE {}}

Warned == When(setup.manifest = "none", "package.json") \cup When(~setup.ignored, ".gitignore")

runQualityGate(full) == [failed |-> Failed(full), warned |-> Warned]

\* Asked for another root, the quality gate is still that of the directory the command
\* runs in, which has nothing wrong with it.
Spotless == [failed |-> {}, warned |-> {}]

------------------------------------------------------------------------------
(* A review: what it reads, in its order. *)

\* A plan named or the latest, or none; its run, a run named, or the latest.
Begin == \E ask \in Asks, t \in {None} \cup {u \in Tasks : plans[u] # None} :
  \E r \in {IF t = None THEN latestRun ELSE t} \cup {u \in Tasks : runs[u] # None} :
    /\ look = Idle /\ begun < MaxReviews /\ begun' = begun + 1
    /\ look' = [at |-> "index", moved |-> FALSE, ask |-> ask, task |-> t, run |-> r,
                plan |-> IF t = None THEN None ELSE plans[t],
                coder |-> IF r = None THEN None ELSE runs[r],
                changed |-> IF t = None THEN {} ELSE plans[t].targets,
                diff |-> {}, lines |-> 0, found |-> None]
    /\ UNCHANGED <<tree, setup, bucket, plans, runs, latestRun, review, stale, moves>>

\* The names in a diff, and its text: no untracked file is in either.
Collect(files, next) ==
  LET seen == IF setup.git THEN files ELSE {} IN
  /\ look' = [look EXCEPT !.at = next, !.changed = @ \cup seen, !.diff = @ \cup seen,
                          !.lines = @ + MapThenSumSet(LAMBDA f : Lines[f], seen)]
  /\ UNCHANGED <<tree, setup, bucket, plans, runs, latestRun, review, stale, moves, begun>>

\* Mutant: the staged diff is read twice.
MutStagedTwice == look.at = "tree" /\ Collect(tree.staged, "quality")

ReadIndex == look.at = "index" /\ Collect(tree.staged, "tree")
ReadTree == look.at = "tree" /\ Collect(tree.unstaged, "quality")

RunQuality ==
  /\ look.at = "quality"
  /\ look' = [look EXCEPT !.at = "judge",
                !.found = CASE look.ask.quality = "none" -> None
                            [] look.ask.elsewhere -> Spotless
                            [] OTHER -> runQualityGate(look.ask.quality = "full")]
  /\ UNCHANGED <<tree, setup, bucket, plans, runs, latestRun, review, stale, moves, begun>>

------------------------------------------------------------------------------
(* What it makes of it. *)

\* The level, strategy and validation assessBenchmarkFeedback derives.
RiskLevel(b) == IF b = "improving" THEN "low" ELSE b
StrategyBias(b) ==
  CASE b = "high" -> "conservative" [] b = "improving" -> "accelerated" [] OTHER -> "balanced"
ReviewRequired(b) == b \in {"medium", "high"}

buildReviewPolicy(b) ==
  CASE StrategyBias(b) = "conservative" -> [files |-> 8, lines |-> 320, posture |-> "strict"]
    [] StrategyBias(b) = "accelerated" -> [files |-> 16, lines |-> 700, posture |-> "fast"]
    [] OTHER -> [files |-> 12, lines |-> 500, posture |-> "balanced"]

\* A patch is too wide for its run's surface, or mostly beside it: more than 0.34 of it,
\* in hundredths.  A coder run has no repair recipe, so none of its files is protected.
Assessment(l) ==
  LET surface == l.coder.surface
      beside == Cardinality(l.changed \ surface.expected)
  IN [exceeded |-> Cardinality(l.changed) > surface.allowed,
      strays   |-> l.changed # {} /\ 200 * beside >= 69 * Cardinality(l.changed)]

HasSurface(l) == l.coder # None /\ l.coder.surface # None

\* Mutant: a patch mostly beside its surface is not looked at further.
MutStraysFirst(l) ==
  CASE ~HasSurface(l) -> None
    [] HasSurface(l) /\ Assessment(l).strays -> "warning"
    [] OTHER -> IF Assessment(l).exceeded THEN "reject" ELSE "accept"

evaluatePatchFootprint(l) ==
  CASE ~HasSurface(l) -> None
    [] HasSurface(l) /\ Assessment(l).exceeded -> "reject"
    [] OTHER -> IF Assessment(l).strays THEN "warning" ELSE "accept"

derivePatchDecision(a) ==
  CASE a.exceeded -> "split_or_rollback"
    [] ~a.exceeded /\ a.strays -> "narrow_patch"
    [] OTHER -> "apply"

assessStyleDrift(l) ==
  /\ l.coder # None /\ l.coder.style
  /\ \/ l.changed \cap Api # {} /\ l.changed \cap Services = {}
     \/ l.diff \cap Chained # {}

Unready(l)   == l.plan # None /\ l.plan.snapshot # "ready"
Critical(l)  == bucket = "high" \/ l.changed \cap Sensitive # {}
Unproved(l)  == ReviewRequired(bucket) /\ l.ask.quality # "full"
Untested(l)  == l.changed \cap Tests = {}

Blockers(l) ==
  UNION {When(l.coder # None /\ l.coder.status # "green", "coder-loop"),
         When(l.found # None /\ l.found.failed # {}, "quality gate failed"),
         When(Unready(l) /\ Critical(l), "snapshot"),
         When(evaluatePatchFootprint(l) = "reject", "patch footprint"),
         When(bucket = "high" /\ Unproved(l) /\ l.changed \cap Sources # {}, "full validation")}

Followups(l) ==
  UNION {When(l.found # None /\ l.found.warned # {}, "quality gate warning"),
         When(l.changed \cap Sources # {} /\ Untested(l), "tests"),
         When(l.changed \cap Api # {} /\ Untested(l), "contract"),
         When(l.changed \cap Sensitive # {}, "sensitive files"),
         When(l.diff \cap Marked # {}, "debug marks"),
         When(\/ l.lines > buildReviewPolicy(bucket).lines
              \/ Cardinality(l.changed) > buildReviewPolicy(bucket).files, "large surface"),
         When(Unready(l) /\ ~Critical(l), "snapshot"),
         When(l.ask.drifts, "workspace drift"),
         When(ReviewRequired(bucket), "benchmark history"),
         When(Unproved(l), "full validation"),
         When(assessStyleDrift(l), "style contract"),
         When(evaluatePatchFootprint(l) = "warning", "unrelated edits")}

Verdict(l) ==
  CASE Blockers(l) # {} -> "BLOCK"
    [] Blockers(l) = {} /\ Followups(l) # {} -> "ACCEPT_WITH_FOLLOWUPS"
    [] OTHER -> "ACCEPT"

\* The rules of the evidence bundle, which judge the same evidence a second time.
Rules(l) ==
  [quality |-> CASE l.found = None -> "warn"
                 [] OTHER -> IF l.found.failed = {} THEN "pass" ELSE "fail",
   tests |-> IF l.changed \cap Sources # {} /\ Untested(l) THEN "warn" ELSE "pass",
   risk |-> IF ReviewRequired(bucket) THEN "warn" ELSE "pass",
   patch |-> CASE evaluatePatchFootprint(l) = None -> "skip"
               [] evaluatePatchFootprint(l) = "reject" -> "fail"
               [] evaluatePatchFootprint(l) = "warning" -> "warn"
               [] OTHER -> "pass"]

evaluateGate(l) ==
  LET statuses == {Rules(l)[r] : r \in DOMAIN Rules(l)} IN
  CASE "fail" \in statuses -> "blocked"
    [] "warn" \in statuses \ {"fail"} -> "caution"
    [] OTHER -> "ready"

Judged(l) ==
  [task |-> l.task, run |-> l.run, ask |-> l.ask, verdict |-> Verdict(l),
   posture |-> buildReviewPolicy(bucket).posture, decision |-> evaluateGate(l),
   footprint |-> evaluatePatchFootprint(l),
   patch |-> IF HasSurface(l) THEN derivePatchDecision(Assessment(l)) ELSE None]

Judge ==
  /\ look.at = "judge" /\ review' = Judged(look)
  /\ stale' = look.moved
  /\ look' = Idle
  /\ UNCHANGED <<tree, setup, bucket, plans, runs, latestRun, moves, begun>>

Kill ==
  /\ look # Idle /\ look' = Idle
  /\ UNCHANGED <<tree, setup, bucket, plans, runs, latestRun, review, stale, moves, begun>>

Moves == Edit \/ AddFile \/ Stage \/ Configure \/ Measure \/ Plan \/ Round
Reviews == Begin \/ ReadIndex \/ ReadTree \/ RunQuality \/ Judge \/ Kill

------------------------------------------------------------------------------
\* A review's two judgements of one evidence agree: a merge its evidence bundle blocks is
\* blocked, one it accepts without followups is ready there unless the quality gate was
\* not asked for, and its patch decision lets apply just the patches its footprint does
\* not object to.
VerdictsAgree == review # None =>
  /\ review.decision = "blocked" => review.verdict = "BLOCK"
  /\ review.verdict = "ACCEPT" =>
       /\ review.decision = "ready" \/ (review.decision = "caution" /\ review.ask.quality = "none")
       /\ review.patch \in {None, "apply"} /\ review.posture # "strict"
  /\ (review.footprint = "reject") <=> (review.patch = "split_or_rollback")
  /\ (review.footprint = "warning") <=> (review.patch = "narrow_patch")
  /\ review.footprint = "reject" => review.verdict = "BLOCK"
==============================================================================
