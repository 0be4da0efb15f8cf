------------------------------ MODULE MCReview ------------------------------
(* What judges a change before it is merged or released: a review and the   
   delivery report over it, the gated flow of eoc-ultrawork with its signed 
   reviews, the reports and histories that such judgements stand on, and the
   commands that verify a feature.                                          
   One part is chosen at the start; the variables of the others are None.  *)
EXTENDS DeliveryReport, Sequences, TLC

CONSTANTS
  Parts,   \* the parts to choose from
  Ids, Trusted, Reviewers, HasKey, Mine, Outcomes, Supplies, MaxChanges,   \* Ultrawork
  Cases, Covers, Suites, Presets, Window, MaxRuns, MaxWeek, Torn,          \* BenchmarkHistory
  Worlds, Answers, Toolchains, MaxSwaps,                                   \* LspReadiness
  Runs, Interface, Endings, Objective, Biases, Histories, Trees, MaxRounds, MaxSteps,   \* RepairAdvice
  Policies, Candidates, Copies, Grants, Ages, Questions, MaxShifts, MaxCommands,   \* ReleaseReports
  Packages, Skills, Lists, MaxTurns,                                       \* VerifyCommands
  w1, lib, api, spec, big, mine, other, ann, bob, c1, c2                   \* names for the instances

\* A world tells what each place of each language holds.
ASSUME WorldsAssumption == \A w \in Worlds :
  DOMAIN w = {"go", "java"} /\ \A l \in DOMAIN w : DOMAIN w[l] = {"explicit", "discovered", "path"}

\* A suite's cases fail a number of checks, policies speak of numbers of runs and weeks, and
\* neither what is missing nor a torn file is taken for a run.
Scope == {"runtime_framework", "task_family", "skill"}
CaseResults == [dims : SUBSET Scope, failed : Nat, success : BOOLEAN, passed : BOOLEAN]
ASSUME CasesAssumption ==
  /\ IsFiniteSet(Cases) /\ Covers \in [Cases -> SUBSET Scope] /\ MaxRuns \in Nat
  /\ \A s \in Suites : \A c \in Cases : s[c] # None => s[c].failed \in Nat /\ s[c].met \in BOOLEAN
  /\ \A p \in Presets : p.runs \in Nat /\ p.fresh \in Nat /\ p.aging \in Nat /\ p.stale \in Nat
  /\ \A p \in Presets : p.coverage \in {"partial", "sufficient"}
  /\ Torn # None /\ None \notin {"detection", "plan", "review"} /\ None \notin CaseResults
  /\ None \notin [week : Nat, outcomes : Suites, results : [Cases -> {None} \cup CaseResults]]

\* A project has baselines of some names, those that are looked for among them; commands are
\* run with a policy, and what is missing is not taken for a report.
BaselineNames == UNION {DOMAIN c.baselines : c \in Copies}
ReleaseProjects ==
  [git : BOOLEAN, dirty : BOOLEAN, ignored : BOOLEAN, depends : BOOLEAN, checks : {"pass", "warn", "fail"},
   age : Nat, worse : BOOLEAN, snapshot : {"none", "old", "current"},
   baselines : [BaselineNames -> {"missing", "unapproved", "approved"}]]
CheckReports ==
  [policy : Policies, name : BaselineNames,
   decision : {"ready", "caution", "blocked", "ready_with_override"},
   approved : BOOLEAN, fresh : BOOLEAN, rollback : BOOLEAN]
ASSUME EvidenceAssumption ==
  /\ Policies \subseteq {"internal", "standard", "production"} /\ Policies # {}
  /\ Copies \subseteq ReleaseProjects /\ Ages \subseteq Nat /\ "release" \in BaselineNames
  /\ \A p \in Policies : Candidates[p] \in Seq(BaselineNames) /\ Candidates[p] # <<>>
  /\ Questions \subseteq [kind : {"rehearsal", "check", "evidence", "audit", "preflight"}, policy : Policies,
                          name : BaselineNames \cup {None}, override : BOOLEAN,
                          steps : SUBSET {"scripts", "check", "evidence"}]
  /\ \A g \in Grants : g.policy \in Policies
  /\ None \notin Policies /\ None \notin BOOLEAN /\ None \notin CheckReports

\* A project is run by one of two package managers, and None is no name of a script.
ASSUME PackagesAssumption == None \notin {"tool", "ci:test"} /\ \A p \in Packages : p.pm \in {"npm", "pnpm"}

VARIABLES part, paper, signed, outcome, given, run, step, ending, changes, meddled,
          week, files, archived, baseline, approval, sweep,
          places, toolchain, assumed, cache, probes, results, phase, swaps, held,
          loops, links, lastPlan, touched, risk, justRun, steps,
          source, override, rehearsal, cmd, shown, still, same, lets, shifts, commands,
          project, memory, job, turns

ultraVars == <<paper, signed, outcome, given, run, step, ending, changes, meddled>>

historyVars == <<week, files, archived, baseline, approval, sweep>>

readinessVars == <<places, toolchain, assumed, cache, probes, results, phase, swaps, held>>

repairVars == <<loops, links, lastPlan, touched, risk, justRun, steps>>

evidenceVars == <<source, override, rehearsal, cmd, shown, still, same, lets, shifts, commands>>

verifyVars == <<project, memory, job, turns>>

allVars == <<part, reviewVars, ultraVars, historyVars, readinessVars, repairVars, evidenceVars, verifyVars>>

------------------------------------------------------------------------------
(* A library source with its test, an interface that is also sensitive, and a large
   source that is a service and full of debug marks. *)
OnePlan == {w1}
MCFiles == {lib, api, spec, big}
MCTests == {spec}
MCSources == {lib, api, big}
MCApi == {api}
MCBig == {big}
MCLines == [f \in MCFiles |-> IF f = big THEN 600 ELSE 10]
MCChanges == {{lib, spec}, {api}, {big}}

Making(status, snapshot, targets, style, surface) ==
  [status |-> status, snapshot |-> snapshot, targets |-> targets, style |-> style, surface |-> surface]
Surface(allowed) == [allowed |-> allowed, expected |-> {lib, spec}]
MCMakings == {Making("green", "ready", {spec}, FALSE, Surface(2)),
              Making("green", "dirty", {}, TRUE, None),
              Making("initialized", "ready", {}, FALSE, Surface(4))}

Asking(quality, elsewhere, drifts) == [quality |-> quality, elsewhere |-> elsewhere, drifts |-> drifts]
MCAsks == {Asking("fast", FALSE, FALSE), Asking("full", FALSE, FALSE), Asking("none", FALSE, TRUE),
           Asking("full", TRUE, FALSE)}

Found(git, manifest, ignored, scan, red) ==
  [git |-> git, manifest |-> manifest, ignored |-> ignored, scan |-> scan, red |-> red]
MCProjects == {Found(TRUE, "valid", TRUE, {}, {"build"}), Found(TRUE, "none", FALSE, {"warn"}, {}),
               Found(TRUE, "broken", TRUE, {"fail"}, {"lint"}), Found(FALSE, "valid", TRUE, {}, {})}

Goes(tasks, quality, coverage) == [tasks |-> tasks, quality |-> quality, coverage |-> coverage]
MCOutcomes == {Goes("completed", TRUE, {"enough"}), Goes("failed", TRUE, {"enough"}),
               Goes("completed", TRUE, {"enough", "low"})}

Plain == [kind \in {"scope", "implementation", "docs", "archive"} |-> "plain"]
MCSupplies == {Plain, [Plain EXCEPT !["scope"] = "foreign"], [Plain EXCEPT !["implementation"] = None]}

MCIds == {mine, other}
MCTrusted == {ann}
MCReviewers == {ann, bob}

\* A case that all of the scope is planned in, and one of another runtime and another skill.
Case(error, failed, verdict, met) == [error |-> error, failed |-> failed, verdict |-> verdict, met |-> met]
Well == Case(None, 0, "ACCEPT", TRUE)
Poor == Case(None, 0, "ACCEPT", FALSE)
MCSuites == {(c1 :> x) @@ (c2 :> None) :
               x \in {Well, Case("plan", 0, None, TRUE), Case("detection", 0, None, FALSE), Case(None, 2, "BLOCK", FALSE)}}
            \cup {(c1 :> Case("review", 0, None, TRUE)) @@ (c2 :> Poor)}
Preset(least, confidence, coverage, fresh, aging, old) ==
  [runs |-> least, confidence |-> confidence, coverage |-> coverage, fresh |-> fresh, aging |-> aging,
   stale |-> old]

MCCases == {c1, c2}
MCCovers == (c1 :> {"runtime_framework", "task_family", "skill"}) @@ (c2 :> {"task_family"})
MCPresets == {Preset(1, 20, "sufficient", 0, 1, 2), Preset(2, 10, "partial", 1, 2, 3)}

At(explicit, discovered, path) == [explicit |-> explicit, discovered |-> discovered, path |-> path]
Answer(prepared, renamed) == [ok |-> TRUE, prepared |-> prepared, renamed |-> renamed]
MCWorlds == {("go" :> x) @@ ("java" :> y) :
               x \in {At(None, "real", None), At(None, None, "fake"), At("custom", "real", None)},
               y \in {At(None, "real", None), At("missing", None, "real")}}
MCAnswers == {Answer(TRUE, "some"), Answer(FALSE, "every"), Answer(TRUE, "none")}
MCToolchains == {{"go", "java"}, {"home"}}

\* Files are numbers; the seventh is a service.
Bad(file, category) == [file |-> file, category |-> category]
Goal(says, named, impact, expected) == [says |-> says, targets |-> named, impact |-> impact, expected |-> expected]
Ended(failures, says, failing) == [failures |-> failures, says |-> says, failing |-> failing]
Types(n) == [i \in 1..n |-> Bad(i, "type_error")]
MCEndings == {Ended(<<>>, {}, 1), Ended(Types(1), {}, 1), Ended(<<Bad(7, "test_failure")>>, {}, 1),
            Ended(<<Bad(None, "build_error")>>, {}, 1), Ended(Types(13), {}, 2)}

MCRuns == {c1, c2}
MCInterface == {7}
MCObjective == (c1 :> Goal({"fix"}, 1, 12, 1..6)) @@ (c2 :> Goal({"refactor", "test"}, 3, 2, 1..2))
MCBiases == {[bias |-> "accelerated", scope |-> "narrow", mode |-> None]}
MCHistories == {"medium", "high"}
MCTrees == {{}, 6..16}
MCMaxRounds == (c1 :> 2) @@ (c2 :> 1)

\* A project that is not ready for any release, and one that lacks nothing but may need
\* what a copy has not.
Source(ready, depends, anchor, age) ==
  [git |-> TRUE, dirty |-> ~ready, ignored |-> TRUE, depends |-> depends, checks |-> "pass",
   age |-> age, worse |-> FALSE, snapshot |-> IF ready THEN "current" ELSE "none",
   baselines |-> ("canonical" :> anchor) @@ ("release" :> "approved")]
Ask(kind, policy, name, overrides, asked) ==
  [kind |-> kind, policy |-> policy, name |-> name, override |-> overrides, steps |-> asked]
MCPolicies == {"standard", "production"}
MCCandidates == [p \in MCPolicies |-> <<"canonical", "release">>]
MCCopies == {Source(TRUE, FALSE, "approved", 0), Source(TRUE, TRUE, "missing", 30),
             [Source(FALSE, FALSE, "missing", 0) EXCEPT !.ignored = FALSE]}
MCGrants == {[policy |-> "standard", allowed |-> {"comparison", "freshness", "approval"}]}
MCAges == {0, 30}
MCQuestions ==
  {Ask("rehearsal", "production", "canonical", FALSE, {}), Ask("check", "standard", None, TRUE, {}),
   Ask("evidence", "standard", None, TRUE, {}), Ask("audit", "production", None, FALSE, {})}
  \cup {Ask("preflight", "production", None, FALSE, asked) : asked \in {{"scripts"}, {"check", "evidence"}}}

\* A project's scripts, and what runs the tests of one that says nothing of it.
Names == {"build", "lint", "test", "test:unit", "test:ci", "ci:test", "test:watch", "watch:test",
          "test:dev", "test:coverage", "coverage", "coverage:test", "typecheck"}
Package(pm, tool, others, suite, mentions, body) ==
  [pm |-> pm, tool |-> tool, others |-> others, suite |-> suite, mentions |-> mentions,
   body |-> body @@ [n \in Names |-> None]]
Npm(script) == [by |-> "npm", do |-> script]
MCPackages ==
  {Package("npm", FALSE, {}, FALSE, "none", [build |-> "other", test |-> "placeholder"]),
   Package("npm", TRUE, {"typecheck", "lint"}, FALSE, "none", [build |-> "other"]),
   Package("npm", FALSE, {}, TRUE, "node", [lint |-> "other"]),
   Package("pnpm", TRUE, {}, FALSE, "none", [build |-> "other", test |-> "tool"]),
   Package("npm", TRUE, {}, FALSE, "none", ("test:unit" :> "tool") @@ ("test:watch" :> "tool")),
   Package("npm", TRUE, {}, FALSE, "none", ("ci:test" :> "tool") @@ ("test" :> "tool")),
   Package("npm", FALSE, {}, FALSE, "tool", ("test:ci" :> "other") @@ ("coverage" :> "other")),
   Package("pnpm", FALSE, {"lint", "build"}, FALSE, "node",
           ("test:coverage" :> "tool") @@ ("watch:test" :> "other"))}
MCSkills == {<<"build", "test">>, <<"test">>}
MCLists == {<<>>, <<Npm("build"), Npm("test")>>, <<Npm("test:watch")>>, <<Npm("coverage")>>}

------------------------------------------------------------------------------
(* The parts, each with what its constants are called here. *)
U == INSTANCE Ultrawork
B == INSTANCE BenchmarkHistory WITH Policies <- Presets
P == INSTANCE LspReadiness WITH MaxMoves <- MaxSwaps
A == INSTANCE RepairAdvice WITH
       Outcomes <- Endings, Asks <- Biases, MaxMoves <- MaxSteps,
       runs <- loops, plans <- links, latestPlan <- lastPlan, fresh <- justRun, moves <- steps
E == INSTANCE ReleaseReports WITH
       Sources <- Copies, Asks <- Questions, MaxMoves <- MaxShifts, moves <- shifts
C == INSTANCE VerifyCommands WITH Projects <- Packages

\* A round reports a list of failures, the histories are those the code tells apart, and what
\* stands for a missing run or advice is not one.
ASSUME AdviceAssumption ==
  /\ \A r \in Runs : Objective[r].impact \in Nat
  /\ \A e \in Endings : e.failures \in Seq(UNION {A!ToSet(x.failures) : x \in Endings})
  /\ Histories \subseteq A!ToSet(A!Risks)
  /\ None \notin Runs \cup A!RunRecords(Runs) \cup A!Advices(Runs)

NoReview == /\ tree = None /\ setup = None /\ bucket = None /\ plans = [t \in Tasks |-> None] /\ runs = None
            /\ latestRun = None /\ look = None /\ review = None /\ stale = None /\ moves = None
            /\ begun = None
NoUltra == /\ paper = None /\ signed = None /\ outcome = None /\ given = None /\ run = None
           /\ step = None /\ ending = None /\ changes = None /\ meddled = None
NoHistory == /\ week = None /\ files = None /\ archived = None /\ baseline = None /\ approval = None
             /\ sweep = None
NoReadiness == /\ places = None /\ toolchain = None /\ assumed = None /\ cache = None /\ probes = None
               /\ results = None /\ phase = None /\ swaps = None /\ held = None
NoRepair == /\ loops = None /\ links = None /\ lastPlan = None /\ touched = None /\ risk = None
            /\ justRun = None /\ steps = None
NoEvidence == /\ source = None /\ override = None /\ rehearsal = None /\ cmd = None /\ shown = None
              /\ still = None /\ same = None /\ lets = None /\ shifts = None /\ commands = None
NoVerify == project = None /\ memory = None /\ job = None /\ turns = None

MCInit ==
  /\ part \in Parts
  /\ IF part = "merge" THEN Init /\ bucket \in {"unknown", "high"} ELSE NoReview
  /\ IF part = "ultrawork" THEN U!Init ELSE NoUltra
  /\ IF part = "benchmark" THEN B!HistoryInit ELSE NoHistory
  /\ IF part = "readiness" THEN P!ReadinessInit ELSE NoReadiness
  /\ IF part = "repair" THEN A!Init /\ risk = "medium" ELSE NoRepair
  /\ IF part = "evidence" THEN E!Init ELSE NoEvidence
  /\ IF part = "commands" THEN C!Init ELSE NoVerify

\* Only ages matter: time starts with the first run.
FromFirstRun == week' = 0 \/ files # [i \in DOMAIN files |-> None] \/ archived # {}

MCNext ==
  \/ /\ part = "merge" /\ Next
     /\ UNCHANGED <<part, ultraVars, historyVars, readinessVars, repairVars, evidenceVars, verifyVars>>
  \/ /\ part = "ultrawork" /\ U!Next
     /\ UNCHANGED <<part, reviewVars, historyVars, readinessVars, repairVars, evidenceVars, verifyVars>>
  \/ /\ part = "benchmark" /\ B!HistoryNext /\ FromFirstRun
     /\ UNCHANGED <<part, reviewVars, ultraVars, readinessVars, repairVars, evidenceVars, verifyVars>>
  \/ /\ part = "readiness" /\ P!ReadinessNext
     /\ UNCHANGED <<part, reviewVars, ultraVars, historyVars, repairVars, evidenceVars, verifyVars>>
  \/ /\ part = "repair" /\ A!AdviceNext
     /\ UNCHANGED <<part, reviewVars, ultraVars, historyVars, readinessVars, evidenceVars, verifyVars>>
  \/ /\ part = "evidence" /\ E!ReportsNext
     /\ UNCHANGED <<part, reviewVars, ultraVars, historyVars, readinessVars, repairVars, verifyVars>>
  \/ /\ part = "commands" /\ C!CommandsNext
     /\ UNCHANGED <<part, reviewVars, ultraVars, historyVars, readinessVars, repairVars, evidenceVars>>

MCSpec == MCInit /\ [][MCNext]_allVars
------------------------------------------------------------------------------
\* A delivery that is called ready has earned it, and a release that is called ready is
\* anchored, concluded alike by what reports on it, and within its override's uses.
ReadyIsTrue ==
  /\ part = "merge" => ReadyIsEarned
  /\ part = "evidence" => E!ReadyIsAnchored /\ E!ConclusionsAgree /\ E!UsesAreTaken

\* A run passes its review only on verdicts signed for it by those it trusts.
ReviewsAreSigned == part = "ultrawork" => U!ReviewsAreSigned

\* The command ends without its work only where a stage failed.
StopsAtFailedStage == part = "ultrawork" => U!StopsAtFailedStage

\* A scope is called ready on what its runs did, and a comparison with the baseline
\* misses no case that was good and is not.  Neither reads the approval or the
\* archive under way, nor the first the baseline: every history is also reached without.
BenchmarksAreHonest ==
  part = "benchmark" /\ approval = None /\ sweep = None =>
    (baseline = None => B!ReadinessIsEarned) /\ B!ComparisonIsHonest

\* The archive leaves the history its minimum and what a baseline stands on.
MinimumIsKept == [][part = "benchmark" => B!KeepsMinimum]_allVars

\* What a coder run is told to do next is earned by its rounds, the same from every
\* command, complete in the prompt, and no bolder for a worse history; and what is tried
\* instead of commands that failed is what the project can run, whatever is remembered.
AdviceIsSound ==
  /\ part = "repair" => A!AdviceIsEarned /\ A!AdviceAgrees /\ A!ReviewIsShown /\ A!RiskNeverEmboldens
  /\ part = "commands" => C!RecoveryCanRun

\* Renames are called ready for production on a proof, and what is pending says why.
ClaimsAreProven == part = "readiness" => P!ClaimsAreProven
==============================================================================
