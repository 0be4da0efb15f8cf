---------------------------- MODULE RepairAdvice ----------------------------
(***************************************************************************)
(* What an agent is told between the rounds of a coder loop: the policy a  *)
(* run is created with (core/implementation), the strategy a round leaves  *)
(* in the run's file (core/gates/failure-strategy.js), the next prompt,    *)
(* and what failure-strategy report and safe-apply status say of the same  *)
(* run later (core/implementation/edit-engine.js, core/repair).            *)
(*                                                                         *)
(* A round is one step here: CoderLoop has the writes of its save and the  *)
(* commands that overlap.  What the agent, git, the benchmark and other    *)
(* commands do between two rounds is anything at all.                      *)
(***************************************************************************)
EXTENDS Integers, Sequences, FiniteSets, FiniteSetsExt, SequencesExt

CONSTANTS
  Runs,        \* names of coder runs
  Objective,   \* of each run, [says, targets, impact, expected]: the words of it, how many
               \* targets it names, its impact score, the files its change may touch
  Asks,        \* [bias, scope, mode]: what `coder-loop run' is asked for, or None
  Outcomes,    \* of a round: [failures, says, failing], with failures a sequence of
               \* [file, category], the words of the output, how many checks failed
  Interface,   \* the files named like a route, a schema or a service
  Histories,   \* what the benchmark history may say of the task, a part of Risks
  Trees,       \* the sets of files `git diff' may name
  MaxRounds,   \* bound on the rounds of each run
  MaxMoves,    \* bound on what happens between them
  None

VARIABLES
  runs,        \* the runs' files
  plans,       \* whether the plan of each run links a snapshot: None is no plan
  latestPlan,  \* the run whose plan implementation-plans/latest.json names
  touched,     \* the files changed and not committed
  risk,        \* what the benchmark history says of the task
  fresh,       \* history: the run whose round was the last thing that happened
  moves        \* history: what has happened between the rounds

adviceVars == <<runs, plans, latestPlan, touched, risk, fresh, moves>>

------------------------------------------------------------------------------
(* The route of a task and the policy of its run. *)

Risks == <<"improving", "low", "unknown", "medium", "high">>

\* assessBenchmarkFeedback: an improving history is of low risk.
Level(history) == IF history = "improving" THEN "low" ELSE history
Bias(history)  == CASE history = "high" -> "conservative"
                    [] history = "improving" -> "accelerated"
                    [] OTHER -> "balanced"
ReviewRequired(history) == history \in {"medium", "high"}

\* The first of these words that an objective has decides its kind.
Words == <<"scaffold", "refactor", "test", "config", "type", "fix">>
Kinds == <<"greenfield_scaffold", "cross_file_refactor", "test_repair",
           "dependency_or_config_fix", "type_repair", "local_bugfix">>

classifyTask(says, targets) ==
  LET said == {i \in DOMAIN Words : Words[i] \in says} IN
  CASE said # {}                 -> Kinds[Min(said)]
    [] said = {} /\ targets <= 2 -> "local_bugfix"
    [] OTHER                     -> "multi_file_feature"

\* The benchmark report has no coding_strength: a route is never accelerated.
recommendTaskRoute(kind, history) ==
  [bias  |-> IF history = "high" THEN "conservative" ELSE "balanced",
   scope |-> IF history = "high" \/ kind \in {"greenfield_scaffold", "cross_file_refactor"}
             THEN "broad" ELSE IF kind = "multi_file_feature" THEN "standard" ELSE "narrow",
   mode  |-> CASE kind = "cross_file_refactor" -> "expansive"
               [] kind \in {"multi_file_feature", "test_repair"} -> "localized"
               [] OTHER -> "surgical"]

defaultsForBias(bias) ==
  CASE bias = "conservative" -> [scope |-> "narrow", mode |-> "surgical", targets |-> 2,
                                 tests |-> 4, failures |-> 8, files |-> 4, everywhere |-> FALSE]
    [] bias = "balanced"     -> [scope |-> "standard", mode |-> "balanced", targets |-> 4,
                                 tests |-> 8, failures |-> 12, files |-> 10, everywhere |-> FALSE]
    [] bias = "accelerated"  -> [scope |-> "broad", mode |-> "broad", targets |-> 6,
                                 tests |-> 12, failures |-> 16, files |-> 18, everywhere |-> TRUE]

Else(asked, default) == IF asked # None THEN asked ELSE default

\* createRun names no targets to the route of the policy.
deriveCoderPolicy(objective, asked, history) ==
  LET route == recommendTaskRoute(classifyTask(objective.says, 0), history)
      defaults == defaultsForBias(Else(asked.bias, route.bias))
      scope == IF route.scope = "standard" THEN defaults.scope ELSE route.scope
      mode == CASE route.mode = "expansive" -> "broad"
                [] route.mode = "localized" -> "balanced"
                [] OTHER -> defaults.mode
  IN [defaults EXCEPT !.scope = Else(asked.scope, scope), !.mode = Else(asked.mode, mode)]

\* chooseEditStrategy knows the modes surgical and localized: balanced is neither.
AllowedFiles(policy, impact) ==
  CASE policy.mode = "surgical" /\ impact < 10  -> 4
    [] policy.mode = "surgical" /\ impact >= 10 -> 10
    [] OTHER -> 24

\* What implement-task asks the coder loop for.
RouteAsk(objective, history) ==
  LET route == recommendTaskRoute(classifyTask(objective.says, objective.targets), history)
  IN [route EXCEPT !.mode = CASE @ = "expansive" -> "broad"
                              [] @ = "localized" -> "balanced"
                              [] OTHER -> "surgical"]

------------------------------------------------------------------------------
(* The strategy. *)

Failures(rounds) == IF rounds = <<>> THEN <<>> ELSE Last(rounds).failures

Previous(rounds) == IF Len(rounds) > 1 THEN Failures(Front(rounds)) ELSE <<>>

FirstOf(seq, n) == IF Len(seq) <= n THEN seq ELSE SubSeq(seq, 1, n)

buildFailureFingerprint(failures) == FirstOf(failures, 12)

Standard == {"type_error", "lint_error", "lint_warning", "compile_error", "test_failure",
             "runtime_error"}

classifySignals(rounds) ==
  LET now == Failures(rounds)
      before == Previous(rounds)
      files == {now[i].file : i \in DOMAIN now} \ {None}
      categories == {now[i].category : i \in DOMAIN now}
      says == IF rounds = <<>> THEN {} ELSE Last(rounds).says
      wide == \/ Cardinality(files) >= 6 \/ Cardinality(categories) >= 4
              \/ Len(now) >= 8 \/ (rounds # <<>> /\ Last(rounds).failing >= 3)
  IN [conflict  |-> "conflict" \in says,
      external  |-> says \cap {"environment", "dependency"} # {},
      repeated  |-> /\ before # <<>>
                    /\ buildFailureFingerprint(before) = buildFailureFingerprint(now),
      spike     |-> /\ before # <<>> /\ Len(now) >= Len(before) + 3
                    /\ 2 * Len(now) >= 3 * Len(before),
      wide      |-> wide,
      interface |-> files \cap Interface # {},
      local     |-> /\ says \cap {"environment", "conflict"} = {} /\ ~wide
                    /\ Cardinality(files) <= 3 /\ categories \subseteq Standard]

\* A run is green when its last round reported no failure.
determineStrategy(rounds, snapshot, history) ==
  LET s == classifySignals(rounds) IN
  IF Failures(rounds) = <<>> THEN "review_gate"
  ELSE IF s.conflict THEN "manual_intervention_required"
  ELSE IF s.external THEN "environment_fix_required"
  ELSE IF (s.spike \/ (s.wide /\ s.repeated)) /\ snapshot # None THEN "rollback_to_snapshot"
  ELSE IF \/ s.wide \/ s.interface \/ s.repeated
          \/ (s.local /\ Level(history) = "high")
          \/ (~s.local /\ Bias(history) = "conservative") THEN "rebuild_context"
  ELSE "continue_fix"

FullReview(history) == IF ReviewRequired(history) THEN <<"review-gate-full">> ELSE <<>>

buildSuggestedCommands(action, history) ==
  <<"benchmark-feedback">> \o
  (CASE action = "review_gate" -> <<"review-gate">> \o FullReview(history)
     [] action = "environment_fix_required" -> <<"env-check", "runtime-detect">>
     [] action = "rollback_to_snapshot" ->
          <<"safe-apply-status", "rollback-dry-run", "rollback", "implement-task">>
     [] action = "rebuild_context" -> <<"coder-context", "implement-task">> \o FullReview(history)
     [] action = "manual_intervention_required" -> <<"code-review">>
     [] action = "continue_fix" -> <<"next-prompt", "coder-loop">> \o FullReview(history))

\* Mutant: any latest plan will do.
MutLatestPlan(r) == latestPlan

\* The plan of the run, if no other was written since.
readLinkedPlan(r) == IF latestPlan = r THEN r ELSE None

LinkedSnapshot(plan) == IF plan = None \/ ~plans[plan] THEN None ELSE plan

analyzeCoderRun(r, rounds) ==
  LET snapshot == LinkedSnapshot(readLinkedPlan(r))
      action == determineStrategy(rounds, snapshot, risk)
  IN [action |-> action, snapshot |-> snapshot, level |-> Level(risk),
      review |-> ReviewRequired(risk), commands |-> buildSuggestedCommands(action, risk)]

------------------------------------------------------------------------------
(* The patch, as the tree is now.  A run has no repair recipe, so no file of it is
   protected or preferred, and a repair names no file to restore. *)

buildCurrentPatchEvaluation(run) ==
  LET beside == Cardinality(touched \ run.objective.expected)
  IN IF Cardinality(touched) > run.allowed THEN "split_or_rollback"
     ELSE IF touched # {} /\ 200 * beside >= 69 * Cardinality(touched) THEN "narrow_patch"
     ELSE "apply"

buildAutomaticRepairPlan(patch) ==
  [mode |-> IF patch = "apply" THEN "assisted_apply" ELSE "guarded_repair",
   operation |-> CASE patch = "split_or_rollback" -> "restore_non_preferred_files"
                   [] patch = "narrow_patch" -> "narrow_to_preferred_files"
                   [] OTHER -> "apply_targeted_fix"]

\* coder-loop next-prompt: what the run's file holds, and of the patch what the last
\* round made of it.
buildNextPromptText(r) ==
  LET run == runs[r]
      patch == Else(run.patch, buildCurrentPatchEvaluation(run))
      failures == Failures(run.rounds)
      commands == IF run.advice = None THEN <<>> ELSE run.advice.commands
  IN [failures |-> FirstOf(failures, run.policy.failures),
      advice |-> run.advice, patch |-> patch, repair |-> buildAutomaticRepairPlan(patch),
      commands |-> FirstOf(commands, 4)]

\* safe-apply status: the patch is judged anew.
buildPatchAssessment(r) ==
  LET patch == buildCurrentPatchEvaluation(runs[r])
  IN [patch |-> patch, repair |-> buildAutomaticRepairPlan(patch)]

\* What the file of one of these runs may hold.
Actions == {"review_gate", "manual_intervention_required", "environment_fix_required",
            "rollback_to_snapshot", "rebuild_context", "continue_fix"}
Advices(these) ==
  [action : Actions, snapshot : these \cup {None}, level : {Level(h) : h \in Histories},
   review : BOOLEAN, commands : {buildSuggestedCommands(a, h) : a \in Actions, h \in Histories}]
RunRecords(these) ==
  [objective : {Objective[r] : r \in these},
   policy : {deriveCoderPolicy(Objective[r], asked, h) :
               r \in these, asked \in Asks \cup {RouteAsk(Objective[q], k) : q \in these, k \in Histories},
               h \in Histories},
   flow : {"loop", "plan"}, rounds : Seq(Outcomes), allowed : {4, 10, 24},
   advice : Advices(these) \cup {None}, patch : {"split_or_rollback", "narrow_patch", "apply", None}]

------------------------------------------------------------------------------
Init ==
  /\ runs = [r \in Runs |-> None] /\ plans = [r \in Runs |-> None]
  /\ latestPlan = None /\ touched = {} /\ risk \in Histories
  /\ fresh = None /\ moves = 0

Rounds(r) == IF runs[r] = None THEN <<>> ELSE runs[r].rounds

\* The run's name is new.
createRun(r, asked, flow) ==
  LET policy == deriveCoderPolicy(Objective[r], asked, risk) IN
  /\ runs[r] = None
  /\ runs' = [runs EXCEPT ![r] =
       [objective |-> Objective[r], policy |-> policy, flow |-> flow, rounds |-> <<>>,
        allowed |-> AllowedFiles(policy, Objective[r].impact), advice |-> None, patch |-> None]]
  /\ UNCHANGED <<plans, latestPlan, touched, risk, fresh, moves>>

Create    == \E r \in Runs, asked \in Asks : createRun(r, asked, "loop")
Implement == \E r \in Runs : createRun(r, RouteAsk(Objective[r], risk), "plan")

executeRound == \E r \in Runs, outcome \in Outcomes :
  /\ runs[r] # None /\ Len(runs[r].rounds) < MaxRounds[r]
  /\ LET rounds == Append(runs[r].rounds, outcome)
     IN runs' = [runs EXCEPT ![r].rounds = rounds,
                             ![r].advice = analyzeCoderRun(r, rounds),
                             ![r].patch = buildCurrentPatchEvaluation(runs[r])]
  /\ fresh' = r
  /\ UNCHANGED <<plans, latestPlan, touched, risk, moves>>

Move == moves < MaxMoves /\ moves' = moves + 1 /\ fresh' = None

\* implement-task ends with the plan, which links a snapshot that was taken, or skipped and
\* never written, and with the pointer to it; it may die between the two.
WritePlan == \E r \in Runs, snapshot \in BOOLEAN, dies \in BOOLEAN :
  /\ runs[r] # None /\ runs[r].flow = "plan" /\ runs[r].rounds # <<>> /\ plans[r] = None /\ Move
  /\ plans' = [plans EXCEPT ![r] = snapshot]
  /\ latestPlan' = IF dies THEN latestPlan ELSE r
  /\ UNCHANGED <<runs, touched, risk>>

\* The agent edits, commits or rolls back.
Edit ==
  /\ touched' \in Trees \ {touched} /\ Move
  /\ UNCHANGED <<runs, plans, latestPlan, risk>>

\* Another benchmark suite has run.
Measure ==
  /\ risk' \in Histories \ {risk} /\ Move
  /\ UNCHANGED <<runs, plans, latestPlan, touched>>

AdviceNext == Create \/ Implement \/ executeRound \/ WritePlan \/ Edit \/ Measure

------------------------------------------------------------------------------
(* Properties. *)

\* A run is told to go on only if its last two rounds did not fail alike and its history
\* was not of high risk; to review only without a failure reported; and to roll back only
\* to the snapshot of its own plan, on failures that repeat or grow over a round before.
AdviceIsEarned == \A r \in Runs : Rounds(r) # <<>> =>
  LET a == runs[r].advice
      now == Failures(Rounds(r))
      before == Failures(Front(Rounds(r)))
  IN /\ a.action = "continue_fix" => now # before /\ a.level # "high"
     /\ (a.action = "review_gate") <=> (now = <<>>)
     /\ a.action = "rollback_to_snapshot" =>
          /\ a.snapshot = r /\ plans[r] # None /\ plans[r]
          /\ before # <<>> /\ Len(now) >= Min({12, Len(before)})

\* When nothing has happened since a round, its prompt, failure-strategy report and
\* safe-apply status tell the agent the same.
AdviceAgrees == \A r \in Runs : fresh = r =>
  LET prompt == buildNextPromptText(r) IN
  /\ prompt.advice = analyzeCoderRun(r, runs[r].rounds)
  /\ [patch |-> prompt.patch, repair |-> prompt.repair] = buildPatchAssessment(r)

\* An agent that is told to go on, to start over or to review, with a history that asks
\* for a review, finds the full review among the commands the prompt has room for.
ReviewIsShown == \A r \in Runs : Rounds(r) # <<>> =>
  LET a == runs[r].advice IN
  a.review /\ a.action \in {"continue_fix", "rebuild_context", "review_gate"} =>
    "review-gate-full" \in ToSet(buildNextPromptText(r).commands)

Boldness(action) == CASE action = "continue_fix" -> 2
                      [] action = "rebuild_context" -> 1
                      [] OTHER -> 0

Unasked == [bias |-> None, scope |-> None, mode |-> None]

\* A worse history never makes the advice to a run bolder, nor the policy that it gives
\* the run's objective wider in what may be edited and shown.
RiskNeverEmboldens == \A r \in Runs, i \in 1..Len(Risks) - 1 :
  LET snapshot == LinkedSnapshot(readLinkedPlan(r))
      Told(history) == Boldness(determineStrategy(Rounds(r), snapshot, history))
      Policy(history) == deriveCoderPolicy(runs[r].objective, Unasked, history)
      Wider(better, worse) == \/ worse.targets > better.targets \/ worse.tests > better.tests
                              \/ worse.failures > better.failures \/ worse.files > better.files
                              \/ AllowedFiles(worse, runs[r].objective.impact)
                                    > AllowedFiles(better, runs[r].objective.impact)
  IN IF Rounds(r) # <<>> THEN Told(Risks[i + 1]) <= Told(Risks[i])
     ELSE runs[r] # None => ~Wider(Policy(Risks[i]), Policy(Risks[i + 1]))
==============================================================================
