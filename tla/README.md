# Verification of easy_opencode

TLA+ models of the parts of easy_opencode that keep state and that several
processes, callbacks, users or crashes can disturb: the control plane
(`src/control-plane`), the command lines over it (`src/cli`, `scripts`), and of
`src/core` what writes a project's files and what judges them: snapshots,
features and repairs, refactorings, scaffolds, ecosystem, installation, reviews,
benchmarks and releases. TLC checks the models on small instances, and TLAPS
proves the theorems listed below for every value of the constants.

Paths below are relative to the repository; `PROJECT.json` writes `src/` before
them (its `src/src/cli/x.js` is `src/cli/x.js` here).

## 1. The system

easy_opencode is a set of Node.js command lines. An invocation is one process:
it loads JSON files from `.opencode/`, works, and writes them back whole with
`writeFileSync`. No file is locked and none is written through a rename.
Concurrency comes from four places:

* the child processes, timers and callbacks inside one process (the scheduler's
  `Promise.race`, the event handlers of the executor, of the process runner and
  of the language-server client);
* two invocations over the same files (a coder loop beside a workflow, two gate
  commands, two release checks);
* the user, the agent and git, who change the tree between two steps of a
  command and between a report and its use;
* a kill between any two writes, or inside one, which leaves the files of a
  command apart.

### Inventory

| Component | State | What is hard | What makes it correct | Modelled in |
|---|---|---|---|---|
| Scheduler (`control-plane/scheduler`, `eoc-scheduler-cli.js`) | the run file; in memory the tasks, the pending attempts | results in any order; kill and restart; failure under fast fail; a run nobody can finish | dependencies first; limits; nothing lost while waiting; the run ends | `TaskGraph`, `CycleSearch`, `SkipPropagation`, `RunRecord`, `Scheduler` |
| Command executor (`kernel/executor.js`) | a call's timer, child and result; the log | order of the callbacks; a child that ignores signals | one truthful result, one log of it, an end | `Executor` |
| Process runner (`adapters/process-runner.js`) | two capped buffers, a timer | chunks and the cap that end inside a character; the first of several callbacks | output capped and marked when cut; one answer | `ProcessRunner` |
| Gate runs (`eoc-start-cli.js`, `eoc-bridge-cli.js`) | the run file, `active.json` | overlapping read-modify-writes; kills between a save's five writes | no gate passed without evidence; history tells the state | `RunStatus`, `GateRun` |
| Kernel records, orchestrator memory and recovery | a record per run, `active-run.json`, `active.json` | a transition refused after the run file was written; unlocked rewrites of one file | no legal sequence refused; pointers resolve | `GateRun`, `CoderLoop`, `ImplementTask` |
| Workflow engine, implement-task | trace, events; scaffold, coder run, plan, pointers | a kill between an event and its trace; a step's artifacts left by a failure | the trace moves as promised; what it calls done is on disk | `WorkflowTrace`, `ImplementTask` |
| Coder loop (`coder-loop-cli.js`, `core/implementation`, `core/gates/failure-strategy.js`) | run files, `latest.json`, the policy and strategy in them | minutes between load and save; a verdict on output; advice from whatever plan, tree and history there are when asked | green means checks pass; advice is earned and the same everywhere | `CoderLoop`, `RepairAdvice` |
| Ultrawork workflow | a gated run, signed reviews, evidence | other commands and reviewers between its checks | stops at a failed stage and only there | `Ultrawork` |
| Review gate, quality gate, delivery report | a review report | a tree, a plan and a history that move while a review reads | two judgements agree; ready is earned | `ReviewGate`, `DeliveryReport` |
| Release governance (`core/release`, its scripts) | overrides, approvals, baselines, rehearsals, events | check-then-act over several files; expiry; evidence older than the project | nothing released on terms nobody approved; reports agree with the check they stand on | `Release`, `ReleaseReports` |
| Benchmark (`core/benchmark`) | run files, archive, baselines | an archive under way beside the readers; dates, counters and trends of different runs | ready only on runs that show it; the archive keeps the minimum | `BenchmarkHistory`, `Release` |
| Git snapshots (`core/project/git-state.js`, `safe-apply.js`) | snapshot records, the work tree | a rollback of two commands; commits between check and use | ready means reversible; a recorded rollback is exact | `Snapshots` |
| Feature delivery and repair loop | outputs, plans, project memory | children that rewrite the memory their parent has read; a feature under two names; edits kept after a failure; commands remembered from a project that has changed since | memory describes what was left; what is tried instead of a command that failed can run | `FeatureRun`, `VerifyCommands` |
| Scaffold (`core/skills/scaffold`) | outputs, update operations in the user's files | anchors and texts found again, forced, killed and repeated | insertions are there once and stay | `Scaffold` |
| Refactorings (`core/refactor`, `ast-rewrite-cli.js`) | the tree; a JSON-RPC session; probes | late answers, a dying server; edits half written; names told by spelling | exact or not at all; every wait ends; a retry finishes | `AstRewrite`, `GoRename`, `JavaRename`, `WorkspaceEdit`, `RenameSession`, `LspReadiness` |
| Ecosystem profiles | `ecosystem.json` | enable, disable, apply and bootstrap over one file | applying settles | `Ecosystem` |
| Installation | assets, `opencode.json`, shims | kills between file operations, versions, a user's own entries | commands finish the job | `Installation` |
| Execution policy; observability queries; platform and product views; detection; support tiers; contracts; command table | none, or read-only | | | not modelled |

How they interact. `eoc-scheduler` runs commands through the executor under the
limits of the execution policy, on a run file that `eoc-bridge` imported and
`eoc-start` marks; `eoc-ultrawork` does all three in turn and asks for the signed
reviews. `coder-loop`, `implement-task` and `eoc-start` each save their own file
and then *mirror* it into the kernel's records, the kernel's index and the
orchestrator's memory, in that order; recovery reads the mirrors.
`implement-task` is a workflow of the engine whose steps take a snapshot, create a
coder run, run a round of it and write a plan, which the review gate and the
delivery report read. `release-check` runs the quality and the review gate and
reads snapshots, benchmark runs, baselines, approvals and overrides that
other commands write; evidence, preflight and audit are made of such checks.

`PROJECT.json` lists every component under `components` and, under `hazards`,
each place where something can go wrong that a test would hardly reach.

## 2. Modules

| Module | Code | What it holds |
|---|---|---|
| `TaskGraph` | `task-graph.js` | order of tasks, runnable tasks, valid graphs, the doomed tasks |
| `CycleSearch`, `SkipPropagation` | `task-graph.js` | the graph of a run and the recursive walk over it as a machine with its stack; the passes over the task map |
| `RunRecord`, `WorkflowTrace` | | what readers of a run file, of a trace may assume: abstract specifications |
| `Scheduler` | `scheduler-service.js`, `task-executor.js`, `run-store.js` | the loop, attempts, saves, kills, restarts |
| `Executor`, `ProcessRunner` | `kernel/executor.js`, `process-runner.js` | calls, with an action per event-loop turn |
| `RunStatus` | `kernel/state-machine.js` | statuses and the transition table |
| `GateRun` | `eoc-start-cli.js`, `eoc-bridge-cli.js`, the saves they make | gate commands as processes over shared files |
| `CoderLoop`, `ImplementTask` | `coder-loop-cli.js`; `engine.js`, `implement-task.js`, `plan-store.js` | coder-loop commands and the workflow as processes over shared files |
| `RepairAdvice` | `failure-strategy.js`, `coder-policy.js`, `task-routing.js`, `edit-engine.js`, `repair/executor.js` | policy, strategy, prompt and the two reports on them |
| `Ultrawork` | `scripts/eoc-ultrawork.js`, `workflows/eoc-ultrawork.js`, `review-helpers.js` | the gated flow; signed reviews and those who handle them |
| `ReviewGate`, `DeliveryReport` | `review-gate-cli.js`, `quality-gate.js`, `gates/engine.js`; `delivery-report-cli.js`, `advice.js` | a review read by read; advice over it |
| `Release` | `check.js`, `policy-overrides.js`, `baselines.js`, `baseline-approvals.js` | the release commands as processes over shared files |
| `ReleaseReports` | `rehearsal.js`, `evidence.js`, `conclusion.js`, `preflight-production.js`, `release-audit-export.js` | the commands that report on a release, a check being one step |
| `BenchmarkHistory` | `suite-runtime.js`, `feedback.js`, `trends.js`, `freshness.js`, `analysis.js`, `retention.js` | runs, weeks, archive, baseline and what is read off them |
| `Snapshots` | `git-state.js`, `safe-apply.js` | snapshot, readiness, drift, rollback over git |
| `FeatureRun` | `generate-feature.js`, `core/feature`, `debug-fix-loop.js`, `memory*.js` | a feature, under its name and its slug, its children and its repairs over one memory |
| `VerifyCommands` | `core/verification`, `feedback-commands.js`, `core/repair` | the commands that verify a feature, those tried instead, those remembered |
| `Scaffold` | `scaffold/service.js`, `scaffold/updates.js` | outputs and updates line by line |
| `WorkspaceEdit`, `RenameSession` | `lsp-rename-runner.js` | an edit on its overlay; the session that brings it |
| `GoRename`, `JavaRename` | `providers/go.js`, `providers/java.js` | the indexed renames over occurrences of names, those the patterns of the code see and those they do not |
| `AstRewrite` | `ast-rewrite-cli.js`, `refactor/service.js`, the providers | the choice of a provider, the writes, the footprint, the retry |
| `LspReadiness` | `lsp-backend.js`, `lsp-production-readiness.js` | discovery, probes, scenarios, claims |
| `Ecosystem`, `Installation` | `core/ecosystem`; `install-cli.js`, `uninstall-cli.js`, `bootstrap-cli.js` | commands over one file; file operations over three places |
| `*Proofs` | | TLAPS proofs: of the module they are named after; `ProcessesProofs`, `WorkspaceProofs` and `ReviewProofs` are about the components that `MCProcesses`, `MCWorkspace` and `MCReview` compose, with the constants of those modules arbitrary |
| `MC*` | | the instances TLC checks; `MCProcesses` also holds the two graph passes where the scheduler makes them, `MCGateRun` the commands one at a time |

How state and actions correspond to the code. In `Scheduler`, `status`,
`attempts` and `lastError` are the fields of the tasks of the `run` object,
`active` the keys of its map of promises, `disk` the last `saveRun`; `pc` is the
point of the loop of `runScheduler`. An attempt's answer is applied in one step
because JavaScript runs it without an `await`. In `Executor`, `ProcessRunner` and
`RenameSession` an event-loop turn is an action, and what Node has queued is a
variable. In `GateRun`, `CoderLoop`, `ImplementTask` and `Release` a command is a
process with a `pc`: each of its reads and writes of a file is one action, what
it read is in `held` or `job`, and the check it makes is made on what it read.
In the modules of the two composed instances below a command is a record (`cmd`,
`job`, `look`, `todo`, ...) of what it has read and what it has still to do, one
action a read or a write, between which the user and other commands move.
Where a command reads and writes nothing that anybody changes meanwhile, it is
one action (`RunSuite`, a round in `RepairAdvice`, a check in `ReleaseReports`).
Data that no property tells apart is dropped: objectives, contents of outputs,
prompts, time stamps, wording.

External behaviour, modelled from how the code uses it: child processes and
their signals, language servers, git, the clock, the user, the kill of a process.

## 3. What TLC checks

Each run's properties and a mutant of the code that breaks each of them are in
`PROJECT.json`. `processes`, `workspace` and `review` each hold several
components, one of which is chosen in the initial state; the others stay out.

| Run | Instance | What it shows |
|---|---|---|
| `scheduler` | 3 tasks in six graphs; concurrency 2; a retry; refused commands; one kill and restart | dependencies first across restarts, saves before waits, at most one repetition per kill, no queued task behind a failure, fast fail, the reader's view (`RunRecord`), and that a run ends |
| `processes` | 2 calls, one with a child that cannot be signalled; streams of at most 6 bytes in chunks that may end inside a character, around a cap of 4 bytes; every graph on 2 or 3 tasks; a session with a server that asks twice | log and results agree and are true; the output is a capped start of what its chunks decode to, which is what was written where no chunk ends inside a character; `detectCycles` is right and the propagation marks exactly the doomed; an edit of a server that only answers is applied once and reported; every wait ends |
| `gate_run` | 2 overlapping commands (histories of 3), or one at a time with kills between any two writes (histories of 5); 3 gates | no gate without evidence; history replays; alone: mirrors follow, the kernel never refuses, nothing is lost |
| `implement_task` | 2 processes, 2 commands, 2 coder runs, 1 plan, 1 check, 2 kills | trace refines `WorkflowTrace`; trace, events and artifacts agree; pointers resolve; alone: mirrors follow |
| `release` | 2 processes, 4 commands, 1 override, 1 baseline, 2 benchmark runs, standard and production, 1 kill | production is anchored, overrides are agreed to and logged, uses are counted |
| `workspace` | see the comment of `Workspace.cfg` | `ReportsAreTrue`: ready snapshots are reversible, drift of a target is seen, a feature with a remembered failure under its slug is not accepted; `RecordsAreTrue`: a recorded rollback is exact and failure patterns are kept; `IndexedRenamesAreExact`: right within what spelling tells and the patterns see; `EditsAreExact`: edits of a server to the letter or not at all, and scaffolds settle; `RetryFinishes`; `AppliedSettles`; `CommandsFinishTheJob` |
| `review` | see the comment of `Review.cfg` | `VerdictsAgree`: the review's verdict and its gate's decision; `ReadyIsTrue`: a delivery called ready has earned it, and a release called ready is anchored, concluded alike by check, evidence, preflight and audit, and within its override's uses; `ReviewsAreSigned`; `BenchmarksAreHonest` and `MinimumIsKept`; `ClaimsAreProven`; `AdviceIsSound`: advice is earned by the rounds and the same everywhere, and what is tried instead of commands that failed is what the project can run, whatever is remembered of it |

Five runs show that the code departs from what its documents say:

| Run | Departure |
|---|---|
| `scheduler_retries` | a task with no retry is attempted twice: `attempts <= retries + 1` is asked after the increment (`task-executor.js:116`) |
| `executor_stubborn` | the timeout sends one SIGTERM; a child that ignores it is never cut off (`executor.js:256`) |
| `coder_green` | a check that exits non-zero and prints nothing leaves the run green (`coder-loop-cli.js:262`) |
| `release_expiry` | without `--now` the expiry of an override is compared with its own creation, so it never expires (`policy-overrides.js:116`, `138`) |
| `ultrawork` | the command imports a `runReviewGate` that nothing exports and stops at its review gate although no stage failed (`scripts/eoc-ultrawork.js:146`) |

### Bounds, and why they are enough

* Three tasks give every shape that matters to the loop (a chain of two skips, a
  fan in, a fan out, two tasks racing while a third waits); `processes` takes all
  graphs on two and three tasks. One kill and one retry bring the counters to the
  boundary; the proofs lift both to any number.
* Two processes and one run show every lost update of a read-modify-write
  (a third adds another writer to a file of which the last write wins).
  Three gates have one gate before the last, which is where a pause can be.
* `implement_task` has two commands because a workflow is over a hundred steps;
  two suffice for a coder loop inside a workflow's run.
* `release` needs four commands for the longest story it is about (request,
  approve, and two checks or a baseline set behind an approval).
* `workspace`: two branches, contents and commits show every way a snapshot can
  be off; two features, one of them also under a name that is not its slug, and windows
  of two make the memory forget; three items about two paths make every pair of
  operations meet on an overlay; the occurrences of a name are all there are in a
  function and a package, in all combinations, with at most one that spelling does not
  tell or no pattern sees; three files have one already renamed, one failing and one left;
  four skills cover the update operations of the shipped ones.
* `review`: a review has three moves, enough for a change between any two of its
  reads and one after it; three benchmark runs in three weeks meet a window of two,
  minimum and staleness: one policy has thresholds a week earlier than the other, so
  that all four ages occur; two coder runs, of two rounds and of one, make the latest
  plan another run's; a release has two commands and two changes between or
  inside them. The part `commands` has eight projects, one of each kind of script,
  tool and runner the choice tells apart, and three commands or changes: to
  remember, to change the project, to use what is remembered. Of remembered
  commands the code recognises `npm run ...` only. Outcomes of checks, suites, rounds and servers are a handful of
  records, one of each kind the rules tell apart.
* Symmetry sets are processes and run names; no run with symmetry checks a
  liveness property.
* Every `CHECK_DEADLOCK FALSE` is where a system of commands may have run its
  bounded number of commands and rest; `Scheduler` is checked for deadlock.

### Fairness

* `Scheduler`: the loop's process is scheduled (weak fairness of `Loop`), and
  every attempt ends, which is what `Executor`'s `CallsEnd` shows of calls.
  `RunEnds` says a run ends or is in the one case the loop never leaves: no
  tasks, or nothing but tasks left 'running' by a dead process.
* `Executor`, `ProcessRunner`: Node runs the callbacks it has queued, and a
  child that was signalled exits, except those the constant `Stubborn` names. No
  fairness of children that were not signalled is assumed: the timer ends them.
* `RenameSession`: Node runs callbacks and timers, and a server that was told to
  exit or signalled does (the command hangs on one that ignores both). Nothing
  is assumed of its answers.
* The graph passes of `MCProcesses`: a function runs.
* The command modules state safety only: nothing obliges a user to go on.

## 4. What is proved

TLAPS proves, for any number of tasks, graphs, calls, processes, runs, gates,
fields, files and bundles, and with no bound on the length of behaviours:

| Theorem | Says |
|---|---|
| `SchedulerProofs` `TypeCorrect` | the type invariant |
| `DependenciesFirstHolds`, `AttemptsBoundHolds`, `ConcurrencyBoundHolds`, `AwaitIsDurableHolds`, `RepetitionsBoundHolds`, `EndedTasksStayHolds` | the scheduler's limits and order, across kills |
| `NoQueuedBehindFailureHolds`, `BlockedOnlyByStaleTaskHolds` | the scheduler does not give up on tasks that could run |
| `FastFailStopsLaunchesHolds` | after a failure under fast fail nothing is launched |
| `ImplementsReader` | `Scheduler` implements `RunRecord` |
| `ProcessesProofs` `DetectsExactlyCycles`, `ReportsRealCycle` | the search is right on every graph |
| `MarksExactlyDoomed` | the propagation computes the set `Scheduler` takes it to |
| `OutputIsCappedHolds` | for any chunks and any cap, the process runner keeps a start, by whole characters and within the cap, of what the chunks decode to, marked cut exactly when some of that is lost; it is what the child wrote where no chunk ends inside a character, and never unmarked when the child wrote more than the cap |
| `QuietServerIsExactHolds` | the edit of a server that only answers is applied once and reported as it was |
| `ExecutorProofs` `TimeoutIsReportedHolds`, `SuccessIsGenuineHolds`, `NoTimerAfterAnswerHolds`, `AnswersAreFinalHolds` | results are true and final |
| `LogMatchesCallsHolds` | the log has each answered call once, as it was answered |
| `GateRunProofs` `GatesEarnedHolds`, `HistoryReplaysHolds` | no gate passed without its evidence, and a history replays to its run, however commands overlap |
| `RecordsAgreeAloneHolds`, `NothingIsLostAloneHolds` | commands that do not overlap leave the mirrors in step and lose nothing |
| `ImplementTaskProofs` `ImplementsTrace` | `ImplementTask` implements `WorkflowTrace` |
| `EventsAgreeHolds`, `FilesResolveHolds` | the event log tells the trace; what trace, plan and pointers name is on disk, however commands overlap or die |
| `AloneIsInStepHolds` | commands that do not overlap leave kernel and memory in step with the files |
| `ReleaseProofs` `ProductionAnchoredHolds`, `OverridesAreAgreedHolds` | nothing is released on terms nobody approved, however commands overlap or die |
| `UsesAreCountedHolds` | while one process at a time is busy, an override counts the releases it let out |
| `ReviewProofs` `VerdictsAgreeHolds` | a review's verdict, its bundle's decision and its patch decision never contradict one another |
| `ReadyIsEarnedHolds` | a delivery report calls a change ready only if it has earned it, for every set of files and every project |
| `ReviewsAreSignedHolds` | a gated run passes its review only on verdicts trusted reviewers signed for it, whoever handles the files |
| `ClaimsAreProvenHolds` | renames are claimed ready for production only after every scenario was answered and renamed; unless the user vouches for the server, one of the real name was at the place probed, and is there still as long as none is exchanged |
| `BenchmarksAreHonestHolds` | a scope is called ready on enough runs, in the dimensions its policy asks for, one of them fresh, and not when all of two dimensions failed; a comparison finds every case that got worse |
| `MinimumIsKeptHolds` | the archive takes stale runs only, leaves the newer ones its policy asks for, and spares what a baseline or an approval stands on |
| `ReadyIsTrueHolds` | `ReadyIsEarned`, and: a release called ready is anchored in an approved baseline, concluded alike by evidence, preflight and audit, and within the uses of its override, whatever changes and dies between the commands |
| `AdviceIsSoundHolds` | the advice a run's file holds is earned by its rounds; the two reports say the same right after a round; more risk gives neither a bolder action nor a wider policy; and what is tried instead of commands that failed can be run |
| `WorkspaceProofs` `CommandsFinishTheJobHolds` | an install or uninstall that ends has done all it is for, from whatever an interrupted one left |
| `IndexedRenamesAreExactHolds` | an indexed rename of Go or of a Java type is exact wherever spelling tells the names of a function, or of a file, apart and the patterns see what declares and binds them; one of Go gives no scope a name twice that they see, and none chooses between packages |
| `RetryFinishesHolds` | a rewrite repeated after a failure finishes it, for any files |
| `ReportsAreTrueHolds` | a snapshot reported ready is reversible, the drift of a plan's target is seen, and a feature that failed under its slug is not accepted while the memory shows it |
| `RecordsAreTrueHolds` | a recorded rollback has restored what the snapshot is of; failure patterns are not forgotten |
| `AppliedSettlesHolds` | the ecosystem file is at rest after every command, for every registry |

The arguments.

* `SchedulerProofs`. `IInv` joins the type invariant to `Sound` of the memory
  *and* of the disk (an attempted task has its dependencies successful in the
  same picture), `Saved` (what the loop has saved when it waits), `InStep`
  (an active task is 'running' in memory) and `Repeats` (launches against
  attempts and kills). `DependenciesFirst` alone is not inductive: a restart
  replaces the memory by the disk, so the disk must be sound by itself.
  The two progress properties need `BInv`: after the propagation no queued task
  is behind a failure, and in an acyclic graph (`DoomedIsClosed`,
  `SomeTaskIsFree`) some queued task has all its dependencies ended.
  `FailureIsCut` says that where the loop launches after a failure, under fast fail
  no task is queued any more: the cut is made before, and no attempt is answered
  in between.
* `ProcessesProofs`. `SearchInv` is the white/grey/black argument: the stack
  is a path of grey nodes, black nodes reach only black ones and lie on no cycle.
  `SkipInv`: what is marked is within the least closed set, and when a
  pass changes nothing the marked set is closed. A text is the set of the places
  that characters end at, so that its start up to a cap is a set too and no
  sequence has to be folded: `Keeps` says what a buffer holds of the chunks decoded
  so far, `Decodes` how these lie to what the child wrote, a broken character taking no fewer
  bytes than it had, and `RunnerInv` adds what a call has of its callbacks. `SessionInv` is about a server that
  asks nothing of its own: `Orderly` says for each phase which requests wait, what is
  still to be read, and that the one edit is not applied before the last answer.
* `ExecutorProofs`. The invariant is pointwise, so a step is about one call
  (`OneCallStep`); it says which callbacks can still come in each stage. `LogInv`
  adds the log: an answer appends one entry, and no later callback another.
* `GateRunProofs`. `IInv` says that not only files but every record a process
  holds is earned and tells its whole run: that is what makes a lost update
  harmless to the gates. `AloneInv` says, for each point of the one process that
  is busy, which of the mirrors it has still to write.
* `ImplementTaskProofs`. `IInv` says, for each point a process can be at
  (`Stage`), how the trace it holds and the trace file differ: not at all, or by
  the one move it has announced and writes next. It needs that one process
  executes a workflow (`OneEach`), and that steps of the coder loop keep a
  process within the body of its step (`CoderMoves`). The four writes of
  the file are then moves of `WorkflowTrace`. `EventsInv` says what the event log
  has of the announced move. `FilesInv` rests on two facts: what exists
  stays, so it is enough that a name is written after its file; and each step
  of a trace that is called done left behind what its artifacts name. `AloneInv` is
  about the only active process: behind it is what its own writes left
  (`OnCourse`), and the mirrors equal the files but for what it is about
  to write (`MirrorsBut`). The kernel refuses to leave 'succeeded' only, which no
  workflow on its own asks for.
* `ReleaseProofs`. `IInv` follows an approval through every hand it passes:
  what a file or a process calls approved was approved once, and a check about
  to report carries what it was agreed on (`Ready`). What was agreed stays so,
  hence a step matters only to the process that takes it (`OneProcessStep`). That
  the run compared is the run *approved* needs `OneBusy`: the check reads the
  baseline twice, and only while one process at a time is busy can nobody set it
  in between. No override stands in for the approval because the production
  policy disallows it, an assumption of `Release` taken from `policy.js`.
  `CountInv` adds that an override's file and the process about to
  record a use account together for every release it let out.
* `ReviewProofs`. `JudgementsAgree` takes the two judgements apart rule by rule: each
  rule of the bundle that fails is a blocker of the verdict, and each that warns
  a followup, except the one for a quality gate that was not run.
  `ReviewInv` says that a review beside which nothing moved has read what there is to
  be read (`UnderWay`), point by point, so that its acceptance is about the tree, plan
  and project as they are (`UpToDate`, `Sound`); every move makes that void.
  `VerdictsAgree` needs the invariant for one thing: that a review which asked for
  the quality gate has its result when it judges. For `Ultrawork`, `SignedInv`
  says that no file ever holds a signature but the empty one or one a reviewer made, so
  that a file whose signature fits it says what was signed.
  `ReadinessInv` says that as long as no server is exchanged a cached probe and the results say
  what the server is, and its part `HeldOK` that a probe, however old, says what has been there. `SweepIsSafe` (of `HistoryInv`) says of every run an archive
  has still to move why it may go; every run that is written meanwhile is newer, which
  is why the minimum stays. `BenchmarksAreHonest` then is about the numbers of one state: a bucket
  whose newest cases all failed weighs at least two (`FailingWeighs`), and two
  such buckets are a risk (`FailingIsRisky`); with one it fails, which is why the
  property says two.
  `EvidenceInv` has a part for each thing a release command stands on: the approvals it saw
  (`ApprovalsAreTrue`), the rehearsal and the check it read (`RehearsalIsTrue`,
  `CheckIsTrue`), the uses that the file of the override and a command under way
  account for together (`UsesAreCounted`) and the steps it has still to take
  (`InOrder`); `ShownIsTrue` is what it reports when it ends.
  `RepairInv` says of every run's advice, however old, that it `Fits` the rounds it was
  made of, and of the run that has just had a round that its advice is what the report
  would say now. That risk does not embolden is a fact about the rules
  (`HighRiskIsNotBold`, `HighRiskIsNotWider`). `CommandsInv` says that commands to be
  tried run in the project as it is: nothing moves it while a repair is under way, and
  each way a command is chosen (`ScriptRuns`, `ResolvedRuns`, `FrameworkRuns`) chooses one
  that does, but for `Misnamed`.
* `WorkspaceProofs`. `InstallInv` says for each step what the command has done and will not
  undo; since a killed command starts over, nothing is said of where it was killed.
  For the renames, `GoInv` and `JavaInv` say what a command that is through has done; the
  rest is about one project. Of Go: where nothing is `Unseen`, a rename of a package is for
  one declaration (`OneDeclaration`), and what is renamed is what means it, since a use
  means it exactly where its function binds no such name (`PackageRenameIsExact`); a rename in a
  function is for the one binding it has (`FunctionRenameIsExact`). Of Java: for each step of the
  way a name is looked up, what the new name finds in the new project is what the old one
  found, renamed (`RewrittenRefers`).
  `RewriteInv`: what a rewrite has still to write covers every file that has the old name
  (`OnlyLeft`), so one that ends leaves none. `SnapshotInv` keeps what names a commit
  resolvable: history only grows (`LongerHistory`), so a snapshot, a plan's baseline and a
  rollback under way mean what they meant. `FeatureInv`: nobody writes the memory while a
  child has it, and what the parent's copy lacks is about the feature it generates.
  For the ecosystem, `expandBundleIds` is the least complete set that holds what is
  wanted (`ExpandIsLeast`), so applying again adds nothing as long as what is wanted
  then is in it already (`CompleteIsSettled`); `AppliedIsComplete` says it is.

Assumed of the constants, each `ASSUME` named in the module that declares them or, for
a component of a composed instance, in the MC module that gives it its variables:

* sets that stand for different things are disjoint, what stands for a missing or a
  torn file is none of the files there can be, bounds and weeks are numbers;
* task ids are numbers (the order of the map), required fields are fields, every
  preset is of bundles there are;
* a chunk is finite and not empty, its characters take at least a byte each, and a
  character cut by its end has at most three bytes before and after the cut
  (`OutputAssumption`);
* the slug of a name is a name, and its own slug (`SlugAssumption`);
* files and cases are finitely many, a case fails a number of checks, a policy names one
  of the two coverages the code has (`CasesAssumption`);
* the windows of the memory are positive, a version ships of what is shipped
  (`WorkspaceAssumption`); a project is run by `npm` or `pnpm` (`PackagesAssumption`);
  what a language server's places are is known per language (`WorldsAssumption`);
* a Go package declares a name, a function its own and each of its blocks a name, once
  (`init`, which nothing can use, is left out), and no function or method is called `top`
  (`GoProjectsAssumption`; nothing is assumed of what the patterns see); Java types are named with their package
  (`JavaProjectsAssumption`); the two names differ, and no refusal is taken for none
  (`RefusalsAssumption`);
* what is found, asked and reported is of the kinds the code gives (`ReviewGate`,
  `EvidenceAssumption`, `AdviceAssumption`);
* the production policy keeps a required approval from overrides, as `policy.js` does.

Only model-checked:

* what needs fairness (`RunEnds`, `CallersAreAnswered`, `WorkEnds`), which this prover
  does not do;
* `EditsAreExact`: an overlay is folded over a sequence of items sorted by place, a scaffold
  over the lines of a file, and what a fold computes for every sequence is proved by
  induction over data, which no installed prover can instantiate;
* what the runs refute, which is true of no instance and so not to be proved.

## 5. What the code does that a reader may not expect

Met while modelling; the models behave so, and the properties are stated within
it. No document was found that promises otherwise, unless one is named.

* **Scheduler.** A run on an empty task set, or on one where only tasks left
  'running' by a dead process remain, polls every 50 ms for ever
  (`scheduler-service.js:131`).
* **Gates and kernel.** Overlapping commands lose each other's marks. A coder run
  that was green and fails again stays 'succeeded' in the kernel, and the command
  exits with 1 (`orchestrator-kernel.js:103`). `buildRecovery` shows the status in
  the plan's copy of a run, which later rounds do not rewrite (`memory.js:300`).
* **Snapshots.** A skipped snapshot has an id and no file; a plan may link it
  and the strategy then advise a rollback that fails
  (`implement-task-cli.js:178`).
* **Advice.** The strategy searches the output of all checks, passing ones too,
  and `=======` matches the pattern of a merge conflict, so a failing pytest round
  is told `manual_intervention_required` (`failure-strategy.js:89`). High risk
  gives the scope `broad` (`coder-policy.js:87`) under the note to keep the context
  narrow (`:107`). No coder run has a recipe, so `split_or_rollback` never names
  the files to restore. The prompt's verdict on the patch is the last round's,
  that of `safe-apply status` is the tree's.
* **Process runner.** Each chunk of a pipe is decoded alone (`process-runner.js:19`): one
  that ends inside a character turns its two parts into replacement characters, each of
  three bytes, so the output is then not what the child wrote and may reach its cap early.
* **Features.** A failure leaves the twelve-entry history and acceptance turns
  ready (`acceptance.js:63`). A feature without tests is never accepted. A feature has two
  names: the scaffold writes its plan, its integration note and a success under the slug
  (`scaffold/service.js:247`), `generate-feature` and `debug-fix-loop` write under the name
  they were given (`generate-feature.js:244`, `265`; `debug-fix-loop.js:278`). After
  `UserAuth` was generated and its verification failed, acceptance of `user-auth` finds
  plan, note and success under that name, no failure, and calls it ready
  (`acceptance.js:50`). `ReportsAreTrue` is about
  failures under the slug; the instance also has a feature under another name, whose
  failures it calls `unseen`.
* **Renames.** A server whose request has the id of a pending one is taken for
  its answer (`lsp-rename-runner.js:112`). A report may be followed by late edits.
  By spelling, Go captures a local declared inside a function, misses references
  from other packages and renames fields; Java misses on-demand imports and renames
  other types of the same name. The patterns of Go (`go.js:203`, `233`,
  `322`) do not see `a` in the parameters `(a, b int)`, nor the names of results, parameters
  of function literals, local types, the later names of a local `var a, b int` and those of
  a local `var ( ... )`, so a rename of the package's `a` rewrites them; nor do they see, of
  a package, generic functions and all they bind, grouped types and bare names in a group of
  constants; and they take a method for a declaration of its package. `GoRename` has
  an occurrence tell whether it is seen, and `Unseen` names each such case where the
  property excludes it; so does `JavaRename`. The footprint is checked after the
  files are written (`ast-rewrite-cli.js:87`; `commands/ast-rewrite.md:44`).
* **Scaffolds.** A block counts as present when its text occurs anywhere, also
  inside a longer line; an import is found only as a whole line. A killed
  scaffold needs `--force`, which is why its updates stay undone. `apply` says
  'updated' where `plan` says 'skipped_anchor_missing'.
* **Ecosystem.** Enabling what was disabled does not enable it again; disabled
  bundles still act in the hook policy (`hook-policy.js:11`; `README.md:89`).
* **Installation.** A user's agent or command of a shipped name is overwritten; an
  `opencode.json` that does not parse is replaced whole (`install-cli.js:128`);
  an upgrade leaves stale shims.
* **Verification commands.** A script `ci:test` makes the code name `test:unit`,
  which the project may not have (`Misnamed` in `VerifyCommands`).
* **Benchmarks.** A case whose plan throws counts as a task that succeeded and
  keeps its bucket fresh, so a suite whose plans all throw stays ready. Where a policy
  asks for partial coverage only, enough runs of one matched dimension make a scope
  ready although every case of it failed (`feedback.js:36`, `103`). Freshness is
  that of the newest matched source. Archiving under a laxer policy can leave fewer
  runs than a release needs. A comparison calls a case improved when its failures
  are gone because it now throws.
* **Reviews.** The quality gate runs in the working directory, not in `--root`.
  Plan targets count as changed files, untracked files do not; outside a git
  repository the change is empty and can be accepted. A verdict is bound to
  neither plan nor tree; the delivery report shows the plan's copy of the coder
  status.
* **Ultrawork.** Build, tests and lint are marked passed after a quality gate
  that skips scripts the project does not define and runs no tests.
* **Readiness of servers.** A scenario passes when any one file has the new name;
  probes are kept for the whole process (`lsp-backend.js:134`), so a claim may stand on
  what was said of a server that has been exchanged since; `EOC_*_LSP_ASSUME_REAL` makes any server
  real.
* **Releases.** Evidence stands on the latest rehearsal of its policy, whatever its
  age, but reads the approval anew (`evidence.js:178`, `189`), so it can show
  `ready` with `baseline_approved` false after a revocation. The check tries
  the canonical baseline names first, evidence and rehearsal only `release`
  (`scripts/release-evidence.js:14`, `rehearsal.js:120`), so a preflight's check can
  be ready while its topline says blocked; `release-evidence --json` always exits
  with 0, so such a preflight is itself ready. A rehearsal's copy lacks
  `node_modules`, and where `.opencode` is not ignored by git it is never
  ready for a rollback. An evidence run with `--override-id` takes a use.

## 6. What is not modelled, and why

* Torn files of the control plane: `GateRun`, `CoderLoop`, `ImplementTask`,
  `Scheduler` and `Release` take a write as atomic. Those who read the mirrors, overrides,
  baselines and approvals take a torn file for a missing one (`tryReadJson`); those who
  read a run or a plan to work on let `JSON.parse` throw, so a command on a torn run
  fails and the run stays as it is until somebody mends the file (`loadRun` of
  `scheduler/run-store.js:17`, `eoc-start-cli.js:123`, `coder-loop-cli.js:127`,
  `plan-store.js:47`). `Ecosystem`, `Installation`, `FeatureRun` and
  `ReleaseReports` do tear the files that a kill inside a write leaves.
* Overlapping commands in the runs `workspace` and `review`: their commands are
  given by one user one after the other, against a project that moves. Two
  scaffolds or two `ecosystem` commands at once can lose one's update.
* The execution policy: its only state is a file it reads; its verdict is an
  input of `Scheduler` and `Executor`.
* Trace ids (`implement-${Date.now()}`) are taken as distinct, and so are the
  ids of coder runs (random) and of overrides made without `--id`.
* A `when` that throws leaves its trace pending (`engine.js:123`); no shipped
  workflow has one.
* Scoring and ranking (skills, recipes, routes to files), templates, renderings,
  normalizers of tool output, detection of a project's profile, static tables,
  queries over the event log, the coding benchmark: functions of text with no
  state of their own. Import, export and structural edits, and rename-at of java
  members, are such functions over syntax trees.
* Components marked `not_modelled` in `PROJECT.json`.

## 7. Reproducing

```
tlc -workers 2 -config Scheduler.cfg MCScheduler      # and likewise for each run
tlapm SchedulerProofs.tla                             # each *Proofs module
```
