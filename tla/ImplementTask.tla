--------------------------- MODULE ImplementTask ---------------------------
(***************************************************************************)
(* implement-task run (cli/implement-task-cli.js): the workflow of         *)
(* control-plane/workflows/implement-task.js, executed by the engine of    *)
(* control-plane/workflow/engine.js, over the coder loop.  The engine      *)
(* appends an event and writes its whole trace file at every move; the     *)
(* last step writes the plan, its kernel record, the pointer to it and the *)
(* memory.  Coder-loop commands run beside it on the same files.           *)
(***************************************************************************)
EXTENDS CoderLoop, Sequences, SequencesExt

CONSTANT Reports   \* the steps before the scaffold, which report what createPlan found

VARIABLES
  packet,     \* those of a plan's context.json and next-prompt.md that are written
  plan,       \* the plans' plan.json
  latestPlan, \* the set holding the plan implementation-plans/latest.json names
  trace,      \* the workflows' trace files; a workflow has its plan's name here
  events,     \* what the event log says of each workflow: a set of <<type, step>>
  work        \* what a process that executes a workflow keeps of it

planVars == <<packet, plan, latestPlan>>
flowVars == <<planVars, trace, events, work>>
vars == <<coderVars, flowVars>>

AllReports == <<"detect-project-profile", "resolve-automation-policy", "select-skill",
                "assess-benchmark-feedback", "create-snapshot">>

Steps == Reports \o <<"run-scaffold", "create-coder-run", "execute-validation-round",
                      "write-plan-artifacts">>

ASSUME ReportsAssumption == Reports \in Seq(Range(AllReports))

NoTrace == [status |-> "none", steps |-> <<>>]
NoPlan  == [run |-> "none", status |-> "none", rounds |-> 0, traced |-> FALSE]
NoWork  == [name |-> "none", scaffold |-> "no", validate |-> TRUE, mine |-> NoTrace,
            plan |-> NoPlan]

Init ==
  /\ CoderInit
  /\ packet = [w \in Plans |-> {}]
  /\ plan = [w \in Plans |-> NoPlan]
  /\ latestPlan = {}
  /\ trace = [w \in Plans |-> NoTrace]
  /\ events = [w \in Plans |-> {}]
  /\ work = [p \in Procs |-> NoWork]

------------------------------------------------------------------------------
(* The engine: executeWorkflow.                                            *)

Flow(p)    == work[p].name
Entries(p) == work[p].mine.steps
Current(p) == Steps[Len(Entries(p))]

Emit(p, type, step) == events' = [events EXCEPT ![Flow(p)] = @ \cup {<<type, step>>}]

SetTrace(p, t) == work' = [work EXCEPT ![p].mine = t]

\* The trace with its last entry changed.  A step's summary names the run or
\* the plan the step made.
Marked(t, status, names) ==
  [t EXCEPT !.steps[Len(t.steps)] = [status |-> status, names |-> names]]

Implement(p) == \E w \in Plans, scaffold \in {"no", "works", "throws"}, validate \in BOOLEAN :
  /\ trace[w] = NoTrace /\ \A q \in Procs : Flow(q) # w
  /\ Begin(p, "implement", NoRun, "open")
  /\ work' = [work EXCEPT ![p] = [NoWork EXCEPT !.name = w, !.scaffold = scaffold,
                                     !.validate = validate]]
  /\ UNCHANGED <<planVars, trace, events>>

Open(p) ==
  /\ At(p, "open", "opened")
  /\ Emit(p, "started", 0)
  /\ SetTrace(p, [status |-> "running", steps |-> <<>>])
  /\ UNCHANGED <<disk, job, held, seen, history, planVars, trace>>

\* Mutant: that a step runs is not written.
PersistLess(p) ==
  \E move \in {<<"opened", "next">>, <<"skipping", "next">>, <<"starting", "body">>,
               <<"completing", "next">>} :
    /\ At(p, move[1], move[2])
    /\ trace' = IF move[1] = "starting" THEN trace ELSE [trace EXCEPT ![Flow(p)] = work[p].mine]
    /\ UNCHANGED <<disk, job, held, seen, history, planVars, events, work>>

\* persistTraceSnapshot, after a move that was announced.
Persist(p) ==
  \E move \in {<<"opened", "next">>, <<"skipping", "next">>, <<"starting", "body">>,
               <<"completing", "next">>} :
    /\ At(p, move[1], move[2])
    /\ trace' = [trace EXCEPT ![Flow(p)] = work[p].mine]
    /\ UNCHANGED <<disk, job, held, seen, history, planVars, events, work>>

\* A move nothing announces: the process keeps t and writes it.
Write(p, t) ==
  /\ SetTrace(p, t)
  /\ trace' = [trace EXCEPT ![Flow(p)] = t]
  /\ UNCHANGED <<disk, job, held, seen, history, planVars, events>>

Push(p) ==
  /\ At(p, "next", "decide") /\ Len(Entries(p)) < Len(Steps)
  /\ Write(p, [work[p].mine EXCEPT !.steps = Append(@, [status |-> "pending", names |-> "none"])])

shouldRunStep(p) ==
  CASE Current(p) = "run-scaffold" -> work[p].scaffold # "no"
    [] Current(p) = "execute-validation-round" -> work[p].validate
    [] OTHER -> TRUE

Skip(p) ==
  /\ At(p, "decide", "skipping") /\ ~shouldRunStep(p)
  /\ SetTrace(p, Marked(work[p].mine, "skipped", "none"))
  /\ Emit(p, "skipped", Len(Entries(p)))
  /\ UNCHANGED <<disk, job, held, seen, history, planVars, trace>>

Start(p) ==
  /\ At(p, "decide", "starting") /\ shouldRunStep(p)
  /\ SetTrace(p, Marked(work[p].mine, "running", "none"))
  /\ Emit(p, "step-started", Len(Entries(p)))
  /\ UNCHANGED <<disk, job, held, seen, history, planVars, trace>>

\* Mutant: the event is forgotten.
CompleteQuietly(p) ==
  /\ At(p, "done", "completing")
  /\ SetTrace(p, Marked(work[p].mine, "succeeded",
                        CASE Current(p) = "create-coder-run" -> held[p].run
                          [] Current(p) = "write-plan-artifacts" -> Flow(p)
                          [] OTHER -> "none"))
  /\ UNCHANGED <<disk, job, held, seen, history, planVars, trace, events>>

Complete(p) ==
  /\ At(p, "done", "completing")
  /\ SetTrace(p, Marked(work[p].mine, "succeeded",
                        CASE Current(p) = "create-coder-run" -> held[p].run
                          [] Current(p) = "write-plan-artifacts" -> Flow(p)
                          [] OTHER -> "none"))
  /\ Emit(p, "completed", Len(Entries(p)))
  /\ UNCHANGED <<disk, job, held, seen, history, planVars, trace>>

\* The step threw: its failure and the workflow's are written together, and the
\* command exits with 1.
Catch(p) ==
  /\ At(p, "threw", "failing")
  /\ SetTrace(p, [Marked(work[p].mine, "failed", "none") EXCEPT !.status = "failed"])
  /\ Emit(p, "failed", Len(Entries(p)))
  /\ UNCHANGED <<disk, job, held, seen, history, planVars, trace>>

Rethrow(p) ==
  /\ pc[p] = "failing"
  /\ trace' = [trace EXCEPT ![Flow(p)] = work[p].mine]
  /\ Exit(p) /\ work' = [work EXCEPT ![p] = NoWork]
  /\ UNCHANGED <<disk, history, planVars, events>>

Close(p) ==
  /\ At(p, "next", "closed") /\ Len(Entries(p)) = Len(Steps)
  /\ Write(p, [work[p].mine EXCEPT !.status = "succeeded"])

Announce(p) ==
  /\ At(p, "closed", "stamp")
  /\ Emit(p, "workflow-completed", 0)
  /\ UNCHANGED <<disk, job, held, seen, history, planVars, trace, work>>

------------------------------------------------------------------------------
(* The steps of the workflow.                                              *)

\* They change nothing.
Report(p) ==
  /\ At(p, "body", "done")
  /\ Current(p) \in Range(Reports)
  /\ UNCHANGED <<disk, job, held, seen, history, flowVars>>

runScaffold(p) ==
  /\ At(p, "body", IF work[p].scaffold = "throws" THEN "threw" ELSE "done")
  /\ Current(p) = "run-scaffold"
  /\ UNCHANGED <<disk, job, held, seen, history, flowVars>>

\* createRun, which ends with a save.
createCoderRun(p) ==
  /\ At(p, "body", "save") /\ Current(p) = "create-coder-run"
  /\ \E r \in Runs, checks \in Selections :
       Unused(r) /\ held' = [held EXCEPT ![p] = Fresh(r, checks)]
  /\ UNCHANGED <<disk, job, seen, history, flowVars>>

\* Mutant: the round is not awaited.
ValidationUnawaited(p) ==
  /\ At(p, "body", "done") /\ Current(p) = "execute-validation-round"
  /\ UNCHANGED <<disk, job, held, seen, history, flowVars>>

executeValidationRound(p) ==
  /\ At(p, "body", "checking") /\ Current(p) = "execute-validation-round"
  /\ UNCHANGED <<disk, job, held, seen, history, flowVars>>

StepSaved(p) ==
  /\ job[p] = "implement" /\ At(p, "saved", "done") /\ Current(p) = "create-coder-run"
  /\ UNCHANGED <<disk, job, held, seen, history, flowVars>>

\* loadCoderRun, after the round and, when there was none, before the plan.
Reload(p, here, next) ==
  /\ At(p, here, next)
  /\ held' = [held EXCEPT ![p] = file[held[p].run]]
  /\ UNCHANGED <<disk, job, seen, history, flowVars>>

RoundSaved(p) ==
  job[p] = "implement" /\ Reload(p, "saved", "done") /\ Current(p) = "execute-validation-round"

------------------------------------------------------------------------------
(* writePlanArtifacts and, after the workflow, the plan written again with *)
(* the name of its trace.                                                  *)

PlanOf(rec) ==
  [run |-> rec.run, status |-> rec.status, rounds |-> rec.rounds, traced |-> FALSE]

writePlanArtifacts(p) ==
  /\ pc[p] = "body" /\ Current(p) = "write-plan-artifacts"
  /\ IF work[p].validate
     THEN At(p, "body", "context") /\ UNCHANGED <<disk, job, held, seen, history, flowVars>>
     ELSE Reload(p, "body", "context")

WriteContext(p) ==
  /\ At(p, "context", "prompt")
  /\ packet' = [packet EXCEPT ![Flow(p)] = @ \cup {"context"}]
  /\ UNCHANGED <<disk, job, held, seen, history, plan, latestPlan, trace, events, work>>

WritePrompt(p) ==
  /\ At(p, "prompt", "plan")
  /\ packet' = [packet EXCEPT ![Flow(p)] = @ \cup {"prompt"}]
  /\ work' = [work EXCEPT ![p].plan = PlanOf(held[p])]
  /\ UNCHANGED <<disk, job, held, seen, history, plan, latestPlan, trace, events>>

savePlan(p) ==
  /\ At(p, "plan", "planned")
  /\ plan' = [plan EXCEPT ![Flow(p)] = work[p].plan]
  /\ UNCHANGED <<disk, job, held, seen, history, packet, latestPlan, trace, events, work>>

\* rememberPlan: registerImplementationPlan asks no transition table.
RegisterPlan(p) ==
  /\ At(p, "planned", "listed")
  /\ kernel' = [kernel EXCEPT ![Flow(p)] = mapImplementationStatus(work[p].plan.status)]
  /\ UNCHANGED <<file, latest, index, memory, job, held, seen, history, flowVars>>

IndexPlan(p) ==
  /\ At(p, "listed", "pointing")
  /\ index' = {Flow(p)}
  /\ UNCHANGED <<file, latest, kernel, memory, job, held, seen, history, flowVars>>

writeLatestPlanPointer(p) ==
  /\ At(p, "pointing", "remembering")
  /\ latestPlan' = {Flow(p)}
  /\ UNCHANGED <<disk, job, held, seen, history, packet, plan, trace, events, work>>

RememberPlan(p) ==
  /\ At(p, "remembering", "done")
  /\ memory' = [run |-> work[p].plan.run, plan |-> Flow(p), record |-> Flow(p),
                status |-> work[p].plan.status]
  /\ UNCHANGED <<file, latest, kernel, index, job, held, seen, history, flowVars>>

StampPlan(p) ==
  /\ pc[p] = "stamp"
  /\ plan' = [plan EXCEPT ![Flow(p)] = [work[p].plan EXCEPT !.traced = TRUE]]
  /\ Exit(p) /\ work' = [work EXCEPT ![p] = NoWork]
  /\ UNCHANGED <<disk, history, packet, latestPlan, trace, events>>

------------------------------------------------------------------------------
EngineStep(p) ==
  \/ Implement(p) \/ Open(p) \/ Persist(p) \/ Push(p) \/ Skip(p) \/ Start(p)
  \/ Complete(p) \/ Catch(p) \/ Rethrow(p) \/ Close(p) \/ Announce(p)

BodyStep(p) ==
  \/ Report(p) \/ runScaffold(p) \/ createCoderRun(p) \/ executeValidationRound(p)
  \/ StepSaved(p) \/ RoundSaved(p)
  \/ writePlanArtifacts(p) \/ WriteContext(p) \/ WritePrompt(p) \/ savePlan(p)
  \/ RegisterPlan(p) \/ IndexPlan(p) \/ writeLatestPlanPointer(p) \/ RememberPlan(p)
  \/ StampPlan(p)

KillAny(p) == Kill(p) /\ work' = [work EXCEPT ![p] = NoWork] /\ UNCHANGED <<planVars, trace, events>>

Next == \E p \in Procs :
  \/ CoderStep(p) /\ UNCHANGED flowVars
  \/ EngineStep(p) \/ BodyStep(p) \/ KillAny(p)

Spec == Init /\ [][Next]_vars
------------------------------------------------------------------------------
(* What recovery makes of the files: buildRecovery takes the plan the      *)
(* memory names, else the kernel's or the pointer's, else the newest found.*)

Planned(w) == plan[w] # NoPlan

PlanNamed ==
  IF memory.plan # "none" THEN {memory.plan}
  ELSE IF index \cap Plans # {} THEN index \cap Plans ELSE latestPlan

PlansRecovered ==
  LET found == {w \in PlanNamed : Planned(w)}
  IN  IF found # {} THEN found ELSE {w \in Plans : Planned(w)}

RunsRecovered ==
  IF PlansRecovered # {} THEN {plan[w].run : w \in PlansRecovered} ELSE latest

------------------------------------------------------------------------------
Records == [run : Runs, checks : SUBSET Checks, rounds : 0..MaxCommands, failed : SUBSET Checks,
            failures : SUBSET Checks, status : {"initialized", "green", "needs_fix"}]

TypeOK ==
  /\ file \in [Runs -> Records \cup {NoRun}]
  /\ held \in [Procs -> Records \cup {NoRun}]
  /\ latest \subseteq Runs /\ index \subseteq Runs \cup Plans /\ latestPlan \subseteq Plans
  /\ kernel \in [Runs \cup Plans -> RUN_STATUS \cup {"none"}]
  /\ packet \in [Plans -> SUBSET {"context", "prompt"}]
  /\ alone \in BOOLEAN

\* tests/workflow-engine-batch4.test.js reads a trace while steps run.  At any
\* moment, with commands overlapping and dying anywhere, what the trace file has
\* on disk moves only as WorkflowTrace allows.
statusOf(t) == [i \in DOMAIN t.steps |-> t.steps[i].status]

Abstract == INSTANCE WorkflowTrace WITH
  Traces <- Plans, Length <- Len(Steps),
  status <- [w \in Plans |-> trace[w].status],
  steps <- [w \in Plans |-> statusOf(trace[w])]

TraceRefines == Abstract!Spec

\* A step the trace file calls succeeded has left behind what its summary names,
\* registered with the kernel: the coder run, a round of it, and a plan of that
\* very run with its context and its prompt.
TraceResolves ==
  \A w \in Plans : LET steps == trace[w].steps IN
    \A i \in DOMAIN steps : steps[i].status = "succeeded" =>
      /\ Steps[i] = "create-coder-run" =>
           /\ \E r \in latest : Exists(r)
           /\ \E r \in Runs : r = steps[i].names /\ Exists(r) /\ kernel[r] # "none"
      /\ Steps[i] = "execute-validation-round" => file[steps[i-1].names].rounds > 0
      /\ Steps[i] = "write-plan-artifacts" =>
           /\ plan[w].run = steps[i-2].names /\ packet[w] = {"context", "prompt"}
           /\ (steps[i-1].status = "succeeded" => plan[w].rounds > 0)
           /\ kernel[w] # "none"

\* UPDATE_BATCHES.md: the engine writes its kernel events by itself.  The event
\* log is ahead of the trace file by at most one move: whatever the file says has
\* an event, whatever step the log calls completed is at least running in the
\* file, and the log calls a workflow completed only after its file says so.
EventsAgree ==
  \A w \in Plans :
    /\ trace[w].status # "none" => <<"started", 0>> \in events[w]
    /\ <<"workflow-completed", 0>> \in events[w] => trace[w].status = "succeeded"
    /\ \A i \in DOMAIN trace[w].steps :
         CASE trace[w].steps[i].status = "skipped"   -> <<"skipped", i>> \in events[w]
           [] trace[w].steps[i].status = "running"   -> <<"step-started", i>> \in events[w]
           [] trace[w].steps[i].status = "succeeded" -> <<"completed", i>> \in events[w]
           [] trace[w].steps[i].status = "failed"    -> <<"failed", i>> \in events[w]
           [] OTHER -> TRUE
    /\ \A e \in events[w] : e[1] \in {"completed", "failed"} =>
         e[2] \in DOMAIN trace[w].steps /\ trace[w].steps[e[2]].status # "pending"

\* commands/orchestrator-state.md: recover shows "the latest recoverable state".
\* Wherever commands overlap or die, every pointer and every record names files
\* that exist, and once a run is pointed to recovery names one to continue.
PointersResolve ==
  /\ \A r \in latest : Exists(r)
  /\ \A w \in latestPlan : Planned(w)
  /\ \A k \in index : kernel[k] # "none"
  /\ \A r \in Runs : kernel[r] # "none" => Exists(r)
  /\ \A w \in Plans : kernel[w] # "none" => Planned(w)
  /\ \A w \in Plans : Planned(w) => packet[w] = {"context", "prompt"}
  /\ memory.run # "none" => /\ \E r \in Runs : r = memory.run /\ Exists(r)
                            /\ kernel[memory.record] # "none"
  /\ memory.plan # "none" => Planned(memory.plan)
  /\ latest # {} => RunsRecovered # {}
  /\ \A r \in RunsRecovered : Exists(r)

\* While no two commands have overlapped and none was killed, the mirrors follow:
\* between commands the kernel has every run and plan as its file says, except
\* that a run it once called succeeded stays so whatever later rounds find, and
\* the memory tells the state of the run it names or of one that succeeded.
MirrorsFollow ==
  alone /\ kills = 0 /\ (\A p \in Procs : Idle(p)) =>
    /\ \A r \in Runs : Exists(r) =>
         kernel[r] \in {mapImplementationStatus(file[r].status), "succeeded"}
    /\ \A w \in Plans : Planned(w) => kernel[w] = mapImplementationStatus(plan[w].status)
    /\ memory.run # "none" =>
         /\ index = {memory.record}
         /\ (memory.status = file[memory.run].status \/ kernel[memory.run] = "succeeded")

\* While no two commands have overlapped, a workflow fails at its scaffold only:
\* the kernel's transition table refuses none of the saves it makes.
FailsOnlyAtScaffold ==
  \A w \in Plans :
    alone /\ trace[w].status = "failed" => Steps[Len(trace[w].steps)] = "run-scaffold"

\* commands/coder-loop.md: "Typecheck/build/test/lint checks detected by the repo
\* are green".  A run that is green has had no failing check in its last round.
GreenMeansChecksPass == \A r \in Runs : file[r].status = "green" => file[r].failed = {}

\* Whatever the trace calls done is on disk and registered, and every pointer and
\* record names files that exist, wherever commands overlap or die.
FilesResolve == TypeOK /\ TraceResolves /\ PointersResolve

\* While no two commands have overlapped the kernel refuses no save of a workflow, and
\* when none was killed the kernel and the memory say what the files say.
AloneIsInStep == MirrorsFollow /\ FailsOnlyAtScaffold
==============================================================================
