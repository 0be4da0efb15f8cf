----------------------------- MODULE CoderLoop -----------------------------
(***************************************************************************)
(* The coder loop of cli/coder-loop-cli.js: a run's file, rewritten by     *)
(* every round of its checks, coder-loop/latest.json, and what each save   *)
(* does next: the kernel's record of the run and the kernel's index        *)
(* (kernel/orchestrator-kernel.js, kernel/run-store.js) and the            *)
(* orchestrator's memory (orchestrator/memory.js).                         *)
(*                                                                         *)
(* Commands are processes that share those files without a lock and may    *)
(* be killed between any two of their reads and writes.  `job' says which  *)
(* command a process runs; ImplementTask adds one that creates a run and   *)
(* executes a round as two steps of a workflow.                            *)
(***************************************************************************)
EXTENDS Integers, FiniteSets, RunStatus

CONSTANTS
  Procs, Runs,
  Plans,       \* the implementation plans, which have kernel records too
  Checks,      \* the validation checks the project's profile offers
  Selections,  \* the sets of checks that runs are created with
  MaxCommands, \* bound on the commands begun
  MaxKills     \* bound on the commands killed

ASSUME CoderAssumption ==
  /\ Runs \cap Plans = {} /\ "none" \notin Runs \cup Plans
  /\ Selections \subseteq SUBSET Checks
  /\ MaxCommands \in Nat /\ MaxKills \in Nat

VARIABLES
  file,     \* the runs' files
  latest,   \* the set holding the run latest.json names
  kernel,   \* the status of each run's and plan's kernel record, or "none"
  index,    \* the set holding the kernel record active-run.json names
  memory,   \* orchestrator/active.json
  pc, job,
  held,     \* the run record a process holds
  seen,     \* what it read of a file it is about to rewrite
  alone,    \* history: no two commands have overlapped
  begun, kills   \* history: how many commands began, how many were killed

history == <<alone, begun, kills>>
disk == <<file, latest, kernel, index, memory>>
coderVars == <<disk, pc, job, held, seen, history>>

NoRun == [run |-> "none", status |-> "none"]

Fresh(r, checks) ==
  [run |-> r, checks |-> checks, rounds |-> 0, failed |-> {}, failures |-> {},
   status |-> "initialized"]

Exists(r) == file[r].run = r

CoderInit ==
  /\ file = [r \in Runs |-> NoRun]
  /\ latest = {} /\ index = {}
  /\ kernel = [k \in Runs \cup Plans |-> "none"]
  /\ memory = [run |-> "none", plan |-> "none", record |-> "none", status |-> "none"]
  /\ pc = [p \in Procs |-> "idle"]
  /\ job = [p \in Procs |-> "none"]
  /\ held = [p \in Procs |-> NoRun]
  /\ seen = [p \in Procs |-> "none"]
  /\ alone = TRUE /\ begun = 0 /\ kills = 0

------------------------------------------------------------------------------
(* Commands begin and end.                                                 *)

Idle(p) == pc[p] = "idle"

At(p, here, next) == pc[p] = here /\ pc' = [pc EXCEPT ![p] = next]

Begin(p, command, rec, next) ==
  /\ At(p, "idle", next) /\ begun < MaxCommands
  /\ job' = [job EXCEPT ![p] = command]
  /\ held' = [held EXCEPT ![p] = rec]
  /\ alone' = (alone /\ \A q \in Procs : Idle(q))
  /\ begun' = begun + 1
  /\ UNCHANGED <<disk, seen, kills>>

\* The process exits and forgets what it held.
Exit(p) ==
  /\ pc' = [pc EXCEPT ![p] = "idle"]
  /\ job' = [job EXCEPT ![p] = "none"]
  /\ held' = [held EXCEPT ![p] = NoRun]
  /\ seen' = [seen EXCEPT ![p] = "none"]

\* newRunId is random, so the name is nobody's.  pickChecks keeps the checks
\* asked for that the profile has, which may be none of them.
Unused(r) == ~Exists(r) /\ \A q \in Procs : held[q].run # r

Create(p) == \E r \in Runs, checks \in Selections :
  Unused(r) /\ Begin(p, "create", Fresh(r, checks), "save")

\* `run --run-id': loadRun.
Continue(p) == \E r \in Runs :
  Exists(r) /\ Begin(p, "round", file[r], "checking")

------------------------------------------------------------------------------
(* A round runs every check.  A check that exits non-zero reports the      *)
(* failures the normalizer finds in its output, none if it printed none.   *)

Round(rec, failed, failures) ==
  [run |-> rec.run, checks |-> rec.checks, rounds |-> rec.rounds + 1, failed |-> failed,
   failures |-> failures, status |-> IF failures = {} THEN "green" ELSE "needs_fix"]

executeRound(p) ==
  /\ At(p, "checking", "save")
  /\ \E failed \in SUBSET held[p].checks : \E failures \in SUBSET failed :
       held' = [held EXCEPT ![p] = Round(@, failed, failures)]
  /\ UNCHANGED <<disk, job, seen, history>>

------------------------------------------------------------------------------
(* saveRun: the file, the pointer, the kernel's record and its index, the  *)
(* memory, in this order.                                                  *)

SaveFile(p) ==
  /\ At(p, "save", "filed")
  /\ file' = [file EXCEPT ![held[p].run] = held[p]]
  /\ UNCHANGED <<latest, kernel, index, memory, job, held, seen, history>>

SaveLatest(p) ==
  /\ At(p, "filed", "pointed")
  /\ latest' = {held[p].run}
  /\ UNCHANGED <<file, kernel, index, memory, job, held, seen, history>>

\* registerCoderRun looks for the run's record; updateRunRecord throws when the
\* record's status may not become the run's.
Accepted(p) == canTransitionRunStatus(kernel[held[p].run], mapImplementationStatus(held[p].status))

Lookup(p) ==
  /\ At(p, "pointed", "found") /\ Accepted(p)
  /\ UNCHANGED <<disk, job, held, seen, history>>

\* The command of coder-loop exits with 1; a workflow's step throws.
Refused(p) ==
  /\ pc[p] = "pointed" /\ ~Accepted(p)
  /\ IF job[p] = "implement"
     THEN At(p, "pointed", "threw") /\ UNCHANGED <<job, held, seen>>
     ELSE Exit(p)
  /\ UNCHANGED <<disk, history>>

Register(p) ==
  /\ At(p, "found", "registered")
  /\ kernel' = [kernel EXCEPT ![held[p].run] = mapImplementationStatus(held[p].status)]
  /\ UNCHANGED <<file, latest, index, memory, job, held, seen, history>>

Index(p) ==
  /\ At(p, "registered", "indexed")
  /\ index' = {held[p].run}
  /\ UNCHANGED <<file, latest, kernel, memory, job, held, seen, history>>

\* rememberCoderRun keeps the plan the memory has.
Recall(p) ==
  /\ At(p, "indexed", "recalled")
  /\ seen' = [seen EXCEPT ![p] = memory.plan]
  /\ UNCHANGED <<disk, job, held, history>>

Remember(p) ==
  /\ At(p, "recalled", "saved")
  /\ memory' = [run |-> held[p].run, plan |-> seen[p], record |-> held[p].run,
                status |-> held[p].status]
  /\ UNCHANGED <<file, latest, kernel, index, job, held, seen, history>>

\* A created run gets its first round; a round is the end of the command.
Saved(p) ==
  /\ pc[p] = "saved" /\ job[p] \in {"create", "round"}
  /\ IF held[p].rounds = 0
     THEN At(p, "saved", "checking") /\ UNCHANGED <<job, held, seen>>
     ELSE Exit(p)
  /\ UNCHANGED <<disk, history>>

CoderStep(p) ==
  \/ Create(p) \/ Continue(p) \/ executeRound(p)
  \/ SaveFile(p) \/ SaveLatest(p) \/ Lookup(p) \/ Refused(p) \/ Register(p)
  \/ Index(p) \/ Recall(p) \/ Remember(p) \/ Saved(p)

Kill(p) ==
  /\ kills < MaxKills /\ ~Idle(p)
  /\ Exit(p)
  /\ kills' = kills + 1
  /\ UNCHANGED <<disk, alone, begun>>
==============================================================================
