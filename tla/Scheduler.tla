------------------------------ MODULE Scheduler ------------------------------
(***************************************************************************)
(* The run loop of eoc-scheduler: runScheduler of scheduler-service.js,    *)
(* executeTaskAttempt of task-executor.js and the run file of              *)
(* run-store.js, with the process killed and the command run again.        *)
(*                                                                         *)
(* One JavaScript process runs the loop.  Everything between two awaits is *)
(* atomic for the children's events, but not for a kill: the loop is split *)
(* where its effects become visible outside (a child is spawned, the run   *)
(* file is written), so that a Crash can fall between them.                *)
(***************************************************************************)
EXTENDS TaskGraph

CONSTANTS
  TaskIds,        \* the ids a run may use or mention
  TaskSets,       \* the task sets a run may have
  Graphs,         \* the dependency lists they may have
  PriorityMaps,   \* the priorities they may have
  RetryMaps,      \* the retry limits they may have
  Concurrencies,  \* the concurrency limits
  FastFails,      \* the values of --fast-fail
  Refusals,       \* what the executor may refuse, <<t, phase>>, though validateTasks accepts it
  MaxCrashes      \* bound on the number of kills

ASSUME TaskIdsAssumption ==
  /\ TaskIds \subseteq Nat
  /\ IsFiniteSet(TaskIds)

ASSUME InputsAssumption ==
  /\ TaskSets \subseteq SUBSET TaskIds
  /\ Graphs \subseteq [TaskIds -> SUBSET TaskIds]
  /\ PriorityMaps \subseteq [TaskIds -> Nat]
  /\ RetryMaps \subseteq [TaskIds -> Nat]
  /\ Concurrencies \subseteq Nat \ {0}
  /\ FastFails \subseteq BOOLEAN
  /\ Refusals \subseteq SUBSET (TaskIds \X {"command", "validation"})
  /\ MaxCrashes \in Nat

VARIABLES
  \* The run as init and add-task left it.
  tasks, deps, priority, retries, concurrency, refused,
  \* The process.  While none runs (pc = "off") the copy of the run is the
  \* one the next process would load: the run file's.
  pc,             \* where the loop is
  fastFail,
  active,         \* the Map of pending attempts
  phase,          \* what the pending attempt of a task awaits
  status, attempts, lastError,
  runStatus, metrics,
  \* The run file.
  disk,
  \* History: the children spawned for each task's command, the kills.
  launches, crashes

inputs  == <<tasks, deps, priority, retries, concurrency, refused>>
copy    == <<status, attempts, lastError>>
history == <<launches, crashes>>
vars == <<inputs, pc, fastFail, active, phase, copy, runStatus, metrics, disk, history>>

LoopPoints == {"off", "top", "launch", "save", "finish", "await"}
Phases     == {"none", "command", "validation", "rejected"}
RunStatus  == {"idle", "running", "completed", "failed", "blocked"}
Errors     == {"none", "timeout", "exit_code", "dependency_failed", "fast_fail"}

------------------------------------------------------------------------------
Record(run, st, att, err, met) ==
  [run |-> run, status |-> st, attempts |-> att, lastError |-> err, metrics |-> met]

Count == Metrics(tasks, status, attempts, lastError)

Init ==
  /\ tasks \in TaskSets
  /\ deps \in Graphs
  /\ priority \in PriorityMaps
  /\ retries \in RetryMaps
  /\ concurrency \in Concurrencies
  /\ refused \in Refusals
  /\ pc = "off"
  /\ fastFail \in FastFails
  /\ active = {}
  /\ phase = [t \in TaskIds |-> "none"]
  /\ status = [t \in TaskIds |-> "queued"]
  /\ attempts = [t \in TaskIds |-> 0]
  /\ lastError = [t \in TaskIds |-> "none"]
  /\ runStatus = "idle"
  /\ metrics = Metrics({}, status, attempts, lastError)
  /\ disk = Record(runStatus, status, attempts, lastError, metrics)
  /\ launches = [t \in TaskIds |-> 0]
  /\ crashes = 0

------------------------------------------------------------------------------
(* runScheduler, before its loop.                                          *)

Start ==
  /\ pc = "off"
  /\ \E f \in FastFails : fastFail' = f
  /\ IF ValidGraph(tasks, deps)
     THEN /\ pc' = "top"
          /\ runStatus' = "running"
          /\ UNCHANGED <<metrics, disk>>
     ELSE /\ pc' = "off"
          /\ runStatus' = "blocked"
          /\ metrics' = Count
          /\ disk' = Record(runStatus', status, attempts, lastError, metrics')
  /\ UNCHANGED <<inputs, active, phase, copy, history>>

\* The tasks fast fail skips, st the statuses once dependencies are skipped.
\* Mutant: it waits until no attempt is pending.
CutWhenIdle(st) ==
  IF fastFail /\ active = {} /\ \E t \in tasks : st[t] = "failed"
  THEN {t \in tasks : st[t] = "queued"} ELSE {}

Cut(st) ==
  IF fastFail /\ \E t \in tasks : st[t] = "failed"
  THEN {t \in tasks : st[t] = "queued"} ELSE {}

(* The head of the loop: dependency skips, then fast fail.                 *)
Top ==
  LET doomed == Doomed(tasks, deps, status)
      skip   == [t \in TaskIds |-> IF t \in doomed THEN "skipped" ELSE status[t]]
      cut    == Cut(skip)
  IN  /\ pc = "top"
      /\ pc' = "launch"
      /\ status' = [t \in TaskIds |-> IF t \in cut THEN "skipped" ELSE skip[t]]
      /\ lastError' = [t \in TaskIds |-> IF t \in doomed THEN "dependency_failed"
                                         ELSE IF t \in cut THEN "fast_fail"
                                         ELSE lastError[t]]
      /\ metrics' = Metrics(tasks, skip, attempts,
                            [t \in TaskIds |-> IF t \in doomed THEN "dependency_failed"
                                               ELSE lastError[t]])
      /\ UNCHANGED <<inputs, fastFail, active, phase, attempts, runStatus, disk, history>>

HasRoom == Cardinality(active) < concurrency

Ready == Runnable(tasks, deps, status)

(* launchTaskAttempt of the first runnable task, up to its first await: the
   task is marked, the child spawned.  The queue computed once before the
   inner loop and the one recomputed here agree: a launch only removes its
   own task from it.                                                       *)
Launch(t) ==
  /\ pc = "launch"
  /\ HasRoom
  /\ t \in Ready
  /\ \A u \in Ready \ {t} : Precedes(tasks, deps, priority, t, u)
  /\ status' = [status EXCEPT ![t] = "running"]
  /\ attempts' = [attempts EXCEPT ![t] = @ + 1]
  /\ active' = active \cup {t}
  /\ IF <<t, "command">> \in refused
     THEN /\ phase' = [phase EXCEPT ![t] = "rejected"]
          /\ UNCHANGED launches
     ELSE /\ phase' = [phase EXCEPT ![t] = "command"]
          /\ launches' = [launches EXCEPT ![t] = @ + 1]
  /\ UNCHANGED <<inputs, pc, fastFail, lastError, runStatus, metrics, disk, crashes>>

\* Mutant: the run is saved only while nothing is pending.
LaunchDoneUnsaved ==
  /\ pc = "launch"
  /\ ~HasRoom \/ Ready = {}
  /\ pc' = IF active = {} THEN "save" ELSE "await"
  /\ UNCHANGED <<inputs, fastFail, active, phase, copy, runStatus, metrics, disk, history>>

LaunchDone ==
  /\ pc = "launch"
  /\ ~HasRoom \/ Ready = {}
  /\ pc' = "save"
  /\ UNCHANGED <<inputs, fastFail, active, phase, copy, runStatus, metrics, disk, history>>

\* Mutant: only successful tasks count as done.
DoneBySuccess == tasks # {} /\ \A t \in tasks : status[t] = "success"

Done == tasks # {} /\ \A t \in tasks : status[t] \in Terminal

Deadlocked ==
  /\ active = {}
  /\ Ready = {}
  /\ \E t \in tasks : status[t] = "queued"

\* Mutant: the attempt counts are not saved.
SaveWithoutAttempts ==
  /\ pc = "save"
  /\ metrics' = Count
  /\ disk' = Record(runStatus, status, disk.attempts, lastError, metrics')
  /\ pc' = IF Done \/ Deadlocked THEN "finish" ELSE "await"
  /\ UNCHANGED <<inputs, fastFail, active, phase, copy, runStatus, history>>

(* refreshMetrics and saveRun, then the test that ends the loop.           *)
Save ==
  /\ pc = "save"
  /\ metrics' = Count
  /\ disk' = Record(runStatus, status, attempts, lastError, metrics')
  /\ pc' = IF Done \/ Deadlocked THEN "finish" ELSE "await"
  /\ UNCHANGED <<inputs, fastFail, active, phase, copy, runStatus, history>>

Verdict == IF Deadlocked THEN "blocked"
           ELSE IF \A t \in tasks : status[t] = "success" THEN "completed"
           ELSE "failed"

(* The last save.  Deadlocked has priority; no attempt is pending here.    *)
Finish ==
  /\ pc = "finish"
  /\ runStatus' = Verdict
  /\ disk' = Record(runStatus', status, attempts, lastError, metrics)
  /\ pc' = "off"
  /\ UNCHANGED <<inputs, fastFail, active, phase, copy, metrics, history>>

(* Nothing pending and not finished: sleep 50 ms and look again.           *)
Poll ==
  /\ pc = "await"
  /\ active = {}
  /\ pc' = "top"
  /\ UNCHANGED <<inputs, fastFail, active, phase, copy, runStatus, metrics, disk, history>>

------------------------------------------------------------------------------
(* executeTaskAttempt, after its awaits.                                   *)

Rejection == \E t \in active : phase[t] = "rejected"

(* The attempt's promise settles: the Map drops it and the race wakes the
   loop before any other event is handled.                                 *)
EndAttempt(t) ==
  /\ active' = active \ {t}
  /\ phase' = [phase EXCEPT ![t] = "none"]
  /\ pc' = "top"

MayRetry(t) == attempts[t] <= retries[t] + 1

AfterFailure(t) == IF MayRetry(t) THEN "queued" ELSE "failed"

(* The command or the validation times out or exits non-zero.              *)
AttemptFails(t) ==
  /\ pc = "await"
  /\ ~Rejection
  /\ t \in active
  /\ phase[t] \in {"command", "validation"}
  /\ \E e \in {"timeout", "exit_code"} : lastError' = [lastError EXCEPT ![t] = e]
  /\ status' = [status EXCEPT ![t] = AfterFailure(t)]
  /\ EndAttempt(t)
  /\ UNCHANGED <<inputs, fastFail, attempts, runStatus, metrics, disk, history>>

(* The command exits 0: the validation command is started.                 *)
CommandSucceeds(t) ==
  /\ pc = "await"
  /\ ~Rejection
  /\ t \in active
  /\ phase[t] = "command"
  /\ phase' = [phase EXCEPT ![t] = IF <<t, "validation">> \in refused
                                   THEN "rejected" ELSE "validation"]
  /\ UNCHANGED <<inputs, pc, fastFail, active, copy, runStatus, metrics, disk, history>>

(* The validation exits 0.  last_error keeps what an earlier attempt left. *)
ValidationSucceeds(t) ==
  /\ pc = "await"
  /\ ~Rejection
  /\ t \in active
  /\ phase[t] = "validation"
  /\ status' = [status EXCEPT ![t] = "success"]
  /\ EndAttempt(t)
  /\ UNCHANGED <<inputs, fastFail, attempts, lastError, runStatus, metrics, disk, history>>

------------------------------------------------------------------------------
(* The process ends early.                                                 *)

LoseProcess ==
  /\ pc' = "off"
  /\ active' = {}
  /\ phase' = [t \in TaskIds |-> "none"]
  /\ status' = disk.status
  /\ attempts' = disk.attempts
  /\ lastError' = disk.lastError
  /\ runStatus' = disk.run
  /\ metrics' = disk.metrics
  /\ UNCHANGED <<inputs, fastFail, disk, launches>>

(* The executor throws: the race rejects, runScheduler throws, and the CLI
   exits without another save.                                             *)
Reject ==
  /\ pc = "await"
  /\ Rejection
  /\ LoseProcess
  /\ UNCHANGED crashes

(* The process is killed.                                                  *)
Crash ==
  /\ pc # "off"
  /\ crashes < MaxCrashes
  /\ crashes' = crashes + 1
  /\ LoseProcess

------------------------------------------------------------------------------
Loop == Top \/ (\E t \in TaskIds : Launch(t)) \/ LaunchDone \/ Save \/ Finish \/ Poll \/ Reject

Attempt(t) == AttemptFails(t) \/ CommandSucceeds(t) \/ ValidationSucceeds(t)

Next == Start \/ Loop \/ (\E t \in TaskIds : Attempt(t)) \/ Crash

Spec == Init /\ [][Next]_vars

(* The event loop keeps running the process it has, and every command ends:
   the executor kills it at its timeout (Executor.tla).                    *)
Fairness == WF_vars(Loop) /\ \A t \in TaskIds : WF_vars(Attempt(t))

FairSpec == Spec /\ Fairness
------------------------------------------------------------------------------
(* Properties.                                                             *)

\* The type of the state.  The counters of metrics are left to SavedCounts.
TypeOK ==
  /\ tasks \in SUBSET TaskIds
  /\ deps \in [TaskIds -> SUBSET TaskIds]
  /\ priority \in [TaskIds -> Nat]
  /\ retries \in [TaskIds -> Nat]
  /\ concurrency \in Nat \ {0}
  /\ pc \in LoopPoints
  /\ fastFail \in BOOLEAN
  /\ active \in SUBSET tasks
  /\ phase \in [TaskIds -> Phases]
  /\ status \in [TaskIds -> TaskStatus]
  /\ attempts \in [TaskIds -> Nat]
  /\ lastError \in [TaskIds -> Errors]
  /\ runStatus \in RunStatus
  /\ disk.run \in RunStatus
  /\ disk.status \in [TaskIds -> TaskStatus]
  /\ disk.attempts \in [TaskIds -> Nat]
  /\ disk.lastError \in [TaskIds -> Errors]
  /\ launches \in [TaskIds -> Nat]
  /\ crashes \in Nat

\* No more attempts are pending than the concurrency limit allows, over any
\* interleaving of settled attempts, retries and new launches.
ConcurrencyBound == Cardinality(active) <= concurrency

\* A task that was ever attempted has all its dependencies in the run and
\* successful, in memory and in the run file, now and after any restart.
DependenciesFirst ==
  \A t \in tasks :
    /\ attempts[t] > 0 => \A d \in deps[t] : d \in tasks /\ status[d] = "success"
    /\ disk.attempts[t] > 0 => \A d \in deps[t] : d \in tasks /\ disk.status[d] = "success"

\* The retry rule as the code applies it: attempts never exceed retries + 2,
\* counted across restarts.
AttemptsBound ==
  \A t \in tasks : attempts[t] <= retries[t] + 2 /\ disk.attempts[t] <= retries[t] + 2

\* commands/eoc-parallel.md: "Timeout and retry are enforced per task."  A
\* task given N retries is attempted at most N + 1 times.
RetriesEnforced == \A t \in tasks : attempts[t] <= retries[t] + 1

\* Whenever the loop waits for its children the run file holds the statuses
\* and the attempt counts it has in memory: a kill while waiting loses
\* nothing.
AwaitIsDurable ==
  pc = "await" => /\ disk.status = status
                  /\ disk.attempts = attempts
                  /\ disk.lastError = lastError

\* A child is spawned before the run file says so; a kill in between makes
\* the next process spawn the command again.  Each kill costs at most one
\* such repetition of a task.
RepetitionsBound == \A t \in tasks : launches[t] <= attempts[t] + crashes

\* The run file never shows, once the loop has saved it, a queued task
\* behind a failed or skipped one: the skips were carried to every
\* descendant.
NoQueuedBehindFailure ==
  disk.run # "idle" /\ ValidGraph(tasks, deps) =>
    \A t \in tasks : disk.status[t] = "queued" =>
      \A d \in deps[t] : disk.status[d] \notin {"failed", "skipped"}

\* A validated run is blocked only when a process died on it: the graph has
\* no cycle and no missing task, so some task can always run unless one is
\* marked running that nobody runs.
BlockedOnlyByStaleTask ==
  disk.run = "blocked" =>
    \/ ~ValidGraph(tasks, deps)
    \/ \E t \in tasks : disk.status[t] = "running"

\* Tasks marked running whose process is gone.
Stale == {t \in tasks : status[t] = "running" /\ t \notin active}

\* An ended task keeps its status in the run file, across restarts.
EndedTasksStay ==
  [][\A t \in tasks : disk.status[t] \in Terminal => disk'.status[t] = disk.status[t]]_vars

\* Under fast fail no task is launched once one has failed.
FastFailStopsLaunches ==
  [][\A t \in TaskIds :
       fastFail /\ (\E u \in tasks : status[u] = "failed") => launches'[t] = launches[t]]_vars

\* Nothing to wait for and nothing that can change: an empty run, or every
\* task ended or left running by a process that is gone.
Spinning ==
  /\ active = {}
  /\ tasks = {} \/ Stale # {}
  /\ \A t \in tasks : status[t] \in Terminal \/ t \in Stale

\* A started run comes to an end, except in the one case the loop never
\* leaves: it polls forever over tasks nobody runs.
RunEnds == (pc = "top") ~> (pc = "off" \/ Spinning)

\* The run file refines the record promised to its readers: every step of the
\* scheduler, a kill and a restart included, is one of its steps or none.
Reader == INSTANCE RunRecord WITH run <- disk.run, st <- disk.status

ReaderSpec == Reader!Spec
==============================================================================
