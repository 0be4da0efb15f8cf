------------------------------ MODULE TaskGraph ------------------------------
(***************************************************************************)
(* The task graph of a scheduler run: the pure functions of                *)
(* control-plane/scheduler/task-graph.js.  A task id is a natural number;  *)
(* the order of the numbers stands for localeCompare on the ids.           *)
(*                                                                         *)
(* As in the code, the functions take the task map apart: the set of       *)
(* tasks, the dependencies and the statuses are arguments.                 *)
(***************************************************************************)
EXTENDS Integers, FiniteSets

TaskStatus == {"queued", "running", "success", "failed", "skipped"}

Terminal == {"success", "failed", "skipped"}

\* detectCycles: some tasks of the run each depend on another of them.
\* (CycleSearch.tla steps through the depth-first search itself.)
HasCycle(tasks, deps) ==
  \E S \in (SUBSET tasks) \ {{}} : \A t \in S : deps[t] \cap S # {}

\* The graphs runScheduler goes on with: no integrity error, no cycle.
ValidGraph(tasks, deps) ==
  /\ \A t \in tasks : deps[t] \subseteq tasks \ {t}
  /\ ~HasCycle(tasks, deps)

\* buildDescendants: the tasks that name t as a dependency.
Descendants(tasks, deps, t) == {u \in tasks : t \in deps[u]}

\* Mutant: a dependency that has started is good enough.
RunnableWhenStarted(tasks, deps, status) ==
  {t \in tasks : /\ status[t] = "queued"
                 /\ \A d \in deps[t] : d \in tasks /\ status[d] \in {"running", "success"}}

\* nextRunnable, its two filters.
Runnable(tasks, deps, status) ==
  {t \in tasks : /\ status[t] = "queued"
                 /\ \A d \in deps[t] : d \in tasks /\ status[d] = "success"}

\* "a.priority || 100": a priority of 0 counts as the default.
EffectivePriority(p) == IF p = 0 THEN 100 ELSE p

\* nextRunnable, its sort: priority, then most descendants first, then id.
Precedes(tasks, deps, priority, a, b) ==
  LET pa == EffectivePriority(priority[a])
      pb == EffectivePriority(priority[b])
      da == Cardinality(Descendants(tasks, deps, a))
      db == Cardinality(Descendants(tasks, deps, b))
  IN  \/ pa < pb
      \/ pa = pb /\ da > db
      \/ pa = pb /\ da = db /\ a < b

\* A set of queued tasks closed under "a dependency failed or was skipped".
SkipClosed(tasks, deps, status, S) ==
  \A t \in tasks :
    /\ status[t] = "queued"
    /\ \E d \in deps[t] \cap tasks : status[d] \in {"failed", "skipped"} \/ d \in S
    => t \in S

\* Mutant: a single pass, which reaches the direct dependents only.
DoomedInOnePass(tasks, deps, status) ==
  {t \in tasks : /\ status[t] = "queued"
                 /\ \E d \in deps[t] \cap tasks : status[d] \in {"failed", "skipped"}}

\* propagateDependencySkips: the tasks its loop marks, the least closed set.
\* (SkipPropagation.tla steps through the loop itself.)
Doomed(tasks, deps, status) ==
  {t \in tasks : /\ status[t] = "queued"
                 /\ \A S \in SUBSET tasks : SkipClosed(tasks, deps, status, S) => t \in S}

\* refreshMetrics: the counters shown by status and eoc-metrics.
Metrics(tasks, status, attempts, lastError) ==
  [total     |-> Cardinality(tasks),
   byStatus  |-> [s \in TaskStatus |-> Cardinality({t \in tasks : status[t] = s})],
   retried   |-> Cardinality({t \in tasks : attempts[t] > 1}),
   timed_out |-> Cardinality({t \in tasks : lastError[t] = "timeout"})]
==============================================================================
