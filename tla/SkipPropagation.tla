--------------------------- MODULE SkipPropagation ---------------------------
(***************************************************************************)
(* propagateDependencySkips of task-graph.js, one task per step: passes    *)
(* over the task map, in any order, until a pass marks nothing.  The graph *)
(* is the one CycleSearch works on.                                        *)
(***************************************************************************)
EXTENDS CycleSearch

CONSTANT Statuses  \* the statuses a call may find

ASSUME StatusesAssumption == Statuses \subseteq [TaskIds -> TaskStatus]

VARIABLES
  before,  \* the statuses at the call
  status,
  unseen,  \* the tasks this pass has still to look at
  marked,
  loop     \* "idle" before the call, "pass", "done"

skipVars == <<before, status, unseen, marked, loop>>

SkipInit ==
  /\ GraphInit
  /\ before = [t \in TaskIds |-> "queued"] /\ status = before
  /\ unseen = {} /\ marked = FALSE
  /\ loop = "idle"

Call ==
  /\ loop = "idle"
  /\ before' \in Statuses /\ status' = before'
  /\ unseen' = tasks /\ marked' = FALSE
  /\ loop' = "pass"
  /\ UNCHANGED graph

ToSkip(t) ==
  /\ status[t] = "queued"
  /\ \E d \in deps[t] \cap tasks : status[d] \in {"failed", "skipped"}

Visit(t) ==
  /\ loop = "pass"
  /\ t \in unseen
  /\ unseen' = unseen \ {t}
  /\ IF ToSkip(t)
     THEN /\ status' = [status EXCEPT ![t] = "skipped"]
          /\ marked' = TRUE
     ELSE UNCHANGED <<status, marked>>
  /\ UNCHANGED <<graph, before, loop>>

\* Mutants: one pass only; the flag is never cleared.
StopAfterOnePass ==
  /\ loop = "pass"
  /\ unseen = {}
  /\ loop' = "done"
  /\ UNCHANGED <<graph, before, status, unseen, marked>>

KeepChanged ==
  /\ loop = "pass"
  /\ unseen = {}
  /\ IF marked THEN unseen' = tasks /\ loop' = "pass" ELSE unseen' = unseen /\ loop' = "done"
  /\ UNCHANGED <<graph, before, status, marked>>

EndPass ==
  /\ loop = "pass"
  /\ unseen = {}
  /\ marked' = FALSE
  /\ IF marked THEN unseen' = tasks /\ loop' = "pass" ELSE unseen' = unseen /\ loop' = "done"
  /\ UNCHANGED <<graph, before, status>>

SkipNext == Call \/ (\E t \in TaskIds : Visit(t)) \/ EndPass

SkipSpec == SkipInit /\ [][SkipNext]_<<graph, skipVars>>
------------------------------------------------------------------------------
SkipTypeOK ==
  /\ tasks \in SUBSET TaskIds
  /\ deps \in [TaskIds -> SUBSET TaskIds]
  /\ before \in [TaskIds -> TaskStatus]
  /\ status \in [TaskIds -> TaskStatus]
  /\ unseen \in SUBSET tasks
  /\ marked \in BOOLEAN
  /\ loop \in {"idle", "pass", "done"}

\* The loop marks exactly the tasks every fixed point must mark, whatever the
\* order of the task map: Doomed, which Scheduler uses for the whole call.
MarksDoomed ==
  loop = "done" =>
    status = [t \in TaskIds |-> IF t \in Doomed(tasks, deps, before) THEN "skipped"
                                ELSE before[t]]
==============================================================================
