----------------------------- MODULE CycleSearch -----------------------------
(***************************************************************************)
(* detectCycles of task-graph.js, one step per visit: a depth-first search *)
(* with three colours, and the walk over the parents that names the cycle. *)
(* The order of the tasks and of a task's dependencies is data: the next   *)
(* one is any that is left.                                                *)
(*                                                                         *)
(* The graph is the task map the passes of task-graph.js are given: the    *)
(* tasks of a run and the ids each names as dependencies, which the run    *)
(* may not have.                                                           *)
(***************************************************************************)
EXTENDS TaskGraph, Sequences

CONSTANTS
  TaskIds, TaskSets, Graphs,  \* as in Scheduler
  NoTask                      \* no task: buildCycle's empty string

ASSUME GraphsAssumption ==
  /\ IsFiniteSet(TaskIds)
  /\ TaskSets \subseteq SUBSET TaskIds
  /\ Graphs \subseteq [TaskIds -> SUBSET TaskIds]

ASSUME NoTaskAssumption == NoTask \notin TaskIds

VARIABLES
  tasks, deps,
  color,        \* white (0), grey (1), black (2)
  parent,       \* the task a task was first reached from
  stack,        \* the pending calls of dfs, outermost first
  left,         \* the dependencies each pending call has still to look at
  nodes, cur,   \* buildCycle: the tasks named so far, the next one
  pc            \* "scan" the tasks, "visit" a task, "walk" back, "found", "clear"

graph == <<tasks, deps>>
searchVars == <<color, parent, stack, left, nodes, cur, pc>>

Top == stack[Len(stack)]

GraphInit == tasks \in TaskSets /\ deps \in Graphs

SearchInit ==
  /\ GraphInit
  /\ color = [t \in TaskIds |-> "white"]
  /\ parent = [t \in TaskIds |-> NoTask]
  /\ stack = <<>>
  /\ left = deps
  /\ nodes = <<>>
  /\ cur = NoTask
  /\ pc = "scan"

(* Entering dfs.                                                           *)
Enter(t) ==
  /\ color' = [color EXCEPT ![t] = "grey"]
  /\ stack' = Append(stack, t)
  /\ pc' = "visit"

Scan(t) ==
  /\ pc = "scan"
  /\ t \in tasks
  /\ color[t] = "white"
  /\ Enter(t)
  /\ UNCHANGED <<graph, parent, left, nodes, cur>>

Clear ==
  /\ pc = "scan"
  /\ \A t \in tasks : color[t] # "white"
  /\ pc' = "clear"
  /\ UNCHANGED <<graph, color, parent, stack, left, nodes, cur>>

Descend(d) ==
  /\ pc = "visit"
  /\ d \in left[Top]
  /\ d \in tasks
  /\ color[d] = "white"
  /\ parent' = [parent EXCEPT ![d] = Top]
  /\ left' = [left EXCEPT ![Top] = @ \ {d}]
  /\ Enter(d)
  /\ UNCHANGED <<graph, nodes, cur>>

Skip(d) ==
  /\ pc = "visit"
  /\ d \in left[Top]
  /\ d \notin tasks \/ color[d] = "black"
  /\ left' = [left EXCEPT ![Top] = @ \ {d}]
  /\ UNCHANGED <<graph, color, parent, stack, nodes, cur, pc>>

(* A dependency that is still being visited: buildCycle starts.            *)
Close(d) ==
  /\ pc = "visit"
  /\ d \in left[Top] \cap tasks
  /\ color[d] = "grey"
  /\ nodes' = <<d>>
  /\ cur' = Top
  /\ pc' = "walk"
  /\ UNCHANGED <<graph, color, parent, stack, left>>

\* Mutant: the task stays grey when its call returns.
ReturnGrey ==
  /\ pc = "visit"
  /\ left[Top] = {}
  /\ stack' = SubSeq(stack, 1, Len(stack) - 1)
  /\ pc' = IF Len(stack) = 1 THEN "scan" ELSE "visit"
  /\ UNCHANGED <<graph, color, parent, left, nodes, cur>>

Return ==
  /\ pc = "visit"
  /\ left[Top] = {}
  /\ color' = [color EXCEPT ![Top] = "black"]
  /\ stack' = SubSeq(stack, 1, Len(stack) - 1)
  /\ pc' = IF Len(stack) = 1 THEN "scan" ELSE "visit"
  /\ UNCHANGED <<graph, parent, left, nodes, cur>>

Walk ==
  /\ pc = "walk"
  /\ cur # NoTask /\ cur # nodes[1]
  /\ nodes' = Append(nodes, cur)
  /\ cur' = parent[cur]
  /\ UNCHANGED <<graph, color, parent, stack, left, pc>>

Report ==
  /\ pc = "walk"
  /\ cur = NoTask \/ cur = nodes[1]
  /\ pc' = "found"
  /\ UNCHANGED <<graph, color, parent, stack, left, nodes, cur>>

SearchNext ==
  \/ \E t \in TaskIds : Scan(t) \/ Descend(t) \/ Skip(t) \/ Close(t)
  \/ Clear \/ Return \/ Walk \/ Report

SearchSpec == SearchInit /\ [][SearchNext]_<<graph, searchVars>>
------------------------------------------------------------------------------
SearchTypeOK ==
  /\ tasks \in SUBSET TaskIds
  /\ deps \in [TaskIds -> SUBSET TaskIds]
  /\ color \in [TaskIds -> {"white", "grey", "black"}]
  /\ parent \in [TaskIds -> TaskIds \cup {NoTask}]
  /\ stack \in Seq(tasks)
  /\ left \in [TaskIds -> SUBSET TaskIds]
  /\ nodes \in Seq(TaskIds)
  /\ cur \in TaskIds \cup {NoTask}
  /\ pc \in {"scan", "visit", "walk", "found", "clear"}

\* detectCycles reports a cycle exactly when the dependencies have one: the
\* tasks of some nonempty set each depend on another of the set.
Correct ==
  /\ pc = "found" => HasCycle(tasks, deps)
  /\ pc = "clear" => ~HasCycle(tasks, deps)

\* The cycle runScheduler writes to the run's errors is one: each task named
\* depends on the next, the last on the first (the code prints the first once
\* more and the whole in reverse).
ReportIsCycle ==
  pc = "found" =>
    /\ \A i \in 1..(Len(nodes) - 1) : nodes[i] \in deps[nodes[i + 1]]
    /\ nodes[Len(nodes)] \in deps[nodes[1]]
==============================================================================
