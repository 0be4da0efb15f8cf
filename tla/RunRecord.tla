------------------------------ MODULE RunRecord ------------------------------
(***************************************************************************)
(* What the scheduler promises to a reader of the run file, such as the    *)
(* status command, eoc-metrics or a process that takes the run over: how   *)
(* the recorded statuses may change from one save to the next, whatever    *)
(* happens to the processes that do the saving.  Scheduler.tla implements  *)
(* it.                                                                     *)
(***************************************************************************)
CONSTANT TaskIds

VARIABLES tasks, deps, run, st

vars == <<tasks, deps, run, st>>

Ended == {"success", "failed", "skipped"}

(* The changes a reader can see.  An attempt is recorded before it can end,
   so no queued task is next seen with a result; a running task may be seen
   queued again for a retry, and that retry may be skipped.                *)
CanBecome(a, b) ==
  \/ a = b
  \/ a = "queued" /\ b \in {"running", "skipped"}
  \/ a = "running" /\ b \in {"queued", "success", "failed", "skipped"}

(* Only a task whose dependencies all succeeded was ever attempted.        *)
Justified(s, t) ==
  /\ s[t] \in {"running", "success", "failed"} =>
       \A d \in deps[t] : d \in tasks /\ s[d] = "success"
  /\ s[t] = "skipped" => \E u \in tasks : s[u] = "failed"

Init ==
  /\ run = "idle"
  /\ st = [t \in TaskIds |-> "queued"]

(* One save of the loop.                                                   *)
Save ==
  /\ run' = "running"
  /\ st' \in [TaskIds -> {"queued", "running"} \cup Ended]
  /\ \A t \in tasks : CanBecome(st[t], st'[t]) /\ Justified(st', t)
  /\ UNCHANGED <<tasks, deps>>

(* The last save of a run: the outcome of the tasks already recorded.      *)
Conclude ==
  /\ run = "running"
  /\ run' = IF \E t \in tasks : st[t] \notin Ended THEN "blocked"
            ELSE IF \A t \in tasks : st[t] = "success" THEN "completed"
            ELSE "failed"
  /\ UNCHANGED <<tasks, deps, st>>

(* The graph is refused: nothing runs.                                     *)
Refuse ==
  /\ run' = "blocked"
  /\ \/ \E t \in tasks : \E d \in deps[t] : d \notin tasks \/ d = t
     \/ \E S \in (SUBSET tasks) \ {{}} : \A t \in S : deps[t] \cap S # {}
  /\ UNCHANGED <<tasks, deps, st>>

Next == Save \/ Conclude \/ Refuse

Spec == Init /\ [][Next]_vars
==============================================================================
