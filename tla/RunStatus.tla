----------------------------- MODULE RunStatus -----------------------------
(***************************************************************************)
(* The statuses of a kernel run record and the maps onto them, of          *)
(* control-plane/kernel/state-machine.js.  The statuses of the records     *)
(* mapped are the ones the gate and coder command lines write.             *)
(***************************************************************************)

RUN_STATUS == {"created", "planning", "executing", "verifying", "reviewing",
               "blocked", "failed", "succeeded", "cancelled"}

Terminal == {"failed", "succeeded", "cancelled"}

\* Mutant: every run has to be planned first.
PlanningFirst ==
  [s \in RUN_STATUS |-> IF s = "created" THEN {"planning"} ELSE RUN_STATUS \ {"created"}]

ALLOWED_RUN_TRANSITIONS ==
  [s \in RUN_STATUS |->
     CASE s = "created"   -> RUN_STATUS \ {"created"}
       [] s = "planning"  -> {"executing", "blocked", "failed", "cancelled"}
       [] s = "executing" -> {"verifying", "reviewing", "blocked"} \cup Terminal
       [] s = "verifying" -> {"reviewing", "blocked"} \cup Terminal
       [] s = "reviewing" -> {"blocked"} \cup Terminal
       [] s = "blocked"   -> {"planning", "executing", "verifying", "reviewing",
                              "failed", "cancelled"}
       [] OTHER           -> {}]

\* A run without a status may take any.
canTransitionRunStatus(from, to) ==
  from \notin {"none", to} => to \in ALLOWED_RUN_TRANSITIONS[from]

mapImplementationStatus(status) ==
  CASE status = "initialized" -> "created"
    [] status = "green"       -> "succeeded"
    [] status = "red"         -> "failed"
    [] status = "blocked"     -> "blocked"
    [] OTHER                  -> "executing"

\* eoc-start's own statuses are "active", "paused" and "completed".
mapGateStatus(status) ==
  CASE status = "initialized" -> "created"
    [] status = "verifying"   -> "verifying"
    [] status = "reviewing"   -> "reviewing"
    [] status = "passed"      -> "succeeded"
    [] status = "blocked"     -> "blocked"
    [] status = "failed"      -> "failed"
    [] OTHER                  -> "executing"
==============================================================================
