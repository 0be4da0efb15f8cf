--------------------------- MODULE WorkflowTrace ---------------------------
(***************************************************************************)
(* What the trace file of a workflow promises its readers (the control     *)
(* plane's UI, the next session): it lists the workflow's steps in their   *)
(* order, each is seen pending, then running or skipped, and only a        *)
(* running step is ever seen to end; no step is listed before the one      *)
(* before it has succeeded or was skipped; a step that fails is the last,  *)
(* and a trace that says it is over never changes again.                   *)
(***************************************************************************)
EXTENDS Naturals, Sequences

CONSTANTS Traces, Length   \* the workflows, and the number of their steps

VARIABLES status, steps    \* per workflow: its status, the statuses of the steps listed

Init ==
  /\ status = [w \in Traces |-> "none"]
  /\ steps = [w \in Traces |-> <<>>]

Settled(w) == \A i \in 1..Len(steps[w]) : steps[w][i] \in {"succeeded", "skipped"}

Begin(w) ==
  /\ status[w] = "none"
  /\ status' = [status EXCEPT ![w] = "running"]
  /\ UNCHANGED steps

List(w) ==
  /\ status[w] = "running" /\ Settled(w) /\ Len(steps[w]) < Length
  /\ steps' = [steps EXCEPT ![w] = Append(@, "pending")]
  /\ UNCHANGED status

Last(w, from, to) ==
  /\ steps[w] # <<>> /\ steps[w][Len(steps[w])] = from
  /\ steps' = [steps EXCEPT ![w][Len(steps[w])] = to]

Move(w) ==
  /\ status[w] = "running"
  /\ \/ \E to \in {"skipped", "running"} : Last(w, "pending", to)
     \/ Last(w, "running", "succeeded")
  /\ UNCHANGED status

Fail(w) ==
  /\ status[w] = "running" /\ Last(w, "running", "failed")
  /\ status' = [status EXCEPT ![w] = "failed"]

Close(w) ==
  /\ status[w] = "running" /\ Settled(w) /\ Len(steps[w]) = Length
  /\ status' = [status EXCEPT ![w] = "succeeded"]
  /\ UNCHANGED steps

Next == \E w \in Traces : Begin(w) \/ List(w) \/ Move(w) \/ Fail(w) \/ Close(w)

Spec == Init /\ [][Next]_<<status, steps>>
==============================================================================
