------------------------------ MODULE Executor ------------------------------
(***************************************************************************)
(* The kernel's command executor: executeCommand and executeCommandSync of *)
(* control-plane/kernel/executor.js, the child process they start and the  *)
(* event log they append to (kernel/events/event-store.js).                *)
(*                                                                         *)
(* An execution is one call.  The callbacks of a child (timer, error,      *)
(* close) run one at a time in the process's event loop, in whatever order *)
(* the child and the timer bring them about.                               *)
(***************************************************************************)
EXTENDS Integers, Sequences, FiniteSets, SequencesExt

CONSTANTS
  Execs,       \* the calls made
  Stubborn,    \* those whose child ignores SIGTERM and never exits
  Unkillable,  \* those whose child the process may not signal (kill fails)
  MayDie       \* whether the process itself may be killed

ASSUME ExecsAssumption ==
  /\ Stubborn \subseteq Execs /\ Unkillable \subseteq Execs
  /\ MayDie \in BOOLEAN

VARIABLES
  alive,     \* the process runs
  mode,      \* "async" or "sync", per call
  stage,     \* where the call is
  child,     \* "none", "running" or "gone"
  code,      \* how the child ended: its exit code, Signalled
  timer,     \* whether the timeout is pending
  timedOut,  \* the timeout fired
  events,    \* the child's callbacks not yet run
  result,    \* what the promise resolved to or the call returned
  log        \* events.ndjson

childVars == <<child, code, timer, timedOut>>
vars == <<alive, mode, stage, childVars, events, result, log>>

Stages    == {"idle", "refused", "pending", "answered"}
Signalled == -1

ExitCodes == {0, 1, Signalled}

NoResult == [status |-> "none", exit_code |-> 0, timed_out |-> FALSE]

Started(e)     == [type |-> "started", exec |-> e, result |-> NoResult]
Finished(e, r) == [type |-> "finished", exec |-> e, result |-> r]

Init ==
  /\ alive = TRUE
  /\ mode \in [Execs -> {"async", "sync"}]
  /\ stage = [e \in Execs |-> "idle"]
  /\ child = [e \in Execs |-> "none"]
  /\ code = [e \in Execs |-> Signalled]
  /\ timer = [e \in Execs |-> FALSE]
  /\ timedOut = [e \in Execs |-> FALSE]
  /\ events = [e \in Execs |-> {}]
  /\ result = [e \in Execs |-> NoResult]
  /\ log = <<>>

\* spawnSync blocks the process: no callback runs meanwhile.
Free == alive /\ ~\E e \in Execs : mode[e] = "sync" /\ stage[e] = "pending"

Failure == [status |-> "failed", exit_code |-> 1, timed_out |-> FALSE]

\* The result of a child that closed.  Mutant: the timeout is not part of the status.
OutcomeOfCode(e) ==
  LET c == IF code[e] = Signalled THEN 1 ELSE code[e]
  IN  [status |-> IF c = 0 THEN "succeeded" ELSE "failed",
       exit_code |-> c, timed_out |-> timedOut[e]]

Outcome(e) ==
  LET c == IF code[e] = Signalled THEN 1 ELSE code[e]
  IN  [status |-> IF ~timedOut[e] /\ c = 0 THEN "succeeded" ELSE "failed",
       exit_code |-> c, timed_out |-> timedOut[e]]

------------------------------------------------------------------------------
(* The call.                                                               *)

\* normalizeExecutionOptions throws: nothing was written, nothing runs.
Refuse(e) ==
  /\ Free /\ stage[e] = "idle"
  /\ stage' = [stage EXCEPT ![e] = "refused"]
  /\ UNCHANGED <<alive, mode, childVars, events, result, log>>

\* Up to the new child; the timer is armed with it.
Spawned(e) ==
  /\ Free /\ stage[e] = "idle" /\ mode[e] = "async"
  /\ stage' = [stage EXCEPT ![e] = "pending"]
  /\ child' = [child EXCEPT ![e] = "running"]
  /\ timer' = [timer EXCEPT ![e] = TRUE]
  /\ log' = Append(log, Started(e))
  /\ UNCHANGED <<alive, mode, code, timedOut, events, result>>

\* The executable cannot be started: Node reports it by an error callback and
\* a close whose code is not 0.
SpawnFails(e) ==
  /\ Free /\ stage[e] = "idle" /\ mode[e] = "async"
  /\ stage' = [stage EXCEPT ![e] = "pending"]
  /\ code' = [code EXCEPT ![e] = 1]
  /\ timer' = [timer EXCEPT ![e] = TRUE]
  /\ events' = [events EXCEPT ![e] = {"error", "close"}]
  /\ log' = Append(log, Started(e))
  /\ UNCHANGED <<alive, mode, child, timedOut, result>>

\* spawn itself throws: the catch answers at once.
SpawnThrows(e) ==
  /\ Free /\ stage[e] = "idle" /\ mode[e] = "async"
  /\ stage' = [stage EXCEPT ![e] = "answered"]
  /\ result' = [result EXCEPT ![e] = Failure]
  /\ log' = log \o <<Started(e), Finished(e, Failure)>>
  /\ UNCHANGED <<alive, mode, childVars, events>>

------------------------------------------------------------------------------
(* The callbacks.                                                          *)

\* Mutant: a second callback is not ignored.
AnswerTwice(e, r) ==
  /\ stage' = [stage EXCEPT ![e] = "answered"]
  /\ timer' = [timer EXCEPT ![e] = FALSE]
  /\ result' = [result EXCEPT ![e] = r]
  /\ log' = Append(log, Finished(e, r))

\* resolved guards both handlers; the first clears the timer, appends the
\* finished event and resolves.
Answer(e, r) ==
  IF stage[e] = "answered" THEN UNCHANGED <<stage, timer, result, log>>
  ELSE /\ stage' = [stage EXCEPT ![e] = "answered"]
       /\ timer' = [timer EXCEPT ![e] = FALSE]
       /\ result' = [result EXCEPT ![e] = r]
       /\ log' = Append(log, Finished(e, r))

\* A failed spawn emits its error before any timer can fire.
TimerFires(e) ==
  /\ Free /\ timer[e] /\ "error" \notin events[e]
  /\ timer' = [timer EXCEPT ![e] = FALSE]
  /\ timedOut' = [timedOut EXCEPT ![e] = TRUE]
  /\ \/ UNCHANGED <<stage, result, log>>
     \/ \* kill is refused and emits the error at once, in this callback
        /\ e \in Unkillable /\ child[e] = "running"
        /\ stage[e] # "answered"
        /\ stage' = [stage EXCEPT ![e] = "answered"]
        /\ result' = [result EXCEPT ![e] = Failure]
        /\ log' = Append(log, Finished(e, Failure))
  /\ UNCHANGED <<alive, mode, child, code, events>>

OnError(e) ==
  /\ Free /\ "error" \in events[e]
  /\ events' = [events EXCEPT ![e] = @ \ {"error"}]
  /\ Answer(e, Failure)
  /\ UNCHANGED <<alive, mode, child, code, timedOut>>

\* Mutant: the close of a child that timed out is ignored.
OnCloseIgnored(e) ==
  /\ Free /\ "close" \in events[e] /\ "error" \notin events[e]
  /\ events' = [events EXCEPT ![e] = @ \ {"close"}]
  /\ IF timedOut[e] THEN UNCHANGED <<stage, timer, result, log>> ELSE Answer(e, Outcome(e))
  /\ UNCHANGED <<alive, mode, child, code, timedOut>>

OnClose(e) ==
  /\ Free /\ "close" \in events[e] /\ "error" \notin events[e]
  /\ events' = [events EXCEPT ![e] = @ \ {"close"}]
  /\ Answer(e, Outcome(e))
  /\ UNCHANGED <<alive, mode, child, code, timedOut>>

------------------------------------------------------------------------------
(* The child: it exits as it likes, by the signal only once killed, and its
   close follows when its pipes are shut.                                  *)

ChildExits(e) ==
  /\ child[e] = "running" /\ mode[e] = "async" /\ e \notin Stubborn
  /\ child' = [child EXCEPT ![e] = "gone"]
  /\ \E c \in ExitCodes : /\ c = Signalled => timedOut[e]
                          /\ code' = [code EXCEPT ![e] = c]
  /\ events' = [events EXCEPT ![e] = @ \cup {"close"}]
  /\ UNCHANGED <<alive, mode, stage, timer, timedOut, result, log>>

------------------------------------------------------------------------------
(* executeCommandSync: the process blocks from the started event until the
   child is gone.                                                          *)

SyncStart(e) ==
  /\ Free /\ stage[e] = "idle" /\ mode[e] = "sync"
  /\ stage' = [stage EXCEPT ![e] = "pending"]
  /\ child' = [child EXCEPT ![e] = "running"]
  /\ log' = Append(log, Started(e))
  /\ UNCHANGED <<alive, mode, code, timer, timedOut, events, result>>

\* timed_out looks for "timeout" in the error's message, which is "spawnSync
\* <file> ETIMEDOUT": it is FALSE whatever happened.
SyncEnd(e) ==
  /\ alive /\ stage[e] = "pending" /\ mode[e] = "sync" /\ e \notin Stubborn
  /\ stage' = [stage EXCEPT ![e] = "answered"]
  /\ child' = [child EXCEPT ![e] = "gone"]
  /\ \E c \in ExitCodes, late \in BOOLEAN :
       /\ c = Signalled => late
       /\ code' = [code EXCEPT ![e] = c]
       /\ timedOut' = [timedOut EXCEPT ![e] = late]
       /\ result' = [result EXCEPT ![e] =
            [status |-> IF ~late /\ c = 0 THEN "succeeded" ELSE "failed",
             exit_code |-> IF c = Signalled THEN 1 ELSE c,
             timed_out |-> FALSE]]
       /\ log' = Append(log, Finished(e, result'[e]))
  /\ UNCHANGED <<alive, mode, timer, events>>

------------------------------------------------------------------------------
\* The process is killed; its children are left to themselves.
Die ==
  /\ MayDie /\ alive
  /\ alive' = FALSE
  /\ UNCHANGED <<mode, stage, childVars, events, result, log>>

Begin(e) == Refuse(e) \/ Spawned(e) \/ SpawnFails(e) \/ SpawnThrows(e) \/ SyncStart(e)

Callback(e) == TimerFires(e) \/ OnError(e) \/ OnClose(e)

Next == \/ \E e \in Execs : Begin(e) \/ Callback(e) \/ ChildExits(e) \/ SyncEnd(e)
        \/ Die

Spec == Init /\ [][Next]_vars

(* The event loop runs the callbacks it has, and a child dies of its signal. *)
Fairness ==
  \A e \in Execs : /\ WF_vars(TimerFires(e)) /\ WF_vars(OnError(e)) /\ WF_vars(OnClose(e))
                   /\ WF_vars(ChildExits(e) /\ timedOut[e])
                   /\ WF_vars(SyncEnd(e))

FairSpec == Spec /\ Fairness
------------------------------------------------------------------------------
Results == [status : {"none", "failed", "succeeded"}, exit_code : {0, 1}, timed_out : BOOLEAN]

\* Where the log speaks of a call.
Entries(e) == {i \in DOMAIN log : log[i].exec = e}

\* The log of the kernel tells the truth about every call, over any order of
\* callbacks: nothing of one that was refused, started of one that pends or
\* was cut off, started and then once finished, with the very result the
\* caller got, of one that was answered.
LogMatchesCalls ==
  \A e \in Execs :
    /\ stage[e] \in {"idle", "refused"} => Entries(e) = {}
    /\ stage[e] = "pending" => \E i \in DOMAIN log : Entries(e) = {i} /\ log[i] = Started(e)
    /\ stage[e] = "answered" =>
         \E i, j \in DOMAIN log :
           i < j /\ Entries(e) = {i, j} /\ log[i] = Started(e) /\ log[j] = Finished(e, result[e])

\* A call answered after its timeout fired says so, unless the signal itself
\* was refused, and is never a success; one that says so did time out.
TimeoutIsReported ==
  \A e \in Execs : stage[e] = "answered" /\ mode[e] = "async" =>
    /\ timedOut[e] => result[e].timed_out \/ e \in Unkillable
    /\ result[e].timed_out => timedOut[e] /\ result[e].status = "failed"

\* Success means that the child ran to its end by itself and exited with 0.
SuccessIsGenuine ==
  \A e \in Execs : result[e].status = "succeeded" =>
    child[e] = "gone" /\ code[e] = 0 /\ ~timedOut[e]

\* No timer survives its call: a late timeout would mark an answered call and
\* signal whatever process has the child's number by then.
NoTimerAfterAnswer == \A e \in Execs : timer[e] => stage[e] = "pending"

\* An answer is final.
AnswersAreFinal ==
  [][\A e \in Execs : stage[e] = "answered" =>
       stage'[e] = "answered" /\ result'[e] = result[e]]_vars

\* Every call that starts a child is answered, by the timeout at the latest,
\* unless the process dies, its child ignores the signal, or such a child
\* blocks the process in spawnSync.  It is what Scheduler
\* assumes of its attempts.
CallsEnd ==
  \A e \in Execs : stage[e] = "pending" ~>
    \/ stage[e] = "answered"
    \/ ~alive
    \/ e \in Stubborn
    \/ \E f \in Stubborn : mode[f] = "sync" /\ stage[f] = "pending"

\* commands/eoc-parallel.md: "Timeout and retry are enforced per task."  A
\* timeout that fired ends the call.
TimeoutEnforced == \A e \in Execs : timedOut[e] ~> stage[e] = "answered"
==============================================================================
