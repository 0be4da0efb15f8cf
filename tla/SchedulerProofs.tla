--------------------------- MODULE SchedulerProofs ---------------------------
(***************************************************************************)
(* Proofs about Scheduler, for every task set, graph, retry map and number *)
(* of kills.                                                               *)
(***************************************************************************)
EXTENDS Scheduler, FiniteSetTheorems, TLAPS

LEMMA TypeInit == Init => TypeOK
BY TaskIdsAssumption, InputsAssumption
   DEF Init, TypeOK, LoopPoints, Phases, RunStatus, Errors, TaskStatus, Record

LEMMA TypeStep == TypeOK /\ [Next]_vars => TypeOK'
<1> SUFFICES ASSUME TypeOK, [Next]_vars PROVE TypeOK'
  OBVIOUS
<1> USE DEF LoopPoints, Phases, RunStatus, Errors, TaskStatus, Record
<1> USE DEF TypeOK, inputs, copy, history
<1>1. CASE Start
  BY <1>1, InputsAssumption DEF Start
<1>2. CASE Top
  BY <1>2 DEF Top, Cut
<1>3. ASSUME NEW t \in TaskIds, Launch(t) PROVE TypeOK'
  BY <1>3 DEF Launch, Ready, Runnable
<1>4. CASE LaunchDone
  BY <1>4 DEF LaunchDone
<1>5. CASE Save
  BY <1>5 DEF Save
<1>6. CASE Finish
  BY <1>6 DEF Finish, Verdict
<1>7. CASE Poll
  BY <1>7 DEF Poll
<1>8. CASE Reject
  BY <1>8 DEF Reject, LoseProcess
<1>9. ASSUME NEW t \in TaskIds, AttemptFails(t) PROVE TypeOK'
  BY <1>9 DEF AttemptFails, AfterFailure, EndAttempt
<1>10. ASSUME NEW t \in TaskIds, CommandSucceeds(t) PROVE TypeOK'
  BY <1>10 DEF CommandSucceeds
<1>11. ASSUME NEW t \in TaskIds, ValidationSucceeds(t) PROVE TypeOK'
  BY <1>11 DEF ValidationSucceeds, EndAttempt
<1>12. CASE Crash
  BY <1>12 DEF Crash, LoseProcess
<1>13. CASE UNCHANGED vars
  BY <1>13 DEF vars
<1> QED
  BY <1>1, <1>2, <1>3, <1>4, <1>5, <1>6, <1>7, <1>8, <1>9, <1>10, <1>11, <1>12, <1>13
     DEF Next, Loop, Attempt

(* Every variable stays in its type.                                       *)
THEOREM TypeCorrect == Spec => []TypeOK
BY TypeInit, TypeStep, PTL DEF Spec

------------------------------------------------------------------------------
(* The inductive invariant.  Saved: at the points where the loop waits, ends
   or is not running, its copy of the run is the run file's.  InStep: in
   between, each task is at most one launch ahead of the file, and its status
   is one a reader of the file may see next.  Sound holds of both copies:
   it is what lets a process that takes over the file trust it.            *)

Sound(st, att) ==
  \A t \in tasks :
    /\ att[t] > 0 => \A d \in deps[t] : d \in tasks /\ st[d] = "success"
    /\ st[t] \in {"running", "success", "failed"} => att[t] > 0
    /\ st[t] = "queued" => att[t] <= retries[t] + 1
    /\ att[t] <= retries[t] + 2
    /\ st[t] = "skipped" => \E u \in tasks : st[u] = "failed"

Saved ==
  pc \in {"off", "finish", "await"} =>
    /\ status = disk.status
    /\ attempts = disk.attempts
    /\ lastError = disk.lastError
    /\ pc = "off" => runStatus = disk.run

InStep ==
  \A t \in tasks :
    /\ Reader!CanBecome(disk.status[t], status[t])
    /\ status[t] = "queued" => attempts[t] = disk.attempts[t]
    /\ attempts[t] <= disk.attempts[t] + 1
    /\ t \in active => status[t] = "running"

Outcome ==
  /\ pc \notin {"off"} => runStatus = "running"
  /\ pc = "finish" => disk.run = "running" /\ (Done \/ Deadlocked)
  /\ pc = "off" => active = {}

Repeats ==
  \A t \in tasks : launches[t] <= attempts[t] + crashes

IInv == TypeOK /\ Sound(status, attempts) /\ Sound(disk.status, disk.attempts)
        /\ Saved /\ InStep /\ Outcome /\ Repeats

(* The dependency skips start from a task that failed or was skipped.      *)
LEMMA DoomedHasCause ==
  ASSUME NEW st, NEW t \in Doomed(tasks, deps, st)
  PROVE  \E u \in tasks : st[u] \in {"failed", "skipped"}
<1> SUFFICES ASSUME ~ \E u \in tasks : st[u] \in {"failed", "skipped"} PROVE FALSE
  OBVIOUS
<1>1. SkipClosed(tasks, deps, st, {})
  BY DEF SkipClosed
<1> QED
  BY <1>1 DEF Doomed

LEMMA IInvInit == Init => IInv
<1> SUFFICES ASSUME Init PROVE IInv
  OBVIOUS
<1>1. TypeOK
  BY TypeInit
<1>2. /\ Sound(status, attempts) /\ Sound(disk.status, disk.attempts)
      /\ Saved /\ InStep /\ Outcome /\ Repeats
  BY <1>1 DEF Init, TypeOK, Sound, Saved, InStep, Outcome, Repeats, Record, Reader!CanBecome
<1> QED
  BY <1>1, <1>2 DEF IInv

LEMMA IInvStep == IInv /\ [Next]_vars => IInv'
<1> SUFFICES ASSUME IInv, [Next]_vars PROVE IInv'
  OBVIOUS
<1>0. TypeOK /\ TypeOK'
  BY TypeStep DEF IInv
<1> DEFINE Rest == /\ Sound(status, attempts) /\ Sound(disk.status, disk.attempts)
                   /\ Saved /\ InStep /\ Outcome /\ Repeats
<1>r. Rest
  BY DEF IInv
<1> SUFFICES Rest'
  BY <1>0 DEF IInv
<1> USE <1>0, <1>r DEF TypeOK, Rest, inputs, copy, history
<1>1. CASE Start
  BY <1>1 DEF Start, Sound, Saved, InStep, Outcome, Repeats, Record, Reader!CanBecome
<1>2. CASE Top
  <2> DEFINE doomed == Doomed(tasks, deps, status)
             skip == [t \in TaskIds |-> IF t \in doomed THEN "skipped" ELSE status[t]]
  <2>a. ASSUME NEW t \in tasks
        PROVE  /\ status'[t] \in {status[t], "skipped"}
               /\ status[t] # "queued" => status'[t] = status[t]
    BY <1>2 DEF Top, Doomed, Cut
  <2>b. ASSUME NEW t \in tasks, status[t] = "queued", status'[t] = "skipped"
        PROVE  \E u \in tasks : status[u] = "failed"
    <3>1. CASE t \in doomed
      BY <3>1, DoomedHasCause DEF Sound
    <3>2. CASE t \notin doomed
      <4>1. \E u \in tasks : skip[u] = "failed"
        BY <1>2, <2>b, <3>2 DEF Top, Cut
      <4> QED
        BY <4>1 DEF Doomed
    <3> QED
      BY <3>1, <3>2
  <2>1. Sound(status, attempts)'
    <3> attempts' = attempts /\ tasks' = tasks /\ deps' = deps /\ retries' = retries
      BY <1>2 DEF Top, Cut
    <3>1. \A t \in tasks : status'[t] = "skipped" => \E u \in tasks : status'[u] = "failed"
      BY <2>a, <2>b DEF Sound
    <3> QED
      BY <2>a, <3>1 DEF Sound
  <2>2. Sound(disk.status, disk.attempts)'
    BY <1>2 DEF Top, Sound
  <2>3. Saved' /\ Outcome' /\ Repeats'
    BY <1>2 DEF Top, Saved, Outcome, Repeats
  <2>4. InStep'
    BY <1>2, <2>a DEF Top, InStep, Reader!CanBecome
  <2> QED
    BY <2>1, <2>2, <2>3, <2>4
<1>3. ASSUME NEW t \in TaskIds, Launch(t) PROVE Rest'
  <2>1. Sound(status, attempts)'
    BY <1>3 DEF Launch, Ready, Runnable, Sound
  <2>2. Sound(disk.status, disk.attempts)'
    BY <1>3 DEF Launch, Sound
  <2>3. Saved' /\ Outcome' /\ Repeats'
    BY <1>3 DEF Launch, Saved, Outcome, Repeats
  <2>4. InStep'
    BY <1>3 DEF Launch, Ready, Runnable, InStep, Reader!CanBecome
  <2> QED
    BY <2>1, <2>2, <2>3, <2>4
<1>4. CASE LaunchDone
  BY <1>4 DEF LaunchDone, Sound, Saved, InStep, Outcome, Repeats
<1>5. CASE Save
  BY <1>5 DEF Save, Done, Deadlocked, Ready, Runnable, Sound, Saved, InStep, Outcome, Repeats, Record, Reader!CanBecome
<1>6. CASE Finish
  <2>1. active = {}
    BY <1>6 DEF Finish, Verdict, Outcome, Done, Deadlocked, InStep, Terminal
  <2> QED
    BY <1>6, <2>1 DEF Finish, Verdict, Sound, Saved, InStep, Outcome, Repeats, Record, Reader!CanBecome
<1>7. CASE Poll
  BY <1>7 DEF Poll, Sound, Saved, InStep, Outcome, Repeats
<1>8. CASE Reject
  BY <1>8 DEF Reject, LoseProcess, Sound, Saved, InStep, Outcome, Repeats, Reader!CanBecome
<1>9. ASSUME NEW t \in TaskIds, AttemptFails(t) PROVE Rest'
  BY <1>9 DEF AttemptFails, AfterFailure, EndAttempt, MayRetry, Sound, Saved, InStep, Outcome, Repeats, Reader!CanBecome
<1>10. ASSUME NEW t \in TaskIds, CommandSucceeds(t) PROVE Rest'
  BY <1>10 DEF CommandSucceeds, Sound, Saved, InStep, Outcome, Repeats
<1>11. ASSUME NEW t \in TaskIds, ValidationSucceeds(t) PROVE Rest'
  BY <1>11 DEF ValidationSucceeds, EndAttempt, Sound, Saved, InStep, Outcome, Repeats, Reader!CanBecome
<1>12. CASE Crash
  BY <1>12 DEF Crash, LoseProcess, Sound, Saved, InStep, Outcome, Repeats, Reader!CanBecome
<1>13. CASE UNCHANGED vars
  BY <1>13 DEF vars, Sound, Saved, InStep, Outcome, Repeats, Done, Deadlocked, Ready, Runnable
<1> QED
  BY <1>1, <1>2, <1>3, <1>4, <1>5, <1>6, <1>7, <1>8, <1>9, <1>10, <1>11, <1>12, <1>13
     DEF Next, Loop, Attempt

LEMMA Invariance == Spec => []IInv
BY IInvInit, IInvStep, PTL DEF Spec

------------------------------------------------------------------------------
(* A task that was ever attempted has all its dependencies in the run and
   successful, in memory and in the file, across any kills and restarts.   *)
THEOREM DependenciesFirstHolds == Spec => []DependenciesFirst
<1>1. IInv => DependenciesFirst
  BY DEF IInv, Sound, DependenciesFirst
<1> QED
  BY <1>1, Invariance, PTL

(* No task is attempted more than retries + 2 times, counted across
   restarts.                                                               *)
THEOREM AttemptsBoundHolds == Spec => []AttemptsBound
<1>1. IInv => AttemptsBound
  BY DEF IInv, Sound, AttemptsBound
<1> QED
  BY <1>1, Invariance, PTL

(* Whenever the loop waits, the run file holds what it has in memory.      *)
THEOREM AwaitIsDurableHolds == Spec => []AwaitIsDurable
<1>1. IInv => AwaitIsDurable
  BY DEF IInv, Saved, AwaitIsDurable
<1> QED
  BY <1>1, Invariance, PTL

(* Each kill repeats a task's command at most once.                        *)
THEOREM RepetitionsBoundHolds == Spec => []RepetitionsBound
<1>1. IInv => RepetitionsBound
  BY DEF IInv, Repeats, RepetitionsBound
<1> QED
  BY <1>1, Invariance, PTL

(* An ended task keeps its recorded status, across restarts.               *)
THEOREM EndedTasksStayHolds == Spec => EndedTasksStay
<1>1. IInv /\ [Next]_vars =>
        [\A t \in tasks : disk.status[t] \in Terminal => disk'.status[t] = disk.status[t]]_vars
  <2> SUFFICES ASSUME IInv, Next
               PROVE  disk'.status = disk.status \/ disk'.status = status
    BY DEF IInv, InStep, Reader!CanBecome, Terminal
  <2>1. CASE Save \/ Finish
    BY <2>1 DEF Save, Finish, Verdict, Record
  <2>2. CASE Start
    BY <2>2 DEF Start, Record
  <2>3. CASE ~(Save \/ Finish \/ Start)
    BY <2>3 DEF Next, Loop, Attempt, Top, Launch, LaunchDone, Poll, Reject, LoseProcess,
                AttemptFails, CommandSucceeds, ValidationSucceeds, Crash
  <2> QED
    BY <2>1, <2>2, <2>3
<1> QED
  BY <1>1, Invariance, PTL DEF Spec, EndedTasksStay

(* The concurrency limit holds over every interleaving of launches and
   settled attempts.                                                       *)
THEOREM ConcurrencyBoundHolds == Spec => []ConcurrencyBound
<1> DEFINE Bounded == TypeOK /\ ConcurrencyBound
<1>1. Init => Bounded
  <2> SUFFICES ASSUME Init PROVE ConcurrencyBound
    BY TypeInit
  <2>1. TypeOK
    BY TypeInit
  <2> QED
    BY <2>1, FS_EmptySet DEF Init, TypeOK, ConcurrencyBound
<1>2. Bounded /\ [Next]_vars => Bounded'
  <2> SUFFICES ASSUME TypeOK, ConcurrencyBound, [Next]_vars PROVE ConcurrencyBound'
    BY TypeStep
  <2>0. IsFiniteSet(active)
    BY TaskIdsAssumption, FS_Subset DEF TypeOK
  <2>1. ASSUME NEW t \in TaskIds, Launch(t) PROVE ConcurrencyBound'
    <3>0. Cardinality(active) \in Nat
      BY <2>0, FS_CardinalityType
    <3>a. Cardinality(active \cup {t}) = IF t \in active THEN Cardinality(active)
                                         ELSE Cardinality(active) + 1
      BY <2>0, FS_AddElement
    <3>1. Cardinality(active \cup {t}) <= Cardinality(active) + 1
      BY <3>0, <3>a
    <3>2. Cardinality(active) < concurrency /\ active' = active \cup {t} /\ concurrency' = concurrency
      BY <2>1 DEF Launch, HasRoom, inputs
    <3>3. Cardinality(active) \in Nat /\ Cardinality(active \cup {t}) \in Nat
      BY <2>0, FS_AddElement, FS_CardinalityType
    <3> QED
      BY <3>1, <3>2, <3>3 DEF ConcurrencyBound, TypeOK
  <2>2. CASE active' \subseteq active /\ concurrency' = concurrency
    <3>1. Cardinality(active') <= Cardinality(active)
      BY <2>0, <2>2, FS_Subset
    <3>2. Cardinality(active') \in Nat /\ Cardinality(active) \in Nat
      BY <2>0, <2>2, FS_Subset, FS_CardinalityType
    <3> QED
      BY <2>2, <3>1, <3>2 DEF ConcurrencyBound, TypeOK
  <2>3. CASE ~\E t \in TaskIds : Launch(t)
    <3>1. active' \subseteq active /\ concurrency' = concurrency
      BY <2>3 DEF Next, Loop, Attempt, Start, Top, LaunchDone, Save, Finish, Poll, Reject, LoseProcess,
                  AttemptFails, CommandSucceeds, ValidationSucceeds, EndAttempt, Crash, vars, inputs
    <3> QED
      BY <3>1, <2>2
  <2> QED
    BY <2>1, <2>3
<1>3. Bounded => ConcurrencyBound
  OBVIOUS
<1> QED
  BY <1>1, <1>2, <1>3, PTL DEF Spec

------------------------------------------------------------------------------
(* The scheduler implements the record promised to the readers of its file. *)
THEOREM ImplementsReader == Spec => ReaderSpec
<1> USE DEF TaskStatus, Terminal, Reader!Ended
<1>1. Init => Reader!Init
  BY DEF Init, Reader!Init, Record
<1>2. IInv /\ [Next]_vars => [Reader!Next]_(Reader!vars)
  <2> SUFFICES ASSUME IInv, [Next]_vars PROVE [Reader!Next]_(Reader!vars)
    OBVIOUS
  <2> USE DEF IInv, TypeOK, inputs, copy, history
  <2>1. CASE Start
    <3>1. CASE ValidGraph(tasks, deps)
      BY <2>1, <3>1 DEF Start, Reader!vars
    <3>2. CASE ~ValidGraph(tasks, deps)
      <4>1. disk'.run = "blocked" /\ disk'.status = disk.status /\ UNCHANGED <<tasks, deps>>
        BY <2>1, <3>2 DEF Start, Saved, Record
      <4>2. \/ \E t \in tasks : \E d \in deps[t] : d \notin tasks \/ d = t
            \/ HasCycle(tasks, deps)
        BY <3>2 DEF ValidGraph
      <4>3. Reader!Refuse
        BY <4>1, <4>2 DEF HasCycle, Reader!Refuse
      <4> QED
        BY <4>3 DEF Reader!Next
    <3> QED
      BY <3>1, <3>2
  <2>2. CASE Save
    <3>1. disk'.run = "running" /\ disk'.status = status /\ UNCHANGED <<tasks, deps>>
      BY <2>2 DEF Save, Record, Outcome
    <3>2. \A t \in tasks : Reader!Justified(disk'.status, t) /\ Reader!CanBecome(disk.status[t], disk'.status[t])
      BY <3>1 DEF Sound, InStep, Reader!Justified
    <3>3. Reader!Save
      BY <3>1, <3>2 DEF Reader!Save
    <3> QED
      BY <3>3 DEF Reader!Next
  <2>3. CASE Finish
    <3>1. Done \/ Deadlocked
      BY <2>3 DEF Finish, Verdict, Outcome
    <3>2. Deadlocked <=> \E t \in tasks : status[t] \notin Terminal
      BY <3>1 DEF Done, Deadlocked
    <3>3. Reader!Conclude
      BY <2>3, <3>1, <3>2 DEF Finish, Verdict, Saved, Outcome, Record, Reader!Conclude
    <3> QED
      BY <3>3 DEF Reader!Next
  <2>4. CASE ~(Start \/ Save \/ Finish)
    BY <2>4 DEF Next, Loop, Attempt, Top, Launch, LaunchDone, Poll, Reject, LoseProcess, vars,
                AttemptFails, CommandSucceeds, ValidationSucceeds, Crash, Reader!vars
  <2> QED
    BY <2>1, <2>2, <2>3, <2>4
<1> QED
  BY <1>1, <1>2, Invariance, PTL DEF Spec, ReaderSpec, Reader!Spec

------------------------------------------------------------------------------
(* Why a valid graph never blocks by itself.                               *)

Unblocked(st) ==
  \A t \in tasks : st[t] = "queued" => \A d \in deps[t] \cap tasks : st[d] \notin {"failed", "skipped"}

Propagated == pc \in {"launch", "save", "finish"} => Unblocked(status)

BInv == IInv /\ Propagated /\ NoQueuedBehindFailure /\ BlockedOnlyByStaleTask

(* After the dependency skips no queued task is behind a failed one: the
   least closed set is itself closed.                                      *)
LEMMA DoomedIsClosed ==
  ASSUME NEW st, NEW t \in tasks, st[t] = "queued",
         NEW d \in deps[t] \cap tasks,
         st[d] \in {"failed", "skipped"} \/ d \in Doomed(tasks, deps, st)
  PROVE  t \in Doomed(tasks, deps, st)
<1> SUFFICES ASSUME NEW S \in SUBSET tasks, SkipClosed(tasks, deps, st, S) PROVE t \in S
  BY DEF Doomed
<1>1. st[d] \in {"failed", "skipped"} \/ d \in S
  BY DEF Doomed
<1> QED
  BY <1>1 DEF SkipClosed

(* In a graph without cycles some queued task is behind no other queued
   task; if it is not runnable, it is behind a task that is running.       *)
LEMMA SomeTaskIsFree ==
  ASSUME TypeOK, ValidGraph(tasks, deps), Unblocked(status),
         \E t \in tasks : status[t] = "queued", Ready = {}
  PROVE  \E t \in tasks : status[t] = "running"
<1> DEFINE Q == {t \in tasks : status[t] = "queued"}
<1>1. Q \in (SUBSET tasks) \ {{}}
  OBVIOUS
<1>2. PICK q \in Q : deps[q] \cap Q = {}
  BY <1>1 DEF ValidGraph, HasCycle
<1>3. PICK d \in deps[q] : d \in tasks /\ status[d] # "success"
  BY DEF Ready, Runnable, ValidGraph
<1>4. status[d] \notin {"failed", "skipped", "queued"}
  BY <1>2, <1>3 DEF Unblocked
<1> QED
  BY <1>3, <1>4 DEF TypeOK, TaskStatus

LEMMA TopPropagates == TypeOK /\ Top => Unblocked(status)'
<1> SUFFICES ASSUME TypeOK, Top, NEW t \in tasks, status'[t] = "queued",
                    NEW d \in deps[t] \cap tasks
             PROVE  status'[d] \notin {"failed", "skipped"}
  BY DEF Unblocked, Top, inputs
<1> DEFINE doomed == Doomed(tasks, deps, status)
           skip == [u \in TaskIds |-> IF u \in doomed THEN "skipped" ELSE status[u]]
           cut == IF fastFail /\ (\E u \in tasks : skip[u] = "failed")
                  THEN {u \in tasks : skip[u] = "queued"} ELSE {}
<1>1. status' = [u \in TaskIds |-> IF u \in cut THEN "skipped" ELSE skip[u]]
  BY DEF Top, Cut
<1>2. t \in TaskIds /\ d \in TaskIds
  BY DEF TypeOK
<1>3. status[t] = "queued" /\ t \notin doomed /\ t \notin cut
  BY <1>1, <1>2
<1>4. status[d] \notin {"failed", "skipped"} /\ d \notin doomed
  BY <1>3, DoomedIsClosed
<1>5. cut = {}
  BY <1>2, <1>3
<1> QED
  BY <1>1, <1>2, <1>4, <1>5

LEMMA BInvStep == BInv /\ [Next]_vars => BInv'
<1> SUFFICES ASSUME BInv, [Next]_vars PROVE BInv'
  OBVIOUS
<1>0. IInv /\ IInv'
  BY IInvStep DEF BInv
<1>t. TypeOK /\ tasks' = tasks /\ deps' = deps
  BY <1>0 DEF IInv, Next, Loop, Attempt, Start, Top, Launch, LaunchDone, Save, Finish, Poll, Reject,
              LoseProcess, AttemptFails, CommandSucceeds, ValidationSucceeds, EndAttempt, Crash, vars, inputs
<1>v. ValidGraph(tasks, deps)' = ValidGraph(tasks, deps)
  BY <1>t DEF ValidGraph, HasCycle
<1> DEFINE Rest == Propagated /\ NoQueuedBehindFailure /\ BlockedOnlyByStaleTask
<1> SUFFICES Rest'
  BY <1>0 DEF BInv
<1>r. Rest
  BY DEF BInv
<1>1. CASE disk' = disk
  <2>1. NoQueuedBehindFailure' /\ BlockedOnlyByStaleTask'
    BY <1>1, <1>t, <1>v, <1>r DEF NoQueuedBehindFailure, BlockedOnlyByStaleTask
  <2>2. Propagated'
    <3>1. CASE Top
      BY <3>1, <1>t, TopPropagates DEF Propagated
    <3>2. ASSUME NEW t \in TaskIds, Launch(t) PROVE Propagated'
      BY <3>2, <1>t, <1>r DEF Launch, Propagated, Unblocked, TypeOK
    <3>3. CASE LaunchDone \/ Save \/ Finish \/ UNCHANGED vars
      BY <3>3, <1>t, <1>r DEF LaunchDone, Save, Finish, vars, copy, Propagated, Unblocked
    <3>4. CASE pc' \notin {"launch", "save", "finish"}
      BY <3>4 DEF Propagated
    <3> QED
      BY <3>1, <3>2, <3>3, <3>4
         DEF Next, Loop, Attempt, Start, Poll, Reject, LoseProcess, AttemptFails,
             CommandSucceeds, ValidationSucceeds, EndAttempt, Crash
  <2> QED
    BY <2>1, <2>2
<1>2. CASE Start /\ ~ValidGraph(tasks, deps)
  BY <1>2, <1>v DEF Start, Propagated, NoQueuedBehindFailure, BlockedOnlyByStaleTask
<1>3. CASE Save
  <2>1. disk'.status = status /\ disk'.run = "running" /\ status' = status
    BY <1>0, <1>3 DEF Save, Record, IInv, Outcome, copy
  <2>2. Unblocked(status)
    BY <1>3, <1>r DEF Save, Propagated
  <2>3. Propagated'
    BY <2>1, <2>2, <1>t DEF Propagated, Unblocked
  <2>4. NoQueuedBehindFailure'
    BY <2>1, <2>2, <1>t, <1>v DEF NoQueuedBehindFailure, Unblocked, ValidGraph
  <2> QED
    BY <2>1, <2>3, <2>4 DEF BlockedOnlyByStaleTask
<1>4. CASE Finish
  <2>1. /\ disk'.status = status /\ disk'.run = runStatus' /\ status' = status /\ pc' = "off"
        /\ Unblocked(status)
    BY <1>4, <1>r DEF Finish, Verdict, Record, copy, Propagated
  <2>2. NoQueuedBehindFailure'
    BY <2>1, <1>t, <1>v DEF NoQueuedBehindFailure, Unblocked, ValidGraph
  <2>3. BlockedOnlyByStaleTask'
    <3> SUFFICES ASSUME runStatus' = "blocked", ValidGraph(tasks, deps)
                 PROVE  \E t \in tasks : status[t] = "running"
      BY <2>1, <1>t, <1>v DEF BlockedOnlyByStaleTask
    <3>1. Deadlocked
      BY <1>4 DEF Finish, Verdict
    <3> QED
      BY <3>1, <2>1, <1>t, SomeTaskIsFree DEF Deadlocked
  <2> QED
    BY <2>1, <2>2, <2>3 DEF Propagated
<1> QED
  BY <1>1, <1>2, <1>3, <1>4
     DEF Next, Loop, Attempt, Start, Top, Launch, LaunchDone, Poll, Reject, LoseProcess, AttemptFails,
         CommandSucceeds, ValidationSucceeds, Crash, vars

LEMMA BInvariance == Spec => []BInv
<1>1. Init => BInv
  <2> SUFFICES ASSUME Init PROVE BInv
    OBVIOUS
  <2> QED
    BY IInvInit DEF Init, BInv, Propagated, NoQueuedBehindFailure, BlockedOnlyByStaleTask, Record
<1> QED
  BY <1>1, BInvStep, PTL DEF Spec

(* The file of a validated run never shows a queued task behind a failed or
   skipped one.                                                            *)
THEOREM NoQueuedBehindFailureHolds == Spec => []NoQueuedBehindFailure
BY BInvariance, PTL DEF BInv

(* A validated run is blocked only by a task that a dead process left
   running: acyclicity alone rules every other deadlock out.               *)
THEOREM BlockedOnlyByStaleTaskHolds == Spec => []BlockedOnlyByStaleTask
BY BInvariance, PTL DEF BInv

------------------------------------------------------------------------------
(* Why nothing is launched after a failure under fast fail: the cut is made
   at the head of the loop, and no attempt is answered before its end.      *)

FailureIsCut ==
  pc = "launch" /\ fastFail /\ (\E u \in tasks : status[u] = "failed") =>
    \A t \in tasks : status[t] # "queued"

LEMMA TopCuts == TypeOK /\ Top => FailureIsCut'
<1> SUFFICES ASSUME TypeOK, Top, fastFail, NEW u \in tasks, status'[u] = "failed",
                    NEW t \in tasks, status'[t] = "queued"
             PROVE  FALSE
  BY DEF FailureIsCut, Top, inputs
<1> DEFINE skip == [x \in TaskIds |-> IF x \in Doomed(tasks, deps, status) THEN "skipped" ELSE status[x]]
           cut == Cut(skip)
<1>1. status' = [x \in TaskIds |-> IF x \in cut THEN "skipped" ELSE skip[x]]
  BY DEF Top
<1>2. u \in TaskIds /\ t \in TaskIds
  BY DEF TypeOK
<1>3. skip[u] = "failed" /\ skip[t] = "queued" /\ t \notin cut
  BY <1>1, <1>2
<1> QED
  BY <1>3 DEF Cut

LEMMA FailureIsCutStep == TypeOK /\ FailureIsCut /\ [Next]_vars => FailureIsCut'
<1> SUFFICES ASSUME TypeOK, FailureIsCut, [Next]_vars PROVE FailureIsCut'
  OBVIOUS
<1>1. CASE Top
  BY <1>1, TopCuts
<1>2. ASSUME NEW t \in TaskIds, Launch(t) PROVE FailureIsCut'
  BY <1>2 DEF Launch, Ready, Runnable, inputs, FailureIsCut, TypeOK
<1>3. CASE UNCHANGED vars
  BY <1>3 DEF vars, inputs, copy, FailureIsCut
<1>4. CASE pc' # "launch"
  BY <1>4 DEF FailureIsCut
<1> QED
  BY <1>1, <1>2, <1>3, <1>4
     DEF Next, Loop, Attempt, Start, LaunchDone, Save, Finish, Poll, Reject, LoseProcess,
         AttemptFails, CommandSucceeds, ValidationSucceeds, EndAttempt, Crash

(* Under fast fail no task is launched once one has failed, whatever settles
   and is retried in between.                                              *)
THEOREM FastFailStopsLaunchesHolds == Spec => FastFailStopsLaunches
<1> DEFINE Stops == \A t \in TaskIds :
              fastFail /\ (\E u \in tasks : status[u] = "failed") => launches'[t] = launches[t]
           FInv == TypeOK /\ FailureIsCut
<1>1. Init => FInv
  BY TypeInit DEF Init, FailureIsCut
<1>2. FInv /\ [Next]_vars => FInv'
  BY TypeStep, FailureIsCutStep
<1>3. FInv /\ [Next]_vars => [Stops]_vars
  <2> SUFFICES ASSUME TypeOK, FailureIsCut, Next PROVE Stops
    OBVIOUS
  <2>1. ASSUME NEW t \in TaskIds, Launch(t) PROVE Stops
    BY <2>1 DEF Launch, Ready, Runnable, FailureIsCut
  <2>2. CASE launches' = launches
    BY <2>2
  <2> QED
    BY <2>1, <2>2
       DEF Next, Loop, Attempt, Start, Top, LaunchDone, Save, Finish, Poll, Reject, LoseProcess,
           AttemptFails, CommandSucceeds, ValidationSucceeds, Crash, history
<1> QED
  BY <1>1, <1>2, <1>3, PTL DEF Spec, FastFailStopsLaunches
==============================================================================
