--------------------------- MODULE ExecutorProofs ---------------------------
(***************************************************************************)
(* Proofs about Executor, for any number of calls, stubborn children and   *)
(* refused signals.                                                        *)
(***************************************************************************)
EXTENDS Executor, TLAPS

Types ==
  /\ mode \in [Execs -> {"async", "sync"}]
  /\ stage \in [Execs -> Stages]
  /\ child \in [Execs -> {"none", "running", "gone"}]
  /\ code \in [Execs -> ExitCodes]
  /\ timer \in [Execs -> BOOLEAN]
  /\ timedOut \in [Execs -> BOOLEAN]
  /\ events \in [Execs -> SUBSET {"error", "close"}]
  /\ result \in [Execs -> Results]

\* A call that has not started left no trace.
Fresh(e) ==
  stage[e] \in {"idle", "refused"} =>
    child[e] = "none" /\ events[e] = {} /\ ~timedOut[e] /\ result[e] = NoResult

\* A pending call has no result; its timer and its callbacks are consistent
\* with what its child did.
Callbacks(e) ==
  /\ stage[e] = "pending" => result[e] = NoResult
  /\ "error" \in events[e] => ~timedOut[e]
  /\ "close" \in events[e] => child[e] = "gone" \/ code[e] = 1
  /\ mode[e] = "sync" => ~timer[e] /\ events[e] = {}

Inv == /\ Types /\ \A e \in Execs : Fresh(e) /\ Callbacks(e)
       /\ TimeoutIsReported /\ SuccessIsGenuine /\ NoTimerAfterAnswer

(* The invariant, call by call.                                            *)
Holds(e) ==
  /\ Fresh(e) /\ Callbacks(e)
  /\ stage[e] = "answered" /\ mode[e] = "async" =>
       /\ timedOut[e] => result[e].timed_out \/ e \in Unkillable
       /\ result[e].timed_out => timedOut[e] /\ result[e].status = "failed"
  /\ result[e].status = "succeeded" => child[e] = "gone" /\ code[e] = 0 /\ ~timedOut[e]
  /\ timer[e] => stage[e] = "pending"

LEMMA InvIsPointwise == Inv <=> Types /\ \A e \in Execs : Holds(e)
BY DEF Inv, Holds, TimeoutIsReported, SuccessIsGenuine, NoTimerAfterAnswer

(* A step that leaves every other call alone only has to be looked at where it
   happens.                                                                *)
LEMMA OneCallStep ==
  ASSUME Inv, Types', NEW e \in Execs, mode' = mode, Holds(e)',
         \A f \in Execs \ {e} : /\ stage'[f] = stage[f] /\ child'[f] = child[f]
                               /\ code'[f] = code[f] /\ timer'[f] = timer[f]
                               /\ timedOut'[f] = timedOut[f] /\ events'[f] = events[f]
                               /\ result'[f] = result[f]
  PROVE  Inv'
<1>1. ASSUME NEW f \in Execs \ {e} PROVE Holds(f)'
  <2>1. Holds(f)
    BY InvIsPointwise
  <2> QED
    BY <2>1, <1>1 DEF Holds, Fresh, Callbacks
<1>2. \A f \in Execs : Holds(f)'
  BY <1>1
<1> QED
  BY <1>2 DEF Inv, Holds, TimeoutIsReported, SuccessIsGenuine, NoTimerAfterAnswer

LEMMA InvInit == Init => Inv
BY DEF Init, Inv, Types, Fresh, Callbacks, TimeoutIsReported, SuccessIsGenuine, NoTimerAfterAnswer,
       Stages, ExitCodes, Signalled, Results, NoResult

LEMMA OutcomeType ==
  ASSUME Types, NEW e \in Execs
  PROVE  /\ Outcome(e) \in Results
         /\ Outcome(e).timed_out = timedOut[e]
         /\ timedOut[e] => Outcome(e).status = "failed"
         /\ Outcome(e).status = "succeeded" => code[e] = 0 /\ ~timedOut[e]
BY DEF Types, Outcome, Results, ExitCodes, Signalled

LEMMA InvStep == Inv /\ [Next]_vars => Inv'
<1> SUFFICES ASSUME Inv, [Next]_vars PROVE Inv'
  OBVIOUS
<1>a. Types /\ \A e \in Execs : Holds(e)
  BY InvIsPointwise
<1>f. Failure \in Results /\ NoResult \in Results
  BY DEF Failure, NoResult, Results
<1> USE DEF childVars
<1>1. ASSUME NEW e \in Execs, Refuse(e) PROVE Inv'
  <2>1. Types'
    BY <1>1, <1>a, <1>f DEF Refuse, Types, Stages, ExitCodes, Signalled
  <2>2. Holds(e)'
    BY <1>1, <1>a, <1>f DEF Refuse, Types, Holds, Fresh, Callbacks, NoResult
  <2> QED
    BY <1>1, <1>a, <2>1, <2>2, OneCallStep DEF Refuse, Types
<1>2. ASSUME NEW e \in Execs, Spawned(e) PROVE Inv'
  <2>1. Types'
    BY <1>2, <1>a, <1>f DEF Spawned, Types, Stages, ExitCodes, Signalled
  <2>2. Holds(e)'
    BY <1>2, <1>a, <1>f DEF Spawned, Types, Holds, Fresh, Callbacks, NoResult
  <2> QED
    BY <1>2, <1>a, <2>1, <2>2, OneCallStep DEF Spawned, Types
<1>3. ASSUME NEW e \in Execs, SpawnFails(e) PROVE Inv'
  <2>1. Types'
    BY <1>3, <1>a, <1>f DEF SpawnFails, Types, Stages, ExitCodes, Signalled
  <2>2. Holds(e)'
    BY <1>3, <1>a, <1>f DEF SpawnFails, Types, Holds, Fresh, Callbacks, NoResult
  <2> QED
    BY <1>3, <1>a, <2>1, <2>2, OneCallStep DEF SpawnFails, Types
<1>4. ASSUME NEW e \in Execs, SpawnThrows(e) PROVE Inv'
  <2>1. Types'
    BY <1>4, <1>a, <1>f DEF SpawnThrows, Failure, Types, Stages, ExitCodes, Signalled
  <2>2. Holds(e)'
    BY <1>4, <1>a, <1>f DEF SpawnThrows, Failure, Types, Holds, Fresh, Callbacks, NoResult
  <2> QED
    BY <1>4, <1>a, <2>1, <2>2, OneCallStep DEF SpawnThrows, Failure, Types
<1>5. ASSUME NEW e \in Execs, SyncStart(e) PROVE Inv'
  <2>1. Types'
    BY <1>5, <1>a, <1>f DEF SyncStart, Types, Stages, ExitCodes, Signalled
  <2>2. Holds(e)'
    BY <1>5, <1>a, <1>f DEF SyncStart, Types, Holds, Fresh, Callbacks, NoResult
  <2> QED
    BY <1>5, <1>a, <2>1, <2>2, OneCallStep DEF SyncStart, Types
<1>6. ASSUME NEW e \in Execs, TimerFires(e) PROVE Inv'
  <2>0. /\ timer[e] /\ stage[e] = "pending" /\ mode[e] = "async" /\ result[e] = NoResult
        /\ "error" \notin events[e]
        /\ timer' = [timer EXCEPT ![e] = FALSE] /\ timedOut' = [timedOut EXCEPT ![e] = TRUE]
        /\ UNCHANGED <<mode, child, code, events>>
    BY <1>6, <1>a DEF TimerFires, Holds, Callbacks, Types
  <2>1. CASE UNCHANGED <<stage, result, log>>
    <3>1. Types'
      BY <2>0, <2>1, <1>a DEF Types
    <3>2. Holds(e)'
      BY <2>0, <2>1, <1>a DEF Types, Holds, Fresh, Callbacks, NoResult
    <3> QED
      BY <2>0, <2>1, <3>1, <3>2, <1>a, OneCallStep DEF Types
  <2>2. CASE /\ e \in Unkillable
             /\ stage' = [stage EXCEPT ![e] = "answered"]
             /\ result' = [result EXCEPT ![e] = Failure]
    <3>1. Types'
      BY <2>0, <2>2, <1>a, <1>f DEF Types, Stages
    <3>2. Holds(e)'
      BY <2>0, <2>2, <1>a DEF Types, Holds, Fresh, Callbacks, Failure
    <3> QED
      BY <2>0, <2>2, <3>1, <3>2, <1>a, OneCallStep DEF Types
  <2> QED
    BY <1>6, <2>1, <2>2 DEF TimerFires
<1>7. ASSUME NEW e \in Execs, OnError(e) PROVE Inv'
  <2>1. Types'
    BY <1>7, <1>a, <1>f DEF OnError, Answer, Failure, Types, Stages, ExitCodes, Signalled
  <2>2. Holds(e)'
    BY <1>7, <1>a, <1>f DEF OnError, Answer, Failure, Types, Holds, Fresh, Callbacks, NoResult
  <2> QED
    BY <1>7, <1>a, <2>1, <2>2, OneCallStep DEF OnError, Answer, Failure, Types
<1>8. ASSUME NEW e \in Execs, OnClose(e) PROVE Inv'
  <2> DEFINE o == Outcome(e)
  <2>0. /\ "close" \in events[e] /\ events' = [events EXCEPT ![e] = @ \ {"close"}]
        /\ Answer(e, o) /\ UNCHANGED <<mode, child, code, timedOut>>
    BY <1>8 DEF OnClose
  <2>o. /\ o \in Results /\ o.timed_out = timedOut[e]
        /\ timedOut[e] => o.status = "failed"
        /\ o.status = "succeeded" => code[e] = 0 /\ ~timedOut[e]
    BY <1>a, OutcomeType
  <2> HIDE DEF o
  <2>1. Types'
    <3>1. events' \in [Execs -> SUBSET {"error", "close"}]
      BY <2>0, <1>a DEF Types
    <3>2. /\ stage' \in [Execs -> Stages] /\ timer' \in [Execs -> BOOLEAN]
          /\ result' \in [Execs -> Results]
      <4>1. CASE stage[e] = "answered"
        BY <4>1, <2>0, <1>a DEF Answer, Types
      <4>2. CASE stage[e] # "answered"
        <5>1. /\ stage' = [stage EXCEPT ![e] = "answered"] /\ timer' = [timer EXCEPT ![e] = FALSE]
              /\ result' = [result EXCEPT ![e] = o]
          BY <4>2, <2>0 DEF Answer
        <5>2. stage' \in [Execs -> Stages]
          BY <5>1, <1>a DEF Types, Stages
        <5>3. timer' \in [Execs -> BOOLEAN]
          BY <5>1, <1>a DEF Types
        <5>4. result' \in [Execs -> Results]
          BY <5>1, <2>o, <1>a DEF Types
        <5> QED
          BY <5>2, <5>3, <5>4
      <4> QED
        BY <4>1, <4>2
    <3> QED
      BY <2>0, <3>1, <3>2, <1>a DEF Types
  <2>2. Holds(e)'
    BY <2>0, <2>o, <1>a DEF Answer, Types, Holds, Fresh, Callbacks
  <2> QED
    BY <2>0, <1>a, <2>1, <2>2, OneCallStep DEF Answer, Types
<1>9. ASSUME NEW e \in Execs, ChildExits(e) PROVE Inv'
  <2>1. Types'
    BY <1>9, <1>a, <1>f DEF ChildExits, Types, Stages, ExitCodes, Signalled
  <2>2. Holds(e)'
    BY <1>9, <1>a, <1>f DEF ChildExits, Types, Holds, Fresh, Callbacks, NoResult
  <2> QED
    BY <1>9, <1>a, <2>1, <2>2, OneCallStep DEF ChildExits, Types
<1>10. ASSUME NEW e \in Execs, SyncEnd(e) PROVE Inv'
  <2>0. PICK c \in ExitCodes, late \in BOOLEAN :
          /\ code' = [code EXCEPT ![e] = c]
          /\ timedOut' = [timedOut EXCEPT ![e] = late]
          /\ result' = [result EXCEPT ![e] =
               [status |-> IF ~late /\ c = 0 THEN "succeeded" ELSE "failed",
                exit_code |-> IF c = Signalled THEN 1 ELSE c,
                timed_out |-> FALSE]]
    BY <1>10 DEF SyncEnd
  <2>s. /\ stage[e] = "pending" /\ mode[e] = "sync" /\ ~timer[e] /\ events[e] = {}
        /\ stage' = [stage EXCEPT ![e] = "answered"] /\ child' = [child EXCEPT ![e] = "gone"]
        /\ UNCHANGED <<mode, timer, events>>
    BY <1>10, <1>a DEF SyncEnd, Holds, Callbacks
  <2>1. Types'
    BY <2>0, <2>s, <1>a DEF Types, Stages, ExitCodes, Signalled, Results
  <2>2. Holds(e)'
    BY <2>0, <2>s, <1>a DEF Types, Holds, Fresh, Callbacks
  <2> QED
    BY <2>0, <2>s, <1>a, <2>1, <2>2, OneCallStep DEF Types
<1>11. CASE Die \/ UNCHANGED vars
  BY <1>11, <1>a, InvIsPointwise DEF Die, vars, Inv, Types, Fresh, Callbacks, TimeoutIsReported,
                                     SuccessIsGenuine, NoTimerAfterAnswer
<1> QED
  BY <1>1, <1>2, <1>3, <1>4, <1>5, <1>6, <1>7, <1>8, <1>9, <1>10, <1>11
     DEF Next, Begin, Callback

THEOREM Invariance == Spec => []Inv
BY InvInit, InvStep, PTL DEF Spec

(* A timeout that fired before the answer is in the answer.                *)
THEOREM TimeoutIsReportedHolds == Spec => []TimeoutIsReported
BY Invariance, PTL DEF Inv

(* A success is a child that ran to its end and exited with 0.             *)
THEOREM SuccessIsGenuineHolds == Spec => []SuccessIsGenuine
BY Invariance, PTL DEF Inv

(* No timer survives its call.                                             *)
THEOREM NoTimerAfterAnswerHolds == Spec => []NoTimerAfterAnswer
BY Invariance, PTL DEF Inv

(* An answer is final, whichever callbacks follow it.                      *)
THEOREM AnswersAreFinalHolds == Spec => AnswersAreFinal
<1> DEFINE Final == \A e \in Execs : stage[e] = "answered" =>
                      stage'[e] = "answered" /\ result'[e] = result[e]
<1>1. Inv /\ [Next]_vars => [Final]_vars
  <2> SUFFICES ASSUME Inv, [Next]_vars PROVE Final
    OBVIOUS
  <2> USE DEF Inv, Types, NoTimerAfterAnswer
  <2>1. ASSUME NEW e \in Execs, Begin(e) \/ Callback(e) \/ ChildExits(e) \/ SyncEnd(e) PROVE Final
    BY <2>1 DEF Begin, Refuse, Spawned, SpawnFails, SpawnThrows, SyncStart, Callback, TimerFires,
                OnError, OnClose, Answer, ChildExits, SyncEnd
  <2>2. CASE Die \/ UNCHANGED vars
    BY <2>2 DEF Die, vars
  <2> QED
    BY <2>1, <2>2 DEF Next
<1> QED
  BY <1>1, Invariance, PTL DEF Spec, AnswersAreFinal

------------------------------------------------------------------------------
(* The log.  Every step adds to it what it does to the stage of one call.  *)

LogEntries == [type : {"started", "finished"}, exec : Execs, result : Results]

\* What a step does to the log and to the calls.
Quiet(e) ==
  /\ result'[e] = result[e]
  /\ stage'[e] = stage[e] \/ (stage[e] = "idle" /\ stage'[e] = "refused")

Starts(e) == stage[e] = "idle" /\ stage'[e] = "pending" /\ log' = Append(log, Started(e))

Finishes(e) ==
  /\ stage[e] = "pending" /\ stage'[e] = "answered"
  /\ log' = Append(log, Finished(e, result'[e]))

Throws(e) ==
  /\ stage[e] = "idle" /\ stage'[e] = "answered"
  /\ log' = Append(Append(log, Started(e)), Finished(e, result'[e]))

Others(e) == \A f \in Execs \ {e} : stage'[f] = stage[f] /\ result'[f] = result[f]

LEMMA LogStep ==
  ASSUME Inv, [Next]_vars, log \in Seq(LogEntries)
  PROVE  \/ log' = log /\ \A e \in Execs : Quiet(e)
         \/ \E e \in Execs : Others(e) /\ (Starts(e) \/ Finishes(e) \/ Throws(e))
<1> USE DEF childVars
<1>t. Types /\ \A e \in Execs : Holds(e)
  BY InvIsPointwise
<1>1. ASSUME NEW e \in Execs, Refuse(e) PROVE log' = log /\ \A f \in Execs : Quiet(f)
  BY <1>1, <1>t DEF Refuse, Quiet, Types
<1>2. ASSUME NEW e \in Execs, Spawned(e) \/ SpawnFails(e) \/ SyncStart(e) PROVE Others(e) /\ Starts(e)
  BY <1>2, <1>t DEF Spawned, SpawnFails, SyncStart, Others, Starts, Types
<1>3. ASSUME NEW e \in Execs, SpawnThrows(e) PROVE Others(e) /\ Throws(e)
  <2>1. Started(e) \in LogEntries /\ Finished(e, Failure) \in LogEntries
    BY DEF Started, Finished, LogEntries, NoResult, Failure, Results
  <2>2. log \o <<Started(e), Finished(e, Failure)>> = Append(Append(log, Started(e)), Finished(e, Failure))
    BY <2>1
  <2> QED
    BY <1>3, <1>t, <2>2 DEF SpawnThrows, Others, Throws, Types
<1>4. ASSUME NEW e \in Execs, TimerFires(e)
      PROVE  (log' = log /\ \A f \in Execs : Quiet(f)) \/ (Others(e) /\ Finishes(e))
  <2>1. stage[e] = "pending"
    BY <1>4, <1>t DEF TimerFires, Holds
  <2> QED
    BY <1>4, <1>t, <2>1 DEF TimerFires, Quiet, Others, Finishes, Types
<1>5. ASSUME NEW e \in Execs, NEW r, Answer(e, r), stage[e] \in {"pending", "answered"}
      PROVE  (log' = log /\ \A f \in Execs : Quiet(f)) \/ (Others(e) /\ Finishes(e))
  BY <1>5, <1>t DEF Answer, Quiet, Others, Finishes, Types
<1>6. ASSUME NEW e \in Execs, OnError(e) \/ OnClose(e)
      PROVE  (log' = log /\ \A f \in Execs : Quiet(f)) \/ (Others(e) /\ Finishes(e))
  <2>1. events[e] # {}
    BY <1>6 DEF OnError, OnClose
  <2>2. stage[e] \in {"pending", "answered"}
    BY <2>1, <1>t DEF Holds, Fresh, Types, Stages
  <2> QED
    BY <1>6, <2>2, <1>5 DEF OnError, OnClose
<1>7. ASSUME NEW e \in Execs, ChildExits(e) PROVE log' = log /\ \A f \in Execs : Quiet(f)
  BY <1>7 DEF ChildExits, Quiet
<1>8. ASSUME NEW e \in Execs, SyncEnd(e) PROVE Others(e) /\ Finishes(e)
  BY <1>8, <1>t DEF SyncEnd, Others, Finishes, Types
<1>9. CASE Die \/ UNCHANGED vars
  BY <1>9 DEF Die, vars, Quiet
<1> QED
  BY <1>1, <1>2, <1>3, <1>4, <1>6, <1>7, <1>8, <1>9 DEF Next, Begin, Callback

(* An entry more is one of its call and of no other.                       *)
LEMMA OneMoreEntry ==
  ASSUME log \in Seq(LogEntries), NEW x \in LogEntries, log' = Append(log, x)
  PROVE  /\ log' \in Seq(LogEntries)
         /\ Len(log) + 1 \in DOMAIN log' /\ log'[Len(log) + 1] = x
         /\ \A i \in DOMAIN log : i < Len(log) + 1 /\ i \in DOMAIN log' /\ log'[i] = log[i]
         /\ \A e \in Execs : Entries(e)' = IF e = x.exec THEN Entries(e) \cup {Len(log) + 1}
                                           ELSE Entries(e)
BY DEF Entries

\* What LogMatchesCalls says of one call.
Told(e) ==
  /\ stage[e] \in {"idle", "refused"} => Entries(e) = {}
  /\ stage[e] = "pending" => \E i \in DOMAIN log : Entries(e) = {i} /\ log[i] = Started(e)
  /\ stage[e] = "answered" =>
       \E i, j \in DOMAIN log :
         i < j /\ Entries(e) = {i, j} /\ log[i] = Started(e) /\ log[j] = Finished(e, result[e])

LogInv == log \in Seq(LogEntries) /\ LogMatchesCalls

(* What is told of a call stays so while its stage, its result and its entries do. *)
LEMMA StillTold ==
  ASSUME NEW e \in Execs, Told(e), stage'[e] = stage[e], result'[e] = result[e],
         Entries(e)' = Entries(e),
         \A i \in DOMAIN log : i \in DOMAIN log' /\ log'[i] = log[i]
  PROVE  Told(e)'
<1>1. CASE stage[e] = "pending"
  BY <1>1 DEF Told, Started
<1>2. CASE stage[e] = "answered"
  <2>1. PICK i, j \in DOMAIN log :
          i < j /\ Entries(e) = {i, j} /\ log[i] = Started(e) /\ log[j] = Finished(e, result[e])
    BY <1>2 DEF Told
  <2>2. /\ i \in DOMAIN log' /\ j \in DOMAIN log' /\ Entries(e)' = {i, j}
        /\ log'[i] = Started(e) /\ log'[j] = Finished(e, result'[e])
    BY <2>1
  <2> QED
    BY <1>2, <2>1, <2>2 DEF Told
<1> QED
  BY <1>1, <1>2 DEF Told

LEMMA LogInvStep ==
  ASSUME Inv, Inv', LogInv, [Next]_vars
  PROVE  LogInv'
<1>t. Types /\ Types' /\ log \in Seq(LogEntries) /\ \A e \in Execs : Told(e)
  BY DEF Inv, LogInv, LogMatchesCalls, Told
<1>n. \A e \in Execs : Started(e) \in LogEntries /\ Started(e).exec = e
  BY DEF Started, LogEntries, NoResult, Results
<1>f. \A e \in Execs, r \in Results : Finished(e, r) \in LogEntries /\ Finished(e, r).exec = e
  BY DEF Finished, LogEntries
<1>p. ASSUME log' \in Seq(LogEntries), \A e \in Execs : Told(e)' PROVE LogInv'
  BY <1>p DEF LogInv, LogMatchesCalls, Told
<1>1. CASE log' = log /\ \A e \in Execs : Quiet(e)
  BY <1>1, <1>t, <1>p DEF Quiet, Told, Entries
<1>2. ASSUME NEW e \in Execs, Others(e), Starts(e) PROVE LogInv'
  <2>1. /\ log' \in Seq(LogEntries)
        /\ Len(log) + 1 \in DOMAIN log' /\ log'[Len(log) + 1] = Started(e)
        /\ \A i \in DOMAIN log : i < Len(log) + 1 /\ i \in DOMAIN log' /\ log'[i] = log[i]
        /\ \A f \in Execs : Entries(f)' = IF f = e THEN Entries(f) \cup {Len(log) + 1} ELSE Entries(f)
    BY <1>2, <1>t, <1>n, OneMoreEntry DEF Starts
  <2>2. Told(e)'
    BY <1>2, <1>t, <2>1 DEF Starts, Told, Started
  <2>3. \A f \in Execs \ {e} : Told(f)'
    BY <1>2, <1>t, <2>1, StillTold DEF Others
  <2> QED
    BY <2>1, <2>2, <2>3, <1>p
<1>3. ASSUME NEW e \in Execs, Others(e), Finishes(e) PROVE LogInv'
  <2> DEFINE x == Finished(e, result'[e])
  <2>0. x \in LogEntries /\ x.exec = e /\ log' = Append(log, x)
    BY <1>3, <1>t, <1>f DEF Finishes, Types
  <2> HIDE DEF x
  <2>1. /\ log' \in Seq(LogEntries)
        /\ Len(log) + 1 \in DOMAIN log' /\ log'[Len(log) + 1] = x
        /\ \A i \in DOMAIN log : i < Len(log) + 1 /\ i \in DOMAIN log' /\ log'[i] = log[i]
        /\ \A f \in Execs : Entries(f)' = IF f = e THEN Entries(f) \cup {Len(log) + 1} ELSE Entries(f)
    BY <2>0, <1>t, OneMoreEntry
  <2>2. PICK i \in DOMAIN log : Entries(e) = {i} /\ log[i] = Started(e)
    BY <1>3, <1>t DEF Finishes, Told
  <2>3. Told(e)'
    <3>1. /\ i \in DOMAIN log' /\ i < Len(log) + 1 /\ Entries(e)' = {i, Len(log) + 1}
          /\ log'[i] = Started(e) /\ log'[Len(log) + 1] = Finished(e, result'[e])
      BY <2>1, <2>2 DEF x
    <3> QED
      BY <1>3, <2>1, <3>1 DEF Finishes, Told
  <2>4. \A f \in Execs \ {e} : Told(f)'
    BY <1>3, <1>t, <2>1, StillTold DEF Others
  <2> QED
    BY <2>1, <2>3, <2>4, <1>p
<1>4. ASSUME NEW e \in Execs, Others(e), Throws(e) PROVE LogInv'
  <2> DEFINE n == Len(log)
             x == Started(e)
             y == Finished(e, result'[e])
  <2>0. x \in LogEntries /\ x.exec = e /\ y \in LogEntries /\ y.exec = e /\ n \in Nat
        /\ log' = Append(Append(log, x), y)
    BY <1>4, <1>t, <1>n, <1>f DEF Throws, Types
  <2> HIDE DEF n, x, y
  <2>1. /\ log' \in Seq(LogEntries) /\ DOMAIN log' = 1..n + 2
        /\ log'[n + 1] = x /\ log'[n + 2] = y
        /\ DOMAIN log = 1..n /\ \A i \in 1..n : log'[i] = log[i]
    BY <2>0, <1>t DEF n
  <2>2. \A f \in Execs : Entries(f)' = IF f = e THEN Entries(f) \cup {n + 1, n + 2} ELSE Entries(f)
    BY <2>0, <2>1 DEF Entries
  <2>3. Entries(e)' = {n + 1, n + 2}
    BY <1>4, <1>t, <2>2 DEF Throws, Told
  <2>4. Told(e)'
    <3>1. n + 1 \in DOMAIN log' /\ n + 2 \in DOMAIN log' /\ n + 1 < n + 2
      BY <2>0, <2>1
    <3> QED
      BY <1>4, <2>1, <2>3, <3>1 DEF Throws, Told, x, y
  <2>5. \A f \in Execs \ {e} : Told(f)'
    BY <1>4, <1>t, <2>0, <2>1, <2>2, StillTold DEF Others
  <2> QED
    BY <2>1, <2>4, <2>5, <1>p
<1> QED
  BY <1>1, <1>2, <1>3, <1>4, <1>t, LogStep

(* The log tells the truth about every call, over any order of callbacks.  *)
THEOREM LogMatchesCallsHolds == Spec => []LogMatchesCalls
<1>1. Init => LogInv
  BY DEF Init, LogInv, LogMatchesCalls, Entries
<1>2. Inv /\ Inv' /\ LogInv /\ [Next]_vars => LogInv'
  BY LogInvStep
<1>3. LogInv => LogMatchesCalls
  BY DEF LogInv
<1> QED
  BY <1>1, <1>2, <1>3, Invariance, PTL DEF Spec
==============================================================================
