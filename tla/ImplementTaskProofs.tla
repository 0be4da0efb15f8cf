------------------------ MODULE ImplementTaskProofs ------------------------
(***************************************************************************)
(* Proofs about implement-task, for any number of workflows, coder runs,   *)
(* reports and commands that overlap or die: the trace file of a workflow  *)
(* moves only as WorkflowTrace allows, the event log keeps up with it, the *)
(* files resolve, and commands that do not overlap leave the mirrors in    *)
(* step.                                                                   *)
(*                                                                         *)
(* The invariant IInv says, for each point a process may be at, how the    *)
(* trace it holds and the trace file differ: not at all, or by the one     *)
(* move it has announced and is about to write.  EventsInv adds what the   *)
(* event log has of that move, FilesInv what the files, pointers and       *)
(* kernel records have of every step behind the point, and AloneInv what   *)
(* the kernel and the memory lack of the files while one process acts.     *)
(***************************************************************************)
EXTENDS ImplementTask, TLAPS

StepStatus == {"pending", "skipped", "running", "succeeded", "failed"}

\* What the entries name is left open.
IsTrace(t) ==
  /\ t = [status |-> t.status, steps |-> t.steps]
  /\ \E Entry : t.steps \in Seq(Entry)
  /\ \A i \in 1..Len(t.steps) : t.steps[i].status \in StepStatus

SettledTo(t, n) == \A i \in 1..n : t.steps[i].status \in {"succeeded", "skipped"}

\* A running trace between two steps, and one within a step.
Between(t) == IsTrace(t) /\ t.status = "running" /\ SettledTo(t, Len(t.steps))

Within(t, status) ==
  /\ IsTrace(t) /\ t.status = "running" /\ t.steps # <<>>
  /\ SettledTo(t, Len(t.steps) - 1)
  /\ t.steps[Len(t.steps)].status = status

\* A trace with one more entry.
Pushed(t, e) == [t EXCEPT !.steps = Append(@, e)]

Failed(t) == [Marked(t, "failed", "none") EXCEPT !.status = "failed"]

------------------------------------------------------------------------------
(* Traces: their entries, and what the moves of the engine make of them.   *)

LEMMA Statuses ==
  ASSUME NEW t, IsTrace(t)
  PROVE  /\ Len(t.steps) \in Nat /\ Len(statusOf(t)) = Len(t.steps)
         /\ statusOf(t) \in Seq(StepStatus)
         /\ \A i \in 1..Len(t.steps) : statusOf(t)[i] = t.steps[i].status
         /\ t.steps = <<>> <=> Len(t.steps) = 0
         /\ t.steps = <<>> <=> statusOf(t) = <<>>
<1> PICK Entry : t.steps \in Seq(Entry)
  BY DEF IsTrace
<1>1. DOMAIN t.steps = 1..Len(t.steps) /\ Len(t.steps) \in Nat
  OBVIOUS
<1>2. statusOf(t) = [i \in 1..Len(t.steps) |-> t.steps[i].status]
  BY <1>1 DEF statusOf
<1>3. statusOf(t) \in Seq(StepStatus) /\ Len(statusOf(t)) = Len(t.steps)
  BY <1>1, <1>2 DEF IsTrace
<1> QED
  BY <1>1, <1>2, <1>3

LEMMA UpdatedTrace ==
  ASSUME NEW t, NEW status, NEW steps, t = [status |-> status, steps |-> steps]
  PROVE  /\ t.status = status /\ t.steps = steps
         /\ \A n, e : [t EXCEPT !.steps[n] = e] =
                        [status |-> status, steps |-> [steps EXCEPT ![n] = e]]
         /\ \A e : [t EXCEPT !.steps = Append(@, e)] =
                        [status |-> status, steps |-> Append(steps, e)]
OBVIOUS

LEMMA MarkedTrace ==
  ASSUME NEW t, IsTrace(t), t.steps # <<>>, NEW status \in StepStatus, NEW name
  PROVE  /\ IsTrace(Marked(t, status, name))
         /\ Marked(t, status, name).status = t.status
         /\ Marked(t, status, name).steps # <<>>
         /\ Len(Marked(t, status, name).steps) = Len(t.steps)
         /\ Marked(t, status, name).steps[Len(t.steps)].status = status
         /\ Marked(t, status, name).steps[Len(t.steps)].names = name
         /\ \A i \in 1..(Len(t.steps) - 1) : Marked(t, status, name).steps[i] = t.steps[i]
<1> DEFINE e == [status |-> status, names |-> name]
           s == t.steps
           n == Len(s)
           new == [s EXCEPT ![n] = e]
           m == Marked(t, status, name)
<1> PICK Entry : s \in Seq(Entry)
  BY DEF IsTrace
<1>1. s \in Seq(Entry \cup {e})
  OBVIOUS
<1>2. n \in Nat /\ n # 0 /\ n \in 1..n
  BY <1>1
<1>3. e.status = status /\ e.names = name
  OBVIOUS
<1>4. m = [status |-> t.status, steps |-> new]
  <2>1. t = [status |-> t.status, steps |-> s]
    BY DEF IsTrace
  <2>2. Marked(t, status, name) = [t EXCEPT !.steps[n] = e]
    BY DEF Marked
  <2> HIDE DEF s, n
  <2> QED
    BY <2>1, <2>2, UpdatedTrace
<1> HIDE DEF e
<1>5. new \in Seq(Entry \cup {e}) /\ Len(new) = n /\ new # <<>>
  BY <1>1, <1>2
<1>6. \A i \in 1..n : new[i] = IF i = n THEN e ELSE s[i]
  BY <1>1, <1>2
<1> HIDE DEF new
<1>7. m.status = t.status /\ m.steps = new
  BY <1>4
<1>8. IsTrace(m)
  <2>1. \A i \in 1..n : new[i].status \in StepStatus
    BY <1>3, <1>6 DEF IsTrace
  <2> QED
    BY <1>4, <1>5, <1>7, <2>1 DEF IsTrace
<1> HIDE DEF m
<1>9. /\ m.steps[n].status = status /\ m.steps[n].names = name
      /\ \A i \in 1..(n - 1) : m.steps[i] = s[i]
  BY <1>2, <1>3, <1>6, <1>7
<1> QED
  BY <1>5, <1>7, <1>8, <1>9 DEF m

LEMMA MarkedStatuses ==
  ASSUME NEW t, IsTrace(t), t.steps # <<>>, NEW status \in StepStatus, NEW name
  PROVE  statusOf(Marked(t, status, name)) =
           [statusOf(t) EXCEPT ![Len(statusOf(t))] = status]
<1> DEFINE m == Marked(t, status, name)
           n == Len(t.steps)
<1>1. /\ IsTrace(m) /\ Len(m.steps) = n /\ m.steps[n].status = status
      /\ \A i \in 1..(n - 1) : m.steps[i] = t.steps[i]
  BY MarkedTrace
<1> HIDE DEF m
<1>2. /\ n \in Nat /\ Len(statusOf(t)) = n /\ Len(statusOf(m)) = n
      /\ statusOf(t) \in Seq(StepStatus) /\ statusOf(m) \in Seq(StepStatus)
  BY <1>1, Statuses
<1>3. \A i \in 1..n : statusOf(m)[i] = IF i = n THEN status ELSE statusOf(t)[i]
  BY <1>1, <1>2, Statuses
<1> QED
  BY <1>2, <1>3 DEF m

LEMMA PushedTrace ==
  ASSUME NEW t, IsTrace(t), NEW e, e.status = "pending", NEW m, m = Pushed(t, e)
  PROVE  /\ IsTrace(m) /\ m.status = t.status /\ m.steps # <<>>
         /\ Len(m.steps) = Len(t.steps) + 1
         /\ m.steps[Len(m.steps)].status = "pending"
         /\ \A i \in 1..Len(t.steps) : m.steps[i] = t.steps[i]
<1> DEFINE s == t.steps
           new == Append(s, e)
<1> PICK Entry : s \in Seq(Entry)
  BY DEF IsTrace
<1>1. s \in Seq(Entry \cup {e}) /\ e \in Entry \cup {e}
  OBVIOUS
<1>2. m = [status |-> t.status, steps |-> new]
  <2>1. t = [status |-> t.status, steps |-> s]
    BY DEF IsTrace
  <2>2. m = [t EXCEPT !.steps = Append(@, e)]
    BY DEF Pushed
  <2> HIDE DEF s
  <2> QED
    BY <2>1, <2>2, UpdatedTrace
<1>3. /\ new \in Seq(Entry \cup {e}) /\ Len(new) = Len(s) + 1 /\ Len(s) \in Nat
      /\ new[Len(s) + 1] = e /\ \A i \in 1..Len(s) : new[i] = s[i]
  BY <1>1
<1>4. new # <<>>
  <2>1. Len(new) # 0
    BY <1>3
  <2>2. Len(<<>>) = 0
    OBVIOUS
  <2> HIDE DEF new
  <2> QED
    BY <2>1, <2>2, Zenon
<1> HIDE DEF new
<1>5. m.status = t.status /\ m.steps = new
  BY <1>2
<1>6. \A i \in 1..Len(new) : new[i].status \in StepStatus
  BY <1>3 DEF IsTrace, StepStatus
<1> QED
  BY <1>2, <1>3, <1>4, <1>5, <1>6 DEF IsTrace

LEMMA PushedStatuses ==
  ASSUME NEW t, IsTrace(t), NEW e, e.status = "pending", NEW m, m = Pushed(t, e)
  PROVE  statusOf(m) = Append(statusOf(t), "pending")
<1> DEFINE n == Len(t.steps)
           st == statusOf(t)
           sm == statusOf(m)
<1>1. /\ IsTrace(m) /\ Len(m.steps) = n + 1 /\ m.steps[n + 1].status = "pending"
      /\ \A i \in 1..n : m.steps[i] = t.steps[i]
  BY PushedTrace
<1>2. /\ n \in Nat /\ Len(st) = n /\ Len(sm) = n + 1
      /\ st \in Seq(StepStatus) /\ sm \in Seq(StepStatus)
      /\ \A i \in 1..n : st[i] = t.steps[i].status
      /\ \A i \in 1..(n + 1) : sm[i] = m.steps[i].status
  BY <1>1, Statuses
<1> HIDE DEF st, sm, n
<1>3. \A i \in 1..(n + 1) : sm[i] = IF i = n + 1 THEN "pending" ELSE st[i]
  <2>1. sm[n + 1] = "pending"
    BY <1>1, <1>2
  <2>2. \A i \in 1..n : sm[i] = st[i]
    BY <1>1, <1>2
  <2> QED
    BY <1>2, <2>1, <2>2
<1>4. sm = Append(st, "pending")
  <2>1. "pending" \in StepStatus
    BY DEF StepStatus
  <2>2. /\ Append(st, "pending") \in Seq(StepStatus) /\ Len(Append(st, "pending")) = n + 1
        /\ \A i \in 1..(n + 1) : Append(st, "pending")[i] = IF i = n + 1 THEN "pending" ELSE st[i]
    BY <1>2, <2>1
  <2>3. \A i \in 1..(n + 1) : Append(st, "pending")[i] = sm[i]
    BY <1>3, <2>2
  <2> QED
    BY <1>2, <2>2, <2>3
<1> QED
  BY <1>4 DEF st, sm
------------------------------------------------------------------------------
(* Processes, and the trace files of their workflows.                      *)

\* Points only a process that executes a workflow is at, and those of its steps
\* that the commands of coder-loop go through as well.
EnginePoints == {"open", "opened", "next", "decide", "skipping", "starting", "completing",
                 "failing", "closed", "stamp"}
StepPoints == {"body", "context", "prompt", "plan", "planned", "listed", "pointing",
               "remembering", "done", "threw"}
CoderPoints == {"checking", "save", "filed", "pointed", "found", "registered", "indexed",
                "recalled", "saved"}

Typed ==
  /\ trace = [w \in Plans |-> trace[w]]
  /\ pc = [p \in Procs |-> pc[p]] /\ job = [p \in Procs |-> job[p]]
  /\ work = [p \in Procs |-> work[p]]
  /\ \A p \in Procs :
       work[p] = [name |-> work[p].name, scaffold |-> work[p].scaffold,
                  validate |-> work[p].validate, mine |-> work[p].mine, plan |-> work[p].plan]

Owner(p) ==
  IF job[p] = "implement"
  THEN Flow(p) \in Plans /\ pc[p] \in EnginePoints \cup StepPoints \cup CoderPoints
  ELSE work[p] = NoWork /\ pc[p] \in {"idle"} \cup CoderPoints

\* What is kept at a point, and what is in the file.
Stage(point, mine, written) ==
  /\ point = "open" => written = NoTrace
  /\ point = "opened" => written = NoTrace /\ mine = [status |-> "running", steps |-> <<>>]
  /\ point = "next" => mine = written /\ Between(mine)
  /\ point = "decide" => mine = written /\ Within(mine, "pending")
  /\ point = "skipping" =>
       Within(written, "pending") /\ \E n : mine = Marked(written, "skipped", n)
  /\ point = "starting" =>
       Within(written, "pending") /\ \E n : mine = Marked(written, "running", n)
  /\ point \in StepPoints \cup CoderPoints => mine = written /\ Within(mine, "running")
  /\ point = "completing" =>
       Within(written, "running") /\ \E n : mine = Marked(written, "succeeded", n)
  /\ point = "failing" => Within(written, "running") /\ mine = Failed(written)

Flowing(p) == job[p] = "implement" => Stage(pc[p], work[p].mine, trace[Flow(p)])

\* A workflow is executed by one process.
OneEach == \A p, q \in Procs : Flow(p) \in Plans /\ Flow(p) = Flow(q) => p = q

IInv == Typed /\ OneEach /\ \A p \in Procs : Owner(p) /\ Flowing(p)

(* A step matters to the process that takes it and to its workflow.        *)
LEMMA OneProcessStep ==
  ASSUME IInv, Typed', NEW p \in Procs, Owner(p)', Flowing(p)',
         \A q \in Procs \ {p} : pc'[q] = pc[q] /\ job'[q] = job[q] /\ work'[q] = work[q],
         \A w \in Plans : w # Flow(p) => trace'[w] = trace[w],
         \/ Flow(p)' = Flow(p)
         \/ Flow(p)' \notin Plans
         \/ \A q \in Procs : Flow(q) # Flow(p)'
  PROVE  IInv'
<1>1. ASSUME NEW q \in Procs \ {p} PROVE Owner(q)' /\ Flowing(q)'
  <2>1. Owner(q) /\ Flowing(q) /\ Flow(q)' = Flow(q)
    BY DEF IInv, Flow
  <2>2. Owner(q)'
    BY <2>1 DEF Owner
  <2>3. job[q] = "implement" => Flow(q) \in Plans /\ Flow(q) # Flow(p)
    BY <2>1 DEF Owner, IInv, OneEach
  <2>4. job[q] = "implement" => trace'[Flow(q)] = trace[Flow(q)]
    BY <2>3
  <2>5. Flowing(q)'
    BY <2>1, <2>4 DEF Flowing, Stage
  <2> QED
    BY <2>2, <2>5
<1>2. OneEach'
  BY DEF IInv, OneEach, Flow
<1> QED
  BY <1>1, <1>2 DEF IInv

LEMMA InitInv == Init => IInv
<1> SUFFICES ASSUME Init PROVE IInv
  OBVIOUS
<1>1. "none" \notin Plans
  BY CoderAssumption
<1>2. \A p \in Procs : pc[p] = "idle" /\ job[p] = "none" /\ work[p] = NoWork /\ Flow(p) = "none"
  BY DEF Init, CoderInit, Flow, NoWork
<1>3. Typed
  BY DEF Init, CoderInit, Typed, NoWork
<1> QED
  BY <1>1, <1>2, <1>3 DEF IInv, OneEach, Owner, Flowing
------------------------------------------------------------------------------
(* The steps that leave the trace files alone.                             *)

LEMMA AtStep ==
  ASSUME IInv, NEW p \in Procs, NEW here, NEW next, At(p, here, next)
  PROVE  /\ pc' = [q \in Procs |-> pc'[q]] /\ pc[p] = here /\ pc'[p] = next
         /\ \A q \in Procs \ {p} : pc'[q] = pc[q]
<1>1. pc = [q \in Procs |-> pc[q]]
  BY DEF IInv, Typed
<1> QED
  BY <1>1 DEF At

LEMMA ExitStep ==
  ASSUME IInv, NEW p \in Procs, Exit(p)
  PROVE  /\ pc' = [q \in Procs |-> pc'[q]] /\ pc'[p] = "idle"
         /\ job' = [q \in Procs |-> job'[q]] /\ job'[p] = "none"
         /\ \A q \in Procs \ {p} : pc'[q] = pc[q] /\ job'[q] = job[q]
<1>1. pc = [q \in Procs |-> pc[q]] /\ job = [q \in Procs |-> job[q]]
  BY DEF IInv, Typed
<1> QED
  BY <1>1 DEF Exit

LEMMA BeginStep ==
  ASSUME IInv, NEW p \in Procs, NEW command, NEW rec, NEW next, Begin(p, command, rec, next)
  PROVE  /\ pc' = [q \in Procs |-> pc'[q]] /\ pc[p] = "idle" /\ pc'[p] = next
         /\ job' = [q \in Procs |-> job'[q]] /\ job'[p] = command
         /\ \A q \in Procs \ {p} : pc'[q] = pc[q] /\ job'[q] = job[q]
<1>1. job = [q \in Procs |-> job[q]]
  BY DEF IInv, Typed
<1>2. At(p, "idle", next) /\ job' = [job EXCEPT ![p] = command]
  BY DEF Begin
<1> QED
  BY <1>1, <1>2, AtStep

(* What a step of the coder loop does to the process that takes it.        *)
Moves(p) ==
  /\ pc' = [q \in Procs |-> pc'[q]] /\ job' = [q \in Procs |-> job'[q]]
  /\ \A q \in Procs \ {p} : pc'[q] = pc[q] /\ job'[q] = job[q]
  /\ \/ /\ job'[p] = job[p] /\ pc[p] \in CoderPoints
        /\ \/ pc'[p] \in CoderPoints
           \/ job[p] = "implement" /\ pc'[p] = "threw"
     \/ /\ job[p] # "implement" /\ job'[p] # "implement"
        /\ pc'[p] \in {"idle"} \cup CoderPoints

LEMMA CoderMoves == ASSUME IInv, NEW p \in Procs, CoderStep(p) PROVE Moves(p)
<1>0. /\ job = [q \in Procs |-> job[q]]
      /\ pc[p] = "idle" => job[p] # "implement"
  BY DEF IInv, Typed, Owner, EnginePoints, StepPoints, CoderPoints
<1>1. ASSUME NEW here \in CoderPoints, NEW next \in CoderPoints, At(p, here, next), UNCHANGED job
      PROVE  Moves(p)
  BY <1>0, <1>1, AtStep DEF Moves
<1>2. ASSUME Exit(p), job[p] # "implement" PROVE Moves(p)
  BY <1>2, ExitStep DEF Moves
<1>3. ASSUME NEW command \in {"create", "round"}, NEW rec, NEW next \in CoderPoints,
             Begin(p, command, rec, next)
      PROVE  Moves(p)
  BY <1>0, <1>3, BeginStep DEF Moves
<1>4. CASE Create(p) \/ Continue(p)
  BY <1>3, <1>4 DEF Create, Continue, CoderPoints
<1>5. CASE executeRound(p) \/ SaveFile(p) \/ SaveLatest(p) \/ Lookup(p)
  BY <1>1, <1>5 DEF executeRound, SaveFile, SaveLatest, Lookup, disk, CoderPoints
<1>6. CASE Register(p) \/ Index(p) \/ Recall(p) \/ Remember(p)
  BY <1>1, <1>6 DEF Register, Index, Recall, Remember, disk, CoderPoints
<1>7. CASE Refused(p)
  <2>1. CASE job[p] = "implement"
    <3>1. At(p, "pointed", "threw") /\ UNCHANGED job
      BY <1>7, <2>1 DEF Refused
    <3> QED
      BY <1>0, <2>1, <3>1, AtStep DEF Moves, CoderPoints
  <2>2. CASE job[p] # "implement"
    BY <1>2, <1>7, <2>2 DEF Refused
  <2> QED
    BY <2>1, <2>2
<1>8. CASE Saved(p)
  <2>1. CASE held[p].rounds = 0
    <3>1. At(p, "saved", "checking") /\ UNCHANGED job
      BY <1>8, <2>1 DEF Saved
    <3> QED
      BY <1>1, <3>1 DEF CoderPoints
  <2>2. CASE held[p].rounds # 0
    BY <1>2, <1>8, <2>2 DEF Saved
  <2> QED
    BY <2>1, <2>2
<1> QED
  BY <1>4, <1>5, <1>6, <1>7, <1>8 DEF CoderStep

LEMMA CoderStepInv ==
  ASSUME IInv, NEW p \in Procs, CoderStep(p), UNCHANGED flowVars
  PROVE  IInv'
<1>1. Moves(p) /\ Owner(p) /\ Flowing(p) /\ Typed
  BY CoderMoves DEF IInv
<1>2. trace' = trace /\ work' = work /\ Flow(p)' = Flow(p)
  BY DEF flowVars, Flow
<1>3. Typed'
  BY <1>1, <1>2 DEF Typed, Moves
<1>4. Owner(p)'
  BY <1>1, <1>2 DEF Owner, Moves, StepPoints, Flow
<1>5. Flowing(p)'
  <2>1. CASE job[p] = "implement"
    <3>1. pc'[p] \in StepPoints \cup CoderPoints /\ pc[p] \in StepPoints \cup CoderPoints
      BY <1>1, <2>1 DEF Moves, StepPoints
    <3>2. work[p].mine = trace[Flow(p)] /\ Within(work[p].mine, "running")
      BY <1>1, <2>1, <3>1 DEF Flowing, Stage
    <3> QED
      BY <1>2, <3>1, <3>2 DEF Flowing, Stage, StepPoints, CoderPoints
  <2>2. CASE job[p] # "implement"
    BY <1>1, <2>2 DEF Flowing, Moves
  <2> QED
    BY <2>1, <2>2
<1> QED
  BY <1>1, <1>2, <1>3, <1>4, <1>5, OneProcessStep DEF Moves

\* A step of the workflow goes on within its body.
LEMMA BodyGoesOn ==
  ASSUME IInv, NEW p \in Procs, NEW here \in StepPoints \cup CoderPoints, job[p] = "implement",
         NEW next \in StepPoints \cup CoderPoints,
         At(p, here, next), UNCHANGED <<job, trace>>, work' = [q \in Procs |-> work'[q]],
         work'[p] = [work[p] EXCEPT !.plan = work'[p].plan],
         \A q \in Procs \ {p} : work'[q] = work[q]
  PROVE  IInv'
<1>1. Owner(p) /\ Flowing(p) /\ Typed
  BY DEF IInv
<1>2. /\ work'[p].mine = work[p].mine /\ work'[p].name = work[p].name
      /\ work'[p] = [name |-> work[p].name, scaffold |-> work[p].scaffold,
                     validate |-> work[p].validate, mine |-> work[p].mine,
                     plan |-> work'[p].plan]
  BY <1>1 DEF Typed
<1>3. Typed'
  BY <1>1, <1>2, AtStep DEF Typed
<1>4. Owner(p)' /\ Flow(p)' = Flow(p)
  BY <1>1, <1>2, AtStep DEF Owner, Flow
<1>5. Flowing(p)'
  <2>1. work[p].mine = trace[Flow(p)] /\ Within(work[p].mine, "running")
    BY <1>1, AtStep DEF Flowing, Stage
  <2> QED
    BY <1>2, <1>4, <2>1, AtStep DEF Flowing, Stage, StepPoints, CoderPoints
<1> QED
  BY <1>3, <1>4, <1>5, AtStep, OneProcessStep

\* Who is at a point of the engine or of a step's body executes a workflow.
LEMMA Implements ==
  ASSUME IInv, NEW p \in Procs, pc[p] \in EnginePoints \cup StepPoints
  PROVE  job[p] = "implement" /\ Flow(p) \in Plans
BY DEF IInv, Owner, EnginePoints, StepPoints, CoderPoints
\* The process forgets its work.
LEMMA EndInv ==
  ASSUME IInv, NEW p \in Procs, Exit(p), work' = [work EXCEPT ![p] = NoWork], Typed',
         \A w \in Plans : w # Flow(p) => trace'[w] = trace[w]
  PROVE  IInv'
<1>1. work = [q \in Procs |-> work[q]]
  BY DEF IInv, Typed
<1>2. work'[p] = NoWork /\ \A q \in Procs \ {p} : work'[q] = work[q]
  BY <1>1
<1>3. Flow(p)' \notin Plans
  BY <1>2, CoderAssumption DEF Flow, NoWork
<1>4. Owner(p)' /\ Flowing(p)'
  BY <1>2, ExitStep DEF Owner, Flowing
<1> QED
  BY <1>2, <1>3, <1>4, ExitStep, OneProcessStep

LEMMA KillInv == ASSUME IInv, NEW p \in Procs, KillAny(p) PROVE IInv'
<1>1. Exit(p) /\ work' = [work EXCEPT ![p] = NoWork] /\ trace' = trace
  BY DEF KillAny, Kill
<1>2. Typed'
  BY <1>1, ExitStep DEF IInv, Typed, NoWork
<1> QED
  BY <1>1, <1>2, EndInv

LEMMA BodyStepInv == ASSUME IInv, NEW p \in Procs, BodyStep(p) PROVE IInv'
<1>0. work = [q \in Procs |-> work[q]] /\ Typed
  BY DEF IInv, Typed
<1>1. ASSUME NEW here \in StepPoints \cup CoderPoints, NEW next \in StepPoints \cup CoderPoints,
             job[p] = "implement", At(p, here, next), UNCHANGED <<job, trace, work>>
      PROVE  IInv'
  <2>1. work'[p] = [work[p] EXCEPT !.plan = work'[p].plan]
    BY <1>0, <1>1 DEF Typed
  <2> QED
    BY <1>0, <1>1, <2>1, BodyGoesOn
<1>2. ASSUME NEW here \in StepPoints, NEW next \in StepPoints \cup CoderPoints,
             At(p, here, next), UNCHANGED <<job, trace, work>>
      PROVE  IInv'
  <2>1. job[p] = "implement"
    BY <1>2, AtStep, Implements
  <2> QED
    BY <1>1, <1>2, <2>1
<1> USE DEF flowVars, planVars
<1>3. CASE Report(p) \/ runScaffold(p)
  BY <1>2, <1>3 DEF Report, runScaffold, StepPoints
<1>4. CASE createCoderRun(p) \/ executeValidationRound(p)
  BY <1>2, <1>4 DEF createCoderRun, executeValidationRound, StepPoints, CoderPoints
<1>5. CASE StepSaved(p) \/ RoundSaved(p)
  BY <1>1, <1>5 DEF StepSaved, RoundSaved, Reload, StepPoints, CoderPoints
<1>6. CASE writePlanArtifacts(p)
  <2>1. At(p, "body", "context") /\ UNCHANGED <<job, trace, work>>
    BY <1>6 DEF writePlanArtifacts, Reload
  <2> QED
    BY <1>2, <2>1 DEF StepPoints
<1>7. CASE WriteContext(p) \/ savePlan(p) \/ RegisterPlan(p) \/ IndexPlan(p)
  BY <1>2, <1>7 DEF WriteContext, savePlan, RegisterPlan, IndexPlan, disk, StepPoints
<1>8. CASE writeLatestPlanPointer(p) \/ RememberPlan(p)
  BY <1>2, <1>8 DEF writeLatestPlanPointer, RememberPlan, disk, StepPoints
<1>9. CASE WritePrompt(p)
  <2>1. /\ At(p, "prompt", "plan") /\ UNCHANGED <<job, trace>>
        /\ work' = [work EXCEPT ![p].plan = PlanOf(held[p])]
    BY <1>9 DEF WritePrompt
  <2>2. job[p] = "implement"
    BY <2>1, AtStep, Implements DEF StepPoints
  <2>3. /\ work' = [q \in Procs |-> work'[q]]
        /\ work'[p] = [work[p] EXCEPT !.plan = PlanOf(held[p])]
        /\ \A q \in Procs \ {p} : work'[q] = work[q]
    BY <1>0, <2>1
  <2>4. work'[p] = [work[p] EXCEPT !.plan = work'[p].plan]
    BY <1>0, <2>3 DEF Typed
  <2> QED
    BY <2>1, <2>2, <2>3, <2>4, BodyGoesOn DEF StepPoints
<1>10. CASE StampPlan(p)
  <2>1. Exit(p) /\ work' = [work EXCEPT ![p] = NoWork] /\ trace' = trace
    BY <1>10 DEF StampPlan
  <2>2. Typed'
    BY <1>0, <2>1, ExitStep DEF Typed, NoWork
  <2> QED
    BY <2>1, <2>2, EndInv
<1> QED
  BY <1>3, <1>4, <1>5, <1>6, <1>7, <1>8, <1>9, <1>10 DEF BodyStep

LEMMA ImplementInv == ASSUME IInv, NEW p \in Procs, Implement(p) PROVE IInv'
<1> PICK w \in Plans, scaffold \in {"no", "works", "throws"}, validate \in BOOLEAN :
      /\ trace[w] = NoTrace /\ \A q \in Procs : Flow(q) # w
      /\ Begin(p, "implement", NoRun, "open")
      /\ work' = [work EXCEPT ![p] = [NoWork EXCEPT !.name = w, !.scaffold = scaffold,
                                         !.validate = validate]]
      /\ UNCHANGED <<planVars, trace, events>>
  BY DEF Implement
<1>0. Typed
  BY DEF IInv
<1>1. /\ work' = [q \in Procs |-> work'[q]] /\ \A q \in Procs \ {p} : work'[q] = work[q]
      /\ work'[p] = [name |-> w, scaffold |-> scaffold, validate |-> validate,
                     mine |-> NoTrace, plan |-> NoPlan]
  BY <1>0 DEF Typed, NoWork
<1>2. Typed'
  BY <1>0, <1>1, BeginStep DEF Typed
<1>3. Flow(p)' = w
  BY <1>1 DEF Flow
<1>4. Owner(p)' /\ Flowing(p)'
  BY <1>1, <1>3, BeginStep
    DEF Owner, Flowing, Stage, Flow, EnginePoints, StepPoints, CoderPoints
<1> QED
  BY <1>1, <1>2, <1>3, <1>4, BeginStep, OneProcessStep

------------------------------------------------------------------------------
(* The moves of the engine.                                                *)

\* A process keeps t of its workflow; "written" is what it writes of it.
LEMMA KeepInv ==
  ASSUME IInv, NEW p \in Procs, NEW here \in EnginePoints \cup StepPoints,
         NEW next \in EnginePoints \cup StepPoints, At(p, here, next), job' = job,
         NEW t, work' = [work EXCEPT ![p].mine = t], NEW written,
         trace' = [trace EXCEPT ![Flow(p)] = written],
         Stage(next, t, written)
  PROVE  IInv'
<1>0. Typed /\ job[p] = "implement" /\ Flow(p) \in Plans
  BY AtStep, Implements DEF IInv
<1>1. /\ work' = [q \in Procs |-> work'[q]] /\ \A q \in Procs \ {p} : work'[q] = work[q]
      /\ work'[p] = [name |-> work[p].name, scaffold |-> work[p].scaffold,
                     validate |-> work[p].validate, mine |-> t, plan |-> work[p].plan]
  BY <1>0 DEF Typed
<1>2. /\ trace' = [w \in Plans |-> trace'[w]] /\ trace'[Flow(p)] = written
      /\ \A w \in Plans : w # Flow(p) => trace'[w] = trace[w]
  BY <1>0 DEF Typed
<1>3. Typed'
  BY <1>0, <1>1, <1>2, AtStep DEF Typed
<1>4. Flow(p)' = Flow(p) /\ work'[p].mine = t
  BY <1>1 DEF Flow
<1>5. Owner(p)'
  BY <1>0, <1>4, AtStep DEF Owner
<1>6. Flowing(p)'
  BY <1>2, <1>4, AtStep DEF Flowing
<1> QED
  BY <1>1, <1>2, <1>3, <1>4, <1>5, <1>6, AtStep, OneProcessStep
(* What a move starts from and what it makes of the trace.                 *)
Holds(p, point) ==
  pc[p] = point /\ job[p] = "implement" /\ Flow(p) \in Plans /\ Typed
  /\ Stage(pc[p], work[p].mine, trace[Flow(p)])

LEMMA AtPoint ==
  ASSUME IInv, NEW p \in Procs, NEW point \in EnginePoints \cup StepPoints, pc[p] = point
  PROVE  Holds(p, point)
BY Implements DEF Holds, IInv, Flowing

LEMMA MarkedWithin ==
  ASSUME NEW t, NEW from, Within(t, from), NEW status \in StepStatus, NEW name
  PROVE  /\ Within(Marked(t, status, name), status)
         /\ status \in {"succeeded", "skipped"} => Between(Marked(t, status, name))
<1> DEFINE m == Marked(t, status, name)
<1>1. /\ IsTrace(m) /\ m.status = "running" /\ m.steps # <<>> /\ Len(m.steps) = Len(t.steps)
      /\ m.steps[Len(m.steps)].status = status
      /\ \A i \in 1..(Len(t.steps) - 1) : m.steps[i] = t.steps[i]
  BY MarkedTrace DEF Within
<1> HIDE DEF m
<1>2. SettledTo(m, Len(m.steps) - 1)
  BY <1>1 DEF Within, SettledTo
<1>3. Within(m, status)
  BY <1>1, <1>2 DEF Within
<1>4. ASSUME status \in {"succeeded", "skipped"} PROVE Between(m)
  <2>1. Len(m.steps) \in Nat
    BY <1>1, Statuses
  <2>2. SettledTo(m, Len(m.steps))
    BY <1>1, <1>2, <1>4, <2>1 DEF SettledTo
  <2> QED
    BY <1>1, <2>2 DEF Between
<1> QED
  BY <1>3, <1>4 DEF m

LEMMA PushedWithin ==
  ASSUME NEW t, Between(t), NEW e, e.status = "pending", NEW m, m = Pushed(t, e)
  PROVE  Within(m, "pending")
<1>0. IsTrace(t) /\ t.status = "running"
  BY DEF Between
<1>1. /\ IsTrace(m) /\ m.status = t.status /\ m.steps # <<>>
      /\ Len(m.steps) = Len(t.steps) + 1 /\ m.steps[Len(m.steps)].status = "pending"
      /\ \A i \in 1..Len(t.steps) : m.steps[i] = t.steps[i]
  BY <1>0, PushedTrace
<1>2. Len(t.steps) \in Nat
  BY Statuses DEF Between
<1> QED
  BY <1>0, <1>1, <1>2 DEF Within, Between, SettledTo

\* What is written of a trace whose file is left alone.
LEMMA Unwritten ==
  ASSUME Typed, NEW w \in Plans, trace' = trace
  PROVE  trace' = [trace EXCEPT ![w] = trace[w]]
BY DEF Typed

LEMMA OpenInv == ASSUME IInv, NEW p \in Procs, Open(p) PROVE IInv'
<1> DEFINE t == [status |-> "running", steps |-> <<>>]
<1>1. At(p, "open", "opened") /\ job' = job /\ trace' = trace /\ work' = [work EXCEPT ![p].mine = t]
  BY DEF Open, SetTrace
<1>2. Holds(p, "open")
  BY <1>1, AtStep, AtPoint DEF EnginePoints
<1>3. trace[Flow(p)] = NoTrace /\ trace' = [trace EXCEPT ![Flow(p)] = trace[Flow(p)]]
  BY <1>1, <1>2, Unwritten DEF Holds, Stage
<1>4. Stage("opened", t, trace[Flow(p)])
  BY <1>3 DEF Stage, StepPoints, CoderPoints
<1> HIDE DEF t
<1> QED
  BY <1>1, <1>3, <1>4, KeepInv DEF EnginePoints

LEMMA EmptyIsBetween ==
  /\ IsTrace([status |-> "running", steps |-> <<>>])
  /\ Between([status |-> "running", steps |-> <<>>])
<1>1. <<>> \in Seq({})
  OBVIOUS
<1> QED
  BY <1>1 DEF IsTrace, Between, SettledTo

LEMMA PersistInv == ASSUME IInv, NEW p \in Procs, Persist(p) PROVE IInv'
<1> DEFINE t == work[p].mine
<1> PICK move \in {<<"opened", "next">>, <<"skipping", "next">>, <<"starting", "body">>,
                   <<"completing", "next">>} :
      At(p, move[1], move[2]) /\ job' = job /\ work' = work /\ trace' = [trace EXCEPT ![Flow(p)] = t]
  BY DEF Persist
<1>1. Holds(p, move[1])
  BY AtStep, AtPoint DEF EnginePoints
<1>2. work' = [work EXCEPT ![p].mine = t]
  BY <1>1 DEF Holds, Typed
<1>3. move[2] = "next" => Between(t)
  <2>1. CASE move[1] = "opened"
    BY <1>1, <2>1, EmptyIsBetween DEF Holds, Stage
  <2>2. CASE move[1] \in {"skipping", "completing"}
    BY <1>1, <2>2, MarkedWithin DEF Holds, Stage, StepStatus
  <2> QED
    BY <2>1, <2>2
<1>4. move[2] = "body" => Within(t, "running")
  BY <1>1, MarkedWithin DEF Holds, Stage, StepStatus
<1> HIDE DEF t
<1>5. Stage(move[2], t, t)
  BY <1>3, <1>4 DEF Stage, StepPoints, CoderPoints
<1>6. move[1] \in EnginePoints /\ move[2] \in EnginePoints \cup StepPoints
  BY DEF EnginePoints, StepPoints
<1> QED
  BY <1>2, <1>5, <1>6, KeepInv

LEMMA PushInv == ASSUME IInv, NEW p \in Procs, Push(p) PROVE IInv'
<1> PICK e, t :
      /\ e = [status |-> "pending", names |-> "none"]
      /\ t = Pushed(work[p].mine, e)
      /\ At(p, "next", "decide") /\ job' = job
      /\ work' = [work EXCEPT ![p].mine = t] /\ trace' = [trace EXCEPT ![Flow(p)] = t]
  BY DEF Push, Write, SetTrace, Pushed
<1>1. Holds(p, "next") /\ e.status = "pending"
  BY AtStep, AtPoint DEF EnginePoints
<1>2. Between(work[p].mine)
  BY <1>1 DEF Holds, Stage
<1>3. Within(t, "pending")
  BY <1>1, <1>2, PushedWithin
<1>4. Stage("decide", t, t)
  BY <1>3 DEF Stage, StepPoints, CoderPoints
<1> QED
  BY <1>4, KeepInv DEF EnginePoints

LEMMA DecideInv == ASSUME IInv, NEW p \in Procs, Skip(p) \/ Start(p) PROVE IInv'
<1>1. ASSUME NEW next \in {"skipping", "starting"}, NEW status,
             next = "skipping" => status = "skipped", next = "starting" => status = "running",
             At(p, "decide", next), job' = job, trace' = trace,
             work' = [work EXCEPT ![p].mine = Marked(work[p].mine, status, "none")]
      PROVE  IInv'
  <2>1. Holds(p, "decide")
    BY <1>1, AtStep, AtPoint DEF EnginePoints
  <2>2. /\ Within(trace[Flow(p)], "pending") /\ work[p].mine = trace[Flow(p)]
        /\ trace' = [trace EXCEPT ![Flow(p)] = trace[Flow(p)]]
    BY <1>1, <2>1, Unwritten DEF Holds, Stage
  <2>3. Stage(next, Marked(work[p].mine, status, "none"), trace[Flow(p)])
    BY <1>1, <2>2 DEF Stage, StepPoints, CoderPoints
  <2> QED
    BY <1>1, <2>2, <2>3, KeepInv DEF EnginePoints
<1> QED
  BY <1>1 DEF Skip, Start, SetTrace

LEMMA CompleteInv == ASSUME IInv, NEW p \in Procs, Complete(p) PROVE IInv'
<1> PICK name : /\ At(p, "done", "completing") /\ job' = job /\ trace' = trace
                /\ work' = [work EXCEPT ![p].mine = Marked(work[p].mine, "succeeded", name)]
  BY DEF Complete, SetTrace
<1>1. Holds(p, "done")
  BY AtStep, AtPoint DEF StepPoints
<1>2. /\ Within(trace[Flow(p)], "running") /\ work[p].mine = trace[Flow(p)]
      /\ trace' = [trace EXCEPT ![Flow(p)] = trace[Flow(p)]]
  BY <1>1, Unwritten DEF Holds, Stage, StepPoints
<1>3. Stage("completing", Marked(work[p].mine, "succeeded", name), trace[Flow(p)])
  BY <1>2 DEF Stage, StepPoints, CoderPoints
<1> QED
  BY <1>2, <1>3, KeepInv DEF EnginePoints, StepPoints

LEMMA CatchInv == ASSUME IInv, NEW p \in Procs, Catch(p) PROVE IInv'
<1>1. /\ At(p, "threw", "failing") /\ job' = job /\ trace' = trace
      /\ work' = [work EXCEPT ![p].mine = Failed(work[p].mine)]
  BY DEF Catch, SetTrace, Failed
<1>2. Holds(p, "threw")
  BY <1>1, AtStep, AtPoint DEF StepPoints
<1>3. /\ Within(trace[Flow(p)], "running") /\ work[p].mine = trace[Flow(p)]
      /\ trace' = [trace EXCEPT ![Flow(p)] = trace[Flow(p)]]
  BY <1>1, <1>2, Unwritten DEF Holds, Stage, StepPoints
<1>4. Stage("failing", Failed(work[p].mine), trace[Flow(p)])
  BY <1>3 DEF Stage, StepPoints, CoderPoints
<1> QED
  BY <1>1, <1>3, <1>4, KeepInv DEF EnginePoints, StepPoints

LEMMA RethrowInv == ASSUME IInv, NEW p \in Procs, Rethrow(p) PROVE IInv'
<1>1. /\ pc[p] = "failing" /\ trace' = [trace EXCEPT ![Flow(p)] = work[p].mine]
      /\ Exit(p) /\ work' = [work EXCEPT ![p] = NoWork]
  BY DEF Rethrow
<1>2. Holds(p, "failing")
  BY <1>1, AtPoint DEF EnginePoints
<1>3. Typed' /\ \A w \in Plans : w # Flow(p) => trace'[w] = trace[w]
  BY <1>1, <1>2, ExitStep DEF Holds, Typed, NoWork
<1> QED
  BY <1>1, <1>3, EndInv

LEMMA CloseInv == ASSUME IInv, NEW p \in Procs, Close(p) \/ Announce(p) PROVE IInv'
<1>1. CASE Close(p)
  <2> DEFINE t == [work[p].mine EXCEPT !.status = "succeeded"]
  <2>1. /\ At(p, "next", "closed") /\ job' = job
        /\ work' = [work EXCEPT ![p].mine = t] /\ trace' = [trace EXCEPT ![Flow(p)] = t]
    BY <1>1 DEF Close, Write, SetTrace
  <2> HIDE DEF t
  <2>2. Stage("closed", t, t)
    BY DEF Stage, StepPoints, CoderPoints
  <2> QED
    BY <2>1, <2>2, KeepInv DEF EnginePoints
<1>2. CASE Announce(p)
  <2>1. At(p, "closed", "stamp") /\ job' = job /\ trace' = trace /\ work' = work
    BY <1>2 DEF Announce
  <2>2. Holds(p, "closed")
    BY <2>1, AtStep, AtPoint DEF EnginePoints
  <2>3. /\ trace' = [trace EXCEPT ![Flow(p)] = trace[Flow(p)]]
        /\ work' = [work EXCEPT ![p].mine = work[p].mine]
    BY <2>1, <2>2, Unwritten DEF Holds, Typed
  <2>4. Stage("stamp", work[p].mine, trace[Flow(p)])
    BY DEF Stage, StepPoints, CoderPoints
  <2> QED
    BY <2>1, <2>3, <2>4, KeepInv DEF EnginePoints
<1> QED
  BY <1>1, <1>2

LEMMA IInvStep == IInv /\ [Next]_vars => IInv'
<1> SUFFICES ASSUME IInv, [Next]_vars PROVE IInv'
  OBVIOUS
<1>1. ASSUME NEW p \in Procs, EngineStep(p) PROVE IInv'
  BY <1>1, ImplementInv, OpenInv, PersistInv, PushInv, DecideInv, CompleteInv, CatchInv,
     RethrowInv, CloseInv DEF EngineStep
<1>2. CASE UNCHANGED vars
  BY <1>2 DEF vars, coderVars, flowVars, IInv, Typed, OneEach, Owner, Flowing, Stage, Flow
<1> QED
  BY <1>1, <1>2, CoderStepInv, BodyStepInv, KillInv DEF Next
------------------------------------------------------------------------------
(* Every write of a trace file is a move of WorkflowTrace.                 *)

\* The variables of WorkflowTrace.
AStatus == [w \in Plans |-> trace[w].status]
ASteps == [w \in Plans |-> statusOf(trace[w])]

LEMMA Written ==
  ASSUME Typed, NEW w \in Plans, NEW t, trace' = [trace EXCEPT ![w] = t]
  PROVE  /\ AStatus' = [AStatus EXCEPT ![w] = t.status]
         /\ ASteps' = [ASteps EXCEPT ![w] = statusOf(t)]
         /\ t.status = trace[w].status => AStatus' = AStatus
         /\ statusOf(t) = statusOf(trace[w]) => ASteps' = ASteps
<1>1. \A v \in Plans : trace'[v] = IF v = w THEN t ELSE trace[v]
  BY DEF Typed
<1>2. \A v \in Plans : trace'[v].status = IF v = w THEN t.status ELSE trace[v].status
  BY <1>1
<1>3. \A v \in Plans : statusOf(trace'[v]) = IF v = w THEN statusOf(t) ELSE statusOf(trace[v])
  <2> TAKE v \in Plans
  <2>1. CASE v = w
    BY <1>1, <2>1 DEF statusOf
  <2>2. CASE v # w
    <3>1. trace'[v] = trace[v]
      BY <1>1, <2>2
    <3> QED
      BY <2>2, <3>1 DEF statusOf
  <2> QED
    BY <2>1, <2>2
<1>4. AStatus' = [v \in Plans |-> trace'[v].status] /\ ASteps' = [v \in Plans |-> statusOf(trace'[v])]
  BY Zenon DEF AStatus, ASteps, statusOf
<1>5. AStatus' = [v \in Plans |-> IF v = w THEN t.status ELSE trace[v].status]
  BY <1>2, <1>4
<1>6. ASteps' = [v \in Plans |-> IF v = w THEN statusOf(t) ELSE statusOf(trace[v])]
  BY <1>3, <1>4
<1>7. AStatus' = [AStatus EXCEPT ![w] = t.status] /\ (t.status = trace[w].status => AStatus' = AStatus)
  BY <1>5 DEF AStatus
<1>8. ASteps' = [ASteps EXCEPT ![w] = statusOf(t)]
  BY <1>6 DEF ASteps
<1>9. statusOf(t) = statusOf(trace[w]) => ASteps' = ASteps
  BY <1>6 DEF ASteps
<1> QED
  BY <1>7, <1>8, <1>9

LEMMA BeginRefines ==
  ASSUME Typed, NEW w \in Plans, trace[w] = NoTrace, NEW t,
         t = [status |-> "running", steps |-> <<>>], trace' = [trace EXCEPT ![w] = t]
  PROVE  Abstract!Begin(w)
<1>1. statusOf(t) = statusOf(trace[w]) /\ trace[w].status = "none" /\ t.status = "running"
  BY DEF statusOf, NoTrace
<1>2. AStatus' = [AStatus EXCEPT ![w] = "running"] /\ ASteps' = ASteps /\ AStatus[w] = "none"
  BY <1>1, Written DEF AStatus
<1> QED
  BY <1>2 DEF Abstract!Begin, AStatus, ASteps

\* t is s with its last entry moved on.
Moved(s, t) ==
  \E from, to, name :
    /\ Within(s, from) /\ t = Marked(s, to, name)
    /\ \/ from = "pending" /\ to \in {"skipped", "running"}
       \/ from = "running" /\ to = "succeeded"

LEMMA MoveRefines ==
  ASSUME Typed, NEW w \in Plans, NEW t, Moved(trace[w], t), trace' = [trace EXCEPT ![w] = t]
  PROVE  Abstract!Move(w)
<1> PICK from, to, name :
      /\ Within(trace[w], from) /\ t = Marked(trace[w], to, name)
      /\ \/ from = "pending" /\ to \in {"skipped", "running"}
         \/ from = "running" /\ to = "succeeded"
  BY DEF Moved
<1> DEFINE st == statusOf(trace[w])
<1>1. to \in StepStatus
  BY DEF StepStatus
<1>2. statusOf(t) = [st EXCEPT ![Len(st)] = to] /\ t.status = trace[w].status
  BY <1>1, MarkedStatuses, MarkedTrace DEF Within
<1>3. st # <<>> /\ st[Len(st)] = from /\ trace[w].status = "running"
  BY Statuses DEF Within
<1> HIDE DEF st
<1>4. AStatus' = AStatus /\ ASteps' = [ASteps EXCEPT ![w] = statusOf(t)]
  BY <1>2, Written
<1>5. ASteps[w] = st /\ AStatus[w] = "running"
  BY <1>3 DEF ASteps, AStatus, st
<1>6. ASteps' = [ASteps EXCEPT ![w][Len(ASteps[w])] = to]
  BY <1>2, <1>4, <1>5
<1>7. Abstract!Last(w, from, to)
  BY <1>3, <1>5, <1>6 DEF Abstract!Last, ASteps
<1> QED
  BY <1>4, <1>5, <1>7 DEF Abstract!Move, AStatus

LEMMA FailRefines ==
  ASSUME Typed, NEW w \in Plans, Within(trace[w], "running"), NEW t, t = Failed(trace[w]),
         trace' = [trace EXCEPT ![w] = t]
  PROVE  Abstract!Fail(w)
<1> DEFINE m == Marked(trace[w], "failed", "none")
           st == statusOf(trace[w])
<1>1. statusOf(m) = [st EXCEPT ![Len(st)] = "failed"] /\ IsTrace(m)
  BY MarkedStatuses, MarkedTrace DEF Within, StepStatus
<1>2. st # <<>> /\ st[Len(st)] = "running" /\ trace[w].status = "running"
  BY Statuses DEF Within
<1>3. t = [m EXCEPT !.status = "failed"]
  BY DEF Failed
<1> HIDE DEF m, st
<1>4. t.status = "failed" /\ t.steps = m.steps
  BY <1>1, <1>3 DEF IsTrace
<1>5. statusOf(t) = [st EXCEPT ![Len(st)] = "failed"]
  BY <1>1, <1>4 DEF statusOf
<1>6. AStatus' = [AStatus EXCEPT ![w] = "failed"] /\ ASteps' = [ASteps EXCEPT ![w] = statusOf(t)]
  <2>1. AStatus' = [AStatus EXCEPT ![w] = t.status] /\ ASteps' = [ASteps EXCEPT ![w] = statusOf(t)]
    BY Written, Zenon
  <2> QED
    BY <1>4, <2>1
<1>7. ASteps[w] = st /\ AStatus[w] = "running"
  BY <1>2 DEF ASteps, AStatus, st
<1>8. ASteps' = [ASteps EXCEPT ![w][Len(ASteps[w])] = "failed"]
  BY <1>5, <1>6, <1>7
<1>9. Abstract!Last(w, "running", "failed")
  BY <1>2, <1>7, <1>8 DEF Abstract!Last, ASteps
<1> QED
  BY <1>6, <1>7, <1>9 DEF Abstract!Fail, AStatus

LEMMA SettledIsSettled ==
  ASSUME NEW w \in Plans, Between(trace[w])
  PROVE  Abstract!Settled(w) /\ AStatus[w] = "running" /\ Len(ASteps[w]) = Len(trace[w].steps)
BY Statuses DEF Between, SettledTo, Abstract!Settled, AStatus, ASteps

LEMMA PushRefines ==
  ASSUME Typed, NEW w \in Plans, Between(trace[w]), Len(trace[w].steps) < Len(Steps), NEW t,
         NEW e, e.status = "pending", t = Pushed(trace[w], e),
         trace' = [trace EXCEPT ![w] = t]
  PROVE  Abstract!List(w)
<1>1. IsTrace(trace[w])
  BY DEF Between
<1>2. statusOf(t) = Append(statusOf(trace[w]), "pending") /\ t.status = trace[w].status
  <2>1. statusOf(t) = Append(statusOf(trace[w]), "pending")
    BY <1>1, PushedStatuses, Zenon
  <2>2. t.status = trace[w].status
    BY <1>1, PushedTrace
  <2> QED
    BY <2>1, <2>2
<1>3. AStatus' = AStatus /\ ASteps' = [ASteps EXCEPT ![w] = statusOf(t)]
  BY <1>2, Written
<1>4. ASteps' = [ASteps EXCEPT ![w] = Append(ASteps[w], "pending")]
  BY <1>2, <1>3 DEF ASteps
<1> QED
  BY <1>3, <1>4, SettledIsSettled DEF Abstract!List, ASteps, AStatus

LEMMA CloseRefines ==
  ASSUME Typed, NEW w \in Plans, Between(trace[w]), Len(trace[w].steps) = Len(Steps), NEW t,
         t = [trace[w] EXCEPT !.status = "succeeded"], trace' = [trace EXCEPT ![w] = t]
  PROVE  Abstract!Close(w)
<1>1. t.status = "succeeded" /\ t.steps = trace[w].steps
  BY DEF Between, IsTrace
<1>2. statusOf(t) = statusOf(trace[w])
  BY <1>1 DEF statusOf
<1>3. AStatus' = [AStatus EXCEPT ![w] = "succeeded"] /\ ASteps' = ASteps
  <2>1. AStatus' = [AStatus EXCEPT ![w] = t.status] /\ ASteps' = ASteps
    BY <1>2, Written, Zenon
  <2> QED
    BY <1>1, <2>1
<1> QED
  BY <1>3, SettledIsSettled DEF Abstract!Close, AStatus, ASteps

LEMMA StepRefines ==
  ASSUME IInv, [Next]_vars
  PROVE  [Abstract!Next]_<<AStatus, ASteps>>
<1>0. Typed
  BY DEF IInv
<1>1. CASE trace' = trace
  BY <1>1 DEF AStatus, ASteps, statusOf
<1>2. ASSUME NEW p \in Procs, Persist(p) PROVE Abstract!Next
  <2> PICK move \in {<<"opened", "next">>, <<"skipping", "next">>, <<"starting", "body">>,
                     <<"completing", "next">>} :
        At(p, move[1], move[2]) /\ trace' = [trace EXCEPT ![Flow(p)] = work[p].mine]
    BY <1>2 DEF Persist
  <2>1. Holds(p, move[1])
    BY AtStep, AtPoint DEF EnginePoints
  <2> PICK w \in Plans : w = Flow(p)
    BY <2>1 DEF Holds
  <2> PICK t : t = work[p].mine
    OBVIOUS
  <2>2. Stage(move[1], t, trace[w]) /\ trace' = [trace EXCEPT ![w] = t]
    BY <2>1 DEF Holds
  <2>3. CASE move[1] = "opened"
    <3>1. trace[w] = NoTrace /\ t = [status |-> "running", steps |-> <<>>]
      BY <2>2, <2>3 DEF Stage
    <3>2. Abstract!Begin(w)
      BY <1>0, <2>2, <3>1, BeginRefines
    <3> QED
      BY <3>2 DEF Abstract!Next
  <2>4. CASE move[1] \in {"skipping", "starting", "completing"}
    <3>1. Moved(trace[w], t)
      BY <2>2, <2>4 DEF Stage, Moved
    <3>2. Abstract!Move(w)
      BY <1>0, <2>2, <3>1, MoveRefines
    <3> QED
      BY <3>2 DEF Abstract!Next
  <2> QED
    BY <2>3, <2>4
<1>3. ASSUME NEW p \in Procs, Push(p) PROVE Abstract!Next
  <2>1. Holds(p, "next") /\ Len(Entries(p)) < Len(Steps)
    BY <1>3, AtStep, AtPoint DEF Push, EnginePoints
  <2> PICK w \in Plans : w = Flow(p)
    BY <2>1 DEF Holds
  <2> PICK e, t :
        /\ e = [status |-> "pending", names |-> "none"]
        /\ t = Pushed(work[p].mine, e) /\ trace' = [trace EXCEPT ![w] = t]
    BY <1>3, <2>1 DEF Push, Write, Holds, Pushed
  <2>2. Between(trace[w]) /\ work[p].mine = trace[w]
    BY <2>1 DEF Holds, Stage
  <2>3. e.status = "pending" /\ Len(trace[w].steps) < Len(Steps)
    BY <2>1, <2>2 DEF Entries
  <2>4. t = Pushed(trace[w], e)
    BY <2>2
  <2>5. Abstract!List(w)
    BY <1>0, <2>2, <2>3, <2>4, PushRefines, Zenon
  <2> QED
    BY <2>5 DEF Abstract!Next
<1>4. ASSUME NEW p \in Procs, Rethrow(p) PROVE Abstract!Next
  <2>1. Holds(p, "failing")
    BY <1>4, AtPoint DEF Rethrow, EnginePoints
  <2> PICK w \in Plans : w = Flow(p)
    BY <2>1 DEF Holds
  <2> PICK t : t = work[p].mine /\ trace' = [trace EXCEPT ![w] = t]
    BY <1>4, <2>1 DEF Rethrow, Holds
  <2>2. Within(trace[w], "running") /\ t = Failed(trace[w])
    BY <2>1 DEF Holds, Stage
  <2>3. Abstract!Fail(w)
    BY <1>0, <2>2, FailRefines
  <2> QED
    BY <2>3 DEF Abstract!Next
<1>5. ASSUME NEW p \in Procs, Close(p) PROVE Abstract!Next
  <2>1. Holds(p, "next") /\ Len(Entries(p)) = Len(Steps)
    BY <1>5, AtStep, AtPoint DEF Close, EnginePoints
  <2> PICK w \in Plans : w = Flow(p)
    BY <2>1 DEF Holds
  <2> PICK t :
        /\ t = [work[p].mine EXCEPT !.status = "succeeded"]
        /\ trace' = [trace EXCEPT ![w] = t]
    BY <1>5, <2>1 DEF Close, Write, Holds
  <2>2. Between(trace[w]) /\ work[p].mine = trace[w]
    BY <2>1 DEF Holds, Stage
  <2>3. Abstract!Close(w)
    BY <1>0, <2>1, <2>2, CloseRefines DEF Entries
  <2> QED
    BY <2>3 DEF Abstract!Next
<1>6. ASSUME NEW p \in Procs, EngineStep(p) PROVE trace' = trace \/ Abstract!Next
  BY <1>2, <1>3, <1>4, <1>5, <1>6 DEF EngineStep, Implement, Open, Skip, Start, Complete, Catch, Announce
<1>7. ASSUME NEW p \in Procs, BodyStep(p) PROVE trace' = trace
  BY <1>7 DEF BodyStep, Report, runScaffold, createCoderRun, executeValidationRound, StepSaved,
              RoundSaved, Reload, writePlanArtifacts, WriteContext, WritePrompt, savePlan,
              RegisterPlan, IndexPlan, writeLatestPlanPointer, RememberPlan, StampPlan, flowVars
<1>8. CASE UNCHANGED vars
  BY <1>1, <1>8 DEF vars, flowVars
<1> QED
  BY <1>1, <1>6, <1>7, <1>8 DEF Next, KillAny, flowVars

\* The trace file of a workflow, as any reader sees it while commands overlap and
\* die, moves only as WorkflowTrace says: steps are listed in their order, only a
\* running step ends, nothing is listed behind a step that did not end well, and
\* a trace that is over stays as it is.
THEOREM ImplementsTrace == Spec => TraceRefines
<1>1. Init => Abstract!Init
  BY DEF Init, Abstract!Init, NoTrace, statusOf
<1>2. IInv /\ [Next]_vars => [Abstract!Next]_<<AStatus, ASteps>>
  BY StepRefines
<1> QED
  BY <1>1, <1>2, InitInv, IInvStep, PTL DEF Spec, TraceRefines, Abstract!Spec, AStatus, ASteps
------------------------------------------------------------------------------
(* The event log.  An event is added before the trace file is written, so   *)
(* between the two the process remembers which: Heard.                      *)

\* The event that announces a step's status.
Announced(status, i, es) ==
  CASE status = "skipped"   -> <<"skipped", i>> \in es
    [] status = "running"   -> <<"step-started", i>> \in es
    [] status = "succeeded" -> <<"completed", i>> \in es
    [] status = "failed"    -> <<"failed", i>> \in es
    [] OTHER -> TRUE

Agrees(t, es) ==
  /\ t.status # "none" => <<"started", 0>> \in es
  /\ <<"workflow-completed", 0>> \in es => t.status = "succeeded"
  /\ \A i \in DOMAIN t.steps : Announced(t.steps[i].status, i, es)
  /\ \A e \in es : e[1] \in {"completed", "failed"} =>
       e[2] \in DOMAIN t.steps /\ t.steps[e[2]].status # "pending"

HeardAt(point, n, written, es) ==
  /\ point = "opened" => <<"started", 0>> \in es
  /\ point = "skipping" => <<"skipped", n>> \in es
  /\ point = "starting" => <<"step-started", n>> \in es
  /\ point = "completing" => <<"completed", n>> \in es
  /\ point = "failing" => <<"failed", n>> \in es
  /\ point = "closed" => written.status = "succeeded"

Heard(p) ==
  job[p] = "implement" =>
    HeardAt(pc[p], Len(Entries(p)), trace[Flow(p)], events[Flow(p)])

EventsInv ==
  /\ events = [w \in Plans |-> events[w]]
  /\ \A w \in Plans : Agrees(trace[w], events[w])
  /\ \A p \in Procs : Heard(p)

\* A trace moves on by entries that are announced and by new ones.
LEMMA TraceMoves ==
  ASSUME NEW t, NEW m, NEW es, Agrees(t, es), IsTrace(t), IsTrace(m), t.status # "succeeded",
         <<"started", 0>> \in es, Len(t.steps) <= Len(m.steps),
         \A i \in 1..Len(m.steps) :
           \/ i <= Len(t.steps) /\ m.steps[i].status = t.steps[i].status
           \/ i <= Len(t.steps) /\ m.steps[i].status # "pending"
                /\ Announced(m.steps[i].status, i, es)
           \/ i > Len(t.steps) /\ m.steps[i].status = "pending"
  PROVE  Agrees(m, es)
<1>1. /\ DOMAIN t.steps = 1..Len(t.steps) /\ DOMAIN m.steps = 1..Len(m.steps)
      /\ Len(t.steps) \in Nat /\ Len(m.steps) \in Nat
  BY DEF IsTrace
<1>2. ASSUME NEW i \in 1..Len(m.steps)  PROVE Announced(m.steps[i].status, i, es)
  <2>1. CASE i <= Len(t.steps) /\ m.steps[i].status = t.steps[i].status
    <3>1. i \in 1..Len(t.steps)
      BY <1>1, <2>1
    <3> QED  BY <1>1, <2>1, <3>1 DEF Agrees
  <2>2. CASE m.steps[i].status = "pending"
    BY <2>2 DEF Announced
  <2> QED  BY <2>1, <2>2
<1>3. ASSUME NEW e \in es, e[1] \in {"completed", "failed"}
      PROVE  e[2] \in 1..Len(m.steps) /\ m.steps[e[2]].status # "pending"
  <2>1. e[2] \in 1..Len(t.steps) /\ t.steps[e[2]].status # "pending"
    BY <1>1, <1>3 DEF Agrees
  <2>2. e[2] \in 1..Len(m.steps) /\ ~(e[2] > Len(t.steps))
    BY <1>1, <2>1
  <2> QED  BY <2>1, <2>2
<1> QED  BY <1>1, <1>2, <1>3 DEF Agrees

\* The last entry moves on.
LEMMA MarkAgrees ==
  ASSUME NEW t, NEW from, Within(t, from), NEW es, Agrees(t, es),
         NEW status \in StepStatus \ {"pending"}, NEW name, Announced(status, Len(t.steps), es)
  PROVE  Agrees(Marked(t, status, name), es)
<1> DEFINE m == Marked(t, status, name)
<1>1. /\ IsTrace(t) /\ t.status = "running" /\ IsTrace(m) /\ Len(m.steps) = Len(t.steps)
      /\ m.steps[Len(t.steps)].status = status
      /\ \A i \in 1..(Len(t.steps) - 1) : m.steps[i] = t.steps[i]
  BY MarkedTrace DEF Within
<1>2. Len(t.steps) \in Nat /\ <<"started", 0>> \in es
  BY <1>1, Statuses DEF Agrees
<1> HIDE DEF m
<1>3. \A i \in 1..Len(m.steps) : i = Len(t.steps) \/ (i \in 1..(Len(t.steps) - 1) /\ i <= Len(t.steps))
  BY <1>1, <1>2
<1>4. ASSUME NEW i \in 1..Len(m.steps)
      PROVE  \/ i <= Len(t.steps) /\ m.steps[i].status = t.steps[i].status
             \/ i <= Len(t.steps) /\ m.steps[i].status # "pending"
                  /\ Announced(m.steps[i].status, i, es)
  <2>1. CASE i = Len(t.steps)
    BY <1>1, <1>2, <2>1
  <2>2. CASE i \in 1..(Len(t.steps) - 1) /\ i <= Len(t.steps)
    BY <1>1, <2>2
  <2> QED  BY <1>3, <2>1, <2>2
<1>5. Agrees(m, es)
  BY <1>1, <1>2, <1>4, TraceMoves
<1> QED  BY <1>5 DEF m

\* A step that failed ends its workflow.
LEMMA FailedTrace ==
  ASSUME NEW t, Within(t, "running")
  PROVE  /\ IsTrace(Failed(t)) /\ Failed(t).status = "failed"
         /\ Failed(t).steps = Marked(t, "failed", "none").steps
         /\ Len(Failed(t).steps) = Len(t.steps)
<1> DEFINE m == Marked(t, "failed", "none")
<1>1. IsTrace(m) /\ Len(m.steps) = Len(t.steps)
  BY MarkedTrace DEF Within, StepStatus
<1>2. Failed(t) = [m EXCEPT !.status = "failed"]
  BY DEF Failed
<1> HIDE DEF m
<1>3. Failed(t) = [status |-> "failed", steps |-> m.steps]
  BY <1>1, <1>2 DEF IsTrace
<1>4. Failed(t).status = "failed" /\ Failed(t).steps = m.steps
  BY <1>3
<1>5. IsTrace(Failed(t))
  BY <1>1, <1>3, <1>4 DEF IsTrace
<1> QED  BY <1>1, <1>4, <1>5 DEF m

\* An event that ends no step and no workflow may be added at any time, and one
\* that ends a step while the file has it running.
LEMMA EmitAgrees ==
  ASSUME NEW t, NEW es, Agrees(t, es), NEW type, NEW n,
         type \in {"completed", "failed"} => n \in DOMAIN t.steps /\ t.steps[n].status # "pending",
         type = "workflow-completed" => t.status = "succeeded"
  PROVE  Agrees(t, es \cup {<<type, n>>})
<1> DEFINE e == <<type, n>>
<1>1. e[1] = type /\ e[2] = n
  OBVIOUS
<1>2. <<"workflow-completed", 0>> = e => type = "workflow-completed"
  OBVIOUS
<1>3. \A i : \A status : Announced(status, i, es) => Announced(status, i, es \cup {e})
  BY DEF Announced
<1> HIDE DEF e
<1>4. Agrees(t, es \cup {e})
  BY <1>1, <1>2, <1>3 DEF Agrees
<1> QED  BY <1>4 DEF e

\* Where what was announced is not written yet, or what is written not announced.
Announcing == {"opened", "skipping", "starting", "completing", "failing", "closed"}

\* A step of the engine, as in KeepInv, which leaves es in the log.
LEMMA EventsKept ==
  ASSUME IInv, EventsInv, NEW p \in Procs, NEW here \in EnginePoints \cup StepPoints,
         NEW next, At(p, here, next), job' = job,
         NEW t, work' = [work EXCEPT ![p].mine = t], NEW written,
         trace' = [trace EXCEPT ![Flow(p)] = written],
         NEW es, events' = [events EXCEPT ![Flow(p)] = es],
         Agrees(written, es), HeardAt(next, Len(t.steps), written, es)
  PROVE  EventsInv'
<1>0. Typed /\ job[p] = "implement" /\ Flow(p) \in Plans /\ events = [w \in Plans |-> events[w]]
  BY AtStep, Implements DEF IInv, EventsInv
<1>1. /\ \A q \in Procs \ {p} : work'[q] = work[q]
      /\ Flow(p)' = Flow(p) /\ Entries(p)' = t.steps
  BY <1>0 DEF Typed, Flow, Entries
<1>2. /\ trace'[Flow(p)] = written /\ events'[Flow(p)] = es
      /\ events' = [w \in Plans |-> events'[w]]
      /\ \A w \in Plans : w # Flow(p) => trace'[w] = trace[w] /\ events'[w] = events[w]
  BY <1>0 DEF Typed
<1>3. ASSUME NEW w \in Plans  PROVE Agrees(trace'[w], events'[w])
  BY <1>2 DEF EventsInv
<1>4. Heard(p)'
  BY <1>1, <1>2, AtStep DEF Heard
<1>5. ASSUME NEW q \in Procs \ {p}  PROVE Heard(q)'
  <2>1. pc'[q] = pc[q] /\ job'[q] = job[q] /\ Flow(q)' = Flow(q) /\ Entries(q)' = Entries(q)
    BY <1>1, AtStep DEF Flow, Entries
  <2>2. job[q] = "implement" => Flow(q) \in Plans /\ Flow(q) # Flow(p)
    BY <1>0 DEF IInv, Owner, OneEach
  <2>3. Heard(q)
    BY DEF EventsInv
  <2> QED  BY <1>2, <2>1, <2>2, <2>3 DEF Heard
<1> QED  BY <1>2, <1>3, <1>4, <1>5 DEF EventsInv

\* The file gets what the process keeps, and the log stays.
LEMMA EventsWritten ==
  ASSUME IInv, EventsInv, NEW p \in Procs, NEW here \in EnginePoints, NEW next, At(p, here, next),
         job' = job, events' = events,
         NEW t, work' = [work EXCEPT ![p].mine = t], trace' = [trace EXCEPT ![Flow(p)] = t],
         Agrees(t, events[Flow(p)]),
         next = "closed" => t.status = "succeeded", next \notin Announcing \ {"closed"}
  PROVE  EventsInv'
<1> PICK es : es = events[Flow(p)]
  OBVIOUS
<1>1. events' = [events EXCEPT ![Flow(p)] = es] /\ Agrees(t, es)
  BY DEF EventsInv
<1> PICK n : n = Len(t.steps)
  OBVIOUS
<1>2. HeardAt(next, n, t, es)
  BY DEF HeardAt, Announcing
<1> QED  BY <1>1, <1>2, EventsKept

\* A step that announces nothing and writes no trace.
LEMMA QuietStep ==
  ASSUME EventsInv, NEW p \in Procs, UNCHANGED <<trace, events>>,
         \A q \in Procs \ {p} : pc'[q] = pc[q] /\ job'[q] = job[q] /\ work'[q] = work[q],
         pc'[p] \notin Announcing
  PROVE  EventsInv'
<1>1. Heard(p)'
  BY DEF Heard, HeardAt, Announcing
<1>2. ASSUME NEW q \in Procs \ {p}  PROVE Heard(q)'
  BY DEF EventsInv, Heard, Flow, Entries
<1> QED  BY <1>1, <1>2 DEF EventsInv

LEMMA QuietSteps ==
  ASSUME IInv, EventsInv, NEW p \in Procs,
         \/ CoderStep(p) /\ UNCHANGED flowVars
         \/ BodyStep(p) \/ KillAny(p) \/ Implement(p)
  PROVE  EventsInv'
<1>0. /\ work = [q \in Procs |-> work[q]] /\ job = [q \in Procs |-> job[q]]
  BY DEF IInv, Typed
<1>1. CASE CoderStep(p) /\ UNCHANGED flowVars
  BY <1>1, CoderMoves, QuietStep DEF Moves, flowVars, CoderPoints, Announcing
<1>2. CASE KillAny(p)
  BY <1>0, <1>2, ExitStep, QuietStep DEF KillAny, Kill, Announcing
<1>3. CASE Implement(p)
  <2>1. /\ UNCHANGED <<trace, events>> /\ \E rec, w : Begin(p, "implement", rec, "open") /\ work' = [work EXCEPT ![p] = w]
    BY <1>3 DEF Implement
  <2> QED  BY <1>0, <2>1, BeginStep, QuietStep DEF Announcing
<1>4. CASE BodyStep(p)
  <2>1. ASSUME NEW here, NEW next, next \notin Announcing, At(p, here, next), UNCHANGED <<job, trace, events>>,
               \A q \in Procs \ {p} : work'[q] = work[q]
        PROVE  EventsInv'
    BY <2>1, AtStep, QuietStep
  <2> USE DEF flowVars, planVars, Announcing
  <2>2. CASE Report(p) \/ runScaffold(p)
    BY <2>1, <2>2 DEF Report, runScaffold
  <2>3. CASE createCoderRun(p) \/ executeValidationRound(p) \/ StepSaved(p) \/ RoundSaved(p)
    BY <2>1, <2>3 DEF createCoderRun, executeValidationRound, StepSaved, RoundSaved, Reload
  <2>4. CASE writePlanArtifacts(p) \/ WriteContext(p) \/ savePlan(p) \/ RegisterPlan(p) \/ IndexPlan(p)
    BY <2>1, <2>4 DEF writePlanArtifacts, Reload, WriteContext, savePlan, RegisterPlan, IndexPlan, disk
  <2>5. CASE writeLatestPlanPointer(p) \/ RememberPlan(p) \/ WritePrompt(p)
    BY <1>0, <2>1, <2>5 DEF writeLatestPlanPointer, RememberPlan, WritePrompt, disk
  <2>6. CASE StampPlan(p)
    BY <1>0, <2>6, ExitStep, QuietStep DEF StampPlan
  <2> QED  BY <1>4, <2>2, <2>3, <2>4, <2>5, <2>6 DEF BodyStep
<1> QED  BY <1>1, <1>2, <1>3, <1>4

\* A move the process announces and does not write yet.
LEMMA AnnouncedMove ==
  ASSUME IInv, EventsInv, NEW p \in Procs, NEW here \in EnginePoints \cup StepPoints,
         NEW next \in Announcing \cup {"stamp"}, At(p, here, next), job' = job, trace' = trace,
         NEW t, work' = [work EXCEPT ![p].mine = t], NEW type, NEW n, Emit(p, type, n),
         type \in {"completed", "failed"} => Within(trace[Flow(p)], "running") /\ n = Len(trace[Flow(p)].steps),
         type = "workflow-completed" => trace[Flow(p)].status = "succeeded",
         HeardAt(next, Len(t.steps), trace[Flow(p)], events[Flow(p)] \cup {<<type, n>>})
  PROVE  EventsInv'
<1> DEFINE w == Flow(p)
           es == events[w] \cup {<<type, n>>}
<1>1. Typed /\ w \in Plans /\ Agrees(trace[w], events[w])
  BY AtStep, Implements DEF IInv, EventsInv
<1>2. trace' = [trace EXCEPT ![w] = trace[w]] /\ events' = [events EXCEPT ![w] = es]
  BY <1>1, Unwritten DEF Emit
<1>3. type \in {"completed", "failed"} =>
        n \in DOMAIN trace[w].steps /\ trace[w].steps[n].status # "pending"
  <2> SUFFICES ASSUME type \in {"completed", "failed"}
               PROVE  n \in DOMAIN trace[w].steps /\ trace[w].steps[n].status # "pending"
    OBVIOUS
  <2>1. IsTrace(trace[w]) /\ trace[w].steps # <<>> /\ n = Len(trace[w].steps) /\ trace[w].steps[n].status = "running"
    BY DEF Within
  <2> PICK Entry : trace[w].steps \in Seq(Entry)
    BY <2>1 DEF IsTrace
  <2> QED  BY <2>1
<1>4. Agrees(trace[w], es)
  BY <1>1, <1>3, EmitAgrees
<1> HIDE DEF w, es
<1>5. HeardAt(next, Len(t.steps), trace[w], es)
  BY DEF w, es
<1> QED  BY <1>2, <1>4, <1>5, EventsKept DEF w

LEMMA EngineEvents == ASSUME IInv, EventsInv, NEW p \in Procs, EngineStep(p) PROVE EventsInv'
<1> DEFINE w == Flow(p)
<1>0. Typed
  BY DEF IInv
<1>1. CASE Implement(p)
  BY <1>1, QuietSteps
<1>2. CASE Open(p)
  <2>1. /\ At(p, "open", "opened") /\ job' = job /\ trace' = trace /\ Emit(p, "started", 0)
        /\ work' = [work EXCEPT ![p].mine = [status |-> "running", steps |-> <<>>]]
    BY <1>2 DEF Open, SetTrace
  <2>2. HeardAt("opened", 0, trace[w], events[w] \cup {<<"started", 0>>})
    BY DEF HeardAt
  <2>3. Len([status |-> "running", steps |-> <<>>].steps) = 0
    OBVIOUS
  <2> QED  BY <2>1, <2>2, <2>3, AnnouncedMove DEF EnginePoints, Announcing
<1>3. CASE Skip(p)
  <2>1. /\ At(p, "decide", "skipping") /\ job' = job /\ trace' = trace
        /\ Emit(p, "skipped", Len(Entries(p)))
        /\ work' = [work EXCEPT ![p].mine = Marked(work[p].mine, "skipped", "none")]
    BY <1>3 DEF Skip, SetTrace
  <2>2. Holds(p, "decide")
    BY <2>1, AtStep, AtPoint DEF EnginePoints
  <2>3. Len(Marked(work[p].mine, "skipped", "none").steps) = Len(Entries(p))
    BY <2>2, MarkedTrace DEF Holds, Stage, Within, Entries, StepStatus
  <2>4. HeardAt("skipping", Len(Entries(p)), trace[w], events[w] \cup {<<"skipped", Len(Entries(p))>>})
    BY DEF HeardAt
  <2> QED  BY <2>1, <2>3, <2>4, AnnouncedMove DEF EnginePoints, Announcing
<1>4. CASE Start(p)
  <2>1. /\ At(p, "decide", "starting") /\ job' = job /\ trace' = trace
        /\ Emit(p, "step-started", Len(Entries(p)))
        /\ work' = [work EXCEPT ![p].mine = Marked(work[p].mine, "running", "none")]
    BY <1>4 DEF Start, SetTrace
  <2>2. Holds(p, "decide")
    BY <2>1, AtStep, AtPoint DEF EnginePoints
  <2>3. Len(Marked(work[p].mine, "running", "none").steps) = Len(Entries(p))
    BY <2>2, MarkedTrace DEF Holds, Stage, Within, Entries, StepStatus
  <2>4. HeardAt("starting", Len(Entries(p)), trace[w], events[w] \cup {<<"step-started", Len(Entries(p))>>})
    BY DEF HeardAt
  <2> QED  BY <2>1, <2>3, <2>4, AnnouncedMove DEF EnginePoints, Announcing
<1>5. CASE Complete(p)
  <2> PICK name :
        /\ At(p, "done", "completing") /\ job' = job /\ trace' = trace
        /\ Emit(p, "completed", Len(Entries(p)))
        /\ work' = [work EXCEPT ![p].mine = Marked(work[p].mine, "succeeded", name)]
    BY <1>5 DEF Complete, SetTrace
  <2>1. Holds(p, "done")
    BY AtStep, AtPoint DEF StepPoints
  <2>2. Within(trace[w], "running") /\ work[p].mine = trace[w]
    BY <2>1 DEF Holds, Stage, StepPoints
  <2>3. Len(Marked(work[p].mine, "succeeded", name).steps) = Len(Entries(p))
    BY <2>2, MarkedTrace DEF Within, Entries, StepStatus
  <2>4. HeardAt("completing", Len(Entries(p)), trace[w], events[w] \cup {<<"completed", Len(Entries(p))>>})
    BY DEF HeardAt
  <2> QED  BY <2>2, <2>3, <2>4, AnnouncedMove DEF StepPoints, Announcing, Entries
<1>6. CASE Catch(p)
  <2>1. /\ At(p, "threw", "failing") /\ job' = job /\ trace' = trace
        /\ Emit(p, "failed", Len(Entries(p)))
        /\ work' = [work EXCEPT ![p].mine = Failed(work[p].mine)]
    BY <1>6 DEF Catch, SetTrace, Failed
  <2>2. Holds(p, "threw")
    BY <2>1, AtStep, AtPoint DEF StepPoints
  <2>3. Within(trace[w], "running") /\ work[p].mine = trace[w]
    BY <2>2 DEF Holds, Stage, StepPoints
  <2>4. Len(Failed(work[p].mine).steps) = Len(Entries(p))
    BY <2>3, FailedTrace DEF Within, Entries
  <2>5. HeardAt("failing", Len(Entries(p)), trace[w], events[w] \cup {<<"failed", Len(Entries(p))>>})
    BY DEF HeardAt
  <2> QED  BY <2>1, <2>3, <2>4, <2>5, AnnouncedMove DEF StepPoints, Announcing, Entries
<1>7. CASE Announce(p)
  <2>1. /\ At(p, "closed", "stamp") /\ job' = job /\ trace' = trace
        /\ Emit(p, "workflow-completed", 0) /\ work' = work
    BY <1>7 DEF Announce
  <2>2. Holds(p, "closed")
    BY <2>1, AtStep, AtPoint DEF EnginePoints
  <2>3. trace[w].status = "succeeded" /\ work' = [work EXCEPT ![p].mine = work[p].mine]
    BY <2>1, <2>2 DEF Holds, Typed, EventsInv, Heard, HeardAt
  <2>4. HeardAt("stamp", Len(work[p].mine.steps), trace[w], events[w] \cup {<<"workflow-completed", 0>>})
    BY DEF HeardAt
  <2> QED  BY <2>1, <2>3, <2>4, AnnouncedMove DEF EnginePoints
<1>8. CASE Persist(p)
  <2> PICK move \in {<<"opened", "next">>, <<"skipping", "next">>, <<"starting", "body">>,
                     <<"completing", "next">>} :
        /\ At(p, move[1], move[2]) /\ UNCHANGED <<job, events, work>>
        /\ trace' = [trace EXCEPT ![w] = work[p].mine]
    BY <1>8 DEF Persist
  <2> PICK t : t = work[p].mine
    OBVIOUS
  <2>1. Holds(p, move[1]) /\ Heard(p) /\ Agrees(trace[w], events[w])
    BY AtStep, AtPoint DEF EnginePoints, EventsInv, Holds
  <2>2. HeardAt(move[1], Len(t.steps), trace[w], events[w])
    BY <2>1 DEF Heard, Holds, Entries
  <2>3. Agrees(t, events[w])
    <3>1. CASE move[1] = "opened"
      <4>1. trace[w] = NoTrace /\ t = [status |-> "running", steps |-> <<>>] /\ <<"started", 0>> \in events[w]
        BY <2>1, <2>2, <3>1 DEF Holds, Stage, HeardAt
      <4>2. t.status = "running" /\ t.steps = <<>> /\ trace[w].steps = <<>> /\ trace[w].status = "none"
        BY <4>1 DEF NoTrace
      <4> QED  BY <2>1, <4>1, <4>2 DEF Agrees
    <3>2. ASSUME NEW from \in {"pending", "running"}, NEW status \in StepStatus \ {"pending"}, NEW name,
                 Within(trace[w], from), t = Marked(trace[w], status, name),
                 Announced(status, Len(t.steps), events[w])
          PROVE  Agrees(t, events[w])
      <4>1. Len(t.steps) = Len(trace[w].steps)
        BY <3>2, MarkedTrace DEF Within
      <4> QED  BY <2>1, <3>2, <4>1, MarkAgrees
    <3>3. CASE move[1] = "skipping"
      BY <2>1, <2>2, <3>2, <3>3 DEF Holds, Stage, HeardAt, Announced, StepStatus
    <3>4. CASE move[1] = "starting"
      BY <2>1, <2>2, <3>2, <3>4 DEF Holds, Stage, HeardAt, Announced, StepStatus
    <3>5. CASE move[1] = "completing"
      BY <2>1, <2>2, <3>2, <3>5 DEF Holds, Stage, HeardAt, Announced, StepStatus
    <3> QED  BY <3>1, <3>3, <3>4, <3>5
  <2>4. /\ work' = [work EXCEPT ![p].mine = t] /\ trace' = [trace EXCEPT ![w] = t]
    BY <1>0 DEF Typed
  <2>5. PICK here, next : here = move[1] /\ next = move[2]
    OBVIOUS
  <2>6. here \in EnginePoints /\ next \notin Announcing /\ At(p, here, next)
    BY <2>5 DEF EnginePoints, Announcing
  <2> QED  BY <2>3, <2>4, <2>6, EventsWritten DEF Announcing
<1>9. CASE Push(p)
  <2> PICK e, t :
        /\ e = [status |-> "pending", names |-> "none"]
        /\ t = Pushed(work[p].mine, e)
        /\ At(p, "next", "decide") /\ UNCHANGED <<job, events>>
        /\ work' = [work EXCEPT ![p].mine = t] /\ trace' = [trace EXCEPT ![w] = t]
    BY <1>9 DEF Push, Write, SetTrace, Pushed
  <2>1. Holds(p, "next") /\ e.status = "pending"
    BY AtStep, AtPoint DEF EnginePoints
  <2>2. w \in Plans /\ Between(trace[w]) /\ work[p].mine = trace[w] /\ Agrees(trace[w], events[w])
    BY <2>1 DEF Holds, Stage, EventsInv
  <2>3. /\ IsTrace(trace[w]) /\ trace[w].status = "running" /\ IsTrace(t)
        /\ Len(t.steps) = Len(trace[w].steps) + 1 /\ t.steps[Len(t.steps)].status = "pending"
        /\ \A i \in 1..Len(trace[w].steps) : t.steps[i] = trace[w].steps[i]
        /\ Len(trace[w].steps) \in Nat
    BY <2>1, <2>2, PushedTrace, Statuses DEF Between
  <2>4. ASSUME NEW i \in 1..Len(t.steps)
        PROVE  \/ i <= Len(trace[w].steps) /\ t.steps[i].status = trace[w].steps[i].status
               \/ i > Len(trace[w].steps) /\ t.steps[i].status = "pending"
    <3>1. i = Len(t.steps) \/ (i \in 1..Len(trace[w].steps) /\ i <= Len(trace[w].steps))
      BY <2>3
    <3>2. Len(t.steps) > Len(trace[w].steps)
      BY <2>3
    <3> QED  BY <2>3, <3>1, <3>2
  <2>5. <<"started", 0>> \in events[w] /\ Len(trace[w].steps) <= Len(t.steps)
    BY <2>2, <2>3 DEF Agrees
  <2>6. Agrees(t, events[w])
    BY <2>2, <2>3, <2>4, <2>5, TraceMoves
  <2>7. "next" \in EnginePoints /\ "decide" \notin Announcing /\ job' = job /\ events' = events
    BY DEF EnginePoints, Announcing
  <2> QED  BY <2>6, <2>7, EventsWritten DEF Announcing
<1>10. CASE Close(p)
  <2> PICK t :
        /\ t = [work[p].mine EXCEPT !.status = "succeeded"]
        /\ At(p, "next", "closed") /\ UNCHANGED <<job, events>>
        /\ work' = [work EXCEPT ![p].mine = t] /\ trace' = [trace EXCEPT ![w] = t]
    BY <1>10 DEF Close, Write, SetTrace
  <2>1. Holds(p, "next")
    BY AtStep, AtPoint DEF EnginePoints
  <2>2. w \in Plans /\ Between(trace[w]) /\ work[p].mine = trace[w] /\ Agrees(trace[w], events[w])
    BY <2>1 DEF Holds, Stage, EventsInv
  <2>3. t.status = "succeeded" /\ t.steps = trace[w].steps /\ trace[w].status = "running"
    BY <2>2 DEF Between, IsTrace
  <2>4. Agrees(t, events[w])
    BY <2>2, <2>3 DEF Agrees
  <2> QED  BY <2>3, <2>4, EventsWritten DEF EnginePoints, Announcing
<1>11. CASE Rethrow(p)
  <2>1. /\ pc[p] = "failing" /\ trace' = [trace EXCEPT ![w] = work[p].mine]
        /\ Exit(p) /\ work' = [work EXCEPT ![p] = NoWork] /\ events' = events
    BY <1>11 DEF Rethrow
  <2>2. Holds(p, "failing") /\ Heard(p) /\ Agrees(trace[w], events[w])
    BY <2>1, AtPoint DEF EnginePoints, EventsInv, Holds
  <2> PICK t : t = work[p].mine
    OBVIOUS
  <2>3. Within(trace[w], "running") /\ t = Failed(trace[w]) /\ <<"failed", Len(t.steps)>> \in events[w]
    BY <2>1, <2>2 DEF Holds, Stage, Heard, HeardAt, Entries
  <2>4. Agrees(t, events[w])
    <3> DEFINE m == Marked(trace[w], "failed", "none")
    <3>1. t.status = "failed" /\ t.steps = m.steps /\ Len(t.steps) = Len(trace[w].steps)
      BY <2>3, FailedTrace
    <3>2. Agrees(m, events[w])
      BY <2>2, <2>3, <3>1, MarkAgrees DEF Announced, StepStatus
    <3>3. trace[w].status = "running" /\ trace[w].status # "none"
      BY <2>3 DEF Within
    <3>4. <<"started", 0>> \in events[w] /\ <<"workflow-completed", 0>> \notin events[w]
      BY <2>2, <3>3 DEF Agrees
    <3> HIDE DEF m
    <3> QED  BY <3>1, <3>2, <3>4 DEF Agrees
  <2>5. ASSUME NEW v \in Plans  PROVE Agrees(trace'[v], events'[v])
    BY <1>0, <2>1, <2>4 DEF EventsInv, Typed
  <2>6. Heard(p)'
    BY <2>1, ExitStep DEF Heard
  <2>7. ASSUME NEW q \in Procs \ {p}  PROVE Heard(q)'
    <3>1. pc'[q] = pc[q] /\ job'[q] = job[q] /\ work'[q] = work[q]
      BY <1>0, <2>1, ExitStep DEF Typed
    <3>2. job[q] = "implement" => Flow(q) \in Plans /\ Flow(q) # w
      BY <2>2 DEF Holds, IInv, Owner, OneEach
    <3>3. job[q] = "implement" => trace'[Flow(q)] = trace[Flow(q)]
      BY <1>0, <2>1, <3>2 DEF Typed
    <3> QED  BY <2>1, <3>1, <3>3 DEF EventsInv, Heard, Flow, Entries
  <2> QED  BY <2>1, <2>5, <2>6, <2>7 DEF EventsInv
<1> HIDE DEF w
<1> QED  BY <1>1, <1>2, <1>3, <1>4, <1>5, <1>6, <1>7, <1>8, <1>9, <1>10, <1>11 DEF EngineStep

LEMMA EventsInit == Init => EventsInv
<1> SUFFICES ASSUME Init PROVE EventsInv
  OBVIOUS
<1>1. ASSUME NEW w \in Plans  PROVE Agrees(trace[w], events[w])
  <2>1. trace[w] = NoTrace /\ events[w] = {}
    BY DEF Init
  <2>2. NoTrace.status = "none" /\ DOMAIN NoTrace.steps = {}
    BY DEF NoTrace
  <2> QED  BY <2>1, <2>2 DEF Agrees
<1>2. \A p \in Procs : Heard(p)
  BY DEF Init, CoderInit, Heard
<1> QED  BY <1>1, <1>2 DEF Init, EventsInv

LEMMA EventsStep == IInv /\ EventsInv /\ [Next]_vars => EventsInv'
<1> SUFFICES ASSUME IInv, EventsInv, [Next]_vars PROVE EventsInv'
  OBVIOUS
<1>1. CASE UNCHANGED vars
  BY <1>1 DEF vars, coderVars, flowVars, EventsInv, Agrees, Announced, Heard, HeardAt, Flow, Entries
<1>2. CASE Next
  BY <1>2, QuietSteps, EngineEvents DEF Next
<1> QED  BY <1>1, <1>2 DEF Next

\* The event log and the trace files agree, as far as the order of their writes
\* allows, at every moment of commands that overlap and die.
THEOREM EventsAgreeHolds == Spec => []EventsAgree
<1>1. EventsInv => EventsAgree
  BY DEF EventsInv, EventsAgree, Agrees, Announced
<1> QED  BY <1>1, InitInv, IInvStep, EventsInit, EventsStep, PTL DEF Spec
------------------------------------------------------------------------------
(* The files.  What exists stays, so what a process has seen of a file      *)
(* still holds when it uses it, whatever others did in between.             *)

Before == Len(Reports)   \* the steps before the scaffold

PlanPoints == {"context", "prompt", "plan", "planned", "listed", "pointing", "remembering"}
\* Where a plan's numbers are fixed, where it is written and where it is registered.
Drafted == {"plan", "planned", "listed", "pointing", "remembering", "done", "completing",
            "next", "closed", "stamp"}
Listed == Drafted \ {"plan", "planned"}

Filed == {r \in Runs : Exists(r)}
Ran == {r \in Filed : file[r].rounds > 0}
Known == {k \in Runs \cup Plans : kernel[k] # "none"}
Drawn == {w \in Plans : Planned(w)}

OnDisk ==
  /\ file \in [Runs -> Records \cup {NoRun}] /\ \A r \in Runs : file[r].run \in {r, "none"}
  /\ latest \subseteq Filed
  /\ kernel \in [Runs \cup Plans -> RUN_STATUS \cup {"none"}]
  /\ Known \cap Runs \subseteq Filed /\ (Known \cap Runs # {} => latest # {})
  /\ packet \in [Plans -> SUBSET {"context", "prompt"}]
  /\ plan = [w \in Plans |-> plan[w]]
  /\ \A w \in Drawn : packet[w] = {"context", "prompt"} /\ plan[w].run \in Filed
  /\ Known \cap Plans \subseteq Drawn
  /\ index \subseteq Known /\ latestPlan \subseteq Drawn
  /\ memory.run # "none" => memory.run \in Filed /\ memory.record \in Known
  /\ memory.plan # "none" => memory.plan \in Drawn

\* A command executes one round at most.
Counted ==
  /\ begun \in 0..MaxCommands /\ alone \in BOOLEAN
  /\ \A r \in Filed : file[r].rounds <= begun
  /\ \A p \in Procs : held[p] \in Records => held[p].rounds <= begun
  /\ \A p \in Procs : pc[p] = "checking" => held[p].rounds < begun
  /\ \A p \in Procs : pc[p] # "idle" => begun > 0

\* A run not written yet is its creator's.
Unfiled(p) == pc[p] = "save" /\ held[p].rounds = 0
Sole == \A p \in Procs : Unfiled(p) =>
  held[p].run \notin Filed /\ \A q \in Procs \ {p} : held[q].run # held[p].run

Holding ==
  /\ held = [p \in Procs |-> held[p]] /\ seen = [p \in Procs |-> seen[p]]
  /\ \A p \in Procs : held[p] \in Records \cup {NoRun}

\* What the points of a save have behind them.
Saving(p) == pc[p] \in CoderPoints =>
  /\ held[p] \in Records
  /\ pc[p] # "save" \/ held[p].rounds > 0 => held[p].run \in Filed
  /\ pc[p] \notin {"save", "filed", "checking"} => latest # {}
  /\ pc[p] \in {"registered", "indexed", "recalled", "saved"} => held[p].run \in Known
  /\ pc[p] \notin {"save", "checking"} /\ held[p].rounds > 0 => held[p].run \in Ran
  /\ pc[p] = "recalled" /\ seen[p] # "none" => seen[p] \in Drawn

\* The run of a workflow is registered, and has a round.
Made(p) == held[p] \in Records /\ held[p].run \in Known
Tested(p) == held[p].rounds > 0 /\ held[p].run \in Ran

\* What is behind the last step of s, at a point of it.
Making(p, point, s) ==
  LET k == Len(s)
      w == Flow(p)
  IN
  /\ k <= Before + 4
  /\ point \in CoderPoints => k \in {Before + 2, Before + 3}
  /\ point \in PlanPoints \cup {"closed", "stamp"} => k = Before + 4
  /\ point = "skipping" => k # Before + 2 /\ k # Before + 4
  /\ k = Before + 2 /\ point \in CoderPoints => point # "checking" /\ held[p].rounds = 0
  /\ k = Before + 3 /\ point \in CoderPoints => (point = "checking" <=> held[p].rounds = 0)
  /\ k = Before + 2 /\ point \in {"done", "completing", "next"} => Made(p) /\ held[p].rounds = 0
  /\ k > Before + 2 => Made(p)
  /\ k > Before + 2 \/ (k = Before + 2 /\ point \in {"completing", "next"}) =>
       s[Before + 2].status = "succeeded" /\ s[Before + 2].names = held[p].run
  /\ k = Before + 3 /\ point \in {"decide", "skipping", "starting", "body"} => held[p].rounds = 0
  /\ k = Before + 3 /\ point \in {"done", "completing"} => Tested(p)
  /\ k > Before + 3 \/ (k = Before + 3 /\ point = "next") =>
       (s[Before + 3].status = "succeeded" => Tested(p))
  /\ k = Before + 4 /\ point = "prompt" => "context" \in packet[w]
  /\ k = Before + 4 /\ point = "plan" => packet[w] = {"context", "prompt"}
  /\ k = Before + 4 /\ point \in Drafted => work[p].plan = PlanOf(held[p])
  /\ k = Before + 4 /\ point \in Drafted \ {"plan"} => plan[w] = PlanOf(held[p])
  /\ k = Before + 4 /\ point \in Listed => w \in Known

\* What the steps a trace calls succeeded have left behind, p being the plan.
Shown(t, w, known, ran, p) == \A i \in 1..Len(t.steps) : t.steps[i].status = "succeeded" =>
  /\ i = Before + 2 => t.steps[i].names \in known \cap Runs
  /\ i = Before + 3 => t.steps[Before + 2].names \in ran
  /\ i = Before + 4 =>
       /\ w \in known /\ p.run = t.steps[Before + 2].names
       /\ t.steps[Before + 3].status = "succeeded" => p.rounds > 0

Resolved(t, w) == Shown(t, w, Known, Ran, plan[w])

Doing(p) ==
  Saving(p) /\ (job[p] = "implement" => Making(p, pc[p], Entries(p)) /\ Resolved(work[p].mine, Flow(p)))

FilesInv ==
  /\ OnDisk /\ Counted /\ Sole /\ Holding
  /\ \A p \in Procs : Doing(p)
  /\ \A w \in Plans : Resolved(trace[w], w)

LEMMA Joined ==
  ASSUME NEW S, NEW a \in Seq(S), NEW b \in Seq(S)
  PROVE  /\ Len(a \o b) = Len(a) + Len(b)
         /\ \A i \in 1..(Len(a) + Len(b)) :
              (a \o b)[i] = IF i <= Len(a) THEN a[i] ELSE b[i - Len(a)]
OBVIOUS

LEMMA StepPlaces ==
  /\ Before \in Nat /\ Len(Steps) = Before + 4
  /\ Steps[Before + 1] = "run-scaffold" /\ Steps[Before + 2] = "create-coder-run"
  /\ Steps[Before + 3] = "execute-validation-round" /\ Steps[Before + 4] = "write-plan-artifacts"
  /\ \A i \in 1..Before : Steps[i] \in Range(Reports) /\ Steps[i] \in Range(AllReports)
  /\ Range(AllReports) = {"detect-project-profile", "resolve-automation-policy", "select-skill",
                          "assess-benchmark-feedback", "create-snapshot"}
<1> DEFINE R == Range(AllReports)
           last == <<"run-scaffold", "create-coder-run", "execute-validation-round",
                     "write-plan-artifacts">>
           S == R \cup {"run-scaffold", "create-coder-run", "execute-validation-round",
                        "write-plan-artifacts"}
<1>1. Reports \in Seq(R)
  BY ReportsAssumption
<1>2. R = {"detect-project-profile", "resolve-automation-policy", "select-skill",
           "assess-benchmark-feedback", "create-snapshot"}
  <2>1. DOMAIN AllReports = 1..5
    BY DEF AllReports
  <2>2. R = {AllReports[i] : i \in 1..5}
    BY <2>1 DEF Range
  <2> QED
    BY <2>2 DEF AllReports
<1> HIDE DEF R
<1>3. Before \in Nat /\ DOMAIN Reports = 1..Before /\ \A i \in 1..Before : Reports[i] \in R
  BY <1>1 DEF Before
<1>4. \A i \in 1..Before : Reports[i] \in Range(Reports)
  BY <1>3 DEF Range
<1>5. Reports \in Seq(S) /\ last \in Seq(S) /\ Len(last) = 4 /\ Len(Reports) = Before
  BY <1>1 DEF Before
<1>6. /\ last[1] = "run-scaffold" /\ last[2] = "create-coder-run"
      /\ last[3] = "execute-validation-round" /\ last[4] = "write-plan-artifacts"
  OBVIOUS
<1>7. Steps = Reports \o last
  BY DEF Steps
<1> HIDE DEF last, S
<1>8. /\ Len(Steps) = Before + 4
      /\ \A i \in 1..(Before + 4) :
           Steps[i] = IF i <= Before THEN Reports[i] ELSE last[i - Before]
  <2>1. /\ Len(Reports \o last) = Before + 4
        /\ \A i \in 1..(Before + 4) :
             (Reports \o last)[i] = IF i <= Before THEN Reports[i] ELSE last[i - Before]
    <3>1. /\ Len(Reports \o last) = Len(Reports) + Len(last)
          /\ \A i \in 1..(Len(Reports) + Len(last)) :
               (Reports \o last)[i] = IF i <= Len(Reports) THEN Reports[i]
                                      ELSE last[i - Len(Reports)]
      BY <1>5, Joined, Zenon
    <3> QED
      BY <1>5, <3>1, Zenon
  <2> QED
    BY <1>7, <2>1, Zenon
<1>9. \A i \in 1..Before : Steps[i] = Reports[i]
  BY <1>3, <1>8
<1>10. /\ Steps[Before + 1] = last[1] /\ Steps[Before + 2] = last[2]
       /\ Steps[Before + 3] = last[3] /\ Steps[Before + 4] = last[4]
  BY <1>3, <1>8
<1> QED
  BY <1>2, <1>3, <1>4, <1>6, <1>8, <1>9, <1>10 DEF R

\* A step's name tells its place.
LEMMA StepNames ==
  ASSUME NEW k \in 1..(Before + 4)
  PROVE  /\ Steps[k] = "run-scaffold" => k = Before + 1
         /\ Steps[k] = "create-coder-run" <=> k = Before + 2
         /\ Steps[k] = "execute-validation-round" <=> k = Before + 3
         /\ Steps[k] = "write-plan-artifacts" <=> k = Before + 4
         /\ Steps[k] \in Range(Reports) => k <= Before
<1>1. Before \in Nat
  BY StepPlaces
<1>2. k \in 1..Before \/ k = Before + 1 \/ k = Before + 2 \/ k = Before + 3 \/ k = Before + 4
  BY <1>1
<1>3. Range(Reports) \subseteq Range(AllReports)
  BY ReportsAssumption DEF Range
<1> QED
  BY <1>1, <1>2, <1>3, StepPlaces

LEMMA RecordFacts ==
  /\ "none" \notin Runs /\ "none" \notin Plans /\ NoRun \notin Records /\ NoRun.run = "none"
  /\ MaxCommands \in Nat
  /\ \A rec \in Records : /\ rec.run \in Runs /\ rec.rounds \in Nat /\ rec # NoRun
                          /\ rec.checks \in SUBSET Checks
                          /\ rec.status \in {"initialized", "green", "needs_fix"}
<1>1. "none" \notin Runs \cup Plans /\ MaxCommands \in Nat
  BY CoderAssumption
<1>2. NoRun.run = "none"
  BY DEF NoRun
<1> QED
  BY <1>1, <1>2 DEF Records

LEMMA FiledFacts ==
  ASSUME OnDisk
  PROVE  /\ \A r \in Runs : r \in Filed <=> file[r] \in Records
         /\ \A r \in Filed : r \in Runs /\ file[r] \in Records /\ file[r].run = r
         /\ \A r \in Runs : r \notin Filed => file[r] = NoRun
         /\ Ran \subseteq Filed
BY RecordFacts DEF OnDisk, Filed, Ran, Exists

LEMMA FreshIsRecord ==
  ASSUME NEW r \in Runs, NEW checks \in Selections
  PROVE  Fresh(r, checks) \in Records /\ Fresh(r, checks).run = r /\ Fresh(r, checks).rounds = 0
<1>1. checks \in SUBSET Checks /\ 0 \in 0..MaxCommands
  BY CoderAssumption
<1> QED
  BY <1>1 DEF Fresh, Records

LEMMA RoundIsRecord ==
  ASSUME NEW rec \in Records, rec.rounds < MaxCommands,
         NEW failed \in SUBSET rec.checks, NEW failures \in SUBSET failed
  PROVE  /\ Round(rec, failed, failures) \in Records
         /\ Round(rec, failed, failures).run = rec.run
         /\ Round(rec, failed, failures).rounds = rec.rounds + 1
<1> DEFINE status == IF failures = {} THEN "green" ELSE "needs_fix"
           m == Round(rec, failed, failures)
<1>1. rec.run \in Runs /\ rec.checks \in SUBSET Checks /\ rec.rounds \in 0..MaxCommands
  BY DEF Records
<1>2. m = [run |-> rec.run, checks |-> rec.checks, rounds |-> rec.rounds + 1,
           failed |-> failed, failures |-> failures, status |-> status]
  BY DEF Round
<1>3. /\ rec.rounds + 1 \in 0..MaxCommands /\ failed \in SUBSET Checks
      /\ failures \in SUBSET Checks /\ status \in {"initialized", "green", "needs_fix"}
  BY <1>1, RecordFacts
<1> HIDE DEF status, m
<1>4. m \in Records /\ m.run = rec.run /\ m.rounds = rec.rounds + 1
  BY <1>1, <1>2, <1>3 DEF Records
<1> QED
  BY <1>4 DEF m

LEMMA MappedStatus ==
  ASSUME NEW status \in {"initialized", "green", "needs_fix"}
  PROVE  mapImplementationStatus(status) \in RUN_STATUS /\ "none" \notin RUN_STATUS
BY DEF mapImplementationStatus, RUN_STATUS
------------------------------------------------------------------------------
(* A step of one process, seen by the others.                              *)

\* What existed exists, and only p's plan is written.
Grows(p) ==
  /\ Filed \subseteq Filed' /\ Ran \subseteq Ran' /\ Known \subseteq Known'
  /\ Drawn \subseteq Drawn' /\ (latest # {} => latest' # {})
  /\ \A w \in Plans : w # Flow(p) => plan'[w] = plan[w] /\ packet'[w] = packet[w]

Others(p) == \A q \in Procs \ {p} :
  /\ pc'[q] = pc[q] /\ job'[q] = job[q] /\ held'[q] = held[q] /\ seen'[q] = seen[q]
  /\ work'[q] = work[q]

LEMMA ShownGrows ==
  ASSUME NEW t, NEW w, NEW known, NEW ran, NEW plan1, NEW known2, NEW ran2, NEW plan2,
         Shown(t, w, known, ran, plan1), known \subseteq known2, ran \subseteq ran2,
         plan1.run = plan2.run, plan1.rounds = plan2.rounds
  PROVE  Shown(t, w, known2, ran2, plan2)
BY DEF Shown

LEMMA Bystander ==
  ASSUME IInv, NEW p \in Procs, Grows(p), Others(p), NEW q \in Procs \ {p}, Doing(q)
  PROVE  Doing(q)'
<1>1. /\ pc'[q] = pc[q] /\ job'[q] = job[q] /\ held'[q] = held[q] /\ seen'[q] = seen[q]
      /\ work'[q] = work[q]
  BY DEF Others
<1>2. /\ Entries(q)' = Entries(q) /\ Flow(q)' = Flow(q)
      /\ work'[q].mine = work[q].mine /\ work'[q].plan = work[q].plan
  BY <1>1 DEF Entries, Flow
<1>3. Saving(q)'
  BY <1>1 DEF Doing, Saving, Grows
<1>4. ASSUME job[q] = "implement" PROVE Making(q, pc[q], Entries(q))' /\ Resolved(work[q].mine, Flow(q))'
  <2>1. Flow(q) \in Plans /\ Flow(q) # Flow(p)
    BY <1>4 DEF IInv, Owner, OneEach
  <2>2. plan'[Flow(q)] = plan[Flow(q)] /\ packet'[Flow(q)] = packet[Flow(q)]
    BY <2>1 DEF Grows
  <2>3. Made(q) => Made(q)'
    BY <1>1 DEF Made, Grows
  <2>4. Tested(q) => Tested(q)'
    BY <1>1 DEF Tested, Grows
  <2>5. Making(q, pc[q], Entries(q)) /\ (Flow(q) \in Known => Flow(q)' \in Known')
    BY <1>2, <1>4 DEF Doing, Grows
  <2>6. Making(q, pc[q], Entries(q))'
    BY <1>1, <1>2, <2>2, <2>3, <2>4, <2>5 DEF Making
  <2>7. Shown(work'[q].mine, Flow(q)', Known', Ran', plan'[Flow(q)'])
    BY <1>2, <1>4, <2>2, ShownGrows DEF Doing, Resolved, Grows
  <2> QED
    BY <2>6, <2>7 DEF Resolved
<1> QED
  BY <1>1, <1>3, <1>4 DEF Doing

LEMMA FilesStay ==
  ASSUME OnDisk, UNCHANGED <<disk, planVars>>, NEW p \in Procs
  PROVE  OnDisk' /\ Grows(p)
<1>1. UNCHANGED <<file, latest, kernel, index, memory, packet, plan, latestPlan>>
  BY DEF disk, planVars
<1>2. Filed' = Filed /\ Ran' = Ran /\ Known' = Known /\ Drawn' = Drawn
  BY <1>1 DEF Filed, Ran, Known, Drawn, Exists, Planned
<1> QED
  BY <1>1, <1>2 DEF OnDisk, Grows

\* What a step owes, taken together.
LEMMA FilesStep ==
  ASSUME IInv, FilesInv, NEW p \in Procs, Others(p), Grows(p),
         OnDisk', Counted', Sole', Holding', Doing(p)',
         \A w \in Plans : w # Flow(p) => trace'[w] = trace[w],
         Flow(p) \in Plans => Shown(trace'[Flow(p)], Flow(p), Known', Ran', plan'[Flow(p)])
  PROVE  FilesInv'
<1>1. ASSUME NEW q \in Procs PROVE Doing(q)'
  <2>1. CASE q = p
    BY <2>1
  <2>2. CASE q # p
    BY <2>2, Bystander DEF FilesInv
  <2> QED
    BY <2>1, <2>2
<1>2. ASSUME NEW w \in Plans PROVE Resolved(trace[w], w)'
  <2>1. CASE w = Flow(p)
    BY <2>1 DEF Resolved
  <2>2. CASE w # Flow(p)
    <3>1. Shown(trace[w], w, Known, Ran, plan[w]) /\ trace'[w] = trace[w] /\ plan'[w] = plan[w]
      BY <2>2 DEF FilesInv, Resolved, Grows
    <3>2. Shown(trace[w], w, Known', Ran', plan'[w])
      BY <3>1, ShownGrows DEF Grows
    <3> QED
      BY <3>1, <3>2 DEF Resolved
  <2> QED
    BY <2>1, <2>2
<1> QED
  BY <1>1, <1>2 DEF FilesInv

\* A process gets a new run only if nobody has it, and another's once it is filed.
LEMMA SoleStep ==
  ASSUME FilesInv, NEW p \in Procs, Others(p), Filed' \subseteq Filed \cup {held[p].run},
         \/ held'[p].run \in {held[p].run, "none"} \cup Filed
         \/ Unused(held'[p].run),
         Unfiled(p)' => /\ Filed' = Filed
                        /\ \/ Unfiled(p) /\ held'[p] = held[p]
                           \/ held'[p].run \in Runs /\ Unused(held'[p].run)
  PROVE  Sole'
<1>0. Sole
  BY DEF FilesInv
<1>1. \A r \in Runs : Unused(r) => r \notin Filed /\ \A q \in Procs : held[q].run # r
  BY DEF Unused, Filed
<1>2. ASSUME NEW q \in Procs \ {p}, Unfiled(q)'
      PROVE  held'[q].run \notin Filed' /\ \A o \in Procs \ {q} : held'[o].run # held'[q].run
  <2>1. Unfiled(q) /\ held'[q] = held[q]
    BY <1>2 DEF Unfiled, Others
  <2>2. /\ held[q].run \notin Filed /\ \A o \in Procs \ {q} : held[o].run # held[q].run
        /\ held[q].run \in Runs
    BY <1>0, <2>1, RecordFacts DEF Sole, FilesInv, Doing, Saving, Unfiled, CoderPoints
  <2>3. held'[p].run # held[q].run
    BY <2>2, RecordFacts DEF Unused
  <2> QED
    BY <2>1, <2>2, <2>3 DEF Others
<1>3. ASSUME Unfiled(p)'
      PROVE  held'[p].run \notin Filed' /\ \A o \in Procs \ {p} : held'[o].run # held'[p].run
  BY <1>0, <1>1, <1>3 DEF Sole, Others
<1> QED
  BY <1>2, <1>3 DEF Sole

LEMMA CountedStep ==
  ASSUME FilesInv, NEW p \in Procs, Others(p), begun \in Nat,
         begun' \in 0..MaxCommands, begun <= begun', alone' \in BOOLEAN,
         \A r \in Filed' : file'[r].rounds <= begun',
         held'[p] \in Records => held'[p].rounds <= begun',
         pc'[p] = "checking" => held'[p].rounds < begun',
         pc'[p] # "idle" => begun' > 0
  PROVE  Counted'
<1>1. ASSUME NEW q \in Procs \ {p}
      PROVE  /\ held'[q] \in Records => held'[q].rounds <= begun'
             /\ pc'[q] = "checking" => held'[q].rounds < begun'
             /\ pc'[q] # "idle" => begun' > 0
  <2>1. pc'[q] = pc[q] /\ held'[q] = held[q]
    BY DEF Others
  <2>2. held[q] \in Records => held[q].rounds \in Nat
    BY RecordFacts
  <2>3. pc[q] = "checking" => held[q] \in Records
    BY DEF FilesInv, Doing, Saving, CoderPoints
  <2> QED
    BY <2>1, <2>2, <2>3 DEF FilesInv, Counted
<1>2. ASSUME NEW q \in Procs
      PROVE  /\ held'[q] \in Records => held'[q].rounds <= begun'
             /\ pc'[q] = "checking" => held'[q].rounds < begun'
             /\ pc'[q] # "idle" => begun' > 0
  <2>1. CASE q = p
    BY <2>1
  <2>2. CASE q # p
    BY <1>1, <2>2
  <2> QED
    BY <2>1, <2>2
<1>3. /\ \A q \in Procs : held'[q] \in Records => held'[q].rounds <= begun'
      /\ \A q \in Procs : pc'[q] = "checking" => held'[q].rounds < begun'
      /\ \A q \in Procs : pc'[q] # "idle" => begun' > 0
  BY <1>2
<1>4. (begun \in 0..MaxCommands /\ alone \in BOOLEAN)'
  OBVIOUS
<1>5. (\A r \in Filed : file[r].rounds <= begun)'
  OBVIOUS
<1> QED
  BY <1>3, <1>4, <1>5 DEF Counted
------------------------------------------------------------------------------
(* The steps of the coder loop.                                            *)

\* A step of a save, after its round.
LEMMA SaveGoesOn ==
  ASSUME IInv, FilesInv, NEW p \in Procs,
         NEW here \in CoderPoints \ {"checking"},
         NEW next \in (CoderPoints \ {"save", "checking"}) \cup {"threw"},
         next = "threw" => job[p] = "implement",
         At(p, here, next), UNCHANGED <<job, held, history, flowVars>>,
         seen' = [q \in Procs |-> seen'[q]], \A q \in Procs \ {p} : seen'[q] = seen[q],
         OnDisk', Grows(p), Filed' \subseteq Filed \cup {held[p].run},
         \A r \in Runs : file'[r] = file[r] \/ file'[r] = held[p],
         Saving(p)'
  PROVE  FilesInv'
<1>0. /\ pc[p] = here /\ pc'[p] = next /\ \A q \in Procs \ {p} : pc'[q] = pc[q]
      /\ held' = held /\ job' = job /\ work' = work /\ trace' = trace /\ plan' = plan
      /\ packet' = packet /\ begun' = begun /\ alone' = alone
  BY AtStep DEF flowVars, planVars, history
<1>1. Others(p)
  BY <1>0 DEF Others
<1>2. Holding'
  BY <1>0 DEF FilesInv, Holding
<1>3. held[p] \in Records /\ Doing(p)
  BY <1>0 DEF FilesInv, Doing, Saving
<1>4. Sole'
  BY <1>0, <1>1, SoleStep DEF Unfiled
<1>5. Counted'
  <2>1. Counted /\ begun \in Nat /\ begun \in 0..MaxCommands /\ alone \in BOOLEAN
    BY RecordFacts DEF FilesInv, Counted
  <2>2. \A r \in Filed' : file'[r].rounds <= begun'
    <3> SUFFICES ASSUME NEW r \in Filed' PROVE file'[r].rounds <= begun
      BY <1>0
    <3>1. held[p].rounds <= begun
      BY <1>3, <2>1 DEF Counted
    <3>2. r \in Runs /\ (r \in Filed \/ r = held[p].run)
      BY DEF Filed
    <3>3. file'[r].run = r
      BY DEF Filed, Exists
    <3>4. CASE file'[r] = held[p]
      BY <3>1, <3>4
    <3>5. CASE file'[r] = file[r]
      <4>1. r \in Filed
        BY <3>2, <3>3, <3>5 DEF Filed, Exists
      <4> QED
        BY <2>1, <3>5, <4>1 DEF Counted
    <3> QED
      BY <3>2, <3>4, <3>5
  <2>3. held[p].rounds <= begun /\ begun > 0
    BY <1>0, <1>3, <2>1 DEF Counted, CoderPoints
  <2> QED
    BY <1>0, <1>1, <2>1, <2>2, <2>3, CountedStep
<1>6. Doing(p)'
  <2>1. ASSUME job[p] = "implement" PROVE Making(p, pc[p], Entries(p))' /\ Resolved(work[p].mine, Flow(p))'
    <3>1. Entries(p)' = Entries(p) /\ Flow(p)' = Flow(p)
      BY <1>0 DEF Entries, Flow
    <3>2. (Made(p) => Made(p)') /\ (Tested(p) => Tested(p)')
      BY <1>0 DEF Made, Tested, Grows
    <3>3. Making(p, pc[p], Entries(p)) /\ Len(Entries(p)) \in {Before + 2, Before + 3} /\ Before \in Nat
      BY <1>0, <1>3, <2>1, StepPlaces DEF Doing, Making
    <3>4. Making(p, pc[p], Entries(p))'
      BY <1>0, <3>1, <3>2, <3>3 DEF Making, CoderPoints, PlanPoints
    <3>5. Shown(work'[p].mine, Flow(p)', Known', Ran', plan'[Flow(p)'])
      BY <1>0, <1>3, <2>1, <3>1, ShownGrows DEF Doing, Resolved, Grows
    <3> QED
      BY <3>4, <3>5 DEF Resolved
  <2> QED
    BY <1>0, <2>1 DEF Doing
<1>7. Flow(p) \in Plans => Shown(trace'[Flow(p)], Flow(p), Known', Ran', plan'[Flow(p)])
  BY <1>0, ShownGrows DEF FilesInv, Resolved, Grows
<1> QED
  BY <1>0, <1>1, <1>2, <1>4, <1>5, <1>6, <1>7, FilesStep

\* A step that writes nothing but a trace.
LEMMA QuietFiles ==
  ASSUME IInv, FilesInv, NEW p \in Procs, Others(p), UNCHANGED <<disk, planVars>>, Holding',
         begun' \in 0..MaxCommands, begun <= begun', alone' \in BOOLEAN,
         pc'[p] # "idle" => begun' > 0,
         \/ held'[p].run \in {held[p].run, "none"} \cup Filed
         \/ Unused(held'[p].run),
         Unfiled(p)' => held'[p].run \in Runs /\ Unused(held'[p].run),
         held'[p] \in Records => held'[p].rounds <= begun',
         pc'[p] = "checking" => held'[p].rounds < begun',
         Doing(p)',
         \A w \in Plans : w # Flow(p) => trace'[w] = trace[w],
         Flow(p) \in Plans => Shown(trace'[Flow(p)], Flow(p), Known, Ran, plan[Flow(p)])
  PROVE  FilesInv'
<1>0. /\ OnDisk /\ begun \in Nat /\ \A r \in Filed : file[r].rounds <= begun
      /\ \A r \in Filed : file[r].rounds \in Nat
  BY FiledFacts, RecordFacts DEF FilesInv, Counted
<1>1. plan' = plan /\ file' = file
  BY DEF planVars, disk
<1>2. OnDisk' /\ Grows(p) /\ Filed' = Filed
  BY <1>0, <1>1, FilesStay DEF Filed, Exists
<1>3. Sole'
  BY <1>2, SoleStep
<1>4. Counted'
  <2>1. \A r \in Filed' : file'[r].rounds <= begun'
    BY <1>0, <1>1, <1>2
  <2> QED
    BY <1>0, <2>1, CountedStep
<1>5. Flow(p) \in Plans => Shown(trace'[Flow(p)], Flow(p), Known', Ran', plan'[Flow(p)])
  BY <1>1, <1>2, ShownGrows DEF Grows
<1> QED
  BY <1>2, <1>3, <1>4, <1>5, FilesStep

\* A command of coder-loop, beginning or over.
LEMMA LoopGoesOn ==
  ASSUME IInv, FilesInv, NEW p \in Procs, Others(p), UNCHANGED <<disk, flowVars>>,
         job'[p] # "implement", Holding',
         begun' \in 0..MaxCommands, begun <= begun', alone' \in BOOLEAN,
         pc'[p] # "idle" => begun' > 0,
         Saving(p)',
         \/ held'[p].run \in {held[p].run, "none"} \cup Filed
         \/ Unused(held'[p].run),
         Unfiled(p)' => held'[p].run \in Runs /\ Unused(held'[p].run),
         held'[p] \in Records => held'[p].rounds <= begun',
         pc'[p] = "checking" => held'[p].rounds < begun'
  PROVE  FilesInv'
<1>1. trace' = trace /\ UNCHANGED <<disk, planVars>>
  BY DEF flowVars
<1>2. Doing(p)'
  BY DEF Doing
<1>3. Flow(p) \in Plans => Shown(trace'[Flow(p)], Flow(p), Known, Ran, plan[Flow(p)])
  BY <1>1 DEF FilesInv, Resolved
<1> QED
  BY <1>1, <1>2, <1>3, QuietFiles

LEMMA ExitFiles ==
  ASSUME IInv, FilesInv, NEW p \in Procs, Exit(p), UNCHANGED <<disk, flowVars, alone, begun>>
  PROVE  FilesInv'
<1>1. held' = [held EXCEPT ![p] = NoRun] /\ seen' = [seen EXCEPT ![p] = "none"] /\ Holding
  BY DEF Exit, FilesInv
<1>2. /\ held' = [q \in Procs |-> held'[q]] /\ seen' = [q \in Procs |-> seen'[q]]
      /\ held'[p] = NoRun /\ \A q \in Procs \ {p} : held'[q] = held[q] /\ seen'[q] = seen[q]
  BY <1>1 DEF Holding
<1>3. Holding'
  BY <1>1, <1>2 DEF Holding
<1>4. Others(p) /\ pc'[p] = "idle" /\ job'[p] = "none"
  BY <1>2, ExitStep DEF Others, flowVars
<1>5. begun \in 0..MaxCommands /\ alone \in BOOLEAN
  BY DEF FilesInv, Counted
<1>6. Saving(p)' /\ ~Unfiled(p)'
  BY <1>4 DEF Saving, Unfiled, CoderPoints
<1> QED
  BY <1>2, <1>3, <1>4, <1>5, <1>6, RecordFacts, LoopGoesOn

LEMMA BeginFiles ==
  ASSUME IInv, FilesInv, NEW p \in Procs, UNCHANGED flowVars,
         NEW command \in {"create", "round"}, NEW rec \in Records, NEW next \in {"save", "checking"},
         Begin(p, command, rec, next),
         \/ next = "save" /\ Unused(rec.run) /\ rec.rounds = 0
         \/ next = "checking" /\ rec.run \in Filed /\ rec = file[rec.run]
  PROVE  FilesInv'
<1>1. /\ pc[p] = "idle" /\ begun < MaxCommands /\ held' = [held EXCEPT ![p] = rec] /\ seen' = seen
      /\ begun' = begun + 1 /\ UNCHANGED disk /\ alone' \in BOOLEAN
  <2>1. alone \in BOOLEAN
    BY DEF FilesInv, Counted
  <2> QED
    BY <2>1 DEF Begin, At
<1>2. /\ held' = [q \in Procs |-> held'[q]] /\ seen' = [q \in Procs |-> seen'[q]]
      /\ held'[p] = rec /\ \A q \in Procs \ {p} : held'[q] = held[q]
      /\ \A q \in Procs : held'[q] \in Records \cup {NoRun}
  BY <1>1 DEF FilesInv, Holding
<1>3. Others(p) /\ Holding' /\ pc'[p] = next /\ job'[p] = command
  BY <1>1, <1>2, BeginStep DEF Others, Holding, flowVars
<1>4. begun \in 0..MaxCommands /\ MaxCommands \in Nat
  BY RecordFacts DEF FilesInv, Counted
<1>5. rec.rounds <= begun /\ rec.rounds \in Nat
  BY <1>4, RecordFacts DEF FilesInv, Counted
<1>6. Filed' = Filed
  BY <1>1 DEF Filed, Exists, disk
<1>7. Saving(p)'
  BY <1>2, <1>3, <1>6 DEF Saving
<1>8. Unfiled(p)' => rec.run \in Runs /\ Unused(rec.run)
  BY <1>3, RecordFacts DEF Unfiled
<1>9. /\ begun' \in 0..MaxCommands /\ begun <= begun' /\ begun' > 0
      /\ rec.rounds <= begun' /\ rec.rounds < begun'
  BY <1>1, <1>4, <1>5
<1> QED
  BY <1>1, <1>2, <1>3, <1>7, <1>8, <1>9, LoopGoesOn

LEMMA CreateFiles ==
  ASSUME IInv, FilesInv, NEW p \in Procs, Create(p) \/ Continue(p), UNCHANGED flowVars
  PROVE  FilesInv'
<1>1. CASE Create(p)
  <2> PICK r \in Runs, checks \in Selections :
        Unused(r) /\ Begin(p, "create", Fresh(r, checks), "save")
    BY <1>1 DEF Create
  <2> PICK rec : rec = Fresh(r, checks)
    OBVIOUS
  <2>1. rec \in Records /\ rec.run = r /\ rec.rounds = 0
    BY FreshIsRecord
  <2>2. Begin(p, "create", rec, "save") /\ Unused(rec.run)
    BY <2>1
  <2> QED
    BY <2>1, <2>2, BeginFiles
<1>2. CASE Continue(p)
  <2> PICK r \in Runs : Exists(r) /\ Begin(p, "round", file[r], "checking")
    BY <1>2 DEF Continue
  <2> PICK rec : rec = file[r]
    OBVIOUS
  <2>1. rec \in Records /\ rec.run = r /\ r \in Filed
    BY FiledFacts DEF FilesInv, Filed, Exists
  <2>2. Begin(p, "round", rec, "checking") /\ rec.run \in Filed /\ rec = file[rec.run]
    BY <2>1
  <2> QED
    BY <2>1, <2>2, BeginFiles
<1> QED
  BY <1>1, <1>2

\* What a save starts from at each of its points.
LEMMA AtSave ==
  ASSUME FilesInv, NEW p \in Procs, pc[p] \in CoderPoints
  PROVE  /\ OnDisk /\ Saving(p) /\ held[p] \in Records /\ held[p].run \in Runs
         /\ held[p].rounds \in Nat /\ held[p].rounds <= begun
         /\ held[p].status \in {"initialized", "green", "needs_fix"}
         /\ "none" \notin Runs
BY RecordFacts DEF FilesInv, Doing, Saving, Counted

LEMMA SaveFiles ==
  ASSUME IInv, FilesInv, NEW p \in Procs, SaveFile(p), UNCHANGED flowVars
  PROVE  FilesInv'
<1> DEFINE rec == held[p]
<1>1. /\ At(p, "save", "filed") /\ file' = [file EXCEPT ![rec.run] = rec] /\ pc[p] = "save"
      /\ UNCHANGED <<latest, kernel, index, memory, packet, plan, latestPlan>>
      /\ UNCHANGED <<job, held, history, flowVars, seen>>
  BY DEF SaveFile, At, flowVars, planVars
<1>2. /\ OnDisk /\ Saving(p) /\ rec \in Records /\ rec.run \in Runs /\ rec.rounds \in Nat
      /\ "none" \notin Runs
  BY <1>1, AtSave DEF CoderPoints
<1>3. /\ file' \in [Runs -> Records \cup {NoRun}]
      /\ \A r \in Runs : file'[r] = IF r = rec.run THEN rec ELSE file[r]
  BY <1>1, <1>2 DEF OnDisk
<1>4. Filed' = Filed \cup {rec.run}
  BY <1>2, <1>3 DEF Filed, Exists
<1>5. Ran \subseteq Ran' /\ (rec.rounds > 0 => rec.run \in Ran')
  <2>1. ASSUME NEW r \in Ran PROVE r \in Ran'
    <3>1. r \in Filed' /\ r \in Runs /\ file[r].rounds > 0 /\ r \in Filed
      BY <1>4 DEF Ran, Filed
    <3>2. CASE r # rec.run
      BY <1>3, <3>1, <3>2 DEF Ran
    <3>3. CASE r = rec.run
      <4>1. ~Unfiled(p)
        BY <3>1, <3>3 DEF FilesInv, Sole
      <4>2. rec.rounds > 0
        BY <1>1, <1>2, <4>1 DEF Unfiled
      <4> QED
        BY <1>3, <3>1, <3>3, <4>2 DEF Ran
    <3> QED
      BY <3>2, <3>3
  <2>2. rec.rounds > 0 => rec.run \in Ran'
    BY <1>2, <1>3, <1>4 DEF Ran
  <2> QED
    BY <2>1, <2>2
<1>6. Known' = Known /\ Drawn' = Drawn
  BY <1>1 DEF Known, Drawn, Planned
<1>7. OnDisk'
  BY <1>1, <1>2, <1>3, <1>4, <1>6 DEF OnDisk
<1>8. Grows(p)
  BY <1>1, <1>4, <1>5, <1>6 DEF Grows
<1>9. pc'[p] = "filed"
  BY <1>1, AtStep
<1>10. Saving(p)'
  BY <1>1, <1>2, <1>4, <1>5, <1>9 DEF Saving
<1> HIDE DEF rec
<1>11. seen' = [q \in Procs |-> seen'[q]] /\ \A q \in Procs \ {p} : seen'[q] = seen[q]
  BY <1>1 DEF FilesInv, Holding
<1> QED
  BY <1>1, <1>3, <1>4, <1>7, <1>8, <1>10, <1>11, SaveGoesOn DEF CoderPoints, rec

\* The steps of a save that write no run's file.
LEMMA MirrorFiles ==
  ASSUME IInv, FilesInv, NEW p \in Procs,
         NEW here \in CoderPoints \ {"checking"},
         NEW next \in (CoderPoints \ {"save", "checking"}) \cup {"threw"},
         next = "threw" => job[p] = "implement",
         At(p, here, next), UNCHANGED <<file, job, held, history, flowVars>>,
         seen' = seen \/ \E x : seen' = [seen EXCEPT ![p] = x],
         Known \subseteq Known', latest # {} => latest' # {},
         Filed' = Filed => OnDisk',
         Filed' = Filed /\ Ran' = Ran /\ Drawn' = Drawn => Saving(p)'
  PROVE  FilesInv'
<1>1. file' = file /\ plan' = plan /\ packet' = packet
  BY DEF flowVars, planVars
<1>2. Filed' = Filed /\ Ran' = Ran /\ Drawn' = Drawn
  BY <1>1 DEF Filed, Ran, Exists, Drawn, Planned
<1>3. Grows(p)
  BY <1>1, <1>2 DEF Grows
<1>4. seen' = [q \in Procs |-> seen'[q]] /\ \A q \in Procs \ {p} : seen'[q] = seen[q]
  BY DEF FilesInv, Holding
<1> QED
  BY <1>1, <1>2, <1>3, <1>4, SaveGoesOn

LEMMA SaveSteps ==
  ASSUME IInv, FilesInv, NEW p \in Procs, UNCHANGED flowVars,
         \/ SaveLatest(p) \/ Lookup(p) \/ Register(p) \/ Index(p) \/ Recall(p) \/ Remember(p)
  PROVE  FilesInv'
<1>0. UNCHANGED <<packet, plan, latestPlan>> /\ OnDisk
  BY DEF flowVars, planVars, FilesInv
<1>1. CASE SaveLatest(p)
  <2>1. /\ At(p, "filed", "pointed") /\ latest' = {held[p].run} /\ pc[p] = "filed"
        /\ UNCHANGED <<file, kernel, index, memory, job, held, seen, history>>
    BY <1>1 DEF SaveLatest, At
  <2>2. Saving(p) /\ held[p].run \in Filed /\ pc'[p] = "pointed"
    BY <2>1, AtSave, AtStep DEF Saving, CoderPoints
  <2>3. Known' = Known /\ Drawn' = Drawn
    BY <1>0, <2>1 DEF Known, Drawn, Planned
  <2>4. Filed' = Filed => OnDisk'
    BY <1>0, <2>1, <2>2, <2>3 DEF OnDisk
  <2>5. Filed' = Filed /\ Ran' = Ran => Saving(p)'
    BY <2>1, <2>2 DEF Saving, CoderPoints
  <2> QED
    BY <2>1, <2>3, <2>4, <2>5, MirrorFiles DEF CoderPoints
<1>2. CASE Lookup(p)
  <2>1. /\ At(p, "pointed", "found") /\ pc[p] = "pointed"
        /\ UNCHANGED <<file, latest, kernel, index, memory, job, held, seen, history>>
    BY <1>2 DEF Lookup, At, disk
  <2>2. Saving(p) /\ pc'[p] = "found"
    BY <2>1, AtSave, AtStep DEF CoderPoints
  <2>3. Known' = Known /\ Drawn' = Drawn
    BY <1>0, <2>1 DEF Known, Drawn, Planned
  <2>4. Filed' = Filed => OnDisk'
    BY <1>0, <2>1, <2>2, <2>3 DEF OnDisk
  <2>5. Filed' = Filed /\ Ran' = Ran => Saving(p)'
    BY <2>1, <2>2 DEF Saving, CoderPoints
  <2> QED
    BY <2>1, <2>3, <2>4, <2>5, MirrorFiles DEF CoderPoints
<1>3. CASE Register(p)
  <2>1. /\ At(p, "found", "registered") /\ pc[p] = "found"
        /\ kernel' = [kernel EXCEPT ![held[p].run] = mapImplementationStatus(held[p].status)]
        /\ UNCHANGED <<file, latest, index, memory, job, held, seen, history>>
    BY <1>3 DEF Register, At
  <2>2. /\ Saving(p) /\ held[p].run \in Runs /\ held[p].run \in Filed /\ latest # {}
        /\ pc'[p] = "registered"
    BY <2>1, AtSave, AtStep, FiledFacts DEF Saving, CoderPoints
  <2>3. /\ mapImplementationStatus(held[p].status) \in RUN_STATUS
        /\ mapImplementationStatus(held[p].status) # "none"
    BY <2>1, AtSave, MappedStatus DEF CoderPoints
  <2>4. /\ Known' = Known \cup {held[p].run} /\ Drawn' = Drawn
        /\ kernel' \in [Runs \cup Plans -> RUN_STATUS \cup {"none"}]
    BY <1>0, <2>1, <2>2, <2>3 DEF Known, Drawn, Planned, OnDisk
  <2>5. held[p].run \notin Plans
    BY <2>2, CoderAssumption
  <2>6. Filed' = Filed => OnDisk'
    BY <1>0, <2>1, <2>2, <2>4, <2>5 DEF OnDisk
  <2>7. Filed' = Filed /\ Ran' = Ran => Saving(p)'
    BY <2>1, <2>2, <2>4 DEF Saving, CoderPoints
  <2> QED
    BY <2>1, <2>4, <2>6, <2>7, MirrorFiles DEF CoderPoints
<1>4. CASE Index(p)
  <2>1. /\ At(p, "registered", "indexed") /\ index' = {held[p].run} /\ pc[p] = "registered"
        /\ UNCHANGED <<file, latest, kernel, memory, job, held, seen, history>>
    BY <1>4 DEF Index, At
  <2>2. Saving(p) /\ held[p].run \in Known /\ pc'[p] = "indexed"
    BY <2>1, AtSave, AtStep DEF Saving, CoderPoints
  <2>3. Known' = Known /\ Drawn' = Drawn
    BY <1>0, <2>1 DEF Known, Drawn, Planned
  <2>4. Filed' = Filed => OnDisk'
    BY <1>0, <2>1, <2>2, <2>3 DEF OnDisk
  <2>5. Filed' = Filed /\ Ran' = Ran => Saving(p)'
    BY <2>1, <2>2, <2>3 DEF Saving, CoderPoints
  <2> QED
    BY <2>1, <2>3, <2>4, <2>5, MirrorFiles DEF CoderPoints
<1>5. CASE Recall(p)
  <2>1. /\ At(p, "indexed", "recalled") /\ pc[p] = "indexed"
        /\ seen' = [seen EXCEPT ![p] = memory.plan]
        /\ UNCHANGED <<file, latest, kernel, index, memory, job, held, history>>
    BY <1>5 DEF Recall, At, disk
  <2>2. Saving(p) /\ pc'[p] = "recalled" /\ seen'[p] = memory.plan
    BY <2>1, AtSave, AtStep DEF CoderPoints, FilesInv, Holding
  <2>3. Known' = Known /\ Drawn' = Drawn
    BY <1>0, <2>1 DEF Known, Drawn, Planned
  <2>4. Filed' = Filed => OnDisk'
    BY <1>0, <2>1, <2>2, <2>3 DEF OnDisk
  <2>5. Filed' = Filed /\ Ran' = Ran => Saving(p)'
    BY <1>0, <2>1, <2>2, <2>3 DEF Saving, CoderPoints, OnDisk
  <2> QED
    BY <2>1, <2>3, <2>4, <2>5, MirrorFiles DEF CoderPoints
<1>6. CASE Remember(p)
  <2>1. /\ At(p, "recalled", "saved") /\ pc[p] = "recalled"
        /\ memory' = [run |-> held[p].run, plan |-> seen[p], record |-> held[p].run,
                      status |-> held[p].status]
        /\ UNCHANGED <<file, latest, kernel, index, job, held, seen, history>>
    BY <1>6 DEF Remember, At
  <2>2. /\ Saving(p) /\ held[p].run \in Known /\ held[p].run \in Filed /\ pc'[p] = "saved"
        /\ seen[p] # "none" => seen[p] \in Drawn
    <3>1. Saving(p) /\ held[p].run \in Known /\ held[p].run \in Runs
      BY <2>1, AtSave DEF Saving, CoderPoints
    <3> QED
      BY <1>0, <2>1, <3>1, AtStep DEF Saving, CoderPoints, OnDisk
  <2>3. Known' = Known /\ Drawn' = Drawn
    BY <1>0, <2>1 DEF Known, Drawn, Planned
  <2>4. /\ memory'.run = held[p].run /\ memory'.plan = seen[p] /\ memory'.record = held[p].run
    BY <2>1
  <2>5. Filed' = Filed => OnDisk'
    BY <1>0, <2>1, <2>2, <2>3, <2>4 DEF OnDisk
  <2>6. Filed' = Filed /\ Ran' = Ran => Saving(p)'
    BY <2>1, <2>2, <2>3 DEF Saving, CoderPoints
  <2> QED
    BY <2>1, <2>3, <2>5, <2>6, MirrorFiles DEF CoderPoints
<1> QED
  BY <1>1, <1>2, <1>3, <1>4, <1>5, <1>6

LEMMA HeldKept ==
  ASSUME FilesInv, NEW p \in Procs, NEW rec \in Records \cup {NoRun},
         held' = [held EXCEPT ![p] = rec], seen' = seen
  PROVE  Holding' /\ held'[p] = rec /\ \A q \in Procs \ {p} : held'[q] = held[q]
BY DEF FilesInv, Holding

LEMMA RoundFiles ==
  ASSUME IInv, FilesInv, NEW p \in Procs, executeRound(p), UNCHANGED flowVars
  PROVE  FilesInv'
<1>0. At(p, "checking", "save") /\ UNCHANGED <<disk, job, seen, history, flowVars>>
  BY DEF executeRound
<1> PICK failed \in SUBSET held[p].checks : \E failures \in SUBSET failed :
      held' = [held EXCEPT ![p] = Round(held[p], failed, failures)]
  BY DEF executeRound
<1> PICK failures \in SUBSET failed : held' = [held EXCEPT ![p] = Round(held[p], failed, failures)]
  OBVIOUS
<1> PICK rec : rec = Round(held[p], failed, failures)
  OBVIOUS
<1>1. pc[p] = "checking" /\ pc'[p] = "save" /\ \A q \in Procs \ {p} : pc'[q] = pc[q]
  BY <1>0, AtStep
<1>2. /\ UNCHANGED <<disk, planVars>> /\ job' = job /\ work' = work /\ trace' = trace
      /\ plan' = plan /\ packet' = packet /\ begun' = begun /\ alone' = alone /\ seen' = seen
  BY <1>0 DEF flowVars, planVars, history
<1>3. /\ OnDisk /\ Saving(p) /\ held[p] \in Records /\ held[p].run \in Filed
      /\ held[p].rounds < begun /\ begun \in 0..MaxCommands /\ alone \in BOOLEAN
      /\ held[p].rounds \in Nat /\ MaxCommands \in Nat
  BY <1>1, AtSave, RecordFacts DEF FilesInv, Counted, Saving, CoderPoints
<1>4. held[p].rounds < MaxCommands
  BY <1>3
<1>5. rec \in Records /\ rec.run = held[p].run /\ rec.rounds = held[p].rounds + 1
  BY <1>3, <1>4, RoundIsRecord
<1>6. Holding' /\ held'[p] = rec /\ \A q \in Procs \ {p} : held'[q] = held[q]
  BY <1>2, <1>5, HeldKept
<1>7. Others(p) /\ ~Unfiled(p)'
  BY <1>1, <1>2, <1>3, <1>5, <1>6 DEF Others, Unfiled
<1>8. OnDisk' /\ Grows(p) /\ Filed' = Filed
  BY <1>2, <1>3, FilesStay DEF Filed, Exists, disk
<1>9. Saving(p)'
  BY <1>1, <1>3, <1>5, <1>6, <1>8 DEF Saving
<1>10. ASSUME job[p] = "implement" PROVE Making(p, pc[p], Entries(p))' /\ Resolved(work[p].mine, Flow(p))'
  <2>1. Entries(p)' = Entries(p) /\ Flow(p)' = Flow(p)
    BY <1>2 DEF Entries, Flow
  <2>2. Making(p, pc[p], Entries(p)) /\ Len(Entries(p)) = Before + 3 /\ Before \in Nat
    BY <1>1, <1>10, StepPlaces DEF FilesInv, Doing, Making, CoderPoints
  <2>3. Made(p) /\ Entries(p)[Before + 2].status = "succeeded"
        /\ Entries(p)[Before + 2].names = held[p].run
    BY <2>2 DEF Making
  <2>4. Made(p)'
    BY <1>5, <1>6, <1>8, <2>3 DEF Made, Grows
  <2>5. Making(p, pc[p], Entries(p))'
    BY <1>1, <1>3, <1>5, <1>6, <2>1, <2>2, <2>3, <2>4 DEF Making, CoderPoints, PlanPoints
  <2>6. Shown(work'[p].mine, Flow(p)', Known', Ran', plan'[Flow(p)'])
    BY <1>2, <1>8, <1>10, <2>1, ShownGrows DEF FilesInv, Doing, Resolved, Grows
  <2> QED
    BY <2>5, <2>6 DEF Resolved
<1>11. Doing(p)'
  BY <1>2, <1>9, <1>10 DEF Doing
<1>12. begun' \in 0..MaxCommands /\ begun <= begun' /\ alone' \in BOOLEAN /\ begun' > 0
  BY <1>2, <1>3
<1>13. held'[p].rounds <= begun' /\ held'[p].run = held[p].run
  BY <1>2, <1>3, <1>5, <1>6
<1>14. Flow(p) \in Plans => Shown(trace'[Flow(p)], Flow(p), Known, Ran, plan[Flow(p)])
  BY <1>2 DEF FilesInv, Resolved
<1> QED
  BY <1>1, <1>2, <1>6, <1>7, <1>11, <1>12, <1>13, <1>14, QuietFiles

LEMMA RefusedFiles ==
  ASSUME IInv, FilesInv, NEW p \in Procs, Refused(p), UNCHANGED flowVars
  PROVE  FilesInv'
<1>1. CASE job[p] = "implement"
  <2>1. /\ At(p, "pointed", "threw") /\ pc[p] = "pointed"
        /\ UNCHANGED <<file, latest, kernel, index, memory, job, held, seen, history>>
    BY <1>1 DEF Refused, disk
  <2>2. pc'[p] = "threw" /\ Known' = Known
    BY <2>1, AtStep DEF Known
  <2>3. UNCHANGED <<disk, planVars>> /\ OnDisk
    BY <2>1 DEF disk, flowVars, FilesInv
  <2>4. OnDisk'
    BY <2>3, FilesStay
  <2>5. Saving(p)'
    BY <2>2 DEF Saving, CoderPoints
  <2> QED
    BY <1>1, <2>1, <2>2, <2>4, <2>5, MirrorFiles DEF CoderPoints
<1>2. CASE job[p] # "implement"
  BY <1>2, ExitFiles DEF Refused, history
<1> QED
  BY <1>1, <1>2

LEMMA SavedFiles ==
  ASSUME IInv, FilesInv, NEW p \in Procs, Saved(p), UNCHANGED flowVars
  PROVE  FilesInv'
<1>1. CASE held[p].rounds = 0
  <2>1. /\ At(p, "saved", "checking") /\ pc[p] = "saved" /\ job[p] \in {"create", "round"}
        /\ UNCHANGED <<disk, job, held, seen, history>>
    BY <1>1 DEF Saved
  <2>2. /\ Saving(p) /\ held[p] \in Records /\ held[p].run \in Filed /\ held[p].rounds <= begun
        /\ held[p].rounds \in Nat /\ begun \in 0..MaxCommands /\ alone \in BOOLEAN /\ begun > 0
    BY <2>1, AtSave DEF Saving, CoderPoints, FilesInv, Counted
  <2>3. pc'[p] = "checking" /\ \A q \in Procs \ {p} : pc'[q] = pc[q]
    BY <2>1, AtStep
  <2>4. Holding' /\ held' = held /\ work' = work /\ begun' = begun /\ alone' = alone
    BY <2>1 DEF FilesInv, Holding, flowVars, history
  <2>5. Others(p) /\ ~Unfiled(p)'
    BY <2>1, <2>3, <2>4 DEF Others, Unfiled
  <2>6. Filed' = Filed
    BY <2>1 DEF Filed, Exists, disk
  <2>7. Saving(p)'
    BY <2>2, <2>3, <2>4, <2>6 DEF Saving
  <2>8. begun' \in 0..MaxCommands /\ begun <= begun' /\ held'[p].rounds < begun' /\ begun' > 0
        /\ alone' \in BOOLEAN /\ held'[p].rounds <= begun'
    BY <1>1, <2>2, <2>4
  <2>9. job'[p] # "implement" /\ UNCHANGED <<disk, flowVars>>
    BY <2>1
  <2> QED
    BY <2>3, <2>4, <2>5, <2>7, <2>8, <2>9, LoopGoesOn
<1>2. CASE held[p].rounds # 0
  BY <1>2, ExitFiles DEF Saved, history
<1> QED
  BY <1>1, <1>2

LEMMA CoderFiles ==
  ASSUME IInv, FilesInv, NEW p \in Procs, CoderStep(p), UNCHANGED flowVars
  PROVE  FilesInv'
BY CreateFiles, RoundFiles, SaveFiles, SaveSteps, RefusedFiles, SavedFiles DEF CoderStep
------------------------------------------------------------------------------
(* The moves of the engine.                                                *)

\* A process keeps t of its workflow and "written" is in the file, as in KeepInv.
LEMMA KeepFiles ==
  ASSUME IInv, FilesInv, NEW p \in Procs, NEW here \in EnginePoints \cup StepPoints,
         NEW next \in EnginePoints \cup StepPoints, At(p, here, next),
         UNCHANGED <<disk, planVars, job, held, seen, history>>,
         NEW t, work' = [work EXCEPT ![p].mine = t], NEW written,
         trace' = [trace EXCEPT ![Flow(p)] = written],
         Making(p, next, t.steps),
         Resolved(t, Flow(p)), Resolved(written, Flow(p))
  PROVE  FilesInv'
<1>0. /\ Typed /\ job[p] = "implement" /\ Flow(p) \in Plans /\ OnDisk
      /\ pc[p] = here /\ pc'[p] = next /\ \A q \in Procs \ {p} : pc'[q] = pc[q]
      /\ job' = job /\ held' = held /\ seen' = seen /\ begun' = begun /\ alone' = alone
      /\ plan' = plan /\ packet' = packet /\ UNCHANGED <<disk, planVars>>
  BY AtStep, Implements DEF IInv, FilesInv, history, planVars
<1>1. /\ \A q \in Procs \ {p} : work'[q] = work[q]
      /\ work'[p].mine = t /\ work'[p].name = work[p].name /\ work'[p].plan = work[p].plan
  BY <1>0 DEF Typed
<1>2. Flow(p)' = Flow(p) /\ Entries(p)' = t.steps
  BY <1>1 DEF Flow, Entries
<1>3. OnDisk' /\ Grows(p)
  BY <1>0, FilesStay
<1>4. /\ trace'[Flow(p)] = written
      /\ \A w \in Plans : w # Flow(p) => trace'[w] = trace[w]
  BY <1>0 DEF Typed
<1>5. Others(p) /\ ~Unfiled(p)' /\ Holding'
  BY <1>0, <1>1 DEF Others, Unfiled, EnginePoints, StepPoints, FilesInv, Holding
<1>6. /\ begun' \in 0..MaxCommands /\ begun <= begun' /\ alone' \in BOOLEAN /\ begun' > 0
      /\ held'[p] \in Records => held'[p].rounds <= begun'
      /\ pc'[p] # "checking"
  <2>1. Counted /\ MaxCommands \in Nat
    BY RecordFacts DEF FilesInv
  <2> QED
    BY <1>0, <2>1 DEF Counted, EnginePoints, StepPoints
<1>7. (Made(p) => Made(p)') /\ (Tested(p) => Tested(p)') /\ Known \subseteq Known'
  BY <1>0, <1>3 DEF Made, Tested, Grows
<1>8. Making(p, pc[p], Entries(p))'
  BY <1>0, <1>1, <1>2, <1>7 DEF Making
<1>9. Shown(work'[p].mine, Flow(p)', Known', Ran', plan'[Flow(p)'])
  BY <1>0, <1>1, <1>2, <1>3, ShownGrows DEF Resolved, Grows
<1>10. Saving(p)'
  BY <1>0 DEF Saving, EnginePoints, StepPoints, CoderPoints
<1>11. Doing(p)'
  BY <1>8, <1>9, <1>10 DEF Doing, Resolved
<1>12. Shown(trace'[Flow(p)], Flow(p), Known, Ran, plan[Flow(p)])
  BY <1>4 DEF Resolved
<1> QED
  BY <1>0, <1>3, <1>4, <1>5, <1>6, <1>11, <1>12, QuietFiles

\* Where a workflow is, its place among the steps and its trace.
LEMMA AtEngine ==
  ASSUME IInv, FilesInv, NEW p \in Procs, NEW point \in EnginePoints \cup StepPoints, pc[p] = point
  PROVE  /\ Holds(p, point) /\ Making(p, point, Entries(p)) /\ Before \in Nat
         /\ Resolved(work[p].mine, Flow(p)) /\ Resolved(trace[Flow(p)], Flow(p))
         /\ job[p] = "implement" /\ Flow(p) \in Plans /\ Typed /\ OnDisk
BY AtPoint, StepPlaces DEF FilesInv, Doing, Holds

\* The last step of a trace, told from its name.
LEMMA CurrentPlace ==
  ASSUME NEW p \in Procs, NEW from, Within(work[p].mine, from), Len(Entries(p)) <= Before + 4
  PROVE  /\ Len(Entries(p)) \in 1..(Before + 4)
         /\ Current(p) = "run-scaffold" => Len(Entries(p)) = Before + 1
         /\ Current(p) = "create-coder-run" <=> Len(Entries(p)) = Before + 2
         /\ Current(p) = "execute-validation-round" <=> Len(Entries(p)) = Before + 3
         /\ Current(p) = "write-plan-artifacts" <=> Len(Entries(p)) = Before + 4
         /\ Current(p) \in Range(Reports) => Len(Entries(p)) <= Before
<1>1. Len(Entries(p)) \in Nat /\ Len(Entries(p)) # 0
  BY Statuses DEF Within, Entries
<1>2. Len(Entries(p)) \in 1..(Before + 4)
  BY <1>1, StepPlaces
<1> QED
  BY <1>2, StepNames DEF Current

\* Where only entries that are no successes changed, no more is shown.
LEMMA KeptShows ==
  ASSUME NEW t, NEW m, NEW n \in Nat, IsTrace(t), IsTrace(m), n <= Len(t.steps),
         \A i \in 1..n : m.steps[i] = t.steps[i],
         \A i \in 1..Len(m.steps) : i > n => m.steps[i].status # "succeeded",
         NEW w, NEW known, NEW ran, NEW pl, Shown(t, w, known, ran, pl)
  PROVE  Shown(m, w, known, ran, pl)
<1>1. Len(t.steps) \in Nat /\ Len(m.steps) \in Nat /\ Before \in Nat
  BY Statuses, StepPlaces
<1> SUFFICES ASSUME NEW i \in 1..Len(m.steps), m.steps[i].status = "succeeded"
             PROVE  /\ i = Before + 2 => m.steps[i].names \in known \cap Runs
                    /\ i = Before + 3 => m.steps[Before + 2].names \in ran
                    /\ i = Before + 4 =>
                         /\ w \in known /\ pl.run = m.steps[Before + 2].names
                         /\ m.steps[Before + 3].status = "succeeded" => pl.rounds > 0
  BY DEF Shown
<1>2. i \in 1..n /\ i \in 1..Len(t.steps) /\ m.steps[i] = t.steps[i]
  BY <1>1
<1>3. i = Before + 3 \/ i = Before + 4 => m.steps[Before + 2] = t.steps[Before + 2]
  BY <1>1, <1>2
<1>4. i = Before + 4 => m.steps[Before + 3] = t.steps[Before + 3]
  BY <1>1, <1>2
<1> QED
  BY <1>2, <1>3, <1>4 DEF Shown

LEMMA MarkedShows ==
  ASSUME NEW t, NEW from, Within(t, from), NEW w, NEW known, NEW ran, NEW pl,
         Shown(t, w, known, ran, pl), NEW status \in StepStatus, status # "succeeded", NEW name
  PROVE  Shown(Marked(t, status, name), w, known, ran, pl)
<1> PICK m : m = Marked(t, status, name)
  OBVIOUS
<1>1. /\ IsTrace(t) /\ IsTrace(m) /\ Len(m.steps) = Len(t.steps) /\ m.steps[Len(t.steps)].status = status
      /\ \A i \in 1..(Len(t.steps) - 1) : m.steps[i] = t.steps[i]
  BY MarkedTrace DEF Within
<1>2. Len(t.steps) \in Nat /\ Len(t.steps) # 0
  BY <1>1, Statuses DEF Within
<1> PICK n : n = Len(t.steps) - 1
  OBVIOUS
<1>3. n \in Nat /\ n <= Len(t.steps) /\ \A i \in 1..Len(m.steps) : i > n => i = Len(t.steps)
  BY <1>1, <1>2
<1>4. Shown(m, w, known, ran, pl)
  BY <1>1, <1>3, KeptShows
<1> QED
  BY <1>4

\* Shown looks at the steps only.
LEMMA SameSteps ==
  ASSUME NEW t, NEW m, m.steps = t.steps, NEW w, NEW known, NEW ran, NEW pl,
         Shown(t, w, known, ran, pl)
  PROVE  Shown(m, w, known, ran, pl)
BY DEF Shown

LEMMA OpenFiles == ASSUME IInv, FilesInv, NEW p \in Procs, Open(p) PROVE FilesInv'
<1> DEFINE t == [status |-> "running", steps |-> <<>>]
<1>1. /\ At(p, "open", "opened") /\ pc[p] = "open" /\ trace' = trace
      /\ work' = [work EXCEPT ![p].mine = t]
      /\ UNCHANGED <<disk, planVars, job, held, seen, history>>
  BY DEF Open, SetTrace, At
<1>2. /\ Before \in Nat /\ Flow(p) \in Plans /\ Typed /\ Resolved(trace[Flow(p)], Flow(p))
  BY <1>1, AtEngine DEF EnginePoints
<1>3. trace' = [trace EXCEPT ![Flow(p)] = trace[Flow(p)]]
  BY <1>1, <1>2, Unwritten
<1>4. t.steps = <<>> /\ Len(t.steps) = 0
  OBVIOUS
<1> HIDE DEF t
<1>5. Making(p, "opened", t.steps)
  BY <1>2, <1>4 DEF Making, CoderPoints, PlanPoints
<1>6. Resolved(t, Flow(p))
  BY <1>4 DEF Resolved, Shown
<1> QED
  BY <1>1, <1>2, <1>3, <1>5, <1>6, KeepFiles DEF EnginePoints

LEMMA PersistFiles == ASSUME IInv, FilesInv, NEW p \in Procs, Persist(p) PROVE FilesInv'
<1> DEFINE t == work[p].mine
<1> PICK move \in {<<"opened", "next">>, <<"skipping", "next">>, <<"starting", "body">>,
                   <<"completing", "next">>} :
      /\ At(p, move[1], move[2]) /\ trace' = [trace EXCEPT ![Flow(p)] = t] /\ work' = work
      /\ UNCHANGED <<disk, planVars, job, held, seen, history>>
  BY DEF Persist
<1> PICK here, next : here = move[1] /\ next = move[2]
  OBVIOUS
<1>1. /\ here \in {"opened", "skipping", "starting", "completing"}
      /\ next = IF here = "starting" THEN "body" ELSE "next"
  OBVIOUS
<1>2. At(p, here, next) /\ pc[p] = here
  BY DEF At
<1>3. /\ Holds(p, here) /\ Making(p, here, Entries(p)) /\ Before \in Nat /\ Typed
      /\ Resolved(t, Flow(p))
  BY <1>1, <1>2, AtEngine DEF EnginePoints
<1>4. Stage(here, t, trace[Flow(p)]) /\ Entries(p) = t.steps
  BY <1>2, <1>3 DEF Holds, Entries
<1>5. Making(p, next, t.steps)
  <2>1. CASE here = "opened"
    <3>1. Len(t.steps) = 0 /\ next = "next"
      BY <1>1, <1>4, <2>1 DEF Stage
    <3> QED
      BY <1>3, <3>1 DEF Making, CoderPoints, PlanPoints
  <2>2. CASE here = "skipping"
    <3>1. Within(t, "skipped")
      BY <1>4, <2>2, MarkedWithin DEF Stage, StepStatus
    <3>2. t.steps[Len(t.steps)].status = "skipped" /\ Len(t.steps) \in Nat /\ next = "next"
      BY <1>1, <2>2, <3>1, Statuses DEF Within
    <3> QED
      BY <1>3, <1>4, <2>2, <3>2 DEF Making, CoderPoints, PlanPoints
  <2>3. CASE here = "starting"
    BY <1>1, <1>3, <1>4, <2>3 DEF Making, CoderPoints, PlanPoints, Drafted, Listed
  <2>4. CASE here = "completing"
    BY <1>1, <1>3, <1>4, <2>4 DEF Making, CoderPoints, PlanPoints, Drafted, Listed
  <2> QED
    BY <1>1, <2>1, <2>2, <2>3, <2>4
<1>6. work' = [work EXCEPT ![p].mine = t]
  BY <1>3 DEF Typed
<1> HIDE DEF t
<1> QED
  BY <1>1, <1>2, <1>3, <1>5, <1>6, KeepFiles DEF EnginePoints, StepPoints

\* A new entry comes after what the others left.
LEMMA PushedMakes ==
  ASSUME NEW p, NEW s, NEW m, NEW k \in Nat, k = Len(s), Len(m) = k + 1, k < Before + 4,
         \A i \in 1..k : m[i] = s[i], Making(p, "next", s)
  PROVE  Making(p, "decide", m)
<1>1. Before \in Nat /\ k + 1 <= Before + 4
  BY StepPlaces
<1>2. k >= Before + 2 => m[Before + 2] = s[Before + 2]
  BY <1>1
<1>3. k >= Before + 3 => m[Before + 3] = s[Before + 3]
  BY <1>1
<1>4. k >= Before + 2 => /\ Made(p) /\ s[Before + 2].status = "succeeded"
                         /\ s[Before + 2].names = held[p].run
  BY <1>1 DEF Making, PlanPoints
<1>5. k = Before + 2 => held[p].rounds = 0
  BY DEF Making, PlanPoints
<1>6. k >= Before + 3 => (s[Before + 3].status = "succeeded" => Tested(p))
  BY <1>1 DEF Making, PlanPoints
<1> QED
  BY <1>1, <1>2, <1>3, <1>4, <1>5, <1>6 DEF Making, CoderPoints, PlanPoints, Drafted, Listed

LEMMA PushedShows ==
  ASSUME NEW t, IsTrace(t), NEW e, e.status = "pending", NEW m, m = Pushed(t, e),
         NEW w, NEW known, NEW ran, NEW pl, Shown(t, w, known, ran, pl)
  PROVE  Shown(m, w, known, ran, pl)
<1>1. /\ IsTrace(m) /\ Len(m.steps) = Len(t.steps) + 1 /\ Len(t.steps) \in Nat
      /\ m.steps[Len(m.steps)].status = "pending"
      /\ \A i \in 1..Len(t.steps) : m.steps[i] = t.steps[i]
  BY PushedTrace, Statuses
<1> PICK n : n = Len(t.steps)
  OBVIOUS
<1>2. \A i \in 1..Len(m.steps) : i > n => m.steps[i].status # "succeeded"
  BY <1>1
<1>3. n \in Nat /\ n <= Len(t.steps) /\ \A i \in 1..n : m.steps[i] = t.steps[i]
  BY <1>1
<1> QED
  BY <1>1, <1>2, <1>3, KeptShows

LEMMA PushedEntries ==
  ASSUME NEW t, IsTrace(t), NEW e, e.status = "pending", NEW m, m = Pushed(t, e)
  PROVE  /\ Len(m.steps) = Len(t.steps) + 1 /\ Len(t.steps) \in Nat
         /\ \A i \in 1..Len(t.steps) : m.steps[i] = t.steps[i]
BY PushedTrace, Statuses

LEMMA PushFiles == ASSUME IInv, FilesInv, NEW p \in Procs, Push(p) PROVE FilesInv'
<1>0. PICK e, t :
      /\ e = [status |-> "pending", names |-> "none"]
      /\ t = Pushed(work[p].mine, e)
      /\ At(p, "next", "decide") /\ Len(Entries(p)) < Len(Steps)
      /\ work' = [work EXCEPT ![p].mine = t] /\ trace' = [trace EXCEPT ![Flow(p)] = t]
      /\ UNCHANGED <<disk, planVars, job, held, seen, history>>
  BY DEF Push, Write, SetTrace, Pushed
<1>1. pc[p] = "next" /\ e.status = "pending" /\ t = Pushed(work[p].mine, e)
  BY <1>0 DEF At
<1>2. /\ Holds(p, "next") /\ Making(p, "next", Entries(p)) /\ Resolved(work[p].mine, Flow(p))
  BY <1>1, AtEngine DEF EnginePoints
<1>3. IsTrace(work[p].mine)
  BY <1>2 DEF Holds, Stage, Between
<1>4. /\ Len(t.steps) = Len(Entries(p)) + 1 /\ Len(Entries(p)) \in Nat
      /\ \A i \in 1..Len(Entries(p)) : t.steps[i] = Entries(p)[i]
  <2> PICK old : old = work[p].mine
    OBVIOUS
  <2>1. IsTrace(old) /\ t = Pushed(old, e) /\ e.status = "pending"
    BY <1>1, <1>3
  <2>2. /\ Len(t.steps) = Len(old.steps) + 1 /\ Len(old.steps) \in Nat
        /\ \A i \in 1..Len(old.steps) : t.steps[i] = old.steps[i]
    BY <2>1, PushedEntries
  <2> QED
    BY <2>2 DEF Entries
<1>5. Making(p, "decide", t.steps)
  BY <1>0, <1>2, <1>4, PushedMakes, StepPlaces
<1>6. Resolved(t, Flow(p))
  BY <1>1, <1>2, <1>3, PushedShows DEF Resolved
<1> QED
  BY <1>0, <1>5, <1>6, KeepFiles DEF EnginePoints

\* The last entry changes and is no success: what the others left is behind it.
LEMMA MarkedMakes ==
  ASSUME NEW p, NEW s, NEW m, NEW k \in 1..(Before + 4), k = Len(s), k = Len(m),
         \A i \in 1..(k - 1) : m[i] = s[i],
         NEW here, NEW next, Making(p, here, s),
         \/ here = "decide" /\ next \in {"skipping", "starting"}
         \/ here = "threw" /\ next = "failing",
         next = "skipping" => k # Before + 2 /\ k # Before + 4
  PROVE  Making(p, next, m)
<1>1. Before \in Nat
  BY StepPlaces
<1>2. /\ k > Before + 2 => m[Before + 2] = s[Before + 2]
      /\ k > Before + 3 => m[Before + 3] = s[Before + 3]
  BY <1>1
<1>3. k > Before + 2 => /\ Made(p) /\ s[Before + 2].status = "succeeded"
                        /\ s[Before + 2].names = held[p].run
  BY <1>1 DEF Making
<1>4. k > Before + 3 => (s[Before + 3].status = "succeeded" => Tested(p))
  BY <1>1 DEF Making
<1>5. k = Before + 3 /\ here = "decide" => held[p].rounds = 0
  BY <1>1 DEF Making
<1> QED
  BY <1>1, <1>2, <1>3, <1>4, <1>5 DEF Making, CoderPoints, PlanPoints, Drafted, Listed

\* A step that succeeded names what is behind it.
LEMMA SuccessMakes ==
  ASSUME NEW p, NEW s, NEW m, NEW k \in 1..(Before + 4), k = Len(s), k = Len(m),
         \A i \in 1..(k - 1) : m[i] = s[i], Making(p, "done", s), m[k].status = "succeeded",
         k = Before + 2 => m[k].names = held[p].run
  PROVE  Making(p, "completing", m)
<1>1. Before \in Nat
  BY StepPlaces
<1>2. /\ k > Before + 2 => m[Before + 2] = s[Before + 2]
      /\ k > Before + 3 => m[Before + 3] = s[Before + 3]
  BY <1>1
<1>3. k > Before + 2 => /\ Made(p) /\ s[Before + 2].status = "succeeded"
                        /\ s[Before + 2].names = held[p].run
  BY <1>1 DEF Making
<1>4. k > Before + 3 => (s[Before + 3].status = "succeeded" => Tested(p))
  BY <1>1 DEF Making
<1>5. /\ k = Before + 2 => Made(p) /\ held[p].rounds = 0
      /\ k = Before + 3 => Tested(p)
      /\ k = Before + 4 => /\ work[p].plan = PlanOf(held[p]) /\ plan[Flow(p)] = PlanOf(held[p])
                           /\ Flow(p) \in Known
  BY DEF Making, Drafted, Listed
<1> QED
  BY <1>1, <1>2, <1>3, <1>4, <1>5 DEF Making, CoderPoints, PlanPoints, Drafted, Listed

LEMMA SuccessShows ==
  ASSUME NEW p, NEW t, NEW m, NEW k \in 1..(Before + 4), k = Len(t.steps), k = Len(m.steps),
         \A i \in 1..(k - 1) : m.steps[i] = t.steps[i], Resolved(t, Flow(p)),
         Making(p, "completing", m.steps)
  PROVE  Resolved(m, Flow(p))
<1>1. Before \in Nat
  BY StepPlaces
<1>2. ASSUME NEW i \in 1..Len(m.steps), m.steps[i].status = "succeeded"
      PROVE  /\ i = Before + 2 => m.steps[i].names \in Known \cap Runs
             /\ i = Before + 3 => m.steps[Before + 2].names \in Ran
             /\ i = Before + 4 =>
                  /\ Flow(p) \in Known /\ plan[Flow(p)].run = m.steps[Before + 2].names
                  /\ m.steps[Before + 3].status = "succeeded" => plan[Flow(p)].rounds > 0
  <2>1. CASE i = k
    <3>1. i = Before + 2 => m.steps[i].names = held[p].run /\ Made(p)
      BY <1>1, <2>1 DEF Making
    <3>2. i = Before + 3 => m.steps[Before + 2].names = held[p].run /\ Tested(p)
      BY <1>1, <2>1 DEF Making
    <3>3. i = Before + 4 =>
            /\ Flow(p) \in Known /\ plan[Flow(p)] = PlanOf(held[p])
            /\ m.steps[Before + 2].names = held[p].run
            /\ m.steps[Before + 3].status = "succeeded" => Tested(p)
      BY <1>1, <2>1 DEF Making, Drafted, Listed
    <3>4. PlanOf(held[p]).run = held[p].run /\ PlanOf(held[p]).rounds = held[p].rounds
      BY DEF PlanOf
    <3> QED
      BY <3>1, <3>2, <3>3, <3>4, RecordFacts DEF Made, Tested
  <2>2. CASE i # k
    <3>1. i \in 1..(k - 1) /\ i \in 1..Len(t.steps) /\ m.steps[i] = t.steps[i]
      BY <2>2
    <3>2. /\ i > Before + 2 => m.steps[Before + 2] = t.steps[Before + 2]
          /\ i > Before + 3 => m.steps[Before + 3] = t.steps[Before + 3]
      BY <1>1, <3>1
    <3> QED
      BY <1>1, <1>2, <3>1, <3>2 DEF Resolved, Shown
  <2> QED
    BY <2>1, <2>2
<1> QED
  BY <1>2 DEF Resolved, Shown

LEMMA DecideFiles == ASSUME IInv, FilesInv, NEW p \in Procs, Skip(p) \/ Start(p) PROVE FilesInv'
<1>1. ASSUME NEW next \in {"skipping", "starting"}, NEW status \in {"skipped", "running"},
             next = "skipping" => ~shouldRunStep(p),
             At(p, "decide", next), trace' = trace,
             UNCHANGED <<disk, planVars, job, held, seen, history>>,
             work' = [work EXCEPT ![p].mine = Marked(work[p].mine, status, "none")]
      PROVE  FilesInv'
  <2>0. PICK m : m = Marked(work[p].mine, status, "none")
    OBVIOUS
  <2>1. pc[p] = "decide"
    BY <1>1 DEF At
  <2>2. /\ Holds(p, "decide") /\ Making(p, "decide", Entries(p)) /\ Typed /\ Flow(p) \in Plans
        /\ Resolved(work[p].mine, Flow(p)) /\ Resolved(trace[Flow(p)], Flow(p))
    BY <2>1, AtEngine DEF EnginePoints
  <2>3. Within(work[p].mine, "pending") /\ status \in StepStatus /\ status # "succeeded"
    BY <2>2 DEF Holds, Stage, StepStatus
  <2>4. /\ Len(m.steps) = Len(Entries(p))
        /\ \A i \in 1..(Len(Entries(p)) - 1) : m.steps[i] = Entries(p)[i]
    BY <2>0, <2>3, MarkedTrace DEF Entries, Within
  <2>5. Len(Entries(p)) <= Before + 4
    BY <2>2 DEF Making
  <2>6. /\ Len(Entries(p)) \in 1..(Before + 4)
        /\ Current(p) = "create-coder-run" <=> Len(Entries(p)) = Before + 2
        /\ Current(p) = "write-plan-artifacts" <=> Len(Entries(p)) = Before + 4
    BY <2>3, <2>5, CurrentPlace
  <2>7. next = "skipping" => Len(Entries(p)) # Before + 2 /\ Len(Entries(p)) # Before + 4
    BY <1>1, <2>6 DEF shouldRunStep
  <2>8. Making(p, next, m.steps)
    BY <2>2, <2>4, <2>6, <2>7, MarkedMakes
  <2>9. Resolved(m, Flow(p))
    BY <2>0, <2>2, <2>3, MarkedShows DEF Resolved
  <2>10. trace' = [trace EXCEPT ![Flow(p)] = trace[Flow(p)]]
    BY <1>1, <2>2, Unwritten
  <2> QED
    BY <1>1, <2>0, <2>2, <2>8, <2>9, <2>10, KeepFiles DEF EnginePoints
<1> QED
  BY <1>1 DEF Skip, Start, SetTrace

LEMMA CompleteFiles == ASSUME IInv, FilesInv, NEW p \in Procs, Complete(p) PROVE FilesInv'
<1>0. PICK name, m :
        /\ m = Marked(work[p].mine, "succeeded", name)
        /\ Current(p) = "create-coder-run" => name = held[p].run
        /\ At(p, "done", "completing") /\ trace' = trace
        /\ UNCHANGED <<disk, planVars, job, held, seen, history>>
        /\ work' = [work EXCEPT ![p].mine = m]
  BY DEF Complete, SetTrace
<1>1. pc[p] = "done"
  BY <1>0 DEF At
<1>2. /\ Holds(p, "done") /\ Making(p, "done", Entries(p)) /\ Typed /\ Flow(p) \in Plans
      /\ Resolved(work[p].mine, Flow(p)) /\ Resolved(trace[Flow(p)], Flow(p))
  BY <1>1, AtEngine DEF StepPoints
<1>3. Within(work[p].mine, "running")
  BY <1>2 DEF Holds, Stage, StepPoints
<1>4. /\ Len(m.steps) = Len(Entries(p))
      /\ m.steps[Len(Entries(p))].status = "succeeded" /\ m.steps[Len(Entries(p))].names = name
      /\ \A i \in 1..(Len(Entries(p)) - 1) : m.steps[i] = Entries(p)[i]
  BY <1>0, <1>3, MarkedTrace DEF Entries, Within, StepStatus
<1>5. Len(Entries(p)) <= Before + 4
  BY <1>2 DEF Making
<1>6. /\ Len(Entries(p)) \in 1..(Before + 4)
      /\ Current(p) = "create-coder-run" <=> Len(Entries(p)) = Before + 2
  BY <1>3, <1>5, CurrentPlace
<1>7. Making(p, "completing", m.steps)
  BY <1>0, <1>2, <1>4, <1>6, SuccessMakes
<1>8. Resolved(m, Flow(p))
  BY <1>2, <1>4, <1>6, <1>7, SuccessShows DEF Entries
<1>9. trace' = [trace EXCEPT ![Flow(p)] = trace[Flow(p)]]
  BY <1>0, <1>2, Unwritten
<1> QED
  BY <1>0, <1>2, <1>7, <1>8, <1>9, KeepFiles DEF EnginePoints, StepPoints

LEMMA CatchFiles == ASSUME IInv, FilesInv, NEW p \in Procs, Catch(p) PROVE FilesInv'
<1>0. PICK m :
        /\ m = Failed(work[p].mine)
        /\ At(p, "threw", "failing") /\ trace' = trace
        /\ UNCHANGED <<disk, planVars, job, held, seen, history>>
        /\ work' = [work EXCEPT ![p].mine = m]
  BY DEF Catch, SetTrace, Failed
<1>1. pc[p] = "threw"
  BY <1>0 DEF At
<1>2. /\ Holds(p, "threw") /\ Making(p, "threw", Entries(p)) /\ Typed /\ Flow(p) \in Plans
      /\ Resolved(work[p].mine, Flow(p)) /\ Resolved(trace[Flow(p)], Flow(p))
  BY <1>1, AtEngine DEF StepPoints
<1>3. Within(work[p].mine, "running")
  BY <1>2 DEF Holds, Stage, StepPoints
<1>4. m.steps = Marked(work[p].mine, "failed", "none").steps
  BY <1>0, <1>3, FailedTrace
<1>5. /\ Len(m.steps) = Len(Entries(p))
      /\ \A i \in 1..(Len(Entries(p)) - 1) : m.steps[i] = Entries(p)[i]
  BY <1>3, <1>4, MarkedTrace DEF Entries, Within, StepStatus
<1>6. Len(Entries(p)) \in 1..(Before + 4)
  BY <1>2, <1>3, CurrentPlace DEF Making
<1>7. Making(p, "failing", m.steps)
  BY <1>2, <1>5, <1>6, MarkedMakes
<1>8. Resolved(Marked(work[p].mine, "failed", "none"), Flow(p))
  BY <1>2, <1>3, MarkedShows DEF Resolved, StepStatus
<1>9. Resolved(m, Flow(p))
  BY <1>4, <1>8, SameSteps DEF Resolved
<1>10. trace' = [trace EXCEPT ![Flow(p)] = trace[Flow(p)]]
  BY <1>0, <1>2, Unwritten
<1> QED
  BY <1>0, <1>2, <1>7, <1>9, <1>10, KeepFiles DEF EnginePoints, StepPoints

LEMMA CloseFiles == ASSUME IInv, FilesInv, NEW p \in Procs, Close(p) \/ Announce(p) PROVE FilesInv'
<1>1. CASE Close(p)
  <2>0. PICK t :
          /\ t = [work[p].mine EXCEPT !.status = "succeeded"]
          /\ At(p, "next", "closed") /\ Len(Entries(p)) = Len(Steps)
          /\ UNCHANGED <<disk, planVars, job, held, seen, history>>
          /\ work' = [work EXCEPT ![p].mine = t] /\ trace' = [trace EXCEPT ![Flow(p)] = t]
    BY <1>1 DEF Close, Write, SetTrace
  <2>1. pc[p] = "next"
    BY <2>0 DEF At
  <2>2. /\ Holds(p, "next") /\ Making(p, "next", Entries(p)) /\ Resolved(work[p].mine, Flow(p))
    BY <2>1, AtEngine DEF EnginePoints
  <2>3. t.steps = work[p].mine.steps
    BY <2>0, <2>2 DEF Holds, Stage, Between, IsTrace
  <2>4. Len(Entries(p)) = Before + 4 /\ Before \in Nat
    BY <2>0, StepPlaces
  <2>5. Making(p, "closed", Entries(p))
    BY <2>2, <2>4 DEF Making, CoderPoints, PlanPoints, Drafted, Listed
  <2>6. Making(p, "closed", t.steps) /\ Resolved(t, Flow(p))
    BY <2>2, <2>3, <2>5, SameSteps DEF Resolved, Entries
  <2> QED
    BY <2>0, <2>6, KeepFiles DEF EnginePoints
<1>2. CASE Announce(p)
  <2>0. /\ At(p, "closed", "stamp") /\ trace' = trace /\ work' = work /\ pc[p] = "closed"
        /\ UNCHANGED <<disk, planVars, job, held, seen, history>>
    BY <1>2 DEF Announce, At
  <2>1. /\ Making(p, "closed", Entries(p)) /\ Resolved(work[p].mine, Flow(p)) /\ Typed
        /\ Resolved(trace[Flow(p)], Flow(p)) /\ Flow(p) \in Plans
    BY <2>0, AtEngine DEF EnginePoints
  <2>2. /\ trace' = [trace EXCEPT ![Flow(p)] = trace[Flow(p)]]
        /\ work' = [work EXCEPT ![p].mine = work[p].mine]
    BY <2>0, <2>1, Unwritten DEF Typed
  <2>3. Making(p, "stamp", work[p].mine.steps)
    BY <2>1, StepPlaces DEF Making, CoderPoints, PlanPoints, Drafted, Listed, Entries
  <2> QED
    BY <2>0, <2>1, <2>2, <2>3, KeepFiles DEF EnginePoints
<1> QED
  BY <1>1, <1>2

\* A process that ends leaves nothing behind but what it wrote.
LEMMA EndFiles ==
  ASSUME IInv, FilesInv, NEW p \in Procs, Exit(p), work' = [work EXCEPT ![p] = NoWork],
         UNCHANGED <<disk, planVars, alone, begun>>,
         \A w \in Plans : w # Flow(p) => trace'[w] = trace[w],
         Flow(p) \in Plans => Shown(trace'[Flow(p)], Flow(p), Known, Ran, plan[Flow(p)])
  PROVE  FilesInv'
<1>1. /\ held' = [held EXCEPT ![p] = NoRun] /\ seen' = [seen EXCEPT ![p] = "none"]
      /\ Holding /\ Typed
  BY DEF Exit, FilesInv, IInv
<1>2. /\ held' = [q \in Procs |-> held'[q]] /\ seen' = [q \in Procs |-> seen'[q]]
      /\ held'[p] = NoRun /\ \A q \in Procs \ {p} : held'[q] = held[q] /\ seen'[q] = seen[q]
      /\ \A q \in Procs \ {p} : work'[q] = work[q]
  BY <1>1 DEF Holding, Typed
<1>3. Holding'
  BY <1>1, <1>2 DEF Holding
<1>4. Others(p) /\ pc'[p] = "idle" /\ job'[p] = "none"
  BY <1>2, ExitStep DEF Others
<1>5. begun' \in 0..MaxCommands /\ begun <= begun' /\ alone' \in BOOLEAN
  BY RecordFacts DEF FilesInv, Counted
<1>6. Doing(p)' /\ ~Unfiled(p)'
  BY <1>4 DEF Doing, Saving, Unfiled, CoderPoints
<1> QED
  BY <1>2, <1>3, <1>4, <1>5, <1>6, RecordFacts, QuietFiles

LEMMA RethrowFiles == ASSUME IInv, FilesInv, NEW p \in Procs, Rethrow(p) PROVE FilesInv'
<1>1. /\ pc[p] = "failing" /\ trace' = [trace EXCEPT ![Flow(p)] = work[p].mine]
      /\ Exit(p) /\ work' = [work EXCEPT ![p] = NoWork]
      /\ UNCHANGED <<disk, planVars, alone, begun>>
  BY DEF Rethrow, history
<1>2. Resolved(work[p].mine, Flow(p)) /\ Typed /\ Flow(p) \in Plans
  BY <1>1, AtEngine DEF EnginePoints
<1>3. /\ trace'[Flow(p)] = work[p].mine
      /\ \A w \in Plans : w # Flow(p) => trace'[w] = trace[w]
  BY <1>1, <1>2 DEF Typed
<1> QED
  BY <1>1, <1>2, <1>3, EndFiles DEF Resolved

LEMMA KillFiles == ASSUME IInv, FilesInv, NEW p \in Procs, KillAny(p) PROVE FilesInv'
<1>1. /\ Exit(p) /\ work' = [work EXCEPT ![p] = NoWork] /\ trace' = trace
      /\ UNCHANGED <<disk, planVars, alone, begun>>
  BY DEF KillAny, Kill
<1> QED
  BY <1>1, EndFiles DEF FilesInv, Resolved

LEMMA ImplementFiles == ASSUME IInv, FilesInv, NEW p \in Procs, Implement(p) PROVE FilesInv'
<1>0. PICK w \in Plans, scaffold \in {"no", "works", "throws"}, validate \in BOOLEAN :
        /\ trace[w] = NoTrace /\ \A q \in Procs : Flow(q) # w
        /\ Begin(p, "implement", NoRun, "open")
        /\ work' = [work EXCEPT ![p] = [NoWork EXCEPT !.name = w, !.scaffold = scaffold,
                                           !.validate = validate]]
        /\ UNCHANGED <<planVars, trace, events>>
  BY DEF Implement
<1>1. /\ pc[p] = "idle" /\ begun < MaxCommands /\ held' = [held EXCEPT ![p] = NoRun] /\ seen' = seen
      /\ begun' = begun + 1 /\ UNCHANGED <<disk, planVars>> /\ alone' \in BOOLEAN /\ trace' = trace
  <2>1. alone \in BOOLEAN
    BY DEF FilesInv, Counted
  <2> QED
    BY <1>0, <2>1 DEF Begin, At
<1>2. Typed
  BY DEF IInv
<1>3. /\ work'[p].mine = NoTrace /\ work'[p].name = w
      /\ \A q \in Procs \ {p} : work'[q] = work[q]
  BY <1>0, <1>2 DEF Typed, NoWork
<1>4. Holding' /\ held'[p] = NoRun /\ \A q \in Procs \ {p} : held'[q] = held[q]
  BY <1>1, HeldKept
<1>5. Others(p) /\ pc'[p] = "open"
  BY <1>0, <1>1, <1>3, <1>4, BeginStep DEF Others
<1>6. begun' \in 0..MaxCommands /\ begun <= begun' /\ begun' > 0
  <2>1. begun \in 0..MaxCommands /\ MaxCommands \in Nat
    BY RecordFacts DEF FilesInv, Counted
  <2> QED
    BY <1>1, <2>1
<1>7. NoTrace.steps = <<>> /\ Len(NoTrace.steps) = 0
  BY DEF NoTrace
<1>8. Making(p, pc[p], Entries(p))'
  <2>1. Entries(p)' = NoTrace.steps
    BY <1>3 DEF Entries
  <2> QED
    BY <1>5, <1>7, <2>1, StepPlaces DEF Making, CoderPoints, PlanPoints
<1>9. Resolved(work[p].mine, Flow(p))'
  BY <1>3, <1>7 DEF Resolved, Shown
<1>10. Doing(p)' /\ ~Unfiled(p)'
  BY <1>5, <1>8, <1>9 DEF Doing, Saving, Unfiled, CoderPoints
<1>11. Flow(p) \in Plans => Shown(trace'[Flow(p)], Flow(p), Known, Ran, plan[Flow(p)])
  BY <1>1 DEF FilesInv, Resolved
<1> QED
  BY <1>1, <1>4, <1>5, <1>6, <1>10, <1>11, RecordFacts, QuietFiles

LEMMA EngineFiles == ASSUME IInv, FilesInv, NEW p \in Procs, EngineStep(p) PROVE FilesInv'
BY ImplementFiles, OpenFiles, PersistFiles, PushFiles, DecideFiles, CompleteFiles, CatchFiles,
   RethrowFiles, CloseFiles DEF EngineStep
------------------------------------------------------------------------------
(* The steps of the workflow.                                              *)

\* What a step of the workflow starts from.
LEMMA AtBody ==
  ASSUME IInv, FilesInv, NEW p \in Procs, job[p] = "implement",
         pc[p] \in StepPoints \cup CoderPoints
  PROVE  /\ Making(p, pc[p], Entries(p)) /\ Saving(p) /\ Flow(p) \in Plans /\ Typed /\ Before \in Nat
         /\ work[p].mine = trace[Flow(p)] /\ Within(work[p].mine, "running")
         /\ Resolved(work[p].mine, Flow(p)) /\ OnDisk /\ Holding /\ Counted /\ begun > 0
         /\ Len(Entries(p)) \in 1..(Before + 4)
         /\ Current(p) = "run-scaffold" => Len(Entries(p)) = Before + 1
         /\ Current(p) = "create-coder-run" <=> Len(Entries(p)) = Before + 2
         /\ Current(p) = "execute-validation-round" <=> Len(Entries(p)) = Before + 3
         /\ Current(p) = "write-plan-artifacts" <=> Len(Entries(p)) = Before + 4
         /\ Current(p) \in Range(Reports) => Len(Entries(p)) <= Before
<1>1. /\ Flow(p) \in Plans /\ Typed /\ work[p].mine = trace[Flow(p)] /\ Within(work[p].mine, "running")
  BY DEF IInv, Owner, Flowing, Stage
<1>2. /\ Making(p, pc[p], Entries(p)) /\ Saving(p) /\ Resolved(work[p].mine, Flow(p))
      /\ OnDisk /\ Holding /\ Counted
  BY DEF FilesInv, Doing
<1>3. begun > 0
  BY <1>2 DEF Counted, StepPoints, CoderPoints
<1>4. Len(Entries(p)) <= Before + 4
  BY <1>2 DEF Making
<1> QED
  BY <1>1, <1>2, <1>3, <1>4, CurrentPlace, StepPlaces

\* While the last step runs, the plan is not shown yet.
LEMMA RunningShows ==
  ASSUME NEW t, Within(t, "running"), Len(t.steps) <= Before + 4, NEW w,
         NEW known, NEW ran, NEW pl, Shown(t, w, known, ran, pl),
         NEW known2, NEW ran2, known \subseteq known2, ran \subseteq ran2, NEW pl2
  PROVE  Shown(t, w, known2, ran2, pl2)
<1>1. Len(t.steps) \in Nat /\ Before \in Nat
  BY Statuses, StepPlaces DEF Within
<1>2. \A i \in 1..Len(t.steps) : i = Before + 4 => t.steps[i].status = "running"
  BY <1>1 DEF Within
<1> QED
  BY <1>1, <1>2 DEF Shown

\* A step of the workflow goes on within its body.
LEMMA BodyFiles ==
  ASSUME IInv, FilesInv, NEW p \in Procs, job[p] = "implement",
         NEW here \in StepPoints \cup CoderPoints, NEW next \in StepPoints \cup CoderPoints,
         At(p, here, next), UNCHANGED <<file, latest, job, seen, history, trace>>,
         NEW rec \in Records \cup {NoRun}, held' = [held EXCEPT ![p] = rec],
         \/ rec.run \in {held[p].run} \cup Filed
         \/ rec.run \in Runs /\ Unused(rec.run),
         next = "save" => rec.run \in Runs /\ Unused(rec.run),
         rec \in Records => rec.rounds <= begun,
         next = "checking" => rec.rounds < begun,
         NEW pl, work' = [work EXCEPT ![p].plan = pl],
         OnDisk', Grows(p), Making(p, next, Entries(p))', Saving(p)'
  PROVE  FilesInv'
<1>1. /\ pc[p] = here /\ pc'[p] = next /\ \A q \in Procs \ {p} : pc'[q] = pc[q]
      /\ job' = job /\ seen' = seen /\ begun' = begun /\ alone' = alone /\ trace' = trace
      /\ file' = file /\ latest' = latest
  BY AtStep DEF history
<1>2. /\ Making(p, here, Entries(p)) /\ Flow(p) \in Plans /\ Typed /\ Before \in Nat
      /\ work[p].mine = trace[Flow(p)] /\ Within(work[p].mine, "running")
      /\ Resolved(work[p].mine, Flow(p)) /\ begun > 0 /\ Counted
  BY <1>1, AtBody
<1>3. /\ \A q \in Procs \ {p} : work'[q] = work[q]
      /\ work'[p].mine = work[p].mine /\ work'[p].name = work[p].name
  BY <1>2 DEF Typed
<1>4. Holding' /\ held'[p] = rec /\ \A q \in Procs \ {p} : held'[q] = held[q]
  BY <1>1, HeldKept
<1>5. Others(p) /\ Flow(p)' = Flow(p)
  BY <1>1, <1>3, <1>4 DEF Others, Flow
<1>6. Filed' = Filed
  BY <1>1 DEF Filed, Exists
<1>7. begun \in Nat /\ begun \in 0..MaxCommands /\ alone \in BOOLEAN
  BY <1>2, RecordFacts DEF Counted
<1>8. Sole'
  BY <1>1, <1>4, <1>5, <1>6, SoleStep DEF Unfiled
<1>9. \A r \in Filed' : file'[r].rounds <= begun'
  BY <1>1, <1>2, <1>6 DEF Counted
<1>10. Counted'
  BY <1>1, <1>2, <1>4, <1>5, <1>7, <1>9, CountedStep
<1>11. Len(work[p].mine.steps) <= Before + 4
  BY <1>2 DEF Making, Entries
<1>12. Shown(work[p].mine, Flow(p), Known', Ran', plan'[Flow(p)])
  BY <1>2, <1>11, RunningShows DEF Resolved, Grows
<1>13. Making(p, pc[p], Entries(p))'
  BY <1>1 DEF Making
<1>14. Doing(p)'
  BY <1>3, <1>5, <1>12, <1>13 DEF Doing, Resolved
<1>15. Shown(trace'[Flow(p)], Flow(p), Known', Ran', plan'[Flow(p)])
  BY <1>1, <1>2, <1>12
<1> QED
  BY <1>1, <1>4, <1>5, <1>8, <1>10, <1>14, <1>15, FilesStep

\* A step that writes no file of a plan or of the kernel and keeps what it says of its plan.
LEMMA StillFiles ==
  ASSUME IInv, FilesInv, NEW p \in Procs, job[p] = "implement",
         NEW here \in StepPoints \cup CoderPoints, NEW next \in StepPoints \cup CoderPoints,
         At(p, here, next), UNCHANGED <<disk, job, seen, history, flowVars>>,
         NEW rec \in Records \cup {NoRun}, held' = [held EXCEPT ![p] = rec],
         \/ rec.run \in {held[p].run} \cup Filed
         \/ rec.run \in Runs /\ Unused(rec.run),
         next = "save" => rec.run \in Runs /\ Unused(rec.run),
         rec \in Records => rec.rounds <= begun,
         next = "checking" => rec.rounds < begun,
         Making(p, next, Entries(p))', Saving(p)'
  PROVE  FilesInv'
<1>1. /\ UNCHANGED <<disk, planVars>> /\ OnDisk /\ Typed /\ work' = work
      /\ UNCHANGED <<file, latest, job, seen, history, trace>>
  BY DEF flowVars, disk, FilesInv, IInv
<1>2. OnDisk' /\ Grows(p)
  BY <1>1, FilesStay
<1>3. work' = [work EXCEPT ![p].plan = work[p].plan]
  BY <1>1 DEF Typed
<1> QED
  BY <1>1, <1>2, <1>3, BodyFiles

LEMMA HeldStays ==
  ASSUME FilesInv, NEW p \in Procs, held' = held
  PROVE  /\ held[p] \in Records \cup {NoRun} /\ held' = [held EXCEPT ![p] = held[p]]
         /\ held[p] \in Records => held[p].rounds <= begun
BY DEF FilesInv, Holding, Counted

LEMMA ReportFiles == ASSUME IInv, FilesInv, NEW p \in Procs, Report(p) \/ runScaffold(p) PROVE FilesInv'
<1>0. PICK next \in {"done", "threw"} :
        /\ At(p, "body", next) /\ UNCHANGED <<disk, job, held, seen, history, flowVars>>
        /\ Current(p) \in Range(Reports) \/ Current(p) = "run-scaffold"
  BY DEF Report, runScaffold
<1>1. pc[p] = "body" /\ job[p] = "implement" /\ "body" \in StepPoints /\ next \in StepPoints
  BY <1>0, Implements DEF At, StepPoints
<1>2. /\ Making(p, "body", Entries(p)) /\ Len(Entries(p)) <= Before + 1 /\ Before \in Nat
      /\ Len(Entries(p)) \in Nat
  BY <1>0, <1>1, AtBody
<1>3. /\ Entries(p)' = Entries(p) /\ pc'[p] = next /\ held' = held
  BY <1>0, AtStep DEF Entries, flowVars
<1>4. Making(p, next, Entries(p))'
  BY <1>2, <1>3 DEF Making, CoderPoints, PlanPoints, Drafted, Listed
<1>5. Saving(p)'
  BY <1>3 DEF Saving, CoderPoints
<1>6. /\ held[p] \in Records \cup {NoRun} /\ held' = [held EXCEPT ![p] = held[p]]
      /\ held[p] \in Records => held[p].rounds <= begun
  BY <1>3, HeldStays
<1> QED
  BY <1>0, <1>1, <1>4, <1>5, <1>6, StillFiles

LEMMA CreateRunFiles == ASSUME IInv, FilesInv, NEW p \in Procs, createCoderRun(p) PROVE FilesInv'
<1>0. PICK r \in Runs, checks \in Selections :
        /\ Unused(r) /\ held' = [held EXCEPT ![p] = Fresh(r, checks)]
        /\ At(p, "body", "save") /\ UNCHANGED <<disk, job, seen, history, flowVars>>
        /\ Current(p) = "create-coder-run"
  BY DEF createCoderRun
<1> PICK rec : rec = Fresh(r, checks)
  OBVIOUS
<1>1. rec \in Records /\ rec.run = r /\ rec.rounds = 0
  BY FreshIsRecord
<1>2. pc[p] = "body" /\ job[p] = "implement" /\ "body" \in StepPoints /\ "save" \in CoderPoints
  BY <1>0, Implements DEF At, StepPoints, CoderPoints
<1>3. /\ Making(p, "body", Entries(p)) /\ Len(Entries(p)) = Before + 2 /\ Before \in Nat /\ begun > 0
      /\ Holding /\ Counted
  BY <1>0, <1>2, AtBody
<1>4. /\ Entries(p)' = Entries(p) /\ pc'[p] = "save" /\ held'[p] = rec
  BY <1>0, <1>3, AtStep DEF Entries, flowVars, Holding
<1>5. Making(p, "save", Entries(p))'
  BY <1>1, <1>3, <1>4 DEF Making, CoderPoints, PlanPoints
<1>6. Saving(p)'
  BY <1>1, <1>4 DEF Saving
<1>7. rec.rounds <= begun
  BY <1>1, <1>3, RecordFacts DEF Counted
<1> QED
  BY <1>0, <1>1, <1>2, <1>5, <1>6, <1>7, StillFiles

LEMMA BeginRoundFiles ==
  ASSUME IInv, FilesInv, NEW p \in Procs, executeValidationRound(p) PROVE FilesInv'
<1>0. /\ At(p, "body", "checking") /\ UNCHANGED <<disk, job, held, seen, history, flowVars>>
      /\ Current(p) = "execute-validation-round"
  BY DEF executeValidationRound
<1>1. pc[p] = "body" /\ job[p] = "implement" /\ "body" \in StepPoints /\ "checking" \in CoderPoints
  BY <1>0, Implements DEF At, StepPoints, CoderPoints
<1>2. /\ Making(p, "body", Entries(p)) /\ Len(Entries(p)) = Before + 3 /\ Before \in Nat /\ begun > 0
      /\ OnDisk /\ Counted
  BY <1>0, <1>1, AtBody
<1>3. Made(p) /\ held[p].rounds = 0
  BY <1>2 DEF Making
<1>4. held[p] \in Records /\ held[p].run \in Runs /\ held[p].run \in Known /\ held[p].run \in Filed
  BY <1>2, <1>3, RecordFacts DEF Made, OnDisk
<1>5. /\ Entries(p)' = Entries(p) /\ pc'[p] = "checking" /\ held' = held /\ Filed' = Filed
      /\ Known' = Known
  BY <1>0, AtStep DEF Entries, flowVars, Filed, Exists, Known, disk
<1>6. Making(p, "checking", Entries(p))'
  BY <1>2, <1>3, <1>5 DEF Making, Made, CoderPoints, PlanPoints
<1>7. Saving(p)'
  BY <1>3, <1>4, <1>5 DEF Saving
<1>8. /\ held' = [held EXCEPT ![p] = held[p]] /\ held[p].rounds <= begun /\ held[p].rounds < begun
  BY <1>2, <1>3, <1>4, <1>5, HeldStays
<1> QED
  BY <1>0, <1>1, <1>4, <1>6, <1>7, <1>8, StillFiles

LEMMA StepSavedFiles == ASSUME IInv, FilesInv, NEW p \in Procs, StepSaved(p) PROVE FilesInv'
<1>0. /\ At(p, "saved", "done") /\ UNCHANGED <<disk, job, held, seen, history, flowVars>>
      /\ Current(p) = "create-coder-run" /\ job[p] = "implement"
  BY DEF StepSaved
<1>1. pc[p] = "saved" /\ "saved" \in CoderPoints /\ "done" \in StepPoints
  BY <1>0 DEF At, StepPoints, CoderPoints
<1>2. /\ Making(p, "saved", Entries(p)) /\ Len(Entries(p)) = Before + 2 /\ Before \in Nat /\ Saving(p)
  BY <1>0, <1>1, AtBody
<1>3. held[p] \in Records /\ held[p].run \in Known /\ held[p].rounds = 0
  BY <1>1, <1>2 DEF Saving, Making
<1>4. /\ Entries(p)' = Entries(p) /\ pc'[p] = "done" /\ held' = held /\ Known' = Known
  BY <1>0, AtStep DEF Entries, flowVars, Known, disk
<1>5. Making(p, "done", Entries(p))'
  BY <1>2, <1>3, <1>4 DEF Making, Made, CoderPoints, PlanPoints
<1>6. Saving(p)'
  BY <1>4 DEF Saving, CoderPoints
<1>7. held' = [held EXCEPT ![p] = held[p]] /\ held[p].rounds <= begun
  BY <1>3, <1>4, HeldStays
<1> QED
  BY <1>0, <1>1, <1>3, <1>5, <1>6, <1>7, StillFiles

\* A run read again is the one that was held, with its rounds.
LEMMA Reloaded ==
  ASSUME FilesInv, NEW r \in Filed
  PROVE  /\ file[r] \in Records /\ file[r].run = r /\ file[r].rounds <= begun /\ r \in Runs
         /\ r \in Ran => file[r].rounds > 0
BY FiledFacts DEF FilesInv, Counted, Ran

LEMMA RoundSavedFiles == ASSUME IInv, FilesInv, NEW p \in Procs, RoundSaved(p) PROVE FilesInv'
<1>0. /\ At(p, "saved", "done") /\ UNCHANGED <<disk, job, seen, history, flowVars>>
      /\ Current(p) = "execute-validation-round" /\ job[p] = "implement"
      /\ held' = [held EXCEPT ![p] = file[held[p].run]]
  BY DEF RoundSaved, Reload
<1>1. pc[p] = "saved" /\ "saved" \in CoderPoints /\ "done" \in StepPoints
  BY <1>0 DEF At, StepPoints, CoderPoints
<1>2. /\ Making(p, "saved", Entries(p)) /\ Len(Entries(p)) = Before + 3 /\ Before \in Nat
      /\ Saving(p) /\ OnDisk /\ Holding
  BY <1>0, <1>1, AtBody
<1>3. /\ held[p] \in Records /\ held[p].run \in Known /\ held[p].rounds # 0
      /\ Entries(p)[Before + 2].status = "succeeded" /\ Entries(p)[Before + 2].names = held[p].run
  BY <1>1, <1>2 DEF Saving, Making
<1>4. held[p].run \in Ran /\ held[p].run \in Filed
  BY <1>1, <1>2, <1>3, RecordFacts, FiledFacts DEF Saving
<1> PICK rec : rec = file[held[p].run]
  OBVIOUS
<1>5. rec \in Records /\ rec.run = held[p].run /\ rec.rounds > 0 /\ rec.rounds <= begun
  BY <1>4, Reloaded
<1>6. /\ Entries(p)' = Entries(p) /\ pc'[p] = "done" /\ held'[p] = rec /\ Known' = Known /\ Ran' = Ran
  BY <1>0, <1>2, AtStep DEF Entries, flowVars, Known, Ran, Filed, Exists, disk, Holding
<1>7. Making(p, "done", Entries(p))'
  BY <1>2, <1>3, <1>4, <1>5, <1>6 DEF Making, Made, Tested, CoderPoints, PlanPoints
<1>8. Saving(p)'
  BY <1>6 DEF Saving, CoderPoints
<1> QED
  BY <1>0, <1>1, <1>5, <1>7, <1>8, StillFiles

LEMMA BeginPlanFiles == ASSUME IInv, FilesInv, NEW p \in Procs, writePlanArtifacts(p) PROVE FilesInv'
<1>0. /\ At(p, "body", "context") /\ UNCHANGED <<disk, job, seen, history, flowVars>>
      /\ Current(p) = "write-plan-artifacts"
      /\ held' = held \/ held' = [held EXCEPT ![p] = file[held[p].run]]
  BY DEF writePlanArtifacts, Reload
<1>1. /\ pc[p] = "body" /\ job[p] = "implement" /\ "body" \in StepPoints /\ "context" \in StepPoints
  BY <1>0, Implements DEF At, StepPoints
<1>2. /\ Making(p, "body", Entries(p)) /\ Len(Entries(p)) = Before + 4 /\ Before \in Nat
      /\ OnDisk /\ Holding
  BY <1>0, <1>1, AtBody
<1>3. /\ Made(p) /\ Entries(p)[Before + 2].status = "succeeded"
      /\ Entries(p)[Before + 2].names = held[p].run
      /\ Entries(p)[Before + 3].status = "succeeded" => Tested(p)
  BY <1>2 DEF Making
<1>4. held[p] \in Records /\ held[p].run \in Known /\ held[p].run \in Filed
  BY <1>2, <1>3, RecordFacts DEF Made, OnDisk
<1>5. PICK rec : /\ rec \in Records /\ rec.run = held[p].run /\ rec.rounds <= begun
                 /\ Tested(p) => rec.rounds > 0 /\ rec.run \in Ran
                 /\ held' = [held EXCEPT ![p] = rec]
  <2>1. CASE held' = held
    BY <1>4, <2>1, HeldStays DEF Tested
  <2>2. CASE held' = [held EXCEPT ![p] = file[held[p].run]]
    BY <1>4, <2>2, Reloaded DEF Tested
  <2> QED
    BY <1>0, <2>1, <2>2
<1>6. /\ Entries(p)' = Entries(p) /\ pc'[p] = "context" /\ held'[p] = rec /\ Known' = Known /\ Ran' = Ran
  BY <1>0, <1>2, <1>5, AtStep DEF Entries, flowVars, Known, Ran, Filed, Exists, disk, Holding
<1>7. Making(p, "context", Entries(p))'
  BY <1>2, <1>3, <1>4, <1>5, <1>6 DEF Making, Made, Tested, CoderPoints, PlanPoints, Drafted, Listed
<1>8. Saving(p)'
  BY <1>6 DEF Saving, CoderPoints
<1> QED
  BY <1>0, <1>1, <1>5, <1>7, <1>8, StillFiles
------------------------------------------------------------------------------
(* The plan's files and what registers them.                               *)

\* Where a plan is made: its run is held, filed and known.
LEMMA AtPlan ==
  ASSUME IInv, FilesInv, NEW p \in Procs, NEW here \in PlanPoints, pc[p] = here
  PROVE  /\ Making(p, here, Entries(p)) /\ Len(Entries(p)) = Before + 4 /\ Before \in Nat
         /\ job[p] = "implement" /\ here \in StepPoints /\ Flow(p) \in Plans /\ Typed /\ OnDisk
         /\ Flow(p) \notin Runs /\ "none" \notin Plans
         /\ Made(p) /\ held[p] \in Records /\ held[p].run \in Runs /\ held[p].run \in Known
         /\ held[p].run \in Filed /\ held[p].rounds <= begun
         /\ PlanOf(held[p]).run = held[p].run /\ PlanOf(held[p]).rounds = held[p].rounds
         /\ PlanOf(held[p]).status = held[p].status /\ PlanOf(held[p]) # NoPlan
         /\ mapImplementationStatus(held[p].status) \in RUN_STATUS \ {"none"}
<1>1. here \in StepPoints /\ job[p] = "implement"
  BY Implements DEF PlanPoints, StepPoints
<1>2. /\ Making(p, here, Entries(p)) /\ Flow(p) \in Plans /\ Typed /\ OnDisk /\ Before \in Nat /\ Counted
  BY <1>1, AtBody
<1>3. Len(Entries(p)) = Before + 4
  BY <1>2 DEF Making
<1>4. Made(p)
  BY <1>2, <1>3 DEF Making
<1>5. held[p] \in Records /\ held[p].run \in Runs /\ held[p].run \in Known /\ held[p].run \in Filed
  BY <1>2, <1>4, RecordFacts DEF Made, OnDisk
<1>6. Flow(p) \notin Runs /\ "none" \notin Plans /\ "none" \notin Runs
  BY <1>2, CoderAssumption
<1>7. /\ PlanOf(held[p]).run = held[p].run /\ PlanOf(held[p]).rounds = held[p].rounds
      /\ PlanOf(held[p]).status = held[p].status /\ NoPlan.run = "none"
  BY DEF PlanOf, NoPlan
<1>8. PlanOf(held[p]) # NoPlan
  BY <1>5, <1>6, <1>7
<1>9. mapImplementationStatus(held[p].status) \in RUN_STATUS \ {"none"}
  BY <1>5, RecordFacts, MappedStatus
<1> QED
  BY <1>1, <1>2, <1>3, <1>4, <1>5, <1>6, <1>7, <1>8, <1>9 DEF Counted

\* A point of the plan's making that goes on to the next.
LEMMA PlanFiles ==
  ASSUME IInv, FilesInv, NEW p \in Procs, NEW here \in PlanPoints, NEW next \in StepPoints,
         next \in PlanPoints \cup {"done"},
         At(p, here, next), UNCHANGED <<file, latest, job, held, seen, history, trace>>,
         NEW pl, work' = [work EXCEPT ![p].plan = pl],
         OnDisk', Grows(p), Making(p, next, Entries(p))'
  PROVE  FilesInv'
<1>1. pc[p] = here /\ pc'[p] = next
  BY AtStep
<1>2. /\ here \in StepPoints /\ job[p] = "implement" /\ held[p] \in Records
      /\ held[p].rounds <= begun
  BY <1>1, AtPlan
<1>3. held' = [held EXCEPT ![p] = held[p]]
  BY HeldStays
<1>4. Saving(p)' /\ next # "save" /\ next # "checking"
  BY <1>1 DEF Saving, CoderPoints, StepPoints
<1> QED
  BY <1>2, <1>3, <1>4, BodyFiles

LEMMA PacketFiles ==
  ASSUME IInv, FilesInv, NEW p \in Procs, WriteContext(p) \/ WritePrompt(p)
  PROVE  FilesInv'
<1>0. PICK here \in {"context", "prompt"}, next \in {"prompt", "plan"},
           pl \in {work[p].plan, PlanOf(held[p])} :
        /\ here = "context" => next = "prompt" /\ pl = work[p].plan
        /\ here = "prompt" => next = "plan" /\ pl = PlanOf(held[p])
        /\ At(p, here, next) /\ packet' = [packet EXCEPT ![Flow(p)] = @ \cup {here}]
        /\ work' = [work EXCEPT ![p].plan = pl]
        /\ UNCHANGED <<file, latest, kernel, index, memory, job, held, seen, history, plan,
                       latestPlan, trace>>
  <2>1. work = [work EXCEPT ![p].plan = work[p].plan]
    BY DEF IInv, Typed
  <2> QED
    BY <2>1 DEF WriteContext, WritePrompt, disk
<1>1. pc[p] = here /\ pc'[p] = next /\ here \in PlanPoints /\ next \in PlanPoints /\ next \in StepPoints
  BY <1>0, AtStep DEF PlanPoints, StepPoints
<1>2. /\ Making(p, here, Entries(p)) /\ Len(Entries(p)) = Before + 4 /\ Before \in Nat
      /\ Flow(p) \in Plans /\ Typed /\ OnDisk
  BY <1>1, AtPlan
<1>3. /\ packet' \in [Plans -> SUBSET {"context", "prompt"}]
      /\ packet'[Flow(p)] = packet[Flow(p)] \cup {here}
      /\ \A w \in Plans : w # Flow(p) => packet'[w] = packet[w]
      /\ \A w \in Plans : packet[w] = {"context", "prompt"} => packet'[w] = {"context", "prompt"}
  BY <1>0, <1>2 DEF OnDisk
<1>4. Filed' = Filed /\ Ran' = Ran /\ Known' = Known /\ Drawn' = Drawn
  BY <1>0 DEF Filed, Ran, Known, Drawn, Exists, Planned
<1>5. OnDisk'
  BY <1>0, <1>2, <1>3, <1>4 DEF OnDisk, Drawn
<1>6. Grows(p)
  BY <1>0, <1>3, <1>4 DEF Grows
<1>7. /\ work'[p].mine = work[p].mine /\ work'[p].name = work[p].name /\ work'[p].plan = pl
  BY <1>0, <1>2 DEF Typed
<1>8. Entries(p)' = Entries(p) /\ Flow(p)' = Flow(p) /\ held' = held
  BY <1>0, <1>7 DEF Entries, Flow
<1>9. (Made(p) => Made(p)') /\ (Tested(p) => Tested(p)')
  BY <1>4, <1>8 DEF Made, Tested
<1>10. here = "prompt" => packet'[Flow(p)] = {"context", "prompt"}
  <2>1. here = "prompt" => "context" \in packet[Flow(p)]
    BY <1>2 DEF Making
  <2>2. packet[Flow(p)] \subseteq {"context", "prompt"}
    BY <1>2 DEF OnDisk
  <2> QED
    BY <1>3, <2>1, <2>2
<1>11. here = "context" => "context" \in packet'[Flow(p)]
  BY <1>3
<1>12. Making(p, next, Entries(p))'
  BY <1>0, <1>2, <1>7, <1>8, <1>9, <1>10, <1>11
    DEF Making, CoderPoints, PlanPoints, Drafted, Listed
<1> QED
  BY <1>0, <1>1, <1>5, <1>6, <1>12, PlanFiles

LEMMA SavePlanFiles == ASSUME IInv, FilesInv, NEW p \in Procs, savePlan(p) PROVE FilesInv'
<1>0. /\ At(p, "plan", "planned") /\ plan' = [plan EXCEPT ![Flow(p)] = work[p].plan]
      /\ UNCHANGED <<file, latest, kernel, index, memory, job, held, seen, history, packet,
                     latestPlan, trace, work>>
  BY DEF savePlan, disk
<1>1. /\ pc[p] = "plan" /\ pc'[p] = "planned" /\ "plan" \in PlanPoints /\ "planned" \in PlanPoints
      /\ "planned" \in StepPoints
  BY <1>0, AtStep DEF PlanPoints, StepPoints
<1>2. /\ Making(p, "plan", Entries(p)) /\ Len(Entries(p)) = Before + 4 /\ Before \in Nat
      /\ Flow(p) \in Plans /\ Typed /\ OnDisk /\ held[p].run \in Filed
      /\ PlanOf(held[p]).run = held[p].run /\ PlanOf(held[p]) # NoPlan
  BY <1>1, AtPlan
<1>3. work[p].plan = PlanOf(held[p]) /\ packet[Flow(p)] = {"context", "prompt"}
  BY <1>2 DEF Making, Drafted
<1>4. /\ plan' = [w \in Plans |-> plan'[w]] /\ plan'[Flow(p)] = PlanOf(held[p])
      /\ \A w \in Plans : w # Flow(p) => plan'[w] = plan[w]
  BY <1>0, <1>2, <1>3 DEF OnDisk
<1>5. Filed' = Filed /\ Ran' = Ran /\ Known' = Known
  BY <1>0 DEF Filed, Ran, Known, Exists
<1>6. Drawn' = Drawn \cup {Flow(p)}
  BY <1>2, <1>4 DEF Drawn, Planned
<1>7. OnDisk'
  <2>1. \A w \in Drawn' : packet'[w] = {"context", "prompt"} /\ plan'[w].run \in Filed'
    <3> SUFFICES ASSUME NEW w \in Drawn'
                 PROVE  packet'[w] = {"context", "prompt"} /\ plan'[w].run \in Filed'
      OBVIOUS
    <3>1. CASE w = Flow(p)
      BY <1>0, <1>2, <1>3, <1>4, <1>5, <3>1
    <3>2. CASE w # Flow(p)
      <4>1. w \in Drawn /\ w \in Plans
        BY <1>6, <3>2 DEF Drawn
      <4> QED
        BY <1>0, <1>2, <1>4, <1>5, <3>2, <4>1 DEF OnDisk
    <3> QED
      BY <3>1, <3>2
  <2>2. plan' = [w \in Plans |-> plan'[w]]
    BY <1>4
  <2>3. /\ (latest \subseteq Filed)' /\ (Known \cap Plans \subseteq Drawn)'
        /\ (index \subseteq Known)' /\ (latestPlan \subseteq Drawn)'
        /\ (Known \cap Runs \subseteq Filed)' /\ (Known \cap Runs # {} => latest # {})'
        /\ (memory.run # "none" => memory.run \in Filed /\ memory.record \in Known)'
        /\ (memory.plan # "none" => memory.plan \in Drawn)'
    BY <1>0, <1>2, <1>5, <1>6 DEF OnDisk
  <2> QED
    BY <1>0, <1>2, <2>1, <2>2, <2>3 DEF OnDisk
<1>8. Grows(p)
  BY <1>0, <1>4, <1>5, <1>6 DEF Grows
<1>9. Entries(p)' = Entries(p) /\ Flow(p)' = Flow(p)
  BY <1>0 DEF Entries, Flow
<1>10. (Made(p) => Made(p)') /\ (Tested(p) => Tested(p)')
  BY <1>0, <1>5 DEF Made, Tested
<1>11. Making(p, "planned", Entries(p))'
  BY <1>0, <1>2, <1>3, <1>4, <1>9, <1>10 DEF Making, CoderPoints, PlanPoints, Drafted, Listed
<1>12. work' = [work EXCEPT ![p].plan = work[p].plan]
  BY <1>0, <1>2 DEF Typed
<1> QED
  BY <1>0, <1>1, <1>7, <1>8, <1>11, <1>12, PlanFiles

\* A point that registers the plan and leaves its files alone.
LEMMA NotePlanFiles ==
  ASSUME IInv, FilesInv, NEW p \in Procs, NEW here \in {"planned", "listed", "pointing", "remembering"},
         NEW next \in {"listed", "pointing", "remembering", "done"},
         At(p, here, next),
         UNCHANGED <<file, latest, packet, plan, trace, work, job, held, seen, history>>,
         Known \subseteq Known', Flow(p) \in Known',
         Filed' = Filed /\ Drawn' = Drawn => OnDisk'
  PROVE  FilesInv'
<1>1. /\ pc[p] = here /\ here \in PlanPoints /\ next \in PlanPoints \cup {"done"} /\ next \in StepPoints
  BY AtStep DEF PlanPoints, StepPoints
<1>2. /\ Making(p, here, Entries(p)) /\ Len(Entries(p)) = Before + 4 /\ Before \in Nat /\ Typed
  BY <1>1, AtPlan
<1>3. Filed' = Filed /\ Ran' = Ran /\ Drawn' = Drawn
  BY DEF Filed, Ran, Exists, Drawn, Planned
<1>4. Grows(p)
  BY <1>3 DEF Grows
<1>5. Entries(p)' = Entries(p) /\ Flow(p)' = Flow(p)
  BY DEF Entries, Flow
<1>6. (Made(p) => Made(p)') /\ (Tested(p) => Tested(p)')
  BY <1>3 DEF Made, Tested
<1>7. Making(p, next, Entries(p))'
  BY <1>2, <1>5, <1>6 DEF Making, CoderPoints, PlanPoints, Drafted, Listed
<1>8. work' = [work EXCEPT ![p].plan = work[p].plan]
  BY <1>2 DEF Typed
<1> QED
  BY <1>1, <1>3, <1>4, <1>7, <1>8, PlanFiles

LEMMA PlanNotes ==
  ASSUME IInv, FilesInv, NEW p \in Procs,
         RegisterPlan(p) \/ IndexPlan(p) \/ writeLatestPlanPointer(p) \/ RememberPlan(p)
  PROVE  FilesInv'
<1>0. \A here \in {"planned", "listed", "pointing", "remembering"} : pc[p] = here =>
        /\ OnDisk /\ Flow(p) \in Plans /\ Flow(p) \notin Runs /\ Flow(p) \in Drawn
        /\ work[p].plan = PlanOf(held[p]) /\ held[p].run \in Filed
        /\ here # "planned" => Flow(p) \in Known
        /\ work[p].plan.run = held[p].run
        /\ mapImplementationStatus(work[p].plan.status) \in RUN_STATUS \ {"none"}
  <2> SUFFICES ASSUME NEW here \in {"planned", "listed", "pointing", "remembering"}, pc[p] = here
               PROVE  /\ OnDisk /\ Flow(p) \in Plans /\ Flow(p) \notin Runs /\ Flow(p) \in Drawn
                      /\ work[p].plan = PlanOf(held[p]) /\ held[p].run \in Filed
                      /\ here # "planned" => Flow(p) \in Known
                      /\ work[p].plan.run = held[p].run
                      /\ mapImplementationStatus(work[p].plan.status) \in RUN_STATUS \ {"none"}
    OBVIOUS
  <2>1. here \in PlanPoints
    BY DEF PlanPoints
  <2>2. /\ Making(p, here, Entries(p)) /\ Len(Entries(p)) = Before + 4
        /\ Flow(p) \in Plans /\ OnDisk /\ Flow(p) \notin Runs /\ held[p].run \in Filed
        /\ PlanOf(held[p]).run = held[p].run /\ PlanOf(held[p]) # NoPlan
        /\ PlanOf(held[p]).status = held[p].status
        /\ mapImplementationStatus(held[p].status) \in RUN_STATUS \ {"none"}
    BY <2>1, AtPlan
  <2>3. /\ work[p].plan = PlanOf(held[p]) /\ plan[Flow(p)] = PlanOf(held[p])
        /\ here # "planned" => Flow(p) \in Known
    BY <2>2 DEF Making, Drafted, Listed
  <2>4. Flow(p) \in Drawn
    BY <2>2, <2>3 DEF Drawn, Planned
  <2> QED
    BY <2>2, <2>3, <2>4
<1>1. CASE RegisterPlan(p)
  <2>1. /\ At(p, "planned", "listed") /\ pc[p] = "planned"
        /\ kernel' = [kernel EXCEPT ![Flow(p)] = mapImplementationStatus(work[p].plan.status)]
        /\ UNCHANGED <<file, latest, index, memory, job, held, seen, history, packet, plan,
                       latestPlan, trace, work>>
    BY <1>1 DEF RegisterPlan, At, flowVars, planVars
  <2>2. /\ OnDisk /\ Flow(p) \in Plans /\ Flow(p) \notin Runs /\ Flow(p) \in Drawn
        /\ mapImplementationStatus(work[p].plan.status) \in RUN_STATUS \ {"none"}
    BY <1>0, <2>1
  <2>3. /\ kernel' \in [Runs \cup Plans -> RUN_STATUS \cup {"none"}]
        /\ Known' = Known \cup {Flow(p)}
    BY <2>1, <2>2 DEF OnDisk, Known
  <2>4. Known' \cap Runs = Known \cap Runs
    BY <2>2, <2>3
  <2>5. Known \cap Plans \subseteq Drawn
    BY <2>2 DEF OnDisk
  <2>6. Known' \cap Plans \subseteq Drawn
    BY <2>2, <2>3, <2>5
  <2>7. Filed' = Filed /\ Drawn' = Drawn => OnDisk'
    BY <2>1, <2>2, <2>3, <2>4, <2>6 DEF OnDisk
  <2> QED
    BY <2>1, <2>3, <2>7, NotePlanFiles
<1>2. CASE IndexPlan(p)
  <2>1. /\ At(p, "listed", "pointing") /\ pc[p] = "listed" /\ index' = {Flow(p)}
        /\ UNCHANGED <<file, latest, kernel, memory, job, held, seen, history, packet, plan,
                       latestPlan, trace, work>>
    BY <1>2 DEF IndexPlan, At, flowVars, planVars
  <2>2. OnDisk /\ Flow(p) \in Known /\ Known' = Known
    BY <1>0, <2>1 DEF Known
  <2>3. Filed' = Filed /\ Drawn' = Drawn => OnDisk'
    BY <2>1, <2>2 DEF OnDisk
  <2> QED
    BY <2>1, <2>2, <2>3, NotePlanFiles
<1>3. CASE writeLatestPlanPointer(p)
  <2>1. /\ At(p, "pointing", "remembering") /\ pc[p] = "pointing" /\ latestPlan' = {Flow(p)}
        /\ UNCHANGED <<file, latest, kernel, index, memory, job, held, seen, history, packet, plan,
                       trace, work>>
    BY <1>3 DEF writeLatestPlanPointer, At, disk
  <2>2. OnDisk /\ Flow(p) \in Known /\ Flow(p) \in Drawn /\ Known' = Known
    BY <1>0, <2>1 DEF Known
  <2>3. Filed' = Filed /\ Drawn' = Drawn => OnDisk'
    BY <2>1, <2>2 DEF OnDisk
  <2> QED
    BY <2>1, <2>2, <2>3, NotePlanFiles
<1>4. CASE RememberPlan(p)
  <2>1. /\ At(p, "remembering", "done") /\ pc[p] = "remembering"
        /\ memory' = [run |-> work[p].plan.run, plan |-> Flow(p), record |-> Flow(p),
                      status |-> work[p].plan.status]
        /\ UNCHANGED <<file, latest, kernel, index, job, held, seen, history, packet, plan,
                       latestPlan, trace, work>>
    BY <1>4 DEF RememberPlan, At, flowVars, planVars
  <2>2. /\ OnDisk /\ Flow(p) \in Known /\ Flow(p) \in Drawn /\ Known' = Known
        /\ work[p].plan.run \in Filed
    BY <1>0, <2>1 DEF Known
  <2>3. memory'.run = work[p].plan.run /\ memory'.plan = Flow(p) /\ memory'.record = Flow(p)
    BY <2>1
  <2>4. Filed' = Filed /\ Drawn' = Drawn => OnDisk'
    BY <2>1, <2>2, <2>3 DEF OnDisk
  <2> QED
    BY <2>1, <2>2, <2>4, NotePlanFiles
<1> QED
  BY <1>1, <1>2, <1>3, <1>4

\* The plan is written again with the name of its trace: of the same run and rounds.
LEMMA StampFiles == ASSUME IInv, FilesInv, NEW p \in Procs, StampPlan(p) PROVE FilesInv'
<1>0. /\ pc[p] = "stamp" /\ Exit(p) /\ work' = [work EXCEPT ![p] = NoWork]
      /\ plan' = [plan EXCEPT ![Flow(p)] = [work[p].plan EXCEPT !.traced = TRUE]]
      /\ UNCHANGED <<file, latest, kernel, index, memory, packet, latestPlan, trace, begun, alone>>
  BY DEF StampPlan, disk, history
<1>1. /\ Making(p, "stamp", Entries(p)) /\ Flow(p) \in Plans /\ Typed /\ OnDisk
  BY <1>0, AtEngine DEF EnginePoints
<1>2. Len(Entries(p)) = Before + 4 /\ Before \in Nat
  BY <1>1, StepPlaces DEF Making
<1>3. Made(p) /\ work[p].plan = PlanOf(held[p]) /\ plan[Flow(p)] = PlanOf(held[p])
  BY <1>1, <1>2 DEF Making, Drafted, Listed
<1>4. held[p].run \in Filed /\ held[p].run \in Runs /\ "none" \notin Runs
  BY <1>1, <1>3, RecordFacts DEF Made, OnDisk
<1> DEFINE new == [PlanOf(held[p]) EXCEPT !.traced = TRUE]
<1>5. /\ new.run = held[p].run /\ new.rounds = held[p].rounds /\ NoPlan.run = "none"
      /\ PlanOf(held[p]).run = held[p].run /\ PlanOf(held[p]).rounds = held[p].rounds
  BY DEF PlanOf, NoPlan
<1>6. new # NoPlan /\ PlanOf(held[p]) # NoPlan
  BY <1>4, <1>5
<1>7. plan' = [plan EXCEPT ![Flow(p)] = new]
  BY <1>0, <1>3
<1> HIDE DEF new
<1>8. /\ plan' = [w \in Plans |-> plan'[w]] /\ plan'[Flow(p)] = new
      /\ \A w \in Plans : w # Flow(p) => plan'[w] = plan[w]
      /\ \A w \in Plans : plan'[w].run = plan[w].run /\ plan'[w].rounds = plan[w].rounds
  BY <1>1, <1>3, <1>5, <1>7 DEF OnDisk
<1>9. Filed' = Filed /\ Ran' = Ran /\ Known' = Known /\ Drawn' = Drawn
  BY <1>0, <1>3, <1>6, <1>8 DEF Filed, Ran, Known, Drawn, Exists, Planned
<1>10. OnDisk'
  BY <1>0, <1>1, <1>8, <1>9 DEF OnDisk, Drawn
<1>11. Grows(p)
  BY <1>0, <1>8, <1>9 DEF Grows
<1>12. /\ held' = [held EXCEPT ![p] = NoRun] /\ seen' = [seen EXCEPT ![p] = "none"] /\ Holding
  BY <1>0 DEF Exit, FilesInv
<1>13. /\ held' = [q \in Procs |-> held'[q]] /\ seen' = [q \in Procs |-> seen'[q]]
       /\ held'[p] = NoRun /\ \A q \in Procs \ {p} : held'[q] = held[q] /\ seen'[q] = seen[q]
       /\ \A q \in Procs \ {p} : work'[q] = work[q]
  BY <1>0, <1>1, <1>12 DEF Holding, Typed
<1>14. Holding'
  BY <1>12, <1>13 DEF Holding
<1>15. Others(p) /\ pc'[p] = "idle" /\ job'[p] = "none"
  BY <1>0, <1>13, ExitStep DEF Others
<1>16. Doing(p)' /\ ~Unfiled(p)'
  BY <1>15 DEF Doing, Saving, Unfiled, CoderPoints
<1>17. Sole'
  BY <1>9, <1>13, <1>15, <1>16, RecordFacts, SoleStep
<1>18. Counted'
  <2>1. /\ begun \in Nat /\ begun \in 0..MaxCommands /\ alone \in BOOLEAN
        /\ \A r \in Filed : file[r].rounds <= begun
    BY RecordFacts DEF FilesInv, Counted
  <2> QED
    BY <1>0, <1>9, <1>13, <1>15, <2>1, RecordFacts, CountedStep
<1>19. Shown(trace'[Flow(p)], Flow(p), Known', Ran', plan'[Flow(p)])
  BY <1>0, <1>1, <1>8, <1>9, ShownGrows DEF FilesInv, Resolved
<1> QED
  BY <1>0, <1>10, <1>11, <1>14, <1>15, <1>16, <1>17, <1>18, <1>19, FilesStep

LEMMA BodyStepFiles == ASSUME IInv, FilesInv, NEW p \in Procs, BodyStep(p) PROVE FilesInv'
BY ReportFiles, CreateRunFiles, BeginRoundFiles, StepSavedFiles, RoundSavedFiles, BeginPlanFiles,
   PacketFiles, SavePlanFiles, PlanNotes, StampFiles DEF BodyStep
------------------------------------------------------------------------------
LEMMA InitFiles == Init => FilesInv
<1> SUFFICES ASSUME Init PROVE FilesInv
  OBVIOUS
<1>1. \A r \in Runs : file[r] = NoRun
  BY DEF Init, CoderInit
<1>2. Filed = {} /\ Ran = {}
  BY <1>1, RecordFacts DEF Filed, Ran, Exists
<1>3. Known = {} /\ Drawn = {}
  BY DEF Init, CoderInit, Known, Drawn, Planned
<1>4. memory.run = "none" /\ memory.plan = "none" /\ latest = {} /\ index = {} /\ latestPlan = {}
  BY DEF Init, CoderInit
<1>5. /\ file \in [Runs -> Records \cup {NoRun}]
      /\ kernel \in [Runs \cup Plans -> RUN_STATUS \cup {"none"}]
      /\ packet \in [Plans -> SUBSET {"context", "prompt"}]
      /\ plan = [w \in Plans |-> plan[w]]
  BY DEF Init, CoderInit
<1>6. OnDisk
  BY <1>1, <1>2, <1>3, <1>4, <1>5, RecordFacts DEF OnDisk
<1>7. \A p \in Procs : pc[p] = "idle" /\ job[p] = "none" /\ held[p] = NoRun
  BY DEF Init, CoderInit
<1>8. Holding
  BY <1>7 DEF Holding, Init, CoderInit
<1>9. Counted
  BY <1>2, <1>7, RecordFacts DEF Counted, Init, CoderInit
<1>10. Sole /\ \A p \in Procs : Doing(p)
  BY <1>7 DEF Sole, Unfiled, Doing, Saving, CoderPoints
<1>11. NoTrace.steps = <<>> /\ Len(NoTrace.steps) = 0
  BY DEF NoTrace
<1>12. ASSUME NEW w \in Plans PROVE Resolved(trace[w], w)
  <2>1. trace[w] = NoTrace
    BY DEF Init
  <2> QED
    BY <1>11, <2>1 DEF Resolved, Shown
<1> QED
  BY <1>6, <1>8, <1>9, <1>10, <1>12 DEF FilesInv

LEMMA FilesInvStep == IInv /\ FilesInv /\ [Next]_vars => FilesInv'
<1> SUFFICES ASSUME IInv, FilesInv, [Next]_vars PROVE FilesInv'
  OBVIOUS
<1>1. CASE UNCHANGED vars
  <2>1. UNCHANGED <<file, latest, kernel, index, memory, packet, plan, latestPlan, pc, job, held,
                    seen, alone, begun, trace, work>>
    BY <1>1 DEF vars, coderVars, flowVars, planVars, disk, history
  <2>2. Filed' = Filed /\ Ran' = Ran /\ Known' = Known /\ Drawn' = Drawn
    BY <2>1 DEF Filed, Ran, Known, Drawn, Exists, Planned
  <2>3. OnDisk' /\ Counted' /\ Sole' /\ Holding'
    BY <2>1, <2>2 DEF FilesInv, OnDisk, Counted, Sole, Unfiled, Holding
  <2>4. ASSUME NEW p \in Procs PROVE Doing(p)'
    <3>1. Doing(p) /\ Entries(p)' = Entries(p) /\ Flow(p)' = Flow(p)
      BY <2>1 DEF FilesInv, Entries, Flow
    <3>2. Saving(p)'
      BY <2>1, <2>2, <3>1 DEF Doing, Saving
    <3>3. (Made(p) <=> Made(p)') /\ (Tested(p) <=> Tested(p)')
      BY <2>1, <2>2 DEF Made, Tested
    <3>4. job[p] = "implement" => Making(p, pc[p], Entries(p))'
      BY <2>1, <2>2, <3>1, <3>3 DEF Doing, Making
    <3>5. job[p] = "implement" => Resolved(work[p].mine, Flow(p))'
      BY <2>1, <2>2, <3>1 DEF Doing, Resolved
    <3> QED
      BY <2>1, <3>2, <3>4, <3>5 DEF Doing
  <2>5. ASSUME NEW w \in Plans PROVE Resolved(trace[w], w)'
    BY <2>1, <2>2 DEF FilesInv, Resolved
  <2> QED
    BY <2>3, <2>4, <2>5 DEF FilesInv
<1> QED
  BY <1>1, CoderFiles, EngineFiles, BodyStepFiles, KillFiles DEF Next
------------------------------------------------------------------------------
\* A trace lists no more than the workflow's steps, as WorkflowTrace has it.
Lengths == \A w \in Plans :
  ASteps[w] \in Seq(StepStatus) /\ Len(ASteps[w]) <= Len(Steps)

LEMMA LengthsStep == IInv /\ Lengths /\ [Next]_vars => Lengths'
<1> SUFFICES ASSUME IInv, Lengths, [Next]_vars, NEW w \in Plans
             PROVE  ASteps'[w] \in Seq(StepStatus) /\ Len(ASteps'[w]) <= Len(Steps)
  BY DEF Lengths
<1>1. [Abstract!Next]_<<AStatus, ASteps>>
  BY StepRefines
<1>2. ASteps = [v \in Plans |-> ASteps[v]]
  BY DEF ASteps
<1>3. ASteps[w] \in Seq(StepStatus) /\ Len(ASteps[w]) <= Len(Steps)
  BY DEF Lengths
<1>4. CASE ASteps' = ASteps
  BY <1>3, <1>4
<1>5. ASSUME NEW v \in Plans, NEW to \in StepStatus, NEW from, Abstract!Last(v, from, to)
      PROVE  ASteps'[w] \in Seq(StepStatus) /\ Len(ASteps'[w]) <= Len(Steps)
  <2>1. ASteps' = [ASteps EXCEPT ![v][Len(ASteps[v])] = to] /\ ASteps[v] # <<>>
    BY <1>5 DEF Abstract!Last, ASteps
  <2>2. CASE v # w
    BY <1>2, <1>3, <2>1, <2>2
  <2>3. CASE v = w
    <3>1. ASteps'[w] = [ASteps[w] EXCEPT ![Len(ASteps[w])] = to]
      BY <1>2, <2>1, <2>3
    <3> QED
      BY <1>3, <2>1, <2>3, <3>1
  <2> QED
    BY <2>2, <2>3
<1>6. ASSUME NEW v \in Plans, Abstract!List(v)
      PROVE  ASteps'[w] \in Seq(StepStatus) /\ Len(ASteps'[w]) <= Len(Steps)
  <2>1. ASteps' = [ASteps EXCEPT ![v] = Append(ASteps[v], "pending")] /\ Len(ASteps[v]) < Len(Steps)
    BY <1>6 DEF Abstract!List, ASteps
  <2>2. CASE v # w
    BY <1>2, <1>3, <2>1, <2>2
  <2>3. CASE v = w
    <3>1. ASteps'[w] = Append(ASteps[w], "pending")
      BY <1>2, <2>1, <2>3
    <3>2. Len(Steps) \in Nat
      BY StepPlaces
    <3> QED
      BY <1>3, <2>1, <2>3, <3>1, <3>2 DEF StepStatus
  <2> QED
    BY <2>2, <2>3
<1>7. CASE Abstract!Next
  BY <1>4, <1>5, <1>6, <1>7
    DEF Abstract!Next, Abstract!Begin, Abstract!Move, Abstract!Fail, Abstract!Close, StepStatus, ASteps
<1> QED
  BY <1>1, <1>4, <1>7

LEMMA LengthsInit == Init => Lengths
<1>1. NoTrace.steps = <<>> /\ statusOf(NoTrace) = <<>>
  BY DEF NoTrace, statusOf
<1> QED
  BY <1>1, StepPlaces DEF Init, Lengths, ASteps

\* What the invariants say of a trace file.
LEMMA ShownOnDisk == ASSUME FilesInv, Lengths PROVE TraceResolves
<1> SUFFICES ASSUME NEW w \in Plans, NEW i \in DOMAIN trace[w].steps,
                    trace[w].steps[i].status = "succeeded"
             PROVE  LET steps == trace[w].steps IN
                    /\ Steps[i] = "create-coder-run" =>
                         /\ \E r \in latest : Exists(r)
                         /\ \E r \in Runs : r = steps[i].names /\ Exists(r) /\ kernel[r] # "none"
                    /\ Steps[i] = "execute-validation-round" => file[steps[i-1].names].rounds > 0
                    /\ Steps[i] = "write-plan-artifacts" =>
                         /\ plan[w].run = steps[i-2].names /\ packet[w] = {"context", "prompt"}
                         /\ (steps[i-1].status = "succeeded" => plan[w].rounds > 0)
                         /\ kernel[w] # "none"
  BY DEF TraceResolves
<1> DEFINE s == trace[w].steps
<1>1. DOMAIN s = 1..Len(s) /\ i \in 1..(Before + 4) /\ Before \in Nat
  <2>1. ASteps[w] \in Seq(StepStatus) /\ Len(ASteps[w]) <= Before + 4 /\ Before \in Nat
    BY StepPlaces DEF Lengths
  <2>2. ASteps[w] = [j \in DOMAIN s |-> s[j].status]
    BY DEF ASteps, statusOf
  <2>3. DOMAIN s = 1..Len(ASteps[w]) /\ Len(ASteps[w]) \in Nat
    BY <2>1, <2>2
  <2> HIDE DEF s
  <2>4. Len(s) = Len(ASteps[w])
    BY <2>3
  <2> QED
    BY <2>1, <2>3, <2>4 DEF s
<1>2. /\ i = Before + 2 => s[i].names \in Known \cap Runs
      /\ i = Before + 3 => s[Before + 2].names \in Ran
      /\ i = Before + 4 =>
           /\ w \in Known /\ plan[w].run = s[Before + 2].names
           /\ s[Before + 3].status = "succeeded" => plan[w].rounds > 0
  BY <1>1 DEF FilesInv, Resolved, Shown
<1>3. /\ Steps[i] = "create-coder-run" <=> i = Before + 2
      /\ Steps[i] = "execute-validation-round" <=> i = Before + 3
      /\ Steps[i] = "write-plan-artifacts" <=> i = Before + 4
  BY <1>1, StepNames
<1>4. OnDisk
  BY DEF FilesInv
<1>5. i = Before + 2 =>
        /\ \E r \in latest : Exists(r)
        /\ \E r \in Runs : r = s[i].names /\ Exists(r) /\ kernel[r] # "none"
  <2> SUFFICES ASSUME i = Before + 2
               PROVE  /\ \E r \in latest : Exists(r)
                      /\ \E r \in Runs : r = s[i].names /\ Exists(r) /\ kernel[r] # "none"
    OBVIOUS
  <2>1. PICK r \in Known \cap Runs : r = s[i].names
    BY <1>2
  <2>2. r \in Filed /\ latest # {} /\ latest \subseteq Filed
    BY <1>4, <2>1 DEF OnDisk
  <2> QED
    BY <2>1, <2>2 DEF Filed, Known
<1>6. i = Before + 3 => i - 1 = Before + 2 /\ file[s[i-1].names].rounds > 0
  <2>1. i = Before + 3 => i - 1 = Before + 2
    BY <1>1
  <2> QED
    BY <1>2, <2>1 DEF Ran
<1>7. i = Before + 4 => i - 1 = Before + 3 /\ i - 2 = Before + 2
  BY <1>1
<1>8. w \in Known => kernel[w] # "none" /\ packet[w] = {"context", "prompt"}
  BY <1>4 DEF OnDisk, Known
<1> HIDE DEF s
<1>9. i = Before + 4 => /\ plan[w].run = s[i-2].names /\ packet[w] = {"context", "prompt"}
                        /\ (s[i-1].status = "succeeded" => plan[w].rounds > 0)
                        /\ kernel[w] # "none"
  BY <1>2, <1>7, <1>8
<1> QED
  BY <1>3, <1>5, <1>6, <1>9 DEF s

LEMMA PointersOnDisk == ASSUME FilesInv PROVE PointersResolve
<1>1. OnDisk /\ Filed \subseteq Runs /\ Drawn \subseteq Plans /\ "none" \notin Runs \cup Plans
      /\ Known \subseteq Runs \cup Plans /\ Runs \cap Plans = {}
  BY CoderAssumption DEF FilesInv, Filed, Drawn, Known
<1>2. /\ \A r \in Runs : r \in Filed <=> Exists(r)
      /\ \A w \in Plans : w \in Drawn <=> Planned(w)
      /\ \A k \in Runs \cup Plans : k \in Known <=> kernel[k] # "none"
  BY DEF Filed, Drawn, Known
<1>3. PlansRecovered \subseteq Drawn
  <2>1. PlanNamed \subseteq Drawn \cup Plans
    BY <1>1 DEF PlanNamed, OnDisk
  <2> QED
    BY <1>1, <1>2, <2>1 DEF PlansRecovered
<1>4. \A r \in RunsRecovered : Exists(r)
  <2> SUFFICES ASSUME NEW r \in RunsRecovered PROVE r \in Filed
    BY <1>1, <1>2
  <2>1. CASE PlansRecovered # {}
    <3> PICK w \in PlansRecovered : r = plan[w].run
      BY <2>1 DEF RunsRecovered
    <3>1. \A v \in Drawn : plan[v].run \in Filed
      BY <1>1 DEF OnDisk
    <3> QED
      BY <1>3, <3>1
  <2>2. CASE PlansRecovered = {}
    BY <1>1, <2>2 DEF RunsRecovered, OnDisk
  <2> QED
    BY <2>1, <2>2
<1>5. latest # {} => RunsRecovered # {}
  BY DEF RunsRecovered
<1>6. /\ \A r \in latest : Exists(r)
      /\ \A w \in latestPlan : Planned(w)
      /\ \A k \in index : kernel[k] # "none"
      /\ \A r \in Runs : kernel[r] # "none" => Exists(r)
      /\ \A w \in Plans : kernel[w] # "none" => Planned(w)
      /\ \A w \in Plans : Planned(w) => packet[w] = {"context", "prompt"}
  BY <1>1, <1>2 DEF OnDisk
<1>7. /\ memory.run # "none" => /\ \E r \in Runs : r = memory.run /\ Exists(r)
                                /\ kernel[memory.record] # "none"
      /\ memory.plan # "none" => Planned(memory.plan)
  BY <1>1, <1>2 DEF OnDisk
<1> QED
  BY <1>4, <1>5, <1>6, <1>7 DEF PointersResolve

LEMMA FilesAreTyped == ASSUME FilesInv PROVE TypeOK
<1>1. Filed \subseteq Runs /\ Known \subseteq Runs \cup Plans /\ Drawn \subseteq Plans
  BY DEF Filed, Known, Drawn
<1> QED
  BY <1>1 DEF FilesInv, OnDisk, Holding, Counted, TypeOK

\* Whatever a trace calls done is on disk and registered, and every pointer and
\* record names files that exist, wherever commands overlap or die.
THEOREM FilesResolveHolds == Spec => []FilesResolve
<1>1. FilesInv /\ Lengths => FilesResolve
  BY ShownOnDisk, PointersOnDisk, FilesAreTyped DEF FilesResolve
<1> QED
  BY <1>1, InitInv, IInvStep, InitFiles, FilesInvStep, LengthsInit, LengthsStep, PTL DEF Spec
------------------------------------------------------------------------------
(* Commands that do not overlap.  The one that is active has behind it what  *)
(* its own writes left, so the kernel takes its next save; and the mirrors   *)
(* say what the files say but for what it is about to write.                 *)

\* Where the kernel's record of a run, the one of a plan, the kernel's index and the
\* memory are behind the file.
Unregistered == {"filed", "pointed", "found"}
Unlisted == {"planned"}
Indexing == {"indexed", "recalled", "pointing", "remembering"}
Unremembered == {"filed", "pointed", "found", "registered", "indexed", "recalled"}

MirrorsBut(point, run, w) ==
  /\ \A r \in Filed : \/ kernel[r] \in {mapImplementationStatus(file[r].status), "succeeded"}
                      \/ point \in Unregistered /\ r = run
  /\ \A v \in Drawn : \/ kernel[v] = mapImplementationStatus(plan[v].status)
                      \/ point \in Unlisted /\ v = w
  /\ memory.run # "none" =>
       /\ index = {memory.record} \/ point \in Indexing
       /\ \/ memory.status = file[memory.run].status \/ kernel[memory.run] = "succeeded"
          \/ point \in Unremembered /\ memory.run = run

\* A workflow's run is new to the kernel, then created, until its round is registered.
Due(p, point, k) ==
  /\ \/ k = Before + 2 /\ point \in {"registered", "indexed", "recalled", "saved", "done",
                                     "completing", "next"}
     \/ k = Before + 3 /\ point \in {"decide", "starting", "body", "checking", "save", "filed",
                                     "pointed", "found"}
     => kernel[held[p].run] = "created"
  /\ k = Before + 2 /\ point \in CoderPoints => held[p].status = "initialized"
  /\ point \in {"threw", "failing"} => k = Before + 1

OnCourse(p) ==
  /\ held[p] \in Records /\ pc[p] # "save" => file[held[p].run] = held[p]
  /\ pc[p] \in {"save", "filed", "pointed", "found"} /\ held[p].status = "initialized" =>
       kernel[held[p].run] = "none"
  /\ pc[p] \in {"indexed", "recalled"} => index = {held[p].run}
  /\ pc[p] \in {"pointing", "remembering"} => index = {Flow(p)}
  /\ job[p] = "implement" => Due(p, pc[p], Len(Entries(p)))

Lone(p) == \A q \in Procs \ {p} : Idle(q)

Blamed(t) == t.status = "failed" => Len(t.steps) = Before + 1

AloneInv ==
  /\ \A r \in Runs : kernel[r] \in {"none", "created", "executing", "succeeded"}
  /\ kills \in Nat
  /\ alone =>
       /\ \A p \in Procs : ~Idle(p) => Lone(p) /\ OnCourse(p)
       /\ \A w \in Plans : Blamed(trace[w])
  /\ alone /\ kills = 0 =>
       /\ (\A p \in Procs : Idle(p)) => MirrorsBut("idle", "none", "none")
       /\ \A p \in Procs : ~Idle(p) => MirrorsBut(pc[p], held[p].run, Flow(p))

(* One process acts, and the others stay where they are.                   *)
Acts(p) ==
  \/ CoderStep(p) /\ UNCHANGED flowVars
  \/ EngineStep(p)
  \/ BodyStep(p)
  \/ KillAny(p)

LEMMA BodyOthers == ASSUME IInv, FilesInv, NEW p \in Procs, BodyStep(p) PROVE Others(p)
<1>1. /\ pc = [q \in Procs |-> pc[q]] /\ job = [q \in Procs |-> job[q]]
      /\ held = [q \in Procs |-> held[q]] /\ seen = [q \in Procs |-> seen[q]]
      /\ work = [q \in Procs |-> work[q]]
  BY DEF IInv, Typed, FilesInv, Holding
<1>2. CASE Report(p) \/ runScaffold(p) \/ executeValidationRound(p) \/ StepSaved(p)
  BY <1>1, <1>2 DEF Report, runScaffold, executeValidationRound, StepSaved, At, flowVars, Others
<1>3. CASE createCoderRun(p)
  BY <1>1, <1>3 DEF createCoderRun, At, flowVars, Others
<1>4. CASE RoundSaved(p) \/ writePlanArtifacts(p)
  BY <1>1, <1>4 DEF RoundSaved, writePlanArtifacts, Reload, At, flowVars, Others
<1>5. CASE WriteContext(p) \/ WritePrompt(p) \/ savePlan(p)
  BY <1>1, <1>5 DEF WriteContext, WritePrompt, savePlan, At, Others
<1>6. CASE RegisterPlan(p) \/ IndexPlan(p) \/ writeLatestPlanPointer(p) \/ RememberPlan(p)
  BY <1>1, <1>6 DEF RegisterPlan, IndexPlan, writeLatestPlanPointer, RememberPlan, At, flowVars, Others
<1>7. CASE StampPlan(p)
  BY <1>1, <1>7 DEF StampPlan, Exit, Others
<1> QED
  BY <1>2, <1>3, <1>4, <1>5, <1>6, <1>7 DEF BodyStep

LEMMA EngineOthers == ASSUME IInv, FilesInv, NEW p \in Procs, EngineStep(p) PROVE Others(p)
<1>1. /\ pc = [q \in Procs |-> pc[q]] /\ job = [q \in Procs |-> job[q]]
      /\ held = [q \in Procs |-> held[q]] /\ seen = [q \in Procs |-> seen[q]]
      /\ work = [q \in Procs |-> work[q]]
  BY DEF IInv, Typed, FilesInv, Holding
<1>2. CASE Implement(p)
  BY <1>1, <1>2 DEF Implement, Begin, At, Others
<1>3. CASE Open(p) \/ Persist(p) \/ Push(p)
  BY <1>1, <1>3 DEF Open, Persist, Push, Write, SetTrace, At, Others
<1>4. CASE Skip(p) \/ Start(p) \/ Complete(p) \/ Catch(p)
  BY <1>1, <1>4 DEF Skip, Start, Complete, Catch, SetTrace, At, Others
<1>5. CASE Rethrow(p)
  BY <1>1, <1>5 DEF Rethrow, Exit, Others
<1>6. CASE Close(p) \/ Announce(p)
  BY <1>1, <1>6 DEF Close, Announce, Write, SetTrace, At, Others
<1> QED
  BY <1>2, <1>3, <1>4, <1>5, <1>6 DEF EngineStep

LEMMA ActsOthers == ASSUME IInv, FilesInv, NEW p \in Procs, Acts(p) PROVE Others(p)
<1>1. /\ pc = [q \in Procs |-> pc[q]] /\ job = [q \in Procs |-> job[q]]
      /\ held = [q \in Procs |-> held[q]] /\ seen = [q \in Procs |-> seen[q]]
      /\ work = [q \in Procs |-> work[q]]
  BY DEF IInv, Typed, FilesInv, Holding
<1>2. CASE CoderStep(p) /\ UNCHANGED flowVars
  <2>1. \A q \in Procs \ {p} : held'[q] = held[q] /\ seen'[q] = seen[q]
    <3>1. CASE Create(p) \/ Continue(p)
      BY <1>1, <3>1 DEF Create, Continue, Begin
    <3>2. CASE executeRound(p)
      BY <1>1, <3>2 DEF executeRound
    <3>3. CASE \/ SaveFile(p) \/ SaveLatest(p) \/ Lookup(p) \/ Register(p) \/ Index(p)
               \/ Recall(p) \/ Remember(p)
      BY <1>1, <3>3 DEF SaveFile, SaveLatest, Lookup, Register, Index, Recall, Remember
    <3>4. CASE Refused(p) \/ Saved(p)
      BY <1>1, <3>4 DEF Refused, Saved, Exit
    <3> QED
      BY <1>2, <3>1, <3>2, <3>3, <3>4 DEF CoderStep
  <2> QED
    BY <1>2, <2>1, CoderMoves DEF Moves, Others, flowVars
<1>3. CASE KillAny(p)
  BY <1>1, <1>3 DEF KillAny, Kill, Exit, Others
<1> QED
  BY <1>2, <1>3, BodyOthers, EngineOthers DEF Acts

\* Commands that have not overlapped yet did not before, and the process that acts
\* is the only one that is active.
LEMMA ActsAlone ==
  ASSUME IInv, FilesInv, AloneInv, NEW p \in Procs, Acts(p)
  PROVE  /\ kills' \in Nat /\ (kills' = 0 => kills = 0)
         /\ alone' => alone /\ Lone(p)
<1>1. CASE Create(p) \/ Continue(p) \/ Implement(p)
  BY <1>1 DEF Create, Continue, Implement, Begin, AloneInv, Lone
<1>2. CASE KillAny(p)
  BY <1>2 DEF KillAny, Kill, AloneInv
<1>3. ASSUME pc[p] # "idle", UNCHANGED history
      PROVE  kills' \in Nat /\ (kills' = 0 => kills = 0) /\ (alone' => alone /\ Lone(p))
  BY <1>3 DEF history, AloneInv, Idle
<1>4. CASE CoderStep(p) /\ ~Create(p) /\ ~Continue(p)
  <2>1. UNCHANGED history
    BY <1>4 DEF CoderStep, executeRound, SaveFile, SaveLatest, Lookup, Refused, Register, Index,
                Recall, Remember, Saved
  <2>2. pc[p] # "idle"
    BY <1>4 DEF CoderStep, executeRound, SaveFile, SaveLatest, Lookup, Refused, Register, Index,
                Recall, Remember, Saved, At
  <2> QED
    BY <1>3, <2>1, <2>2
<1>5. CASE EngineStep(p) /\ ~Implement(p)
  <2>1. UNCHANGED history
    BY <1>5 DEF EngineStep, Open, Persist, Push, Write, Skip, Start, Complete, Catch, Rethrow,
                Close, Announce
  <2>2. pc[p] # "idle"
    BY <1>5 DEF EngineStep, Open, Persist, Push, Skip, Start, Complete, Catch, Rethrow,
                Close, Announce, At
  <2> QED
    BY <1>3, <2>1, <2>2
<1>6. CASE BodyStep(p)
  <2>1. UNCHANGED history
    BY <1>6 DEF BodyStep, Report, runScaffold, createCoderRun, executeValidationRound, StepSaved,
                RoundSaved, Reload, writePlanArtifacts, WriteContext, WritePrompt, savePlan,
                RegisterPlan, IndexPlan, writeLatestPlanPointer, RememberPlan, StampPlan
  <2>2. pc[p] # "idle"
    BY <1>6 DEF BodyStep, Report, runScaffold, createCoderRun, executeValidationRound, StepSaved,
                RoundSaved, Reload, writePlanArtifacts, WriteContext, WritePrompt, savePlan,
                RegisterPlan, IndexPlan, writeLatestPlanPointer, RememberPlan, StampPlan, At
  <2> QED
    BY <1>3, <2>1, <2>2
<1> QED
  BY <1>1, <1>2, <1>4, <1>5, <1>6 DEF Acts

\* The mirrors of the only process that is active, or may be next.
Fits(p) == OnCourse(p) /\ (kills = 0 => MirrorsBut(pc[p], held[p].run, Flow(p)))

LEMMA AloneView ==
  ASSUME AloneInv, NEW p \in Procs, alone, Lone(p)
  PROVE  /\ pc[p] # "idle" => OnCourse(p)
         /\ kills = 0 => MirrorsBut(pc[p], held[p].run, Flow(p))
         /\ \A w \in Plans : Blamed(trace[w])
<1>1. CASE pc[p] # "idle"
  BY <1>1 DEF AloneInv, Idle
<1>2. CASE pc[p] = "idle"
  <2>1. \A q \in Procs : Idle(q)
    BY <1>2 DEF Lone, Idle
  <2>2. kills = 0 => MirrorsBut("idle", "none", "none")
    BY <2>1 DEF AloneInv
  <2>3. kills = 0 => MirrorsBut(pc[p], held[p].run, Flow(p))
    BY <1>2, <2>2 DEF MirrorsBut, Unregistered, Unlisted, Indexing, Unremembered
  <2> QED
    BY <1>2, <2>3 DEF AloneInv
<1> QED
  BY <1>1, <1>2

KernelFollows == \A r \in Runs : kernel[r] \in {"none", "created", "executing", "succeeded"}

\* What a step owes, given what it starts from.
LEMMA AloneStep ==
  ASSUME IInv, FilesInv, AloneInv, NEW p \in Procs, Acts(p), KernelFollows',
         alone /\ alone' /\ Lone(p) => Fits(p)' /\ \A w \in Plans : Blamed(trace'[w])
  PROVE  AloneInv'
<1>1. Others(p) /\ kills' \in Nat /\ (alone' => alone /\ Lone(p))
  BY ActsOthers, ActsAlone
<1>2. ASSUME alone', NEW q \in Procs, ~Idle(q)' PROVE q = p
  BY <1>1, <1>2 DEF Others, Lone, Idle
<1>3. ASSUME alone' PROVE \A q \in Procs : ~Idle(q)' => Lone(q)' /\ OnCourse(q)'
  <2>1. OnCourse(p)'
    BY <1>1, <1>3 DEF Fits
  <2> QED
    BY <1>2, <1>3, <2>1 DEF Lone
<1>4. ASSUME alone', kills' = 0
      PROVE  /\ (\A q \in Procs : Idle(q)') => MirrorsBut("idle", "none", "none")'
             /\ \A q \in Procs : ~Idle(q)' => MirrorsBut(pc[q], held[q].run, Flow(q))'
  <2>1. MirrorsBut(pc[p], held[p].run, Flow(p))'
    BY <1>1, <1>4 DEF Fits
  <2>2. pc'[p] = "idle" => MirrorsBut("idle", "none", "none")'
    BY <2>1 DEF MirrorsBut, Unregistered, Unlisted, Indexing, Unremembered
  <2> QED
    BY <1>2, <1>4, <2>1, <2>2 DEF Idle
<1> QED
  BY <1>1, <1>3, <1>4 DEF AloneInv, KernelFollows

\* Where nothing the mirrors show is written, they show what they did.
LEMMA QuietMirrors ==
  ASSUME NEW p, UNCHANGED <<file, kernel, index, memory, plan>>,
         MirrorsBut(pc[p], held[p].run, Flow(p)),
         pc[p] \in Unregistered => pc'[p] \in Unregistered /\ held'[p].run = held[p].run,
         pc[p] \in Unlisted => FALSE,
         pc[p] \in Indexing => pc'[p] \in Indexing,
         pc[p] \in Unremembered => pc'[p] \in Unremembered /\ held'[p].run = held[p].run
  PROVE  MirrorsBut(pc[p], held[p].run, Flow(p))'
<1>1. Filed' = Filed /\ Drawn' = Drawn
  BY DEF Filed, Exists, Drawn, Planned
<1> QED
  BY <1>1 DEF MirrorsBut

Behind == {"filed", "pointed", "found", "registered", "indexed", "recalled", "planned", "pointing",
           "remembering"}

LEMMA QuietAlone ==
  ASSUME IInv, FilesInv, AloneInv, NEW p \in Procs, Acts(p), pc[p] \notin Behind,
         UNCHANGED <<file, kernel, index, memory, plan>>,
         alone /\ Lone(p) /\ (pc[p] # "idle" => OnCourse(p))
           /\ (\A w \in Plans : Blamed(trace[w]))
           => OnCourse(p)' /\ \A w \in Plans : Blamed(trace'[w])
  PROVE  AloneInv'
<1>1. KernelFollows'
  BY DEF KernelFollows, AloneInv
<1>2. kills' = 0 => kills = 0
  BY ActsAlone
<1>3. ASSUME alone, Lone(p) PROVE Fits(p)' /\ \A w \in Plans : Blamed(trace'[w])
  <2>1. kills = 0 => MirrorsBut(pc[p], held[p].run, Flow(p))'
    BY <1>3, AloneView, QuietMirrors DEF Behind, Unregistered, Unlisted, Indexing, Unremembered
  <2> QED
    BY <1>2, <1>3, <2>1, AloneView DEF Fits
<1> QED
  BY <1>1, <1>3, AloneStep
------------------------------------------------------------------------------
(* The moves of the engine, alone.                                         *)

\* A workflow goes on and writes nothing the mirrors show.
LEMMA MoveAlone ==
  ASSUME IInv, FilesInv, AloneInv, NEW p \in Procs, Acts(p), job[p] = "implement",
         NEW here, NEW next, here \notin Behind \cup {"save", "idle"}, next \notin Behind \cup {"save"},
         At(p, here, next), UNCHANGED <<file, kernel, index, memory, plan, job>>,
         \/ held' = held
         \/ held[p] \in Records /\ held' = [held EXCEPT ![p] = file[held[p].run]],
         NEW k, k = Len(Entries(p)), NEW n, n = Len(Entries(p)'),
         Due(p, here, k) => Due(p, next, n),
         (\A w \in Plans : Blamed(trace[w])) => \A w \in Plans : Blamed(trace'[w])
  PROVE  AloneInv'
<1>1. pc[p] = here /\ pc'[p] = next /\ held = [q \in Procs |-> held[q]]
  BY AtStep DEF FilesInv, Holding
<1>2. ASSUME alone, OnCourse(p) PROVE OnCourse(p)'
  <2>1. held[p] \in Records => file[held[p].run] = held[p]
    BY <1>1, <1>2 DEF OnCourse
  <2>2. held' = held
    BY <1>1, <2>1
  <2>3. Due(p, here, k)
    BY <1>1, <1>2 DEF OnCourse
  <2>4. Due(p, pc[p], Len(Entries(p)))'
    BY <1>1, <2>2, <2>3 DEF Due
  <2> QED
    BY <1>1, <2>1, <2>2, <2>4 DEF OnCourse, Behind
<1> QED
  BY <1>1, <1>2, QuietAlone

\* The engine writes a trace that has not failed, or none.
LEMMA WrittenBlame ==
  ASSUME Typed, NEW w \in Plans, NEW t, trace' = [trace EXCEPT ![w] = t], t.status # "failed",
         \A v \in Plans : Blamed(trace[v])
  PROVE  \A v \in Plans : Blamed(trace'[v])
<1>1. \A v \in Plans : trace'[v] = IF v = w THEN t ELSE trace[v]
  BY DEF Typed
<1> QED
  BY <1>1 DEF Blamed

LEMMA BeginAlone ==
  ASSUME IInv, FilesInv, AloneInv, NEW p \in Procs, Implement(p)
  PROVE  AloneInv'
<1>0. PICK w \in Plans, scaffold \in {"no", "works", "throws"}, validate \in BOOLEAN :
        /\ Begin(p, "implement", NoRun, "open")
        /\ work' = [work EXCEPT ![p] = [NoWork EXCEPT !.name = w, !.scaffold = scaffold,
                                           !.validate = validate]]
        /\ UNCHANGED <<planVars, trace, events>>
  BY DEF Implement
<1>1. /\ pc[p] = "idle" /\ pc'[p] = "open" /\ held' = [held EXCEPT ![p] = NoRun]
      /\ UNCHANGED <<file, kernel, index, memory, plan>> /\ trace' = trace
  <2>1. pc[p] = "idle" /\ pc'[p] = "open"
    BY <1>0, BeginStep
  <2> QED
    BY <1>0, <2>1 DEF Begin, disk, planVars
<1>2. held'[p] = NoRun
  BY <1>1 DEF FilesInv, Holding
<1>3. work'[p].mine = NoTrace
  BY <1>0 DEF IInv, Typed, NoWork
<1>4. Len(Entries(p)') = 0
  BY <1>3 DEF Entries, NoTrace
<1>5. Due(p, "open", 0)'
  BY StepPlaces DEF Due, CoderPoints
<1>6. OnCourse(p)'
  BY <1>1, <1>2, <1>4, <1>5, RecordFacts DEF OnCourse
<1>7. Acts(p)
  BY DEF Acts, EngineStep
<1> QED
  BY <1>1, <1>6, <1>7, QuietAlone DEF Behind

LEMMA OpenAlone ==
  ASSUME IInv, FilesInv, AloneInv, NEW p \in Procs, Open(p)
  PROVE  AloneInv'
<1>0. /\ At(p, "open", "opened") /\ trace' = trace /\ held' = held
      /\ UNCHANGED <<file, kernel, index, memory, plan, job>>
      /\ work' = [work EXCEPT ![p].mine = [status |-> "running", steps |-> <<>>]]
  BY DEF Open, SetTrace, disk, planVars
<1>1. pc[p] = "open" /\ Acts(p)
  BY <1>0 DEF At, Acts, EngineStep
<1>2. job[p] = "implement"
  BY <1>1, AtEngine DEF EnginePoints
<1>3. Len(Entries(p)') = 0
  BY <1>0 DEF Entries, IInv, Typed
<1>4. Due(p, "opened", 0)
  BY StepPlaces DEF Due, CoderPoints
<1> QED
  BY <1>0, <1>1, <1>2, <1>3, <1>4, MoveAlone DEF Behind

LEMMA PersistAlone ==
  ASSUME IInv, FilesInv, AloneInv, NEW p \in Procs, Persist(p)
  PROVE  AloneInv'
<1>0. PICK move \in {<<"opened", "next">>, <<"skipping", "next">>, <<"starting", "body">>,
                     <<"completing", "next">>} :
        /\ At(p, move[1], move[2]) /\ trace' = [trace EXCEPT ![Flow(p)] = work[p].mine]
        /\ UNCHANGED <<file, kernel, index, memory, plan, job>> /\ held' = held /\ work' = work
  BY DEF Persist, disk, planVars
<1>1. PICK here, next : here = move[1] /\ next = move[2]
  OBVIOUS
<1>2. /\ here \in {"opened", "skipping", "starting", "completing"}
      /\ next = IF here = "starting" THEN "body" ELSE "next"
  BY <1>0, <1>1
<1>3. At(p, here, next) /\ pc[p] = here /\ Acts(p)
  BY <1>0, <1>1 DEF At, Acts, EngineStep
<1>4. /\ Holds(p, here) /\ Making(p, here, Entries(p)) /\ Before \in Nat
      /\ job[p] = "implement" /\ Flow(p) \in Plans /\ Typed
  BY <1>2, <1>3, AtEngine DEF EnginePoints
<1>5. Stage(here, work[p].mine, trace[Flow(p)])
  BY <1>3, <1>4 DEF Holds
<1>6. work[p].mine.status = "running"
  <2>1. CASE here = "opened"
    BY <1>5, <2>1 DEF Stage
  <2>2. CASE here # "opened"
    <3>1. PICK status \in StepStatus : Within(work[p].mine, status)
      BY <1>2, <1>5, <2>2, MarkedWithin DEF Stage, StepStatus
    <3> QED
      BY <3>1 DEF Within
  <2> QED
    BY <2>1, <2>2
<1>7. /\ here = "opened" => Len(Entries(p)) = 0
      /\ here = "skipping" => Len(Entries(p)) # Before + 2
  BY <1>4, <1>5 DEF Stage, Making, Entries
<1>8. Due(p, here, Len(Entries(p))) => Due(p, next, Len(Entries(p)))
  BY <1>2, <1>4, <1>7 DEF Due, CoderPoints
<1>9. Entries(p)' = Entries(p)
  BY <1>0 DEF Entries
<1> QED
  BY <1>0, <1>2, <1>3, <1>4, <1>6, <1>8, <1>9, MoveAlone, WrittenBlame DEF Behind

LEMMA PushAlone ==
  ASSUME IInv, FilesInv, AloneInv, NEW p \in Procs, Push(p)
  PROVE  AloneInv'
<1>0. PICK e, t :
        /\ e = [status |-> "pending", names |-> "none"]
        /\ t = Pushed(work[p].mine, e) /\ At(p, "next", "decide")
        /\ work' = [work EXCEPT ![p].mine = t] /\ trace' = [trace EXCEPT ![Flow(p)] = t]
        /\ UNCHANGED <<file, kernel, index, memory, plan, job>> /\ held' = held
  BY DEF Push, Write, SetTrace, Pushed, disk, planVars
<1>1. pc[p] = "next" /\ Acts(p)
  BY <1>0 DEF At, Acts, EngineStep
<1>2. /\ Holds(p, "next") /\ job[p] = "implement" /\ Flow(p) \in Plans /\ Typed /\ Before \in Nat
  BY <1>1, AtEngine DEF EnginePoints
<1>3. Between(work[p].mine) /\ e.status = "pending"
  BY <1>0, <1>2 DEF Holds, Stage
<1>4. t.status # "failed"
  BY <1>0, <1>3, PushedWithin DEF Within
<1>5. Len(t.steps) = Len(Entries(p)) + 1 /\ Len(Entries(p)) \in Nat
  BY <1>0, <1>3, PushedEntries DEF Between, Entries
<1>6. Entries(p)' = t.steps
  BY <1>0, <1>2 DEF Entries, Typed
<1>7. Due(p, "next", Len(Entries(p))) => Due(p, "decide", Len(t.steps))
  BY <1>2, <1>5 DEF Due, CoderPoints
<1> QED
  BY <1>0, <1>1, <1>2, <1>4, <1>6, <1>7, MoveAlone, WrittenBlame DEF Behind

\* A move that marks the last entry and is not written yet.
LEMMA MarkAlone ==
  ASSUME IInv, FilesInv, AloneInv, NEW p \in Procs, Acts(p),
         NEW here, NEW next, NEW m,
         \/ here = "decide" /\ next \in {"skipping", "starting"}
         \/ here = "done" /\ next = "completing"
         \/ here = "threw" /\ next = "failing",
         \/ m = Failed(work[p].mine) /\ here = "threw"
         \/ here # "threw" /\ \E status \in StepStatus : \E name : m = Marked(work[p].mine, status, name),
         At(p, here, next), SetTrace(p, m),
         UNCHANGED <<disk, job, held, seen, history, planVars, trace>>
  PROVE  AloneInv'
<1>0. /\ trace' = trace /\ held' = held /\ UNCHANGED <<file, kernel, index, memory, plan, job>>
      /\ work' = [work EXCEPT ![p].mine = m]
  BY DEF SetTrace, disk, planVars
<1>1. pc[p] = here /\ here \in EnginePoints \cup StepPoints
  BY DEF At, EnginePoints, StepPoints
<1>2. /\ Holds(p, here) /\ job[p] = "implement" /\ Typed /\ Before \in Nat
  BY <1>1, AtEngine
<1>3. PICK from : Within(work[p].mine, from) /\ (here = "threw" => from = "running")
  BY <1>1, <1>2 DEF Holds, Stage, StepPoints
<1>4. Len(m.steps) = Len(Entries(p))
  BY <1>3, MarkedTrace, FailedTrace DEF Entries, Within
<1>5. Entries(p)' = m.steps
  BY <1>0, <1>2 DEF Entries, Typed
<1>6. Due(p, here, Len(Entries(p))) => Due(p, next, Len(m.steps))
  BY <1>2, <1>4 DEF Due, CoderPoints
<1> QED
  BY <1>0, <1>1, <1>2, <1>5, <1>6, MoveAlone DEF Behind

LEMMA MarksAlone ==
  ASSUME IInv, FilesInv, AloneInv, NEW p \in Procs,
         Skip(p) \/ Start(p) \/ Complete(p) \/ Catch(p)
  PROVE  AloneInv'
<1>0. Acts(p)
  BY DEF Acts, EngineStep
<1>1. CASE Skip(p)
  BY <1>0, <1>1, MarkAlone DEF Skip, StepStatus
<1>2. CASE Start(p)
  BY <1>0, <1>2, MarkAlone DEF Start, StepStatus
<1>3. CASE Complete(p)
  BY <1>0, <1>3, MarkAlone DEF Complete, StepStatus
<1>4. CASE Catch(p)
  BY <1>0, <1>4, MarkAlone DEF Catch, Failed
<1> QED
  BY <1>1, <1>2, <1>3, <1>4

LEMMA CloseAlone ==
  ASSUME IInv, FilesInv, AloneInv, NEW p \in Procs, Close(p) \/ Announce(p)
  PROVE  AloneInv'
<1>1. CASE Close(p)
  <2>0. PICK t :
          /\ t = [work[p].mine EXCEPT !.status = "succeeded"]
          /\ At(p, "next", "closed") /\ Len(Entries(p)) = Len(Steps)
          /\ UNCHANGED <<file, kernel, index, memory, plan, job>> /\ held' = held
          /\ work' = [work EXCEPT ![p].mine = t] /\ trace' = [trace EXCEPT ![Flow(p)] = t]
    BY <1>1 DEF Close, Write, SetTrace, disk, planVars
  <2>1. pc[p] = "next" /\ Acts(p)
    BY <1>1, <2>0 DEF At, Acts, EngineStep
  <2>2. /\ Holds(p, "next") /\ job[p] = "implement" /\ Flow(p) \in Plans /\ Typed
    BY <2>1, AtEngine DEF EnginePoints
  <2>3. t.steps = work[p].mine.steps /\ t.status = "succeeded"
    BY <2>0, <2>2 DEF Holds, Stage, Between, IsTrace
  <2>4. Len(Entries(p)) = Before + 4 /\ Before \in Nat
    BY <2>0, StepPlaces
  <2>5. Entries(p)' = Entries(p)
    BY <2>0, <2>2, <2>3 DEF Entries, Typed
  <2>6. Due(p, "closed", Len(Entries(p)))
    BY <2>4 DEF Due, CoderPoints
  <2> QED
    BY <2>0, <2>1, <2>2, <2>3, <2>5, <2>6, MoveAlone, WrittenBlame DEF Behind
<1>2. CASE Announce(p)
  <2>0. /\ At(p, "closed", "stamp") /\ trace' = trace /\ work' = work /\ held' = held
        /\ UNCHANGED <<file, kernel, index, memory, plan, job>>
    BY <1>2 DEF Announce, disk, planVars
  <2>1. pc[p] = "closed" /\ Acts(p) /\ Entries(p)' = Entries(p)
    BY <1>2, <2>0 DEF At, Acts, EngineStep, Entries
  <2>2. job[p] = "implement"
    BY <2>1, AtEngine DEF EnginePoints
  <2>3. Due(p, "closed", Len(Entries(p))) => Due(p, "stamp", Len(Entries(p)))
    BY StepPlaces DEF Due, CoderPoints
  <2> QED
    BY <2>0, <2>1, <2>2, <2>3, MoveAlone DEF Behind
<1> QED
  BY <1>1, <1>2

\* A process that has exited holds nothing that could be behind.
LEMMA ExitAlone ==
  ASSUME NEW p, pc'[p] = "idle", job'[p] = "none", held'[p] = NoRun
  PROVE  OnCourse(p)'
BY RecordFacts DEF OnCourse

LEMMA RethrowAlone ==
  ASSUME IInv, FilesInv, AloneInv, NEW p \in Procs, Rethrow(p)
  PROVE  AloneInv'
<1>0. /\ pc[p] = "failing" /\ trace' = [trace EXCEPT ![Flow(p)] = work[p].mine]
      /\ Exit(p) /\ UNCHANGED <<file, kernel, index, memory, plan>>
  BY DEF Rethrow, disk, planVars
<1>1. Acts(p) /\ pc'[p] = "idle" /\ job'[p] = "none" /\ held'[p] = NoRun
  BY <1>0, ExitStep DEF Acts, EngineStep, Exit, FilesInv, Holding
<1>2. /\ Holds(p, "failing") /\ job[p] = "implement" /\ Flow(p) \in Plans /\ Typed
  BY <1>0, AtEngine DEF EnginePoints
<1>3. ASSUME OnCourse(p) PROVE Blamed(work[p].mine)
  <2>1. Due(p, "failing", Len(Entries(p)))
    BY <1>0, <1>2, <1>3 DEF OnCourse
  <2> QED
    BY <2>1 DEF Due, Blamed, Entries
<1>4. \A w \in Plans : trace'[w] = IF w = Flow(p) THEN work[p].mine ELSE trace[w]
  BY <1>0, <1>2 DEF Typed
<1> QED
  BY <1>0, <1>1, <1>3, <1>4, ExitAlone, QuietAlone DEF Behind

LEMMA EngineAlone == ASSUME IInv, FilesInv, AloneInv, NEW p \in Procs, EngineStep(p) PROVE AloneInv'
BY BeginAlone, OpenAlone, PersistAlone, PushAlone, MarksAlone, RethrowAlone, CloseAlone DEF EngineStep

LEMMA KillAlone == ASSUME IInv, FilesInv, AloneInv, NEW p \in Procs, KillAny(p) PROVE AloneInv'
<1>0. /\ Exit(p) /\ kills' = kills + 1 /\ UNCHANGED <<file, kernel, index, memory, plan, trace>>
  BY DEF KillAny, Kill, disk, planVars
<1>1. Acts(p) /\ pc'[p] = "idle" /\ job'[p] = "none" /\ held'[p] = NoRun
  BY <1>0, ExitStep DEF Acts, Exit, FilesInv, Holding
<1>2. KernelFollows' /\ kills' # 0
  BY <1>0 DEF AloneInv, KernelFollows
<1>3. alone /\ Lone(p) => \A w \in Plans : Blamed(trace'[w])
  BY <1>0, AloneView
<1> QED
  BY <1>1, <1>2, <1>3, ExitAlone, AloneStep DEF Fits
------------------------------------------------------------------------------
(* The coder loop, alone.                                                  *)

LEMMA Mapped ==
  ASSUME NEW status \in {"initialized", "green", "needs_fix"}
  PROVE  /\ mapImplementationStatus(status) \in {"created", "executing", "succeeded"}
         /\ mapImplementationStatus(status) = "created" <=> status = "initialized"
BY DEF mapImplementationStatus

\* The kernel refuses only a run it calls succeeded.
LEMMA Accepts ==
  ASSUME NEW status \in {"initialized", "green", "needs_fix"},
         NEW from \in {"none", "created", "executing", "succeeded"},
         status = "initialized" => from = "none", from # "succeeded"
  PROVE  canTransitionRunStatus(from, mapImplementationStatus(status))
<1>1. PICK to : to = mapImplementationStatus(status)
  OBVIOUS
<1>2. to \in {"executing", "succeeded"} \/ from = "none"
  BY <1>1 DEF mapImplementationStatus
<1>3. from = "created" => ALLOWED_RUN_TRANSITIONS[from] = RUN_STATUS \ {"created"}
  BY DEF ALLOWED_RUN_TRANSITIONS, RUN_STATUS
<1>4. from = "executing" => "succeeded" \in ALLOWED_RUN_TRANSITIONS[from]
  BY DEF ALLOWED_RUN_TRANSITIONS, RUN_STATUS, Terminal
<1> QED
  BY <1>1, <1>2, <1>3, <1>4 DEF canTransitionRunStatus, RUN_STATUS

LEMMA CreateAlone ==
  ASSUME IInv, FilesInv, AloneInv, NEW p \in Procs, Create(p) \/ Continue(p), UNCHANGED flowVars
  PROVE  AloneInv'
<1>0. PICK command, rec, next :
        /\ Begin(p, command, rec, next) /\ command # "implement"
        /\ \/ next = "save" /\ \E r \in Runs, checks \in Selections : Unused(r) /\ rec = Fresh(r, checks)
           \/ next = "checking" /\ \E r \in Runs : Exists(r) /\ rec = file[r]
  <2>1. CASE Create(p)
    BY <2>1 DEF Create
  <2>2. CASE Continue(p)
    BY <2>2 DEF Continue
  <2> QED
    BY <2>1, <2>2
<1>1. /\ pc[p] = "idle" /\ pc'[p] = next /\ job'[p] = command /\ Acts(p)
  BY <1>0, BeginStep DEF Acts, CoderStep
<1>2. /\ held' = [held EXCEPT ![p] = rec] /\ UNCHANGED <<file, kernel, index, memory, plan, trace>>
  BY <1>0 DEF Begin, disk, flowVars, planVars
<1>3. held'[p] = rec
  BY <1>2 DEF FilesInv, Holding
<1>4. next = "save" => kernel[rec.run] = "none"
  <2> SUFFICES ASSUME NEW r \in Runs, NEW checks \in Selections, Unused(r), rec = Fresh(r, checks)
               PROVE  kernel[rec.run] = "none"
    BY <1>0
  <2>1. rec.run = r /\ r \notin Filed
    BY FreshIsRecord DEF Unused, Filed
  <2> QED
    BY <2>1 DEF FilesInv, OnDisk, Known
<1>5. next = "checking" => (rec \in Records => file[rec.run] = rec)
  BY <1>0 DEF Exists
<1>6. OnCourse(p)'
  BY <1>0, <1>1, <1>2, <1>3, <1>4, <1>5 DEF OnCourse
<1> QED
  BY <1>1, <1>2, <1>6, QuietAlone DEF Behind

LEMMA RoundAlone ==
  ASSUME IInv, FilesInv, AloneInv, NEW p \in Procs, executeRound(p), UNCHANGED flowVars
  PROVE  AloneInv'
<1>0. PICK rec :
        /\ At(p, "checking", "save") /\ held' = [held EXCEPT ![p] = rec]
        /\ rec.run = held[p].run /\ rec.status # "initialized"
        /\ UNCHANGED <<file, kernel, index, memory, plan, trace, work, job>>
  <2>1. PICK failed \in SUBSET held[p].checks : \E failures \in SUBSET failed :
          held' = [held EXCEPT ![p] = Round(held[p], failed, failures)]
    BY DEF executeRound
  <2>2. PICK failures \in SUBSET failed : held' = [held EXCEPT ![p] = Round(held[p], failed, failures)]
    BY <2>1
  <2>3. PICK rec : rec = Round(held[p], failed, failures)
    OBVIOUS
  <2>4. rec.run = held[p].run /\ rec.status # "initialized"
    BY <2>3 DEF Round
  <2>5. At(p, "checking", "save") /\ UNCHANGED <<file, kernel, index, memory, plan, trace, work, job>>
    BY DEF executeRound, disk, flowVars, planVars
  <2> QED
    BY <2>2, <2>3, <2>4, <2>5
<1>1. pc[p] = "checking" /\ pc'[p] = "save" /\ Acts(p) /\ held'[p] = rec
  BY <1>0, AtStep DEF Acts, CoderStep, FilesInv, Holding
<1>2. job[p] = "implement" => Len(Entries(p)) = Before + 3 /\ Before \in Nat
  BY <1>1, StepPlaces DEF FilesInv, Doing, Making, CoderPoints
<1>3. Entries(p)' = Entries(p)
  BY <1>0 DEF Entries
<1>4. ASSUME OnCourse(p) PROVE OnCourse(p)'
  <2>1. job[p] = "implement" => Due(p, "save", Len(Entries(p)))'
    BY <1>0, <1>1, <1>2, <1>3, <1>4 DEF OnCourse, Due, CoderPoints
  <2> QED
    BY <1>0, <1>1, <1>3, <2>1 DEF OnCourse
<1> QED
  BY <1>0, <1>1, <1>4, QuietAlone DEF Behind

\* A save goes on with the run it holds.
LEMMA SaveAlone ==
  ASSUME IInv, FilesInv, AloneInv, NEW p \in Procs, Acts(p),
         NEW here, NEW next, here # "idle", At(p, here, next),
         UNCHANGED <<job, held, trace, work>>, KernelFollows',
         OnCourse(p) =>
           /\ held[p] \in Records /\ next # "save" => file'[held[p].run] = held[p]
           /\ next \in {"save", "filed", "pointed", "found"} /\ held[p].status = "initialized" =>
                kernel'[held[p].run] = "none"
           /\ next \in {"indexed", "recalled"} => index' = {held[p].run}
           /\ next \in {"pointing", "remembering"} => index' = {Flow(p)}
           /\ job[p] = "implement" => Due(p, next, Len(Entries(p)))',
         OnCourse(p) /\ MirrorsBut(here, held[p].run, Flow(p)) =>
           MirrorsBut(next, held[p].run, Flow(p))'
  PROVE  AloneInv'
<1>1. pc[p] = here /\ pc'[p] = next
  BY AtStep
<1>2. Entries(p)' = Entries(p) /\ Flow(p)' = Flow(p)
  BY DEF Entries, Flow
<1>3. OnCourse(p) => OnCourse(p)'
  BY <1>1, <1>2 DEF OnCourse
<1>4. alone /\ Lone(p) => OnCourse(p)
  BY <1>1, AloneView
<1>5. kills' = 0 => kills = 0
  BY ActsAlone
<1>6. alone /\ Lone(p) => Fits(p)' /\ \A w \in Plans : Blamed(trace'[w])
  BY <1>1, <1>2, <1>3, <1>4, <1>5, AloneView DEF Fits
<1> QED
  BY <1>6, AloneStep

LEMMA SaveFileAlone ==
  ASSUME IInv, FilesInv, AloneInv, NEW p \in Procs, SaveFile(p), UNCHANGED flowVars
  PROVE  AloneInv'
<1>0. /\ At(p, "save", "filed") /\ file' = [file EXCEPT ![held[p].run] = held[p]]
      /\ UNCHANGED <<kernel, index, memory, plan, job, held, trace, work>>
  BY DEF SaveFile, flowVars, planVars
<1>1. pc[p] = "save" /\ Acts(p)
  BY <1>0 DEF At, Acts, CoderStep
<1>2. /\ held[p] \in Records /\ held[p].run \in Runs /\ OnDisk
  BY <1>1, AtSave DEF CoderPoints
<1>3. \A r \in Runs : file'[r] = IF r = held[p].run THEN held[p] ELSE file[r]
  BY <1>0, <1>2 DEF OnDisk
<1>4. KernelFollows'
  BY <1>0 DEF AloneInv, KernelFollows
<1>5. ASSUME OnCourse(p), job[p] = "implement" PROVE Due(p, "filed", Len(Entries(p)))'
  <2>1. Due(p, "save", Len(Entries(p)))
    BY <1>1, <1>5 DEF OnCourse
  <2> QED
    BY <1>0, <2>1, StepPlaces DEF Due, Entries, CoderPoints
<1>6. ASSUME MirrorsBut("save", held[p].run, Flow(p)) PROVE MirrorsBut("filed", held[p].run, Flow(p))'
  <2>1. Filed' \subseteq Filed \cup {held[p].run} /\ Drawn' = Drawn /\ Filed \subseteq Runs
    BY <1>0, <1>3 DEF Filed, Exists, Drawn, Planned
  <2>2. memory.run # "none" => memory.run \in Runs
    BY <1>2, <2>1 DEF OnDisk
  <2>3. ASSUME NEW r \in Filed'
        PROVE  \/ kernel'[r] \in {mapImplementationStatus(file'[r].status), "succeeded"}
               \/ r = held[p].run
    BY <1>0, <1>3, <1>6, <2>1, <2>3 DEF MirrorsBut, Unregistered
  <2>4. \A v \in Drawn' : kernel'[v] = mapImplementationStatus(plan'[v].status)
    BY <1>0, <1>6, <2>1 DEF MirrorsBut, Unlisted
  <2>5. memory'.run # "none" =>
          /\ index' = {memory'.record}
          /\ \/ memory'.status = file'[memory'.run].status \/ kernel'[memory'.run] = "succeeded"
             \/ memory'.run = held[p].run
    BY <1>0, <1>3, <1>6, <2>2 DEF MirrorsBut, Indexing, Unremembered
  <2> QED
    BY <1>0, <2>3, <2>4, <2>5 DEF MirrorsBut, Unregistered, Unremembered, Flow
<1> QED
  BY <1>0, <1>1, <1>2, <1>3, <1>4, <1>5, <1>6, SaveAlone DEF OnCourse

\* Steps of a save that write nothing the mirrors show.
LEMMA PointAlone ==
  ASSUME IInv, FilesInv, AloneInv, NEW p \in Procs, UNCHANGED flowVars,
         SaveLatest(p) \/ Lookup(p) \/ Recall(p)
  PROVE  AloneInv'
<1>0. PICK here, next :
        /\ \/ here = "filed" /\ next = "pointed"
           \/ here = "pointed" /\ next = "found"
           \/ here = "indexed" /\ next = "recalled"
        /\ At(p, here, next)
        /\ UNCHANGED <<file, kernel, index, memory, plan, job, held, trace, work>>
  BY DEF SaveLatest, Lookup, Recall, disk, flowVars, planVars
<1>1. pc[p] = here /\ Acts(p)
  BY <1>0 DEF At, Acts, CoderStep
<1>2. KernelFollows'
  BY <1>0 DEF AloneInv, KernelFollows
<1>3. Due(p, here, Len(Entries(p))) => Due(p, next, Len(Entries(p)))'
  BY <1>0, StepPlaces DEF Due, Entries, CoderPoints
<1>4. MirrorsBut(here, held[p].run, Flow(p)) => MirrorsBut(next, held[p].run, Flow(p))'
  <2>1. Filed' = Filed /\ Drawn' = Drawn /\ Flow(p)' = Flow(p)
    BY <1>0 DEF Filed, Exists, Drawn, Planned, Flow
  <2> QED
    BY <1>0, <2>1 DEF MirrorsBut, Unregistered, Unlisted, Indexing, Unremembered
<1>5. OnCourse(p) =>
        /\ held[p] \in Records /\ next # "save" => file'[held[p].run] = held[p]
        /\ next \in {"save", "filed", "pointed", "found"} /\ held[p].status = "initialized" =>
             kernel'[held[p].run] = "none"
        /\ next \in {"indexed", "recalled"} => index' = {held[p].run}
        /\ next \notin {"pointing", "remembering"}
        /\ job[p] = "implement" => Due(p, next, Len(Entries(p)))'
  BY <1>0, <1>1, <1>3 DEF OnCourse
<1> QED
  BY <1>0, <1>1, <1>2, <1>4, <1>5, SaveAlone

LEMMA RegisterAlone ==
  ASSUME IInv, FilesInv, AloneInv, NEW p \in Procs, Register(p), UNCHANGED flowVars
  PROVE  AloneInv'
<1> DEFINE new == mapImplementationStatus(held[p].status)
<1>0. /\ At(p, "found", "registered") /\ kernel' = [kernel EXCEPT ![held[p].run] = new]
      /\ UNCHANGED <<file, index, memory, plan, job, held, trace, work>>
  BY DEF Register, flowVars, planVars
<1>1. pc[p] = "found" /\ Acts(p)
  BY <1>0 DEF At, Acts, CoderStep
<1>2. /\ held[p] \in Records /\ held[p].run \in Runs /\ OnDisk
      /\ held[p].status \in {"initialized", "green", "needs_fix"}
  BY <1>1, AtSave DEF CoderPoints
<1>3. new \in {"created", "executing", "succeeded"} /\ (held[p].status = "initialized" => new = "created")
  BY <1>2, Mapped
<1>4. \A k \in Runs \cup Plans : kernel'[k] = IF k = held[p].run THEN new ELSE kernel[k]
  BY <1>0, <1>2 DEF OnDisk
<1>5. KernelFollows'
  BY <1>3, <1>4 DEF AloneInv, KernelFollows
<1>6. ASSUME OnCourse(p), job[p] = "implement" PROVE Due(p, "registered", Len(Entries(p)))'
  <2>1. Due(p, "found", Len(Entries(p)))
    BY <1>1, <1>6 DEF OnCourse
  <2>2. kernel'[held[p].run] = new
    BY <1>2, <1>4
  <2> QED
    BY <1>0, <1>3, <2>1, <2>2, StepPlaces DEF Due, Entries, CoderPoints
<1>7. ASSUME OnCourse(p), MirrorsBut("found", held[p].run, Flow(p))
      PROVE  MirrorsBut("registered", held[p].run, Flow(p))'
  <2>1. /\ Filed' = Filed /\ Drawn' = Drawn /\ Filed \subseteq Runs /\ Drawn \subseteq Plans
        /\ held[p].run \notin Plans
    BY <1>0, <1>2, CoderAssumption DEF Filed, Exists, Drawn, Planned
  <2>2. memory.run # "none" => memory.run \in Runs
    BY <1>2, <2>1 DEF OnDisk
  <2>3. file[held[p].run] = held[p]
    BY <1>1, <1>2, <1>7 DEF OnCourse
  <2>4. ASSUME NEW r \in Filed'
        PROVE  kernel'[r] \in {mapImplementationStatus(file'[r].status), "succeeded"}
    <3>1. CASE r = held[p].run
      BY <1>0, <1>2, <1>4, <2>3, <3>1
    <3>2. CASE r # held[p].run
      BY <1>0, <1>4, <1>7, <2>1, <2>4, <3>2 DEF MirrorsBut
    <3> QED
      BY <3>1, <3>2
  <2>5. ASSUME NEW v \in Drawn' PROVE kernel'[v] = mapImplementationStatus(plan'[v].status)
    <3>1. v \in Drawn /\ v \in Plans /\ v # held[p].run
      BY <2>1, <2>5
    <3>2. kernel[v] = mapImplementationStatus(plan[v].status)
      BY <1>7, <3>1 DEF MirrorsBut, Unlisted
    <3> QED
      BY <1>0, <1>4, <3>1, <3>2
  <2>6. memory'.run # "none" =>
          /\ index' = {memory'.record}
          /\ \/ memory'.status = file'[memory'.run].status \/ kernel'[memory'.run] = "succeeded"
             \/ memory'.run = held[p].run
    BY <1>0, <1>4, <1>7, <2>2 DEF MirrorsBut, Indexing, Unremembered
  <2> QED
    BY <1>0, <2>4, <2>5, <2>6 DEF MirrorsBut, Unregistered, Unremembered, Flow
<1> HIDE DEF new
<1>8. OnCourse(p) => (held[p] \in Records => file'[held[p].run] = held[p])
  BY <1>0, <1>1 DEF OnCourse
<1> QED
  BY <1>0, <1>1, <1>5, <1>6, <1>7, <1>8, SaveAlone

LEMMA IndexAlone ==
  ASSUME IInv, FilesInv, AloneInv, NEW p \in Procs, Index(p), UNCHANGED flowVars
  PROVE  AloneInv'
<1>0. /\ At(p, "registered", "indexed") /\ index' = {held[p].run}
      /\ UNCHANGED <<file, kernel, memory, plan, job, held, trace, work>>
  BY DEF Index, flowVars, planVars
<1>1. pc[p] = "registered" /\ Acts(p)
  BY <1>0 DEF At, Acts, CoderStep
<1>2. KernelFollows'
  BY <1>0 DEF AloneInv, KernelFollows
<1>3. Due(p, "registered", Len(Entries(p))) => Due(p, "indexed", Len(Entries(p)))'
  BY <1>0, StepPlaces DEF Due, Entries, CoderPoints
<1>4. MirrorsBut("registered", held[p].run, Flow(p)) => MirrorsBut("indexed", held[p].run, Flow(p))'
  <2>1. Filed' = Filed /\ Drawn' = Drawn /\ Flow(p)' = Flow(p)
    BY <1>0 DEF Filed, Exists, Drawn, Planned, Flow
  <2> QED
    BY <1>0, <2>1 DEF MirrorsBut, Unregistered, Unlisted, Indexing, Unremembered
<1>5. OnCourse(p) => /\ held[p] \in Records => file'[held[p].run] = held[p]
                     /\ job[p] = "implement" => Due(p, "indexed", Len(Entries(p)))'
  BY <1>0, <1>1, <1>3 DEF OnCourse
<1> QED
  BY <1>0, <1>1, <1>2, <1>4, <1>5, SaveAlone

LEMMA RememberAlone ==
  ASSUME IInv, FilesInv, AloneInv, NEW p \in Procs, Remember(p), UNCHANGED flowVars
  PROVE  AloneInv'
<1>0. /\ At(p, "recalled", "saved")
      /\ memory' = [run |-> held[p].run, plan |-> seen[p], record |-> held[p].run,
                    status |-> held[p].status]
      /\ UNCHANGED <<file, index, kernel, plan, job, held, trace, work>>
  BY DEF Remember, flowVars, planVars
<1>1. pc[p] = "recalled" /\ Acts(p)
  BY <1>0 DEF At, Acts, CoderStep
<1>2. KernelFollows' /\ held[p] \in Records
  BY <1>0, <1>1, AtSave DEF AloneInv, KernelFollows, CoderPoints
<1>3. Due(p, "recalled", Len(Entries(p))) => Due(p, "saved", Len(Entries(p)))'
  BY <1>0, StepPlaces DEF Due, Entries, CoderPoints
<1>4. ASSUME OnCourse(p), MirrorsBut("recalled", held[p].run, Flow(p))
      PROVE  MirrorsBut("saved", held[p].run, Flow(p))'
  <2>1. Filed' = Filed /\ Drawn' = Drawn /\ Flow(p)' = Flow(p)
    BY <1>0 DEF Filed, Exists, Drawn, Planned, Flow
  <2>2. file[held[p].run] = held[p] /\ index = {held[p].run}
    BY <1>1, <1>2, <1>4 DEF OnCourse
  <2>3. memory'.run = held[p].run /\ memory'.record = held[p].run /\ memory'.status = held[p].status
    BY <1>0
  <2> QED
    BY <1>0, <1>4, <2>1, <2>2, <2>3 DEF MirrorsBut, Unregistered, Unlisted
<1>5. OnCourse(p) => /\ held[p] \in Records => file'[held[p].run] = held[p]
                     /\ job[p] = "implement" => Due(p, "saved", Len(Entries(p)))'
  BY <1>0, <1>1, <1>3 DEF OnCourse
<1> QED
  BY <1>0, <1>1, <1>2, <1>4, <1>5, SaveAlone

\* A save the kernel refuses is of a run it calls succeeded, which no workflow makes.
LEMMA RefusedAlone ==
  ASSUME IInv, FilesInv, AloneInv, NEW p \in Procs, Refused(p), UNCHANGED flowVars
  PROVE  AloneInv'
<1>0. /\ pc[p] = "pointed" /\ ~Accepted(p) /\ Acts(p)
      /\ UNCHANGED <<file, kernel, index, memory, plan, trace>>
      /\ job[p] # "implement" => Exit(p)
  BY DEF Refused, disk, flowVars, planVars, Acts, CoderStep
<1>1. /\ held[p] \in Records /\ held[p].run \in Runs
      /\ held[p].status \in {"initialized", "green", "needs_fix"}
      /\ KernelFollows /\ KernelFollows'
  BY <1>0, AtSave DEF CoderPoints, AloneInv, KernelFollows
<1>2. ASSUME alone, Lone(p)
      PROVE  Fits(p)' /\ \A w \in Plans : Blamed(trace'[w])
  <2>1. OnCourse(p)
    BY <1>0, <1>2, AloneView
  <2>2. held[p].status = "initialized" => kernel[held[p].run] = "none"
    BY <1>0, <2>1 DEF OnCourse
  <2>3. kernel[held[p].run] = "succeeded"
    BY <1>0, <1>1, <2>2, Accepts DEF Accepted, KernelFollows
  <2>4. job[p] # "implement"
    <3> SUFFICES ASSUME job[p] = "implement" PROVE FALSE
      OBVIOUS
    <3>1. Due(p, "pointed", Len(Entries(p))) /\ Making(p, "pointed", Entries(p)) /\ Before \in Nat
      BY <1>0, <2>1, StepPlaces DEF OnCourse, FilesInv, Doing
    <3>2. Len(Entries(p)) = Before + 2 => held[p].status = "initialized"
      BY <3>1 DEF Due, CoderPoints
    <3>3. Len(Entries(p)) = Before + 3 => kernel[held[p].run] = "created"
      BY <3>1 DEF Due
    <3> QED
      BY <2>2, <2>3, <3>1, <3>2, <3>3 DEF Making, CoderPoints
  <2>5. pc'[p] = "idle" /\ job'[p] = "none" /\ held'[p] = NoRun
    BY <1>0, <2>4, ExitStep DEF Exit, FilesInv, Holding
  <2>6. OnCourse(p)'
    BY <1>0, <2>5, ExitAlone
  <2>7. ASSUME kills' = 0 PROVE MirrorsBut(pc[p], held[p].run, Flow(p))'
    <3>1. MirrorsBut("pointed", held[p].run, Flow(p))
      BY <1>0, <1>2, <2>7, ActsAlone, AloneView
    <3>2. Filed' = Filed /\ Drawn' = Drawn
      BY <1>0 DEF Filed, Exists, Drawn, Planned
    <3> QED
      BY <1>0, <2>3, <3>1, <3>2 DEF MirrorsBut, Unlisted, Indexing
  <2> QED
    BY <1>0, <1>2, <2>6, <2>7, AloneView DEF Fits
<1> QED
  BY <1>0, <1>1, <1>2, AloneStep

LEMMA SavedAlone ==
  ASSUME IInv, FilesInv, AloneInv, NEW p \in Procs, Saved(p), UNCHANGED flowVars
  PROVE  AloneInv'
<1>0. /\ pc[p] = "saved" /\ job[p] \in {"create", "round"} /\ Acts(p)
      /\ UNCHANGED <<file, kernel, index, memory, plan, trace>>
      /\ \/ At(p, "saved", "checking") /\ UNCHANGED <<job, held>>
         \/ Exit(p)
  BY DEF Saved, disk, flowVars, planVars, Acts, CoderStep
<1>1. OnCourse(p) => OnCourse(p)'
  <2>1. CASE At(p, "saved", "checking") /\ UNCHANGED <<job, held>>
    BY <1>0, <2>1, AtStep DEF OnCourse
  <2>2. CASE Exit(p)
    <3>1. pc'[p] = "idle" /\ job'[p] = "none" /\ held'[p] = NoRun
      BY <2>2, ExitStep DEF Exit, FilesInv, Holding
    <3> QED
      BY <1>0, <3>1, ExitAlone
  <2> QED
    BY <1>0, <2>1, <2>2
<1> QED
  BY <1>0, <1>1, QuietAlone DEF Behind

LEMMA CoderAlone ==
  ASSUME IInv, FilesInv, AloneInv, NEW p \in Procs, CoderStep(p), UNCHANGED flowVars
  PROVE  AloneInv'
BY CreateAlone, RoundAlone, SaveFileAlone, PointAlone, RegisterAlone, IndexAlone, RememberAlone,
   RefusedAlone, SavedAlone DEF CoderStep
------------------------------------------------------------------------------
(* The steps of the workflow, alone.                                       *)

\* Steps that only lead on, or read the run again, which is the one held.
LEMMA PassAlone ==
  ASSUME IInv, FilesInv, AloneInv, NEW p \in Procs,
         \/ Report(p) \/ runScaffold(p) \/ executeValidationRound(p) \/ StepSaved(p)
         \/ RoundSaved(p) \/ writePlanArtifacts(p) \/ WriteContext(p) \/ WritePrompt(p)
  PROVE  AloneInv'
<1>0. PICK here, next :
        /\ At(p, here, next) /\ UNCHANGED <<file, kernel, index, memory, plan, job, trace>>
        /\ \/ held' = held
           \/ held' = [held EXCEPT ![p] = file[held[p].run]] /\ (here = "saved" \/ next = "context")
        /\ work' = work \/ \E pl : work' = [work EXCEPT ![p].plan = pl]
        /\ \/ here = "body" /\ next = "done" /\ Current(p) \in Range(Reports) \cup {"run-scaffold"}
           \/ here = "body" /\ next = "threw" /\ Current(p) = "run-scaffold"
           \/ here = "body" /\ next = "checking" /\ Current(p) = "execute-validation-round"
           \/ here = "saved" /\ next = "done" /\ job[p] = "implement"
                /\ Current(p) \in {"create-coder-run", "execute-validation-round"}
           \/ here = "body" /\ next = "context" /\ Current(p) = "write-plan-artifacts"
           \/ here = "context" /\ next = "prompt"
           \/ here = "prompt" /\ next = "plan"
  BY DEF Report, runScaffold, executeValidationRound, StepSaved, RoundSaved, Reload,
         writePlanArtifacts, WriteContext, WritePrompt, disk, flowVars, planVars
<1>1. pc[p] = here /\ Acts(p) /\ here \in StepPoints \cup CoderPoints
  BY <1>0 DEF At, Acts, BodyStep, StepPoints, CoderPoints
<1>2. job[p] = "implement"
  BY <1>0, <1>1, Implements DEF StepPoints
<1>3. /\ Making(p, here, Entries(p)) /\ Saving(p) /\ Before \in Nat /\ Len(Entries(p)) \in 1..(Before + 4)
      /\ Current(p) = "run-scaffold" => Len(Entries(p)) = Before + 1
      /\ Current(p) = "create-coder-run" <=> Len(Entries(p)) = Before + 2
      /\ Current(p) = "execute-validation-round" <=> Len(Entries(p)) = Before + 3
      /\ Current(p) = "write-plan-artifacts" <=> Len(Entries(p)) = Before + 4
      /\ Current(p) \in Range(Reports) => Len(Entries(p)) <= Before
  BY <1>1, <1>2, AtBody
<1>4. Due(p, here, Len(Entries(p))) => Due(p, next, Len(Entries(p)))
  <2>1. here \in {"context", "prompt"} => Len(Entries(p)) = Before + 4
    BY <1>3 DEF Making, PlanPoints
  <2> QED
    BY <1>0, <1>3, <2>1 DEF Due, CoderPoints
<1>5. held' # held => held[p] \in Records
  <2>1. here = "saved" => held[p] \in Records
    BY <1>1, <1>3 DEF Saving, CoderPoints
  <2>2. next = "context" => held[p] \in Records
    BY <1>0, <1>3 DEF Making, Made
  <2> QED
    BY <1>0, <2>1, <2>2
<1>6. Entries(p)' = Entries(p)
  BY <1>0 DEF Entries, IInv, Typed
<1> QED
  BY <1>0, <1>1, <1>2, <1>4, <1>5, <1>6, MoveAlone DEF Behind

\* A run is created with a name no record of the kernel has.
LEMMA CreateRunAlone ==
  ASSUME IInv, FilesInv, AloneInv, NEW p \in Procs, createCoderRun(p)
  PROVE  AloneInv'
<1>0. PICK r \in Runs, checks \in Selections :
        /\ At(p, "body", "save") /\ Unused(r) /\ held' = [held EXCEPT ![p] = Fresh(r, checks)]
        /\ UNCHANGED <<file, kernel, index, memory, plan, job, trace, work>>
        /\ Current(p) = "create-coder-run"
  BY DEF createCoderRun, disk, flowVars, planVars
<1>1. /\ pc[p] = "body" /\ pc'[p] = "save" /\ Acts(p) /\ job[p] = "implement"
      /\ held'[p] = Fresh(r, checks)
  BY <1>0, AtStep, Implements DEF Acts, BodyStep, StepPoints, FilesInv, Holding
<1>2. Len(Entries(p)) = Before + 2 /\ Before \in Nat
  BY <1>0, <1>1, AtBody DEF StepPoints
<1>3. Fresh(r, checks).run = r /\ Fresh(r, checks).status = "initialized"
  BY DEF Fresh
<1>4. kernel[r] = "none"
  BY <1>0 DEF FilesInv, OnDisk, Known, Unused, Filed
<1>5. Entries(p)' = Entries(p)
  BY <1>0 DEF Entries
<1>6. Due(p, "save", Len(Entries(p)))'
  BY <1>1, <1>2, <1>3, <1>5 DEF Due
<1>7. OnCourse(p)'
  BY <1>0, <1>1, <1>3, <1>4, <1>6 DEF OnCourse
<1> QED
  BY <1>0, <1>1, <1>7, QuietAlone DEF Behind

\* What the plan's last numbers are, where it is written.
LEMMA AtPlanAlone ==
  ASSUME IInv, FilesInv, NEW p \in Procs, NEW here \in PlanPoints \ {"context", "prompt"}, pc[p] = here
  PROVE  /\ Len(Entries(p)) = Before + 4 /\ Before \in Nat /\ OnDisk /\ Flow(p) \in Plans
         /\ Flow(p) \notin Runs /\ held[p] \in Records /\ held[p].run \in Runs
         /\ held[p].run \in Filed
         /\ work[p].plan.run = held[p].run /\ work[p].plan.status = held[p].status
         /\ work[p].plan = PlanOf(held[p])
         /\ here # "plan" => plan[Flow(p)].status = held[p].status /\ Flow(p) \in Drawn
<1>1. /\ Making(p, here, Entries(p)) /\ Len(Entries(p)) = Before + 4 /\ Before \in Nat
      /\ OnDisk /\ Flow(p) \in Plans /\ Flow(p) \notin Runs /\ held[p] \in Records
      /\ held[p].run \in Runs /\ held[p].run \in Filed /\ PlanOf(held[p]) # NoPlan
      /\ PlanOf(held[p]).run = held[p].run /\ PlanOf(held[p]).status = held[p].status
  BY AtPlan
<1>2. work[p].plan = PlanOf(held[p]) /\ (here # "plan" => plan[Flow(p)] = PlanOf(held[p]))
  BY <1>1 DEF Making, Drafted, PlanPoints
<1> QED
  BY <1>1, <1>2 DEF Drawn, Planned

\* A step of the plan's making writes what the mirrors show of it.
LEMMA PlanAlone ==
  ASSUME IInv, FilesInv, AloneInv, NEW p \in Procs, Acts(p),
         NEW here \in PlanPoints \ {"context", "prompt"}, NEW next \in PlanPoints \cup {"done"},
         At(p, here, next), UNCHANGED <<file, job, held, trace, work>>,
         \A r \in Runs : kernel'[r] = kernel[r],
         OnCourse(p) /\ next \in {"pointing", "remembering"} => index' = {Flow(p)},
         OnCourse(p) /\ MirrorsBut(here, held[p].run, Flow(p)) => MirrorsBut(next, held[p].run, Flow(p))'
  PROVE  AloneInv'
<1>1. /\ Len(Entries(p)) = Before + 4 /\ Before \in Nat
  BY AtPlanAlone DEF At
<1>2. Due(p, next, Len(Entries(p)))'
  BY <1>1 DEF Due, Entries, PlanPoints, CoderPoints
<1>3. KernelFollows'
  BY DEF AloneInv, KernelFollows
<1>4. pc[p] = here /\ here \notin {"idle", "save"}
  BY DEF At, PlanPoints
<1>5. OnCourse(p) =>
        /\ held[p] \in Records /\ next # "save" => file'[held[p].run] = held[p]
        /\ next \notin {"save", "filed", "pointed", "found", "indexed", "recalled"}
        /\ next \in {"pointing", "remembering"} => index' = {Flow(p)}
        /\ job[p] = "implement" => Due(p, next, Len(Entries(p)))'
  BY <1>2, <1>4 DEF OnCourse, PlanPoints
<1> QED
  BY <1>3, <1>4, <1>5, SaveAlone

LEMMA SavePlanAlone ==
  ASSUME IInv, FilesInv, AloneInv, NEW p \in Procs, savePlan(p)
  PROVE  AloneInv'
<1>0. /\ At(p, "plan", "planned") /\ plan' = [plan EXCEPT ![Flow(p)] = work[p].plan]
      /\ UNCHANGED <<file, kernel, index, memory, job, held, trace, work>>
  BY DEF savePlan, disk
<1>1. pc[p] = "plan" /\ Acts(p)
  BY <1>0 DEF At, Acts, BodyStep
<1>2. OnDisk /\ Flow(p) \in Plans
  BY <1>1, AtPlanAlone DEF PlanPoints
<1>3. \A v \in Plans : v # Flow(p) => plan'[v] = plan[v]
  BY <1>0, <1>2 DEF OnDisk
<1>4. MirrorsBut("plan", held[p].run, Flow(p)) => MirrorsBut("planned", held[p].run, Flow(p))'
  <2>1. Filed' = Filed /\ Flow(p)' = Flow(p) /\ Drawn' \subseteq Drawn \cup {Flow(p)} /\ Drawn' \subseteq Plans
    BY <1>0, <1>3 DEF Filed, Exists, Drawn, Planned, Flow
  <2> QED
    BY <1>0, <1>3, <2>1 DEF MirrorsBut, Unregistered, Unlisted, Indexing, Unremembered
<1> QED
  BY <1>0, <1>1, <1>4, PlanAlone DEF PlanPoints

LEMMA NotePlanAlone ==
  ASSUME IInv, FilesInv, AloneInv, NEW p \in Procs,
         RegisterPlan(p) \/ IndexPlan(p) \/ writeLatestPlanPointer(p) \/ RememberPlan(p)
  PROVE  AloneInv'
<1>0. Acts(p)
  BY DEF Acts, BodyStep
<1>1. CASE RegisterPlan(p)
  <2>0. /\ At(p, "planned", "listed") /\ pc[p] = "planned"
        /\ kernel' = [kernel EXCEPT ![Flow(p)] = mapImplementationStatus(work[p].plan.status)]
        /\ UNCHANGED <<file, index, memory, plan, job, held, trace, work>>
    BY <1>1 DEF RegisterPlan, At, flowVars, planVars
  <2>1. /\ OnDisk /\ Flow(p) \in Plans /\ Flow(p) \notin Runs /\ Flow(p) \in Drawn
        /\ work[p].plan.status = plan[Flow(p)].status
    BY <2>0, AtPlanAlone DEF PlanPoints
  <2>2. /\ \A k \in Runs \cup Plans : k # Flow(p) => kernel'[k] = kernel[k]
        /\ kernel'[Flow(p)] = mapImplementationStatus(plan[Flow(p)].status)
    BY <2>0, <2>1 DEF OnDisk
  <2>3. /\ Filed' = Filed /\ Drawn' = Drawn /\ Flow(p)' = Flow(p) /\ Filed \subseteq Runs
        /\ Drawn \subseteq Plans
    BY <2>0 DEF Filed, Exists, Drawn, Planned, Flow
  <2>4. memory.run # "none" => memory.run \in Runs
    BY <2>1, <2>3 DEF OnDisk
  <2>5. \A r \in Runs : kernel'[r] = kernel[r]
    BY <2>1, <2>2
  <2>6. MirrorsBut("planned", held[p].run, Flow(p)) => MirrorsBut("listed", held[p].run, Flow(p))'
    BY <2>0, <2>2, <2>3, <2>4, <2>5 DEF MirrorsBut, Unregistered, Unlisted, Indexing, Unremembered
  <2> QED
    BY <1>0, <2>0, <2>5, <2>6, PlanAlone DEF PlanPoints
<1>2. CASE IndexPlan(p)
  <2>0. /\ At(p, "listed", "pointing") /\ index' = {Flow(p)}
        /\ UNCHANGED <<file, kernel, memory, plan, job, held, trace, work>>
    BY <1>2 DEF IndexPlan, flowVars, planVars
  <2>1. Filed' = Filed /\ Drawn' = Drawn /\ Flow(p)' = Flow(p)
    BY <2>0 DEF Filed, Exists, Drawn, Planned, Flow
  <2>2. MirrorsBut("listed", held[p].run, Flow(p)) => MirrorsBut("pointing", held[p].run, Flow(p))'
    BY <2>0, <2>1 DEF MirrorsBut, Unregistered, Unlisted, Indexing, Unremembered
  <2>3. /\ "listed" \in PlanPoints \ {"context", "prompt"} /\ "pointing" \in PlanPoints \cup {"done"}
        /\ \A r \in Runs : kernel'[r] = kernel[r]
    BY <2>0 DEF PlanPoints
  <2> QED
    BY <1>0, <2>0, <2>2, <2>3, PlanAlone
<1>3. CASE writeLatestPlanPointer(p)
  <2>0. /\ At(p, "pointing", "remembering")
        /\ UNCHANGED <<file, kernel, index, memory, plan, job, held, trace, work>>
    BY <1>3 DEF writeLatestPlanPointer, disk
  <2>1. Filed' = Filed /\ Drawn' = Drawn /\ Flow(p)' = Flow(p)
    BY <2>0 DEF Filed, Exists, Drawn, Planned, Flow
  <2>2. MirrorsBut("pointing", held[p].run, Flow(p)) => MirrorsBut("remembering", held[p].run, Flow(p))'
    BY <2>0, <2>1 DEF MirrorsBut, Unregistered, Unlisted, Indexing, Unremembered
  <2>3. /\ "pointing" \in PlanPoints \ {"context", "prompt"} /\ "remembering" \in PlanPoints \cup {"done"}
        /\ \A r \in Runs : kernel'[r] = kernel[r]
    BY <2>0 DEF PlanPoints
  <2>4. OnCourse(p) => index' = {Flow(p)}
    BY <2>0 DEF OnCourse, At
  <2> QED
    BY <1>0, <2>0, <2>2, <2>3, <2>4, PlanAlone
<1>4. CASE RememberPlan(p)
  <2>0. /\ At(p, "remembering", "done") /\ pc[p] = "remembering"
        /\ memory' = [run |-> work[p].plan.run, plan |-> Flow(p), record |-> Flow(p),
                      status |-> work[p].plan.status]
        /\ UNCHANGED <<file, index, kernel, plan, job, held, trace, work>>
    BY <1>4 DEF RememberPlan, At, flowVars, planVars
  <2>1. /\ held[p] \in Records /\ work[p].plan.run = held[p].run
        /\ work[p].plan.status = held[p].status
    BY <2>0, AtPlanAlone DEF PlanPoints
  <2>2. /\ memory'.run = held[p].run /\ memory'.record = Flow(p) /\ memory'.status = held[p].status
    BY <2>0, <2>1
  <2>3. Filed' = Filed /\ Drawn' = Drawn /\ Flow(p)' = Flow(p)
    BY <2>0 DEF Filed, Exists, Drawn, Planned, Flow
  <2>4. ASSUME OnCourse(p), MirrorsBut("remembering", held[p].run, Flow(p))
        PROVE  MirrorsBut("done", held[p].run, Flow(p))'
    <3>1. file[held[p].run] = held[p] /\ index = {Flow(p)}
      BY <2>0, <2>1, <2>4 DEF OnCourse
    <3> QED
      BY <2>0, <2>2, <2>3, <2>4, <3>1 DEF MirrorsBut, Unregistered, Unlisted
  <2>5. "remembering" \in PlanPoints \ {"context", "prompt"} /\ \A r \in Runs : kernel'[r] = kernel[r]
    BY <2>0 DEF PlanPoints
  <2> QED
    BY <1>0, <2>0, <2>4, <2>5, PlanAlone
<1> QED
  BY <1>1, <1>2, <1>3, <1>4

\* The name of its trace changes nothing the mirrors show of a plan.
LEMMA StampAlone ==
  ASSUME IInv, FilesInv, AloneInv, NEW p \in Procs, StampPlan(p)
  PROVE  AloneInv'
<1>0. /\ pc[p] = "stamp" /\ Exit(p) /\ Acts(p)
      /\ plan' = [plan EXCEPT ![Flow(p)] = [work[p].plan EXCEPT !.traced = TRUE]]
      /\ UNCHANGED <<file, kernel, index, memory, trace>>
  BY DEF StampPlan, disk, Acts, BodyStep
<1>1. /\ Making(p, "stamp", Entries(p)) /\ Flow(p) \in Plans /\ OnDisk /\ Before \in Nat
  BY <1>0, AtEngine DEF EnginePoints
<1>2. Made(p) /\ work[p].plan = PlanOf(held[p]) /\ plan[Flow(p)] = PlanOf(held[p])
  BY <1>1 DEF Making, PlanPoints, Drafted, Listed
<1> DEFINE new == [PlanOf(held[p]) EXCEPT !.traced = TRUE]
<1>3. new.status = PlanOf(held[p]).status /\ PlanOf(held[p]).run = held[p].run /\ NoPlan.run = "none"
  BY DEF PlanOf, NoPlan
<1>4. PlanOf(held[p]) # NoPlan
  BY <1>2, <1>3, RecordFacts DEF Made
<1>5. plan' = [plan EXCEPT ![Flow(p)] = new]
  BY <1>0, <1>2
<1> HIDE DEF new
<1>6. /\ \A v \in Plans : plan'[v].status = plan[v].status
      /\ \A v \in Plans : v # Flow(p) => plan'[v] = plan[v]
  BY <1>1, <1>2, <1>3, <1>5 DEF OnDisk
<1>7. Filed' = Filed /\ Drawn' \subseteq Drawn /\ Drawn \subseteq Plans
  BY <1>0, <1>1, <1>2, <1>4, <1>6 DEF Filed, Exists, Drawn, Planned
<1>8. pc'[p] = "idle" /\ job'[p] = "none" /\ held'[p] = NoRun
  BY <1>0, ExitStep DEF Exit, FilesInv, Holding
<1>9. KernelFollows'
  BY <1>0 DEF AloneInv, KernelFollows
<1>10. MirrorsBut("stamp", held[p].run, Flow(p)) => MirrorsBut(pc[p], held[p].run, Flow(p))'
  BY <1>0, <1>6, <1>7, <1>8 DEF MirrorsBut, Unregistered, Unlisted, Indexing, Unremembered
<1>11. alone /\ Lone(p) => Fits(p)' /\ \A w \in Plans : Blamed(trace'[w])
  BY <1>0, <1>8, <1>10, ActsAlone, AloneView, ExitAlone DEF Fits
<1> QED
  BY <1>0, <1>9, <1>11, AloneStep

LEMMA BodyAlone == ASSUME IInv, FilesInv, AloneInv, NEW p \in Procs, BodyStep(p) PROVE AloneInv'
BY PassAlone, CreateRunAlone, SavePlanAlone, NotePlanAlone, StampAlone DEF BodyStep
------------------------------------------------------------------------------
LEMMA AloneInit == Init => AloneInv
<1> SUFFICES ASSUME Init PROVE AloneInv
  OBVIOUS
<1>1. /\ \A k \in Runs \cup Plans : kernel[k] = "none"
      /\ \A p \in Procs : pc[p] = "idle"
      /\ \A w \in Plans : trace[w].status = "none"
      /\ kills = 0 /\ memory.run = "none"
  BY DEF Init, CoderInit, NoTrace
<1>2. Filed = {} /\ Drawn = {}
  BY RecordFacts DEF Init, CoderInit, Filed, Exists, Drawn, Planned
<1>3. MirrorsBut("idle", "none", "none")
  BY <1>1, <1>2 DEF MirrorsBut
<1> QED
  BY <1>1, <1>3 DEF AloneInv, Idle, Blamed

LEMMA AloneInvStep == IInv /\ FilesInv /\ AloneInv /\ [Next]_vars => AloneInv'
<1> SUFFICES ASSUME IInv, FilesInv, AloneInv, [Next]_vars PROVE AloneInv'
  OBVIOUS
<1>1. CASE UNCHANGED vars
  <2>1. UNCHANGED <<file, kernel, index, memory, plan, pc, job, held, alone, kills, trace, work>>
    BY <1>1 DEF vars, coderVars, flowVars, planVars, disk, history
  <2>2. /\ Filed' = Filed /\ Drawn' = Drawn
        /\ \A p \in Procs : Entries(p)' = Entries(p) /\ Flow(p)' = Flow(p)
    BY <2>1 DEF Filed, Drawn, Exists, Planned, Entries, Flow
  <2>3. \A p \in Procs : (OnCourse(p) => OnCourse(p)') /\ (Lone(p) => Lone(p)')
    BY <2>1, <2>2 DEF OnCourse, Due, Lone, Idle
  <2>4. \A point, run, w : MirrorsBut(point, run, w) => MirrorsBut(point, run, w)'
    BY <2>1, <2>2 DEF MirrorsBut
  <2> QED
    BY <2>1, <2>2, <2>3, <2>4 DEF AloneInv, Idle, Blamed
<1> QED
  BY <1>1, CoderAlone, EngineAlone, BodyAlone, KillAlone DEF Next

LEMMA InStep == ASSUME FilesInv, AloneInv PROVE AloneIsInStep
<1>1. MirrorsFollow
  <2> SUFFICES ASSUME alone, kills = 0, \A p \in Procs : Idle(p)
               PROVE  /\ \A r \in Runs : Exists(r) =>
                           kernel[r] \in {mapImplementationStatus(file[r].status), "succeeded"}
                      /\ \A w \in Plans : Planned(w) => kernel[w] = mapImplementationStatus(plan[w].status)
                      /\ memory.run # "none" =>
                           /\ index = {memory.record}
                           /\ memory.status = file[memory.run].status \/ kernel[memory.run] = "succeeded"
    BY DEF MirrorsFollow
  <2>1. MirrorsBut("idle", "none", "none")
    BY DEF AloneInv
  <2> QED
    BY <2>1 DEF MirrorsBut, Filed, Drawn, Unregistered, Unlisted, Indexing, Unremembered
<1>2. FailsOnlyAtScaffold
  BY StepPlaces DEF FailsOnlyAtScaffold, AloneInv, Blamed
<1> QED
  BY <1>1, <1>2 DEF AloneIsInStep

\* While no two commands have overlapped, the kernel refuses no save of a workflow, and
\* when none was killed the kernel, its index and the memory say between commands what
\* the files say.
THEOREM AloneIsInStepHolds == Spec => []AloneIsInStep
<1>1. Init => IInv /\ FilesInv /\ AloneInv
  BY InitInv, InitFiles, AloneInit
<1>2. IInv /\ FilesInv /\ AloneInv /\ [Next]_vars => (IInv /\ FilesInv /\ AloneInv)'
  BY IInvStep, FilesInvStep, AloneInvStep
<1>3. FilesInv /\ AloneInv => AloneIsInStep
  BY InStep
<1> QED
  BY <1>1, <1>2, <1>3, PTL DEF Spec
=============================================================================
