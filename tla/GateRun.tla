------------------------------ MODULE GateRun ------------------------------
(***************************************************************************)
(* Gated runs: cli/eoc-start-cli.js, the run files it shares with          *)
(* cli/eoc-bridge-cli.js and with the scheduler (.opencode/eoc-run/*.json  *)
(* and active.json), and the mirrors every save of eoc-start updates: the  *)
(* kernel's run records and their index (kernel/run-store.js,              *)
(* kernel/orchestrator-kernel.js) and the orchestrator's memory            *)
(* (orchestrator/memory.js).                                               *)
(*                                                                         *)
(* Every command is a process of its own that reads a run file whole and   *)
(* writes it back whole; nothing locks it.  A process may be killed        *)
(* between any two writes.                                                 *)
(***************************************************************************)
EXTENDS Integers, Sequences, FiniteSets, SequencesExt, RunStatus

CONSTANTS
  Procs, Runs,
  LastGate,    \* the gates are 0..LastGate, in the order of GATES
  Required,    \* the fields each gate requires, GATE_FIELD_RULES
  PlanFields,  \* those of gate 0, which an import may set
  Pauses,      \* the values of --pause-after-gate considered, and NoGate for none
  MayCrash,    \* whether a process may be killed amid a command
  MaxHistory,  \* bound on the length of a run's history
  MaxSched     \* bound on the scheduler's transitions

Gates  == 0..LastGate
Fields == UNION {Required[g] : g \in Gates}

NoGate == -1

ASSUME GateAssumption ==
  /\ LastGate \in Nat \ {0}
  /\ Required \in [Gates -> SUBSET Fields]
  /\ Required[LastGate] = {}
  /\ \A g, h \in Gates : g # h => Required[g] \cap Required[h] = {}
  /\ PlanFields = Required[0]
  /\ Pauses \subseteq Gates \cup {NoGate}
  /\ MayCrash \in BOOLEAN
  /\ MaxHistory \in Nat /\ MaxSched \in Nat
  /\ "none" \notin Runs

VARIABLES
  file,     \* the run files
  active,   \* the set holding the run active.json names
  pc,       \* where each process is
  held,     \* the record it holds
  cmd,      \* the command it runs
  kernel,   \* the kernel's record of each run
  index,    \* the set holding the run the kernel's index names
  memory    \* orchestrator/active.json

mirrors == <<kernel, index, memory>>
vars == <<file, active, pc, held, cmd, mirrors>>

NoRun == [run |-> "none"]

\* Init of a record: cmdStart, or an import with what it confirms.
Fresh(r, pause, confirmed, event) ==
  [run |-> r, gate |-> 0, state |-> confirmed, status |-> "active", pause |-> pause,
   sched |-> 0, history |-> <<event>>]

Event(type, gate, field, ok) == [type |-> type, gate |-> gate, field |-> field, ok |-> ok]

Exists(r) == file[r].run = r

Init ==
  /\ file = [r \in Runs |-> NoRun]
  /\ active = {}
  /\ pc = [p \in Procs |-> "idle"]
  /\ held = [p \in Procs |-> NoRun]
  /\ cmd = [p \in Procs |-> "none"]
  /\ kernel = [r \in Runs |-> [gate |-> NoGate, status |-> "none"]]
  /\ index = {} /\ memory = [run |-> "none", gate |-> NoGate, status |-> "none"]

------------------------------------------------------------------------------
(* What a command makes of the record it read.                             *)

unmetForGate(rec) == Required[rec.gate] \ rec.state

\* Mutant: only the last two events are kept.
LogCapped(rec, e) ==
  [rec EXCEPT !.history = IF Len(@) < 2 THEN Append(@, e) ELSE <<Last(@), e>>]

Log(rec, e) == [rec EXCEPT !.history = Append(@, e)]

\* assertFieldWritable.  Mutant: a field of any gate may be changed.
WritableAnywhere(rec) == Fields

Writable(rec) == Required[rec.gate]

\* Mutant: whatever the value given, the field is set.
MarkedTrue(rec, f, ok) ==
  Log([rec EXCEPT !.state = @ \cup {f}], Event("mark", rec.gate, f, ok))

Marked(rec, f, ok) ==
  Log([rec EXCEPT !.state = IF ok THEN @ \cup {f} ELSE @ \ {f}],
      Event("mark", rec.gate, f, ok))

StatusAt(gate, pause) ==
  IF pause = gate THEN "paused"
  ELSE IF gate = LastGate THEN "completed" ELSE "active"

Advanced(rec) ==
  LET next  == rec.gate + 1
      moved == Log([rec EXCEPT !.gate = next, !.status = StatusAt(next, rec.pause)],
                   Event("advance", next, "none", TRUE))
  IN  IF rec.pause = next THEN Log(moved, Event("paused", next, "none", TRUE)) ELSE moved

Resumed(rec) ==
  Log([rec EXCEPT !.status = StatusAt(rec.gate, NoGate)], Event("resumed", rec.gate, "none", TRUE))

------------------------------------------------------------------------------
(* A command reads its run and decides.                                    *)

Short(rec) == Len(rec.history) < MaxHistory

\* A process that ends forgets what it held.
Goto(p, next) ==
  /\ pc' = [pc EXCEPT ![p] = next]
  /\ IF next = "idle" THEN held' = [held EXCEPT ![p] = NoRun] /\ cmd' = [cmd EXCEPT ![p] = "none"]
     ELSE UNCHANGED <<held, cmd>>

\* From here the command holds rec and is going to write it.
Begin(p, c, rec) ==
  /\ pc[p] = "idle"
  /\ pc' = [pc EXCEPT ![p] = "loaded"]
  /\ held' = [held EXCEPT ![p] = rec]
  /\ cmd' = [cmd EXCEPT ![p] = c]
  /\ UNCHANGED <<file, active, mirrors>>

Start(p) == \E r \in Runs, pause \in Pauses :
  ~Exists(r) /\ Begin(p, "start", Fresh(r, pause, {}, Event("started", 0, "none", TRUE)))

\* eoc-bridge imports a packet, over an existing run when it is given its id.
Import(p) == \E r \in Runs, confirmed \in {{}, PlanFields} :
  Begin(p, "bridge", Fresh(r, NoGate, confirmed, Event("imported", 0, "none", confirmed # {})))

Mark(p) == \E r \in Runs, f \in Fields, ok \in BOOLEAN :
  LET rec == file[r]
  IN  /\ Exists(r) /\ Short(rec) /\ f \in Writable(rec)
      /\ Begin(p, "edit", Marked(rec, f, ok))

Advance(p) == \E r \in Runs :
  LET rec == file[r]
  IN  /\ Exists(r) /\ Short(rec) /\ rec.gate # LastGate /\ unmetForGate(rec) = {}
      /\ Begin(p, "edit", Advanced(rec))

Resume(p) == \E r \in Runs :
  LET rec == file[r]
  IN  Exists(r) /\ Short(rec) /\ Begin(p, "resume", Resumed(rec))

\* A scheduler run keeps what it read and writes it again at every transition.
Schedule(p) == \E r \in Runs : Exists(r) /\ Begin(p, "scheduler", file[r])

SchedulerWrites(p) ==
  /\ pc[p] = "loaded" /\ cmd[p] = "scheduler" /\ held[p].sched < MaxSched
  /\ LET rec == [held[p] EXCEPT !.sched = @ + 1]
     IN  /\ held' = [held EXCEPT ![p] = rec]
         /\ file' = [file EXCEPT ![rec.run] = rec]
  /\ UNCHANGED <<active, pc, cmd, mirrors>>

SchedulerEnds(p) ==
  /\ pc[p] = "loaded" /\ cmd[p] = "scheduler"
  /\ Goto(p, "idle")
  /\ UNCHANGED <<file, active, mirrors>>

------------------------------------------------------------------------------
(* It writes the run file, then the mirrors one by one.                    *)

Write(p) ==
  /\ pc[p] = "loaded" /\ cmd[p] # "scheduler"
  /\ file' = [file EXCEPT ![held[p].run] = held[p]]
  /\ Goto(p, IF cmd[p] = "bridge" THEN "remembered" ELSE "written")
  /\ UNCHANGED <<active, mirrors>>

\* updateRunRecord throws otherwise; KernelAccepts says that it never does.
Accepted(p) ==
  canTransitionRunStatus(kernel[held[p].run].status, mapGateStatus(held[p].status))

\* Mutant: a run already registered is left alone.
RegisterOnce(p) ==
  /\ pc[p] = "written" /\ Accepted(p)
  /\ kernel' = [kernel EXCEPT ![held[p].run] =
                  IF @.status = "none" THEN [gate |-> held[p].gate, status |-> mapGateStatus(held[p].status)] ELSE @]
  /\ Goto(p, "registered")
  /\ UNCHANGED <<file, active, index, memory>>

Register(p) ==
  /\ pc[p] = "written" /\ Accepted(p)
  /\ kernel' = [kernel EXCEPT ![held[p].run] =
                  [gate |-> held[p].gate, status |-> mapGateStatus(held[p].status)]]
  /\ Goto(p, "registered")
  /\ UNCHANGED <<file, active, index, memory>>

Index(p) ==
  /\ pc[p] = "registered"
  /\ index' = {held[p].run}
  /\ Goto(p, "indexed")
  /\ UNCHANGED <<file, active, kernel, memory>>

Remember(p) ==
  /\ pc[p] = "indexed"
  /\ memory' = [run |-> held[p].run, gate |-> held[p].gate, status |-> held[p].status]
  /\ Goto(p, IF cmd[p] = "edit" THEN "idle" ELSE "remembered")
  /\ UNCHANGED <<file, active, kernel, index>>

SetActive(p) ==
  /\ pc[p] = "remembered"
  /\ active' = {held[p].run}
  /\ Goto(p, "idle")
  /\ UNCHANGED <<file, mirrors>>

Crash(p) ==
  /\ MayCrash /\ pc[p] # "idle"
  /\ Goto(p, "idle")
  /\ UNCHANGED <<file, active, mirrors>>

Work(p) ==
  \/ Start(p) \/ Import(p) \/ Mark(p) \/ Advance(p) \/ Resume(p)
  \/ Schedule(p) \/ SchedulerWrites(p) \/ SchedulerEnds(p)
  \/ Write(p) \/ Register(p) \/ Index(p) \/ Remember(p) \/ SetActive(p)

Step(p) == Work(p) \/ Crash(p)

Next == \E p \in Procs : Step(p)

Spec == Init /\ [][Next]_vars
------------------------------------------------------------------------------
Events == [type : {"started", "imported", "mark", "advance", "paused", "resumed"},
           gate : Gates, field : Fields \cup {"none"}, ok : BOOLEAN]

Records == [run : Runs, gate : Gates, state : SUBSET Fields,
            status : {"active", "paused", "completed"}, pause : Gates \cup {NoGate},
            sched : 0..MaxSched, history : Seq(Events)]

TypeOK ==
  /\ \A r \in Runs : Exists(r) => file[r] \in Records
  /\ \A p \in Procs : pc[p] # "idle" => held[p] \in Records
  /\ active \subseteq Runs /\ index \subseteq Runs
  /\ \A r \in Runs : kernel[r].status \in RUN_STATUS \cup {"none"}

\* commands/eoc-start.md: "It enforces phase gates and blocks progression when
\* gate requirements are not met."  In every run file, at all times, each gate
\* that was passed still has all of its evidence, whatever commands, imports
\* and schedulers overlap and lose each other's updates, and wherever they die.
Earned(rec) == \A g \in Gates : g < rec.gate => Required[g] \subseteq rec.state

GatesEarned == \A r \in Runs : Exists(r) => Earned(file[r])

\* What the event e says of the evidence f, and of the status.
Confirms(e, f) ==
  e.ok /\ (\/ e.type = "mark" /\ e.field = f
           \/ e.type = "imported" /\ f \in PlanFields)

Withdraws(e, f) ==
  e.type \in {"started", "imported"} \/ (e.type = "mark" /\ e.field = f /\ ~e.ok)

StatusAfter(e) ==
  IF e.type = "paused" THEN "paused" ELSE IF e.gate = LastGate THEN "completed" ELSE "active"

\* The gate of the last event, the fields confirmed and not withdrawn since, and
\* the status that the last event that was no mark gave.
Told(rec) ==
  LET h == rec.history
  IN  /\ Len(h) > 0 /\ rec.gate = h[Len(h)].gate
      /\ \A f \in Fields : f \in rec.state <=>
           \E i \in 1..Len(h) : Confirms(h[i], f) /\ \A j \in i + 1..Len(h) : ~Withdraws(h[j], f)
      /\ \E i \in 1..Len(h) : /\ h[i].type # "mark" /\ rec.status = StatusAfter(h[i])
                               /\ \A j \in i + 1..Len(h) : h[j].type = "mark"

\* The history of a run file is its whole story: read from its start it gives
\* the gate, the evidence and the status the file has, though updates get lost.
HistoryReplays == \A r \in Runs : Exists(r) => Told(file[r])

\* Pointers are written last: active.json names a run file, the kernel's index
\* a kernel record, and the memory a registered run, wherever a command dies.
PointersResolve ==
  /\ \A r \in active : Exists(r)
  /\ \A r \in index : Exists(r) /\ kernel[r].status # "none"
  /\ memory.run # "none" => \E r \in Runs : memory.run = r /\ kernel[r].status # "none"

\* The kernel's transition table never refuses a gate run, so no save of
\* eoc-start fails after the run file was written.
KernelAccepts == \A p \in Procs : pc[p] = "written" => Accepted(p)

\* When no two commands overlap, nothing written is lost: a run file only gets
\* a longer history and a later gate, except when its run is imported anew.
NothingIsLostStep ==
  \A r \in Runs : Exists(r) /\ file'[r] # file[r] =>
       \/ file'[r].history[1].type = "imported" /\ Len(file'[r].history) = 1
       \/ /\ IsPrefix(file[r].history, file'[r].history)
          /\ file[r].gate <= file'[r].gate
          /\ file[r].sched <= file'[r].sched

\* When no two commands overlap, a command that has got past its mirrors
\* leaves them saying of its run what the run's file says, though commands
\* before it were killed halfway; an import leaves them as they were.
MirrorsFollow ==
  \A p \in Procs :
    LET r   == held[p].run
        now == [gate |-> file[r].gate, status |-> file[r].status]
    IN  /\ pc[p] = "indexed" \/ (pc[p] = "remembered" /\ cmd[p] # "bridge") =>
             kernel[r] = [now EXCEPT !.status = mapGateStatus(@)]
        /\ pc[p] = "remembered" /\ cmd[p] # "bridge" =>
             memory = [run |-> r, gate |-> now.gate, status |-> now.status]
==============================================================================
