--------------------------- MODULE GateRunProofs ---------------------------
(***************************************************************************)
(* That no run ever gets past a gate without its evidence, and that every  *)
(* history tells its whole run, for every number of gates, fields, runs    *)
(* and processes; and of commands that do not overlap that nothing they    *)
(* save is lost and that the mirrors follow.                               *)
(*                                                                         *)
(* A process writes back whole what it read whole.  So it is enough that   *)
(* the records the processes hold are sound too: a lost update replaces a  *)
(* sound record by another.  The fields of a passed gate stay because only *)
(* those of the current gate can be written and gates share none.          *)
(***************************************************************************)
EXTENDS MCGateRun, TLAPS

PCs == {"idle", "loaded", "written", "registered", "indexed", "remembered"}

Sound(rec) == rec \in Records /\ Earned(rec) /\ Told(rec)

IInv ==
  /\ file \in [Runs -> Records \cup {NoRun}]
  /\ held \in [Procs -> Records \cup {NoRun}]
  /\ pc \in [Procs -> PCs]
  /\ \A r \in Runs : Exists(r) => Sound(file[r])
  /\ \A p \in Procs : pc[p] # "idle" => Sound(held[p])

USE GateAssumption

------------------------------------------------------------------------------
(* What commands make of a record.                                         *)

\* An event that says what became of the record keeps its history whole.
LEMMA ToldLemma ==
  ASSUME NEW rec \in Records, Told(rec), NEW e \in Events, NEW new \in Records,
         new.history = Append(rec.history, e), new.gate = e.gate,
         \A f \in Fields : f \in new.state <=>
            Confirms(e, f) \/ (f \in rec.state /\ ~Withdraws(e, f)),
         new.status = IF e.type = "mark" THEN rec.status ELSE StatusAfter(e)
  PROVE  Told(new)
<1> DEFINE h == rec.history
           k == new.history
           n == Len(h)
<1>1. h \in Seq(Events) /\ n \in Nat \ {0}
  BY DEF Records, Told
<1>2. Len(k) = n + 1 /\ k[n + 1] = e /\ \A i \in 1..n : k[i] = h[i]
  BY <1>1
<1> HIDE DEF h, k, n
<1>3. ASSUME NEW f \in Fields
      PROVE  f \in new.state <=>
        \E i \in 1..Len(k) : Confirms(k[i], f) /\ \A j \in i + 1..Len(k) : ~Withdraws(k[j], f)
  <2>1. f \in rec.state <=>
        \E i \in 1..n : Confirms(h[i], f) /\ \A j \in i + 1..n : ~Withdraws(h[j], f)
    BY DEF Told, h, n
  <2>2. CASE Confirms(e, f)
    <3>1. Confirms(k[n + 1], f) /\ \A j \in n + 1 + 1..Len(k) : ~Withdraws(k[j], f)
      BY <1>1, <1>2, <2>2
    <3> QED  BY <1>1, <1>2, <2>2, <3>1
  <2>3. CASE ~Confirms(e, f)
    <3>1. ASSUME f \in rec.state, ~Withdraws(e, f)
          PROVE  \E i \in 1..Len(k) : Confirms(k[i], f) /\ \A j \in i + 1..Len(k) : ~Withdraws(k[j], f)
      <4>1. PICK i \in 1..n : Confirms(h[i], f) /\ \A j \in i + 1..n : ~Withdraws(h[j], f)
        BY <2>1, <3>1
      <4>2. i \in 1..n
        BY <4>1
      <4>3. ASSUME NEW j \in i + 1..n + 1  PROVE  ~Withdraws(k[j], f)
        <5>1. j = n + 1 \/ (j \in i + 1..n /\ j \in 1..n)
          BY <1>1, <4>2
        <5>2. CASE j = n + 1
          BY <1>2, <3>1, <5>2
        <5>3. CASE j \in i + 1..n /\ j \in 1..n
          BY <1>2, <4>1, <5>3
        <5> QED  BY <5>1, <5>2, <5>3
      <4> QED  BY <1>1, <1>2, <4>1, <4>3
    <3>2. ASSUME NEW i \in 1..Len(k), Confirms(k[i], f), \A j \in i + 1..Len(k) : ~Withdraws(k[j], f)
          PROVE  f \in rec.state /\ ~Withdraws(e, f)
      <4>1. i \in 1..n /\ Confirms(h[i], f)
        BY <1>1, <1>2, <2>3, <3>2
      <4>2. \A j \in i + 1..n : ~Withdraws(h[j], f)
        BY <1>1, <1>2, <3>2
      <4>3. n + 1 \in i + 1..Len(k)
        BY <1>1, <1>2, <4>1
      <4> QED  BY <1>2, <2>1, <3>2, <4>1, <4>2, <4>3
    <3> QED  BY <2>3, <3>1, <3>2
  <2> QED  BY <2>2, <2>3
<1>4. \E i \in 1..Len(k) : /\ k[i].type # "mark" /\ new.status = StatusAfter(k[i])
                          /\ \A j \in i + 1..Len(k) : k[j].type = "mark"
  <2>1. CASE e.type # "mark"
    <3>1. n + 1 \in 1..Len(k) /\ \A j \in n + 1 + 1..Len(k) : k[j].type = "mark"
      BY <1>1, <1>2
    <3> QED  BY <1>2, <2>1, <3>1
  <2>2. CASE e.type = "mark"
    <3>1. PICK i \in 1..n : /\ h[i].type # "mark" /\ rec.status = StatusAfter(h[i])
                            /\ \A j \in i + 1..n : h[j].type = "mark"
      BY DEF Told, h, n
    <3>2. ASSUME NEW j \in i + 1..n + 1  PROVE  k[j].type = "mark"
      <4>1. j = n + 1 \/ (j \in i + 1..n /\ j \in 1..n)
        BY <1>1, <3>1
      <4>2. CASE j = n + 1
        BY <1>2, <2>2, <4>2
      <4>3. CASE j \in i + 1..n /\ j \in 1..n
        BY <1>2, <3>1, <4>3
      <4> QED  BY <4>1, <4>2, <4>3
    <3> QED  BY <1>1, <1>2, <2>2, <3>1, <3>2
  <2> QED  BY <2>1, <2>2
<1>5. Len(k) > 0 /\ new.gate = k[Len(k)].gate
  BY <1>1, <1>2
<1> QED  BY <1>3, <1>4, <1>5 DEF Told, k

\* A new run has passed no gate, and its first event says so.
LEMMA FreshLemma ==
  ASSUME NEW r \in Runs, NEW pause \in Gates \cup {NoGate}, NEW type \in {"started", "imported"},
         NEW confirmed \in {{}, PlanFields}, type = "started" => confirmed = {}
  PROVE  Sound(Fresh(r, pause, confirmed,
                     Event(type, 0, "none", type = "started" \/ confirmed # {})))
<1> DEFINE e == Event(type, 0, "none", type = "started" \/ confirmed # {})
           rec == Fresh(r, pause, confirmed, e)
<1>1. e \in Events /\ confirmed \in SUBSET Fields /\ 0 # LastGate
  BY DEF Event, Events, Gates, Fields
<1>2. /\ rec \in Records /\ rec.gate = 0 /\ rec.state = confirmed
      /\ rec.status = "active" /\ rec.history = <<e>>
  BY <1>1 DEF Fresh, Records, Gates
<1>3. e.type = type /\ e.gate = 0 /\ e.ok = (type = "started" \/ confirmed # {})
  BY DEF Event
<1> HIDE DEF e, rec
<1>4. Earned(rec)
  BY <1>2 DEF Earned, Gates
<1>5. \A f \in Fields : f \in confirmed <=> Confirms(e, f)
  BY <1>1, <1>3 DEF Confirms
<1>6. StatusAfter(e) = "active"
  BY <1>1, <1>3 DEF StatusAfter
<1>7. Len(<<e>>) = 1 /\ <<e>>[1] = e
  OBVIOUS
<1>8. Told(rec)
  BY <1>2, <1>3, <1>5, <1>6, <1>7 DEF Told
<1> QED  BY <1>2, <1>4, <1>8 DEF Sound, rec, e

\* Marking touches the evidence of the current gate only.
LEMMA MarkLemma ==
  ASSUME NEW rec, Sound(rec), NEW f \in Writable(rec), NEW ok \in BOOLEAN
  PROVE  Sound(Marked(rec, f, ok))
<1> DEFINE e == Event("mark", rec.gate, f, ok)
           new == Marked(rec, f, ok)
<1>1. rec \in Records /\ rec.gate \in Gates /\ f \in Fields /\ f \in Required[rec.gate]
  BY DEF Sound, Records, Writable, Fields
<1>2. e \in Events /\ e.type = "mark" /\ e.gate = rec.gate /\ e.field = f /\ e.ok = ok
  BY <1>1 DEF Event, Events
<1> HIDE DEF e
<1>3. /\ new.gate = rec.gate /\ new.state = (IF ok THEN rec.state \cup {f} ELSE rec.state \ {f})
      /\ new.status = rec.status /\ new.history = Append(rec.history, e)
      /\ new = [rec EXCEPT !.state = new.state, !.history = new.history]
  BY <1>1 DEF Marked, Log, Records, e
<1>4. new.history \in Seq(Events) /\ new.state \in SUBSET Fields
  BY <1>1, <1>2, <1>3 DEF Records
<1> HIDE DEF new
<1>5. new \in Records
  BY <1>1, <1>3, <1>4 DEF Records
<1>6. ASSUME NEW g \in Gates, g < rec.gate  PROVE  Required[g] \subseteq new.state
  <2>1. Required[g] \subseteq rec.state
    BY <1>6 DEF Earned, Sound
  <2>2. f \notin Required[g]
    BY <1>1, <1>6 DEF Gates
  <2> QED  BY <1>3, <2>1, <2>2
<1>7. \A x \in Fields : x \in new.state <=> Confirms(e, x) \/ (x \in rec.state /\ ~Withdraws(e, x))
  BY <1>2, <1>3 DEF Confirms, Withdraws
<1>8. Told(new)
  BY <1>1, <1>2, <1>3, <1>5, <1>7, ToldLemma DEF Sound
<1> QED  BY <1>3, <1>5, <1>6, <1>8 DEF Earned, Sound, new

\* An event other than a mark is one of the evidence unchanged.
LEMMA OtherEvent ==
  ASSUME NEW type \in {"advance", "paused", "resumed"}, NEW gate \in Gates
  PROVE  /\ Event(type, gate, "none", TRUE) \in Events
         /\ Event(type, gate, "none", TRUE).type = type
         /\ Event(type, gate, "none", TRUE).gate = gate
         /\ \A f : ~Confirms(Event(type, gate, "none", TRUE), f)
         /\ \A f : ~Withdraws(Event(type, gate, "none", TRUE), f)
         /\ type # "paused" => StatusAfter(Event(type, gate, "none", TRUE)) = StatusAt(gate, NoGate)
         /\ type = "paused" => StatusAfter(Event(type, gate, "none", TRUE)) = "paused"
BY DEF Event, Events, Confirms, Withdraws, StatusAfter, StatusAt, Gates, NoGate

\* Advancing adds the gate just passed, whose evidence is complete.
LEMMA AdvanceLemma ==
  ASSUME NEW rec, Sound(rec), rec.gate # LastGate, unmetForGate(rec) = {}
  PROVE  Sound(Advanced(rec))
<1> DEFINE next == rec.gate + 1
           e1   == Event("advance", next, "none", TRUE)
           e2   == Event("paused", next, "none", TRUE)
           mid  == [rec EXCEPT !.gate = next, !.status = StatusAt(next, NoGate),
                               !.history = Append(@, e1)]
           new  == Advanced(rec)
<1>1. rec \in Records /\ rec.gate \in Gates /\ next \in Gates /\ rec.gate < next
  BY DEF Sound, Records, Gates
<1>2. /\ e1 \in Events /\ e1.type = "advance" /\ e1.gate = next
      /\ \A f : ~Confirms(e1, f) /\ ~Withdraws(e1, f)
      /\ StatusAfter(e1) = StatusAt(next, NoGate)
  BY <1>1, OtherEvent
<1>3. /\ e2 \in Events /\ e2.type = "paused" /\ e2.gate = next
      /\ \A f : ~Confirms(e2, f) /\ ~Withdraws(e2, f)
      /\ StatusAfter(e2) = "paused"
  BY <1>1, OtherEvent
<1>4. StatusAt(next, NoGate) \in {"active", "paused", "completed"}
  BY DEF StatusAt
<1>5. /\ mid.gate = next /\ mid.state = rec.state /\ mid.status = StatusAt(next, NoGate)
      /\ mid.history = Append(rec.history, e1) /\ mid.pause = rec.pause
  BY <1>1 DEF Records
<1> HIDE DEF e1, e2
<1>6. Append(rec.history, e1) \in Seq(Events)
  BY <1>1, <1>2 DEF Records
<1>7. mid \in Records
  BY <1>1, <1>4, <1>6 DEF Records
<1>8. Append(mid.history, e2) \in Seq(Events)
  BY <1>3, <1>5, <1>6
<1>9. CASE rec.pause # next
  <2>1. StatusAt(next, rec.pause) = StatusAt(next, NoGate)
    BY <1>1, <1>9 DEF StatusAt, NoGate, Gates
  <2>2. new = mid
    BY <1>1, <1>9, <2>1 DEF Advanced, Log, Records, e1
  <2> HIDE DEF mid, new
  <2>3. Told(mid)
    BY <1>1, <1>2, <1>5, <1>7, ToldLemma DEF Sound
  <2>4. Earned(mid)
    <3> SUFFICES ASSUME NEW g \in Gates, g < next  PROVE  Required[g] \subseteq rec.state
      BY <1>5 DEF Earned
    <3>1. g < rec.gate \/ g = rec.gate
      BY <1>1 DEF Gates
    <3> QED  BY <3>1 DEF Earned, Sound, unmetForGate
  <2> QED  BY <1>7, <2>2, <2>3, <2>4 DEF Sound, new
<1>10. CASE rec.pause = next
  <2>1. StatusAt(next, rec.pause) = "paused"
    BY <1>10 DEF StatusAt
  <2>2. new = [mid EXCEPT !.status = "paused", !.history = Append(mid.history, e2)]
    BY <1>1, <1>5, <1>10, <2>1 DEF Advanced, Log, Records, e1, e2
  <2> HIDE DEF mid, new
  <2>3. Told(mid)
    BY <1>1, <1>2, <1>5, <1>7, ToldLemma DEF Sound
  <2>4. new \in Records
    BY <1>7, <1>8, <2>2 DEF Records
  <2>5. /\ new.gate = next /\ new.state = rec.state /\ new.status = "paused"
        /\ new.history = Append(mid.history, e2)
    BY <1>5, <1>7, <2>2 DEF Records
  <2>6. Told(new)
    BY <1>3, <1>5, <1>7, <2>3, <2>4, <2>5, ToldLemma
  <2>7. Earned(new)
    <3> SUFFICES ASSUME NEW g \in Gates, g < next  PROVE  Required[g] \subseteq rec.state
      BY <2>5 DEF Earned
    <3>1. g < rec.gate \/ g = rec.gate
      BY <1>1 DEF Gates
    <3> QED  BY <3>1 DEF Earned, Sound, unmetForGate
  <2> QED  BY <2>4, <2>6, <2>7 DEF Sound, new
<1> QED  BY <1>9, <1>10

\* Resuming moves no gate.
LEMMA ResumeLemma ==
  ASSUME NEW rec, Sound(rec)
  PROVE  Sound(Resumed(rec))
<1> DEFINE e == Event("resumed", rec.gate, "none", TRUE)
           new == Resumed(rec)
<1>1. rec \in Records /\ rec.gate \in Gates
  BY DEF Sound, Records
<1>2. /\ e \in Events /\ e.type = "resumed" /\ e.gate = rec.gate
      /\ \A f : ~Confirms(e, f) /\ ~Withdraws(e, f)
      /\ StatusAfter(e) = StatusAt(rec.gate, NoGate)
  BY <1>1, OtherEvent
<1> HIDE DEF e
<1>3. /\ new.gate = rec.gate /\ new.state = rec.state /\ new.status = StatusAt(rec.gate, NoGate)
      /\ new.history = Append(rec.history, e)
      /\ new = [rec EXCEPT !.status = new.status, !.history = new.history]
  BY <1>1 DEF Resumed, Log, Records, e
<1>4. new.history \in Seq(Events) /\ new.status \in {"active", "paused", "completed"}
  BY <1>1, <1>2, <1>3 DEF Records, StatusAt
<1> HIDE DEF new
<1>5. new \in Records
  BY <1>1, <1>3, <1>4 DEF Records
<1>6. Told(new)
  BY <1>1, <1>2, <1>3, <1>5, ToldLemma DEF Sound
<1> QED  BY <1>3, <1>5, <1>6 DEF Earned, Sound, new

------------------------------------------------------------------------------
(* The steps.                                                              *)

\* A process may take up any sound record.
LEMMA BeginLemma ==
  ASSUME IInv, NEW p \in Procs, NEW c, NEW rec, Sound(rec), Begin(p, c, rec)
  PROVE  IInv'
BY DEF IInv, Begin, Exists, PCs, Sound, Earned

\* A step that writes no record and takes up none preserves the invariant.
LEMMA GotoLemma ==
  ASSUME IInv, NEW p \in Procs, NEW next \in PCs, Goto(p, next), pc[p] # "idle",
         UNCHANGED file
  PROVE  IInv'
BY DEF IInv, Goto, Exists, PCs

\* What a process holds may be written at any time.
LEMMA WriteLemma ==
  ASSUME IInv, NEW rec, Sound(rec), file' = [file EXCEPT ![rec.run] = rec]
  PROVE  /\ file' \in [Runs -> Records \cup {NoRun}]
         /\ \A r \in Runs : Exists(r)' => Sound(file'[r])
BY DEF IInv, Exists, Records, Sound

\* IInv holds at the start.
LEMMA InitInv == Init => IInv
<1> SUFFICES ASSUME Init  PROVE IInv
  OBVIOUS
<1>1. \A r \in Runs : ~Exists(r)
  BY DEF Init, Exists, NoRun
<1> QED  BY <1>1 DEF Init, IInv, PCs

\* Every step preserves IInv.
LEMMA StepInv == IInv /\ [Next]_vars => IInv'
<1> SUFFICES ASSUME IInv, [Next]_vars  PROVE IInv'
  OBVIOUS
<1>1. CASE UNCHANGED vars
  BY <1>1 DEF IInv, vars, Exists
<1>2. ASSUME NEW p \in Procs, Step(p)  PROVE IInv'
  <2>1. CASE Start(p)
    <3>1. PICK r \in Runs, pause \in Pauses :
            Begin(p, "start", Fresh(r, pause, {}, Event("started", 0, "none", TRUE)))
      BY <2>1 DEF Start
    <3>2. pause \in Gates \cup {NoGate} /\ Sound(Fresh(r, pause, {}, Event("started", 0, "none", TRUE)))
      BY FreshLemma
    <3> QED  BY <3>1, <3>2, BeginLemma
  <2>2. CASE Import(p)
    <3>1. PICK r \in Runs, confirmed \in {{}, PlanFields} :
            Begin(p, "bridge", Fresh(r, NoGate, confirmed, Event("imported", 0, "none", confirmed # {})))
      BY <2>2 DEF Import
    <3>2. Sound(Fresh(r, NoGate, confirmed, Event("imported", 0, "none", confirmed # {})))
      BY FreshLemma
    <3> QED  BY <3>1, <3>2, BeginLemma
  <2>3. CASE Mark(p)
    <3>1. PICK r \in Runs, f \in Fields, ok \in BOOLEAN :
            /\ Exists(r) /\ f \in Writable(file[r])
            /\ Begin(p, "edit", Marked(file[r], f, ok))
      BY <2>3 DEF Mark
    <3> QED  BY <3>1, MarkLemma, BeginLemma DEF IInv
  <2>4. CASE Advance(p)
    <3>1. PICK r \in Runs :
            /\ Exists(r) /\ file[r].gate # LastGate /\ unmetForGate(file[r]) = {}
            /\ Begin(p, "edit", Advanced(file[r]))
      BY <2>4 DEF Advance
    <3> QED  BY <3>1, AdvanceLemma, BeginLemma DEF IInv
  <2>5. CASE Resume(p)
    <3>1. PICK r \in Runs : Exists(r) /\ Begin(p, "resume", Resumed(file[r]))
      BY <2>5 DEF Resume
    <3> QED  BY <3>1, ResumeLemma, BeginLemma DEF IInv
  <2>6. CASE Schedule(p)
    <3>1. PICK r \in Runs : Exists(r) /\ Begin(p, "scheduler", file[r])
      BY <2>6 DEF Schedule
    <3> QED  BY <3>1, BeginLemma DEF IInv
  <2>7. CASE SchedulerWrites(p)
    <3> DEFINE rec == [held[p] EXCEPT !.sched = @ + 1]
    <3>1. Sound(held[p]) /\ held[p].sched < MaxSched
      BY <2>7 DEF IInv, SchedulerWrites
    <3>2. Sound(rec)
      <4>1. /\ held[p] \in Records /\ rec = [held[p] EXCEPT !.sched = held[p].sched + 1]
            /\ held[p].sched + 1 \in 0..MaxSched
        BY <3>1 DEF Sound, Records
      <4>2. /\ rec.gate = held[p].gate /\ rec.state = held[p].state
            /\ rec.status = held[p].status /\ rec.history = held[p].history
        BY <4>1 DEF Records
      <4>3. rec \in Records
        BY <4>1 DEF Records
      <4> HIDE DEF rec
      <4> QED  BY <3>1, <4>2, <4>3 DEF Sound, Earned, Told
    <3>3. /\ file' = [file EXCEPT ![rec.run] = rec]
          /\ held' = [held EXCEPT ![p] = rec] /\ pc' = pc
      BY <2>7 DEF SchedulerWrites
    <3> HIDE DEF rec
    <3>4. /\ file' \in [Runs -> Records \cup {NoRun}]
          /\ \A r \in Runs : Exists(r)' => Sound(file'[r])
      BY <3>2, <3>3, WriteLemma
    <3> QED  BY <3>2, <3>3, <3>4 DEF IInv, Sound
  <2>8. CASE Write(p)
    <3>1. Sound(held[p]) /\ pc[p] # "idle"
      BY <2>8 DEF IInv, Write
    <3>2. PICK next \in PCs : next # "idle" /\ Goto(p, next)
      BY <2>8 DEF Write, PCs
    <3>3. /\ file' \in [Runs -> Records \cup {NoRun}]
          /\ \A r \in Runs : Exists(r)' => Sound(file'[r])
      BY <3>1, <2>8, WriteLemma DEF Write
    <3> QED  BY <3>1, <3>2, <3>3 DEF IInv, Goto
  <2>9. CASE SchedulerEnds(p) \/ Register(p) \/ Index(p) \/ Remember(p) \/ SetActive(p) \/ Crash(p)
    <3>1. PICK next \in PCs : Goto(p, next)
      BY <2>9 DEF SchedulerEnds, Register, Index, Remember, SetActive, Crash, PCs
    <3>2. pc[p] # "idle" /\ UNCHANGED file
      BY <2>9 DEF SchedulerEnds, Register, Index, Remember, SetActive, Crash
    <3> QED  BY <3>1, <3>2, GotoLemma
  <2> QED  BY <1>2, <2>1, <2>2, <2>3, <2>4, <2>5, <2>6, <2>7, <2>8, <2>9 DEF Step, Work
<1> QED  BY <1>1, <1>2 DEF Next

\* Records of run files, and those the processes hold, are whole, earned and told by their histories.
THEOREM Invariance == Spec => []IInv
BY InitInv, StepInv, PTL DEF Spec

\* No run file ever shows a run past a gate without the gate's evidence,
\* whatever commands overlap, lose updates or die.
THEOREM GatesEarnedHolds == Spec => []GatesEarned
<1>1. IInv => GatesEarned
  BY DEF IInv, GatesEarned, Sound
<1> QED  BY <1>1, Invariance, PTL

\* Every run file's history tells its gate, its evidence and its status,
\* whatever commands overlap, lose updates or die.
THEOREM HistoryReplaysHolds == Spec => []HistoryReplays
<1>1. IInv => HistoryReplays
  BY DEF IInv, HistoryReplays, Sound
<1> QED  BY <1>1, Invariance, PTL
------------------------------------------------------------------------------
(* Commands that do not overlap.  The one at work holds what will extend    *)
(* its run's file until it has written it, and what the file says after.    *)

\* The record a command is going to write loses nothing of the run's file.
Extends(rec) ==
  Exists(rec.run) =>
    \/ rec.history[1].type = "imported" /\ Len(rec.history) = 1
    \/ /\ IsPrefix(file[rec.run].history, rec.history)
       /\ file[rec.run].gate <= rec.gate
       /\ file[rec.run].sched <= rec.sched

\* How far the process p at work has brought its run's file and mirrors.
Follows(p) ==
  LET rec == held[p]
  IN  /\ cmd[p] = "bridge" => pc[p] \in {"loaded", "remembered"}
      /\ IF pc[p] = "loaded" THEN Extends(rec) ELSE file[rec.run] = rec
      /\ pc[p] \in {"registered", "indexed"} \/ (pc[p] = "remembered" /\ cmd[p] # "bridge") =>
           kernel[rec.run] = [gate |-> rec.gate, status |-> "executing"]
      /\ pc[p] = "remembered" /\ cmd[p] # "bridge" =>
           memory = [run |-> rec.run, gate |-> rec.gate, status |-> rec.status]

MirrorsOK ==
  /\ cmd \in [Procs -> {"none", "start", "bridge", "edit", "resume", "scheduler"}]
  /\ active \subseteq Runs /\ index \subseteq Runs
  /\ kernel \in [Runs -> [gate : Gates \cup {NoGate}, status : {"none", "executing"}]]

OneAtATime == \A p, q \in Procs : pc[p] # "idle" /\ pc[q] # "idle" => p = q

AloneInv ==
  /\ IInv /\ MirrorsOK
  /\ crew = "alone" =>
       /\ OneAtATime /\ PointersResolve
       /\ \A p \in Procs : pc[p] # "idle" => Follows(p)

\* A longer history extends the shorter.
LEMMA PrefixLemma ==
  ASSUME NEW s \in Seq(Events), NEW t \in Seq(Events), NEW e \in Events, IsPrefix(s, t)
  PROVE  IsPrefix(s, Append(t, e))
<1>1. Len(s) \in Nat /\ Len(t) \in Nat /\ Len(s) <= Len(t)
  BY DEF IsPrefix
<1>2. SubSeq(Append(t, e), 1, Len(s)) = SubSeq(t, 1, Len(s))
  BY <1>1
<1> QED  BY <1>1, <1>2 DEF IsPrefix

LEMMA PrefixSelf == ASSUME NEW s \in Seq(Events)  PROVE IsPrefix(s, s)
BY DEF IsPrefix

\* Every status a gate run has is "executing" to the kernel.
LEMMA StatusLemma ==
  ASSUME NEW rec \in Records
  PROVE  mapGateStatus(rec.status) = "executing"
BY DEF Records, mapGateStatus

\* What an edit makes of a record: it keeps what was there.
Keeps(old, new) ==
  /\ new.run = old.run /\ new.sched = old.sched
  /\ IsPrefix(old.history, new.history) /\ old.gate <= new.gate

LEMMA LogKeeps ==
  ASSUME NEW old \in Records, NEW new \in Records, Keeps(old, new), NEW e \in Events
  PROVE  Keeps(old, Log(new, e)) /\ Log(new, e) \in Records
<1>1. Append(new.history, e) \in Seq(Events)
  BY DEF Records
<1>2. IsPrefix(old.history, Append(new.history, e))
  BY PrefixLemma DEF Records, Keeps
<1>3. Log(new, e) = [new EXCEPT !.history = Append(new.history, e)]
  BY DEF Log
<1> QED  BY <1>1, <1>2, <1>3 DEF Keeps, Records

LEMMA EditsKeep ==
  ASSUME NEW rec, Sound(rec)
  PROVE  /\ \A f \in Fields, ok \in BOOLEAN : Keeps(rec, Marked(rec, f, ok))
         /\ rec.gate # LastGate => Keeps(rec, Advanced(rec))
         /\ Keeps(rec, Resumed(rec))
<1>1. rec \in Records /\ rec.gate \in Gates
  BY DEF Sound, Records
<1>2. Keeps(rec, rec)
  BY <1>1, PrefixSelf DEF Records, Keeps, Gates
<1>3. ASSUME NEW f \in Fields, NEW ok \in BOOLEAN  PROVE  Keeps(rec, Marked(rec, f, ok))
  <2> DEFINE new == [rec EXCEPT !.state = IF ok THEN @ \cup {f} ELSE @ \ {f}]
  <2>1. Event("mark", rec.gate, f, ok) \in Events
    BY <1>1 DEF Event, Events
  <2>2. new \in Records /\ Keeps(rec, new)
    BY <1>1, <1>2 DEF Records, Keeps
  <2> HIDE DEF new
  <2>3. Keeps(rec, Log(new, Event("mark", rec.gate, f, ok)))
    BY <1>1, <2>1, <2>2, LogKeeps
  <2> QED  BY <2>3 DEF Marked, new
<1>4. ASSUME rec.gate # LastGate  PROVE  Keeps(rec, Advanced(rec))
  <2> DEFINE next == rec.gate + 1
             new == [rec EXCEPT !.gate = next, !.status = StatusAt(next, rec.pause)]
             e1 == Event("advance", next, "none", TRUE)
             e2 == Event("paused", next, "none", TRUE)
  <2>1. next \in Gates /\ rec.gate <= next /\ StatusAt(next, rec.pause) \in {"active", "paused", "completed"}
    BY <1>1, <1>4 DEF Gates, StatusAt
  <2>2. e1 \in Events /\ e2 \in Events
    BY <2>1 DEF Event, Events
  <2>3. new \in Records /\ Keeps(rec, new)
    BY <1>1, <1>2, <2>1 DEF Records, Keeps
  <2>4. Advanced(rec) = IF rec.pause = next THEN Log(Log(new, e1), e2) ELSE Log(new, e1)
    BY DEF Advanced
  <2> HIDE DEF next, new, e1, e2
  <2>5. Keeps(rec, Log(new, e1)) /\ Log(new, e1) \in Records
    BY <1>1, <2>2, <2>3, LogKeeps
  <2>6. Keeps(rec, Log(Log(new, e1), e2))
    BY <1>1, <2>2, <2>5, LogKeeps
  <2> QED  BY <2>4, <2>5, <2>6
<1>5. Keeps(rec, Resumed(rec))
  <2> DEFINE new == [rec EXCEPT !.status = StatusAt(rec.gate, NoGate)]
  <2>1. Event("resumed", rec.gate, "none", TRUE) \in Events
    BY <1>1 DEF Event, Events
  <2>2. new \in Records /\ Keeps(rec, new)
    BY <1>1, <1>2 DEF Records, Keeps, StatusAt
  <2> HIDE DEF new
  <2>3. Keeps(rec, Log(new, Event("resumed", rec.gate, "none", TRUE)))
    BY <1>1, <2>1, <2>2, LogKeeps
  <2> QED  BY <2>3 DEF Resumed, new
<1> QED  BY <1>3, <1>4, <1>5

\* What a command takes up extends the file of its run.
LEMMA BeginExtends ==
  ASSUME IInv, NEW p \in Procs, NEW c, NEW rec, Begin(p, c, rec),
         Start(p) \/ Import(p) \/ Mark(p) \/ Advance(p) \/ Resume(p) \/ Schedule(p),
         held'[p] = rec
  PROVE  Extends(rec)
<1>1. pc[p] = "idle" /\ held \in [Procs -> Records \cup {NoRun}]
  BY DEF Begin, IInv
<1>2. CASE Start(p)
  <2>1. PICK r \in Runs : ~Exists(r) /\ held'[p].run = r
    BY <1>1, <1>2 DEF Start, Begin, Fresh
  <2> QED  BY <2>1 DEF Extends
<1>3. CASE Import(p)
  <2>1. held'[p].history[1].type = "imported" /\ Len(held'[p].history) = 1
    BY <1>1, <1>3 DEF Import, Begin, Fresh, Event
  <2> QED  BY <2>1 DEF Extends
<1>4. CASE Mark(p) \/ Advance(p) \/ Resume(p) \/ Schedule(p)
  <2>1. PICK r \in Runs : Exists(r) /\ Keeps(file[r], rec)
    <3>1. \A r \in Runs : Exists(r) => Sound(file[r])
      BY DEF IInv
    <3>2. CASE Mark(p)
      BY <1>1, <3>1, <3>2, EditsKeep DEF Mark, Begin
    <3>3. CASE Advance(p)
      BY <1>1, <3>1, <3>3, EditsKeep DEF Advance, Begin
    <3>4. CASE Resume(p)
      BY <1>1, <3>1, <3>4, EditsKeep DEF Resume, Begin
    <3>5. CASE Schedule(p)
      <4>1. PICK r \in Runs : Exists(r) /\ rec = file[r]
        BY <1>1, <3>5 DEF Schedule, Begin
      <4>2. Keeps(rec, rec)
        BY <3>1, <4>1, PrefixSelf DEF Keeps, Sound, Records, Gates
      <4> QED  BY <4>1, <4>2
    <3> QED  BY <1>4, <3>2, <3>3, <3>4, <3>5
  <2>2. rec.run = r /\ file[r].sched \in 0..MaxSched
    BY <2>1 DEF Keeps, Exists, IInv, Sound, Records
  <2> QED  BY <2>1, <2>2 DEF Extends, Keeps
<1> QED  BY <1>2, <1>3, <1>4

\* The mirrors stay well formed, whatever overlaps.
LEMMA MirrorsStep ==
  ASSUME IInv, MirrorsOK, NEW p \in Procs, Step(p)
  PROVE  MirrorsOK'
<1>1. pc[p] # "idle" => held[p] \in Records /\ mapGateStatus(held[p].status) = "executing"
  BY StatusLemma DEF IInv, Sound
<1>2. CASE Start(p) \/ Import(p) \/ Mark(p) \/ Advance(p) \/ Resume(p) \/ Schedule(p)
  <2>1. UNCHANGED <<active, mirrors>> /\ \E c \in {"start", "bridge", "edit", "resume", "scheduler"} :
          cmd' = [cmd EXCEPT ![p] = c]
    BY <1>2 DEF Start, Import, Mark, Advance, Resume, Schedule, Begin
  <2> QED  BY <2>1 DEF MirrorsOK, mirrors
<1>3. CASE SchedulerWrites(p)
  BY <1>3 DEF SchedulerWrites, MirrorsOK, mirrors
<1>4. CASE SchedulerEnds(p) \/ Write(p) \/ Remember(p) \/ Crash(p)
  BY <1>4 DEF SchedulerEnds, Write, Remember, Crash, Goto, MirrorsOK, mirrors
<1>5. CASE Register(p)
  <2>1. /\ held[p] \in Records /\ UNCHANGED <<active, index>>
        /\ kernel' = [kernel EXCEPT ![held[p].run] = [gate |-> held[p].gate, status |-> "executing"]]
    BY <1>1, <1>5 DEF Register
  <2>2. cmd' = cmd
    BY <1>5 DEF Register, Goto
  <2>3. [gate |-> held[p].gate, status |-> "executing"]
           \in [gate : Gates \cup {NoGate}, status : {"none", "executing"}]
    BY <2>1 DEF Records
  <2> QED  BY <2>1, <2>2, <2>3 DEF MirrorsOK
<1>6. CASE Index(p)
  BY <1>1, <1>6 DEF Index, Goto, MirrorsOK, Records
<1>7. CASE SetActive(p)
  BY <1>1, <1>7 DEF SetActive, Goto, MirrorsOK, Records, mirrors
<1> QED  BY <1>2, <1>3, <1>4, <1>5, <1>6, <1>7 DEF Step, Work

\* The pointers and the command at work, when no other is.
LEMMA AloneStep ==
  ASSUME IInv, MirrorsOK, PointersResolve, NEW p \in Procs, Step(p),
         pc[p] # "idle" => Follows(p)
  PROVE  PointersResolve' /\ (pc'[p] # "idle" => Follows(p)')
<1>1. /\ pc \in [Procs -> PCs] /\ held \in [Procs -> Records \cup {NoRun}]
      /\ file \in [Runs -> Records \cup {NoRun}]
  BY DEF IInv
<1>2. /\ pc[p] # "idle" => held[p] \in Records /\ held[p].run \in Runs
      /\ pc[p] # "idle" => mapGateStatus(held[p].status) = "executing"
  BY StatusLemma DEF IInv, Sound, Records
<1>3. CASE Start(p) \/ Import(p) \/ Mark(p) \/ Advance(p) \/ Resume(p) \/ Schedule(p)
  <2>1. PICK c, rec : Begin(p, c, rec)
    BY <1>3 DEF Start, Import, Mark, Advance, Resume, Schedule
  <2>2. /\ held'[p] = rec /\ pc'[p] = "loaded"
        /\ UNCHANGED <<file, active, kernel, index, memory>>
    BY <1>1, <2>1 DEF Begin, mirrors
  <2>3. Extends(rec)
    BY <1>3, <2>1, <2>2, BeginExtends
  <2>4. Follows(p)'
    BY <2>2, <2>3 DEF Follows, Extends, Exists
  <2> QED  BY <2>2, <2>4 DEF PointersResolve, Exists
<1>4. CASE SchedulerWrites(p)
  <2>0. PICK rec : rec = [held[p] EXCEPT !.sched = @ + 1]
    OBVIOUS
  <2>1. /\ pc[p] = "loaded" /\ file' = [file EXCEPT ![rec.run] = rec]
        /\ held' = [held EXCEPT ![p] = rec]
        /\ UNCHANGED <<active, pc, cmd, kernel, index, memory>>
    BY <1>4, <2>0 DEF SchedulerWrites, mirrors
  <2>2. held[p] \in Records
    BY <1>2, <2>1
  <2>3. /\ rec.run = held[p].run /\ rec.run \in Runs /\ rec.history \in Seq(Events)
        /\ rec.gate \in Int /\ rec.sched \in Int
    BY <2>0, <2>2 DEF Records, Gates
  <2>4. IsPrefix(rec.history, rec.history)
    BY <2>3, PrefixSelf
  <2>5. held'[p] = rec /\ file'[rec.run] = rec /\ \A r \in Runs : Exists(r) => Exists(r)'
    BY <1>1, <2>1, <2>3 DEF Exists
  <2>6. Extends(rec)'
    BY <2>3, <2>4, <2>5 DEF Extends
  <2>7. Follows(p)'
    BY <2>1, <2>5, <2>6 DEF Follows
  <2> QED  BY <2>1, <2>5, <2>7 DEF PointersResolve, MirrorsOK
<1>5. CASE SchedulerEnds(p) \/ Crash(p)
  BY <1>1, <1>5 DEF SchedulerEnds, Crash, Goto, PointersResolve, Exists, mirrors
<1>6. CASE Write(p)
  <2>1. /\ pc[p] = "loaded" /\ file' = [file EXCEPT ![held[p].run] = held[p]]
        /\ pc'[p] = (IF cmd[p] = "bridge" THEN "remembered" ELSE "written")
        /\ UNCHANGED <<held, cmd, active, kernel, index, memory>>
    BY <1>1, <1>6 DEF Write, Goto, mirrors
  <2>2. file'[held[p].run] = held[p] /\ \A r \in Runs : Exists(r) => Exists(r)'
    BY <1>1, <1>2, <2>1 DEF Exists
  <2>3. Follows(p)'
    BY <2>1, <2>2 DEF Follows
  <2> QED  BY <2>1, <2>2, <2>3 DEF PointersResolve, MirrorsOK
<1>7. CASE Register(p)
  <2>1. /\ pc[p] = "written" /\ pc'[p] = "registered"
        /\ kernel' = [kernel EXCEPT ![held[p].run] = [gate |-> held[p].gate, status |-> "executing"]]
        /\ UNCHANGED <<file, held, cmd, active, index, memory>>
    BY <1>1, <1>2, <1>7 DEF Register, Goto
  <2>2. /\ kernel'[held[p].run] = [gate |-> held[p].gate, status |-> "executing"]
        /\ \A r \in Runs : kernel[r].status # "none" => kernel'[r].status # "none"
    BY <1>2, <2>1 DEF MirrorsOK
  <2>3. Follows(p)'
    BY <2>1, <2>2 DEF Follows
  <2> QED  BY <2>1, <2>2, <2>3 DEF PointersResolve, Exists, MirrorsOK
<1>8. CASE Index(p)
  <2>1. /\ pc[p] = "registered" /\ pc'[p] = "indexed" /\ index' = {held[p].run}
        /\ UNCHANGED <<file, held, cmd, active, kernel, memory>>
    BY <1>1, <1>8 DEF Index, Goto
  <2>2. /\ file[held[p].run] = held[p]
        /\ kernel[held[p].run] = [gate |-> held[p].gate, status |-> "executing"]
    BY <2>1 DEF Follows
  <2>3. Follows(p)'
    BY <2>1, <2>2 DEF Follows
  <2> QED  BY <1>2, <2>1, <2>2, <2>3 DEF PointersResolve, Exists
<1>9. CASE Remember(p)
  <2>1. /\ pc[p] = "indexed" /\ pc'[p] \in {"idle", "remembered"}
        /\ memory' = [run |-> held[p].run, gate |-> held[p].gate, status |-> held[p].status]
        /\ pc'[p] # "idle" => UNCHANGED <<held, cmd>>
        /\ UNCHANGED <<file, active, kernel, index>>
    BY <1>1, <1>9 DEF Remember, Goto
  <2>2. /\ file[held[p].run] = held[p]
        /\ kernel[held[p].run] = [gate |-> held[p].gate, status |-> "executing"]
    BY <2>1 DEF Follows
  <2>3. pc'[p] # "idle" => Follows(p)'
    BY <2>1, <2>2 DEF Follows
  <2> QED  BY <1>2, <2>1, <2>2, <2>3 DEF PointersResolve, Exists
<1>10. CASE SetActive(p)
  <2>1. /\ pc[p] = "remembered" /\ pc'[p] = "idle" /\ active' = {held[p].run}
        /\ UNCHANGED <<file, kernel, index, memory>>
    BY <1>1, <1>10 DEF SetActive, Goto, mirrors
  <2>2. file[held[p].run] = held[p]
    BY <2>1 DEF Follows
  <2> QED  BY <1>2, <2>1, <2>2 DEF PointersResolve, Exists
<1> QED  BY <1>3, <1>4, <1>5, <1>6, <1>7, <1>8, <1>9, <1>10 DEF Step, Work

\* A step touches the place and the record of the process that takes it only.
LEMMA OthersStay ==
  ASSUME IInv, NEW p \in Procs, Step(p)
  PROVE  \A q \in Procs \ {p} : pc'[q] = pc[q] /\ held'[q] = held[q]
BY DEF IInv, Step, Work, Start, Import, Mark, Advance, Resume, Schedule, SchedulerWrites,
       SchedulerEnds, Write, Register, Index, Remember, SetActive, Crash, Begin, Goto

\* AloneInv holds at the start and every step preserves it.
LEMMA MCInitInv == MCInit => AloneInv
<1> SUFFICES ASSUME MCInit  PROVE AloneInv
  OBVIOUS
<1>1. IInv
  BY InitInv DEF MCInit
<1>2. MirrorsOK /\ PointersResolve /\ \A p \in Procs : pc[p] = "idle"
  BY DEF MCInit, Init, MirrorsOK, PointersResolve
<1> QED  BY <1>1, <1>2 DEF AloneInv, OneAtATime

LEMMA MCStepInv == AloneInv /\ [MCNext]_<<vars, crew>> => AloneInv'
<1> SUFFICES ASSUME AloneInv, [MCNext]_<<vars, crew>>  PROVE AloneInv'
  OBVIOUS
<1>1. CASE UNCHANGED <<vars, crew>>
  BY <1>1 DEF AloneInv, IInv, MirrorsOK, OneAtATime, PointersResolve, Follows, Extends, Exists, vars, mirrors
<1>2. CASE MCNext
  <2>1. PICK p \in Procs : Step(p) /\ (crew = "alone" => \A q \in Procs \ {p} : pc[q] = "idle")
    BY <1>2 DEF MCNext, Step
  <2>2. IInv' /\ MirrorsOK' /\ crew' = crew
    BY <1>2, <2>1, StepInv, MirrorsStep DEF AloneInv, Next, MCNext
  <2>3. ASSUME crew = "alone"
        PROVE  /\ OneAtATime' /\ PointersResolve'
               /\ \A q \in Procs : pc'[q] # "idle" => Follows(q)'
    <3>1. \A q \in Procs \ {p} : pc'[q] = "idle"
      BY <2>1, <2>3, OthersStay DEF AloneInv
    <3>2. PointersResolve' /\ (pc'[p] # "idle" => Follows(p)')
      BY <2>1, <2>3, AloneStep DEF AloneInv
    <3> QED  BY <3>1, <3>2 DEF OneAtATime
  <2> QED  BY <2>2, <2>3 DEF AloneInv
<1> QED  BY <1>1, <1>2

LEMMA MCInvariance == MCSpec => []AloneInv
BY MCInitInv, MCStepInv, PTL DEF MCSpec

\* The kernel takes every save of a gate run, whatever overlaps.  Of commands that do
\* not, the mirrors say what the run's file says and every pointer resolves, wherever
\* a command was killed.
THEOREM RecordsAgreeAloneHolds == MCSpec => []RecordsAgreeAlone
<1>1. ASSUME AloneInv  PROVE RecordsAgreeAlone
  <2>1. /\ file \in [Runs -> Records \cup {NoRun}]
        /\ \A p \in Procs : pc[p] # "idle" =>
             held[p] \in Records /\ mapGateStatus(held[p].status) = "executing"
    BY <1>1, StatusLemma DEF AloneInv, IInv, Sound
  <2>2. TypeOK
    BY <1>1 DEF AloneInv, IInv, Sound, MirrorsOK, TypeOK, RUN_STATUS
  <2>3. KernelAccepts
    BY <1>1, <2>1 DEF AloneInv, MirrorsOK, KernelAccepts, Accepted, canTransitionRunStatus, Records
  <2>4. crew = "alone" => MirrorsFollow
    <3> SUFFICES ASSUME crew = "alone", NEW p \in Procs, pc[p] # "idle"
                 PROVE  /\ pc[p] = "indexed" \/ (pc[p] = "remembered" /\ cmd[p] # "bridge") =>
                             kernel[held[p].run] =
                               [gate |-> file[held[p].run].gate,
                                status |-> mapGateStatus(file[held[p].run].status)]
                        /\ pc[p] = "remembered" /\ cmd[p] # "bridge" =>
                             memory = [run |-> held[p].run, gate |-> file[held[p].run].gate,
                                       status |-> file[held[p].run].status]
      BY DEF MirrorsFollow
    <3>1. Follows(p)
      BY <1>1 DEF AloneInv
    <3> QED  BY <2>1, <3>1 DEF Follows
  <2> QED  BY <1>1, <2>2, <2>3, <2>4 DEF AloneInv, RecordsAgreeAlone
<1> QED  BY <1>1, MCInvariance, PTL

\* Of commands that do not overlap, nothing saved is lost: files only grow.
THEOREM NothingIsLostAloneHolds == MCSpec => NothingIsLostAlone
<1>1. ASSUME AloneInv, [MCNext]_<<vars, crew>>
      PROVE  [crew = "alone" => NothingIsLostStep]_vars
  <2>1. CASE UNCHANGED <<vars, crew>>
    BY <2>1 DEF vars
  <2>2. CASE MCNext /\ crew = "alone"
    <3>1. PICK p \in Procs : Step(p)
      BY <2>2 DEF MCNext, Step
    <3> SUFFICES ASSUME NEW r \in Runs, Exists(r), file'[r] # file[r]
                 PROVE  \/ file'[r].history[1].type = "imported" /\ Len(file'[r].history) = 1
                        \/ /\ IsPrefix(file[r].history, file'[r].history)
                           /\ file[r].gate <= file'[r].gate
                           /\ file[r].sched <= file'[r].sched
      BY DEF NothingIsLostStep
    <3>2. IInv /\ (pc[p] # "idle" => Follows(p)) /\ file \in [Runs -> Records \cup {NoRun}]
      BY <1>1, <2>2 DEF AloneInv, IInv
    <3>3. CASE Write(p)
      <4>1. pc[p] = "loaded" /\ file' = [file EXCEPT ![held[p].run] = held[p]]
        BY <3>3 DEF Write
      <4>2. Extends(held[p])
        BY <3>2, <4>1 DEF Follows
      <4>3. r = held[p].run /\ file'[r] = held[p]
        BY <3>2, <4>1
      <4> QED  BY <4>2, <4>3 DEF Extends
    <3>4. CASE SchedulerWrites(p)
      <4>1. /\ pc[p] = "loaded"
            /\ file' = [file EXCEPT ![held[p].run] = [held[p] EXCEPT !.sched = @ + 1]]
        BY <3>4 DEF SchedulerWrites, IInv, Records
      <4>2. Extends(held[p]) /\ held[p] \in Records /\ file[r] \in Records
        BY <3>2, <4>1 DEF Follows, IInv, Sound
      <4>3. r = held[p].run /\ file'[r] = [held[p] EXCEPT !.sched = @ + 1]
        BY <3>2, <4>1
      <4> QED  BY <4>2, <4>3 DEF Extends, Records
    <3>5. CASE ~Write(p) /\ ~SchedulerWrites(p)
      BY <3>1, <3>5 DEF Step, Work, Start, Import, Mark, Advance, Resume, Schedule, Begin,
         SchedulerEnds, Register, Index, Remember, SetActive, Crash
    <3> QED  BY <3>3, <3>4, <3>5
  <2> QED  BY <1>1, <2>1, <2>2
<1> QED  BY <1>1, MCInvariance, PTL DEF MCSpec, NothingIsLostAlone
==============================================================================
