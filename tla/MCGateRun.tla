----------------------------- MODULE MCGateRun -----------------------------
(* Three gates: a plan, a scope, and the last one.  Either two commands overlap 
   and none is killed, or one runs at a time and may be killed.                 *)
EXTENDS GateRun, TLC

CONSTANTS p1, p2, r1, MaxOverlapHistory  \* bound on a history when commands overlap

VARIABLE crew

MCRequired == (0 :> {"plan_confirmed"}) @@ (1 :> {"scope_locked"}) @@ (2 :> {})
MCPlanFields == {"plan_confirmed"}
TwoProcs == {p1, p2}
OneRun == {r1}
MCPauses == {NoGate, 1, 2}
Symmetry == Permutations(TwoProcs)

MCInit == Init /\ crew \in {"overlap", "alone"}

\* Overlapping commands: no pause is asked for, and the histories are shorter.
Short2(rec) == rec.pause = NoGate /\ Len(rec.history) <= MaxOverlapHistory

MCNext ==
  /\ UNCHANGED crew
  /\ \E p \in Procs :
       \/ crew = "overlap" /\ Work(p) /\ (pc'[p] # "idle" => Short2(held'[p]))
       \/ crew = "alone" /\ (\A q \in Procs \ {p} : pc[q] = "idle") /\ Step(p)

MCSpec == MCInit /\ [][MCNext]_<<vars, crew>>
------------------------------------------------------------------------------
\* Of commands that do not overlap: what each has saved stays, and files only grow.
NothingIsLostAlone == [][crew = "alone" => NothingIsLostStep]_vars

\* Of commands that do not overlap: the kernel takes every save; a command past its
\* mirrors leaves them saying what the run's file says, though commands before it were
\* killed halfway; and active.json, the kernel's index and the memory name records
\* that are there, wherever a command was killed.
RecordsAgreeAlone == TypeOK /\ (crew = "alone" => KernelAccepts /\ MirrorsFollow /\ PointersResolve)
==============================================================================
