--------------------------- MODULE ReleaseProofs ---------------------------
(***************************************************************************)
(* That nothing is released on terms nobody approved, for any number of    *)
(* overrides, baselines, policies and overlapping or dying commands.       *)
(*                                                                         *)
(* A file may be older than what was approved last, but whatever a file,   *)
(* or a process that has read it, calls approved was approved once; and    *)
(* a check carries with it what it read.  That the run compared is the     *)
(* run approved needs more: that nobody set the baseline between two reads *)
(* of it, which is so while at most one process is busy.                   *)
(*                                                                         *)
(* While at most one process is busy the uses of an override are counted:  *)
(* its file and the process that is about to record a use account for      *)
(* every release it let out, and the log has them all if nothing died.     *)
(***************************************************************************)
EXTENDS Release, FiniteSetTheorems, TLAPS

Checks == Others \cup {"comparison", "approval"}
Outcomes == {"pass", "warn", "fail", "skip"}

Records == [status : {"pending", "approved", "revoked"}, policy : Policies,
            allowed : Coverages, created : Nat, expires : Nat, uses : Nat, serial : Nat]

Approvals == {NoFile, [status |-> "revoked"]} \cup [status : {"approved"}, run : BenchRuns]

Reports == [policy : Policies, results : [Checks -> Outcomes], compared : BenchRuns \cup {"none"},
            override : Overrides \cup {"none"},
            terms : [policy : Policies, allowed : Coverages, created : Nat, expires : Nat,
                     serial : Nat] \cup {NoFile},
            at : Nat]

Points == {"idle", "decide", "approve", "compare", "approval", "match", "resolve", "use",
           "record", "log", "report"}

Types ==
  /\ overrides \in [Overrides -> Records \cup {NoFile}]
  /\ baselines \in [Names -> [status : {"set"}, run : BenchRuns] \cup {NoFile}]
  /\ approvals \in [Names -> Approvals]
  /\ log \in Seq([kind : {"requested", "approved", "revoked", "used"}, override : Overrides])
  /\ releases \in Seq(Reports)
  /\ pc \in [Procs -> Points]
  /\ job = [p \in Procs |-> job[p]]
  /\ now \in Nat /\ begun \in Nat /\ alone \in BOOLEAN

\* Someone approved these terms; someone approved the baseline with that run.
\* "terms" is what was ever agreed.
Agreed(rec, terms) == rec.status = "approved" => Terms(rec) \in terms
AgreedRun(n, r, terms) == [name |-> n, run |-> r] \in terms

Files ==
  /\ \A o \in Overrides : Agreed(overrides[o], agreed)
  /\ \A n \in Names :
       approvals[n].status = "approved" => AgreedRun(n, approvals[n].run, agreed)

\* Some baseline was approved, and "exact" if it had the run compared.
AnchoredBy(compared, terms, exact) ==
  \E n \in Names, r \in BenchRuns : AgreedRun(n, r, terms) /\ (exact => compared = r)

Anchoring(rel, terms, exact) ==
  rel.policy \in Anchored =>
    rel.results["approval"] = "pass" /\ AnchoredBy(rel.compared, terms, exact)

Covered(rel, terms) ==
  rel.override # "none" =>
    /\ rel.terms \in terms
    /\ NonPass(rel.results) # {}
    /\ NonPass(rel.results) \subseteq rel.terms.allowed \ Disallowed[rel.policy]

Logged(rel, events) ==
  rel.override # "none" => [kind |-> "used", override |-> rel.override] \in ToSet(events)

Ready(rel, terms, exact) ==
  rel \in Reports /\ Anchoring(rel, terms, exact) /\ Covered(rel, terms)

\* What a process at each point has read.
Deciding(p) ==
  pc[p] = "decide" =>
    /\ job[p].command \in {"approved", "revoked"}
    /\ job[p].override \in Overrides /\ job[p].held \in Records

Approving(p) == pc[p] = "approve" => job[p].name \in Names /\ job[p].run \in BenchRuns

Comparing(p) ==
  /\ pc[p] \in {"compare", "approval", "match"} =>
       job[p].policy \in Policies /\ job[p].name \in Names
  /\ pc[p] = "compare" => Exists(baselines[job[p].name])
  /\ pc[p] \in {"approval", "match", "resolve"} =>
       job[p].compared \in BenchRuns \cup {"none"} /\ job[p].comparison \in Outcomes
  /\ pc[p] \in {"approval", "match"} /\ alone =>
       job[p].compared = baselines[job[p].name].run
  /\ pc[p] = "match" =>
       /\ job[p].held \in Approvals
       /\ job[p].held.status = "approved" => AgreedRun(job[p].name, job[p].held.run, agreed)

Resolving(p) ==
  pc[p] = "resolve" =>
    /\ job[p].policy \in Policies /\ job[p].approval \in Outcomes
    /\ job[p].policy \in Anchored =>
         \/ job[p].approval = "pass" /\ AnchoredBy(job[p].compared, agreed, alone)
         \/ job[p].approval = "warn"

Releasing(p) ==
  /\ pc[p] \in {"use", "record", "report"} =>
       job[p].command = "used" /\ Ready(job[p].report, agreed, alone)
  /\ pc[p] \in {"use", "record"} => job[p].override = job[p].report.override
  /\ pc[p] = "use" => job[p].override \in Overrides /\ Exists(overrides[job[p].override])
  /\ pc[p] = "record" => job[p].held \in Records /\ Agreed(job[p].held, agreed)
  /\ pc[p] = "report" => Logged(job[p].report, log)

Logging(p) ==
  /\ pc[p] \in {"use", "record", "log"} => job[p].override \in Overrides
  /\ pc[p] = "log" => job[p].command \in {"requested", "approved", "revoked", "used"}
  /\ pc[p] = "log" /\ job[p].command = "used" =>
       /\ job[p].override = job[p].report.override
       /\ Ready(job[p].report, agreed, alone)

Work(p) ==
  /\ Deciding(p) /\ Approving(p) /\ Comparing(p)
  /\ Resolving(p) /\ Releasing(p) /\ Logging(p)

\* While no two commands have overlapped one process at most is busy.
OneBusy == alone => \A p, q \in Procs : pc[p] # "idle" /\ pc[q] # "idle" => p = q

Out == \A i \in DOMAIN releases : Ready(releases[i], agreed, alone) /\ Logged(releases[i], log)

IInv == Types /\ Files /\ OneBusy /\ Out /\ \A p \in Procs : Work(p)

------------------------------------------------------------------------------
(* What was agreed stays agreed, and what is in the event log stays there.  *)

LEMMA ReadyStays ==
  ASSUME NEW rel, NEW before, NEW after, NEW exact \in BOOLEAN, NEW exactly \in BOOLEAN,
         before \subseteq after, exactly => exact, Ready(rel, before, exact)
  PROVE  Ready(rel, after, exactly)
BY DEF Ready, Anchoring, AnchoredBy, AgreedRun, Covered

LEMMA AnchoredByStays ==
  ASSUME NEW compared, NEW before, NEW after, NEW exact \in BOOLEAN, NEW exactly \in BOOLEAN,
         before \subseteq after, exactly => exact, AnchoredBy(compared, before, exact)
  PROVE  AnchoredBy(compared, after, exactly)
BY DEF AnchoredBy, AgreedRun

LEMMA AppendToSet ==
  ASSUME NEW S, NEW s \in Seq(S), NEW e
  PROVE  ToSet(Append(s, e)) = ToSet(s) \cup {e}
<1>1. /\ DOMAIN Append(s, e) = DOMAIN s \cup {Len(s) + 1}
      /\ \A i \in DOMAIN s : Append(s, e)[i] = s[i]
      /\ Append(s, e)[Len(s) + 1] = e
  OBVIOUS
<1> QED
  BY <1>1, Zenon DEF ToSet

(* A step of one process has to be looked at only where it happens, and in *)
(* what the others have read of the baselines.                             *)
LEMMA OneProcessStep ==
  ASSUME IInv, Types', Files', OneBusy', Out', NEW p \in Procs, Work(p)',
         agreed \subseteq agreed', alone' => alone, ToSet(log) \subseteq ToSet(log'),
         \A o \in Overrides : Exists(overrides[o]) => Exists(overrides'[o]),
         \A q \in Procs \ {p} :
           /\ pc'[q] = pc[q] /\ job'[q] = job[q]
           /\ \A n \in Names : Exists(baselines[n]) => Exists(baselines'[n])
           /\ pc[q] \in {"approval", "match"} /\ alone' => baselines' = baselines
  PROVE  IInv'
<1>1. ASSUME NEW q \in Procs \ {p} PROVE Work(q)'
  <2>1. /\ Work(q) /\ pc'[q] = pc[q] /\ job'[q] = job[q]
        /\ alone \in BOOLEAN /\ alone' \in BOOLEAN
    BY DEF IInv, Types
  <2>2. Deciding(q)' /\ Approving(q)'
    BY <2>1 DEF Work, Deciding, Approving
  <2>3. Comparing(q)'
    BY <2>1 DEF Work, Comparing, AgreedRun
  <2>4. Resolving(q)'
    BY <2>1, AnchoredByStays DEF Work, Resolving
  <2>5. Releasing(q)' /\ Logging(q)'
    BY <2>1, ReadyStays DEF Work, Releasing, Logging, Logged, Agreed
  <2> QED
    BY <2>2, <2>3, <2>4, <2>5 DEF Work
<1> QED
  BY <1>1 DEF IInv

LEMMA InitInv == Init => IInv
<1> SUFFICES ASSUME Init PROVE IInv
  OBVIOUS
<1>1. Types
  BY DEF Init, Types, NoFile, NoJob, Approvals, Points
<1>2. Files
  BY ReleaseAssumption DEF Init, Files, Agreed, AgreedRun, NoFile
<1>3. OneBusy /\ Out /\ \A p \in Procs : Work(p)
  BY DEF Init, OneBusy, Out, Work, Deciding, Approving, Comparing, Resolving, Releasing, Logging
<1> QED
  BY <1>1, <1>2, <1>3 DEF IInv
------------------------------------------------------------------------------
(* How a command begins, goes on and ends.                                 *)

LEMMA BeginStep ==
  ASSUME IInv, NEW p \in Procs, NEW next \in Points, NEW work, Begin(p, next, work)
  PROVE  /\ pc' \in [Procs -> Points] /\ job' = [q \in Procs |-> job'[q]]
         /\ now' \in Nat /\ begun' \in Nat /\ alone' \in BOOLEAN /\ OneBusy'
         /\ pc[p] = "idle" /\ pc'[p] = next /\ job'[p] = work
         /\ alone' => alone /\ \A q \in Procs : pc[q] = "idle"
         /\ \A q \in Procs \ {p} : pc'[q] = pc[q] /\ job'[q] = job[q]
<1>1. Types
  BY DEF IInv
<1>2. alone' => alone /\ \A q \in Procs : pc[q] = "idle"
  BY <1>1 DEF Begin, Types
<1>3. OneBusy'
  BY <1>1, <1>2 DEF Begin, At, OneBusy, Types
<1>4. /\ pc' \in [Procs -> Points] /\ pc[p] = "idle" /\ pc'[p] = next
      /\ \A q \in Procs \ {p} : pc'[q] = pc[q]
  BY <1>1 DEF Begin, At, Types
<1>5. /\ job' = [q \in Procs |-> job'[q]] /\ job'[p] = work
      /\ \A q \in Procs \ {p} : job'[q] = job[q]
  BY <1>1 DEF Begin, Types
<1>6. now' \in Nat /\ begun' \in Nat /\ alone' \in BOOLEAN
  BY <1>1 DEF Begin, Types
<1> QED
  BY <1>2, <1>3, <1>4, <1>5, <1>6

LEMMA GoOn ==
  ASSUME IInv, NEW p \in Procs, NEW here \in Points \ {"idle"}, NEW next \in Points,
         At(p, here, next), alone' = alone
  PROVE  /\ pc' \in [Procs -> Points] /\ OneBusy' /\ pc[p] = here /\ pc'[p] = next
         /\ \A q \in Procs \ {p} : pc'[q] = pc[q]
BY DEF IInv, Types, OneBusy, At

LEMMA ExitStep ==
  ASSUME IInv, NEW p \in Procs, Exit(p), alone' = alone
  PROVE  /\ pc' \in [Procs -> Points] /\ job' = [q \in Procs |-> job'[q]]
         /\ OneBusy' /\ pc'[p] = "idle"
         /\ \A q \in Procs \ {p} : pc'[q] = pc[q] /\ job'[q] = job[q]
BY DEF IInv, Types, OneBusy, Exit, Points

LEMMA IdleWork == ASSUME NEW p, pc'[p] = "idle" PROVE Work(p)'
BY DEF Work, Deciding, Approving, Comparing, Resolving, Releasing, Logging

------------------------------------------------------------------------------
(* The commands that decide on overrides.                                  *)

LEMMA RequestStep == ASSUME IInv, NEW p \in Procs, Request(p) PROVE IInv'
<1> PICK o \in Overrides, policy \in Policies, allowed \in Coverages :
      \E duration \in 1..MaxDuration[policy] :
        /\ Begin(p, "log", [command |-> "requested", override |-> o])
        /\ overrides' = [overrides EXCEPT ![o] =
             [status |-> "pending", policy |-> policy, allowed |-> allowed,
              created |-> now, expires |-> now + duration, uses |-> 0,
              serial |-> begun]]
        /\ UNCHANGED <<baselines, approvals, log, history>>
  BY DEF Request
<1> PICK duration \in 1..MaxDuration[policy] :
      /\ Begin(p, "log", [command |-> "requested", override |-> o])
      /\ overrides' = [overrides EXCEPT ![o] =
           [status |-> "pending", policy |-> policy, allowed |-> allowed,
            created |-> now, expires |-> now + duration, uses |-> 0,
            serial |-> begun]]
      /\ UNCHANGED <<baselines, approvals, log, history>>
  OBVIOUS
<1> "log" \in Points
  BY DEF Points
<1>0. Types /\ Files /\ Out /\ MaxDuration[policy] \in Nat
  BY ReleaseAssumption DEF IInv
<1>1. Types'
  BY <1>0, BeginStep DEF Types, Records, history
<1>2. Files'
  BY <1>0 DEF Files, Types, Agreed, AgreedRun, history
<1>3. Out'
  BY <1>0, BeginStep, ReadyStays DEF Out, history, Types
<1>4. Work(p)'
  BY BeginStep DEF Work, Deciding, Approving, Comparing, Resolving, Releasing, Logging
<1>5. \A q \in Overrides : Exists(overrides[q]) => Exists(overrides'[q])
  BY <1>0 DEF Types, Exists
<1> QED
  BY <1>1, <1>2, <1>3, <1>4, <1>5, BeginStep, OneProcessStep DEF history

LEMMA LoadOverrideStep == ASSUME IInv, NEW p \in Procs, LoadOverride(p) PROVE IInv'
<1> PICK o \in Overrides, verdict \in {"approved", "revoked"} :
      /\ Exists(overrides[o])
      /\ Begin(p, "decide", [command |-> verdict, override |-> o, held |-> overrides[o]])
      /\ UNCHANGED <<files, log, history>>
  BY DEF LoadOverride
<1> "decide" \in Points
  BY DEF Points
<1>0. Types /\ Files /\ Out
  BY DEF IInv
<1>1. Types'
  BY <1>0, BeginStep DEF Types, history, files
<1>2. Files'
  BY <1>0 DEF Files, history, files
<1>3. Out'
  BY <1>0, BeginStep, ReadyStays DEF Out, history, Types
<1>4. Work(p)'
  <2>1. overrides[o] \in Records
    BY <1>0 DEF Types, Exists, NoFile
  <2> QED
    BY <2>1, BeginStep DEF Work, Deciding, Approving, Comparing, Resolving, Releasing, Logging
<1> QED
  BY <1>1, <1>2, <1>3, <1>4, BeginStep, OneProcessStep DEF history, files

LEMMA DecideStep == ASSUME IInv, NEW p \in Procs, Decide(p) PROVE IInv'
<1> DEFINE held == [job[p].held EXCEPT !.status = job[p].command]
<1> USE DEF counts
<1>0. /\ Types /\ Files /\ Out /\ Deciding(p)
      /\ At(p, "decide", "log") /\ "decide" \in Points \ {"idle"} /\ "log" \in Points
      /\ overrides' = [overrides EXCEPT ![job[p].override] = held]
      /\ agreed' = IF job[p].command = "approved" THEN agreed \cup {Terms(held)} ELSE agreed
      /\ UNCHANGED <<baselines, approvals, log, now, job, releases, alone, begun, kills>>
  BY DEF IInv, Work, Decide, Points
<1>a. /\ job[p].command \in {"approved", "revoked"} /\ job[p].override \in Overrides
      /\ job[p].held \in Records
  BY <1>0, GoOn DEF Deciding
<1>b. held \in Records /\ held.status = job[p].command
  BY <1>a DEF Records
<1>c. agreed \subseteq agreed' /\ Agreed(held, agreed')
  BY <1>0, <1>b DEF Agreed
<1> HIDE DEF held
<1>1. Types'
  BY <1>0, <1>a, <1>b, GoOn DEF Types
<1>2. Files'
  BY <1>0, <1>a, <1>c DEF Files, Types, Agreed, AgreedRun
<1>3. Out'
  BY <1>0, <1>c, ReadyStays DEF Out, Types
<1>4. Work(p)'
  BY <1>0, <1>a, GoOn DEF Work, Deciding, Approving, Comparing, Resolving, Releasing, Logging
<1>5. \A o \in Overrides : Exists(overrides[o]) => Exists(overrides'[o])
  BY <1>0, <1>b DEF Types, Exists, Records
<1> QED
  BY <1>0, <1>1, <1>2, <1>3, <1>4, <1>5, <1>c, GoOn, OneProcessStep

LEMMA LogStep == ASSUME IInv, NEW p \in Procs, Log(p) PROVE IInv'
<1> DEFINE event == [kind |-> job[p].command, override |-> job[p].override]
<1> USE DEF counts
<1>0. /\ Types /\ Files /\ Out /\ Logging(p) /\ Releasing(p)
      /\ pc[p] = "log" /\ "log" \in Points \ {"idle"} /\ "report" \in Points
      /\ log' = Append(log, event)
      /\ UNCHANGED <<files, now, history, counts>>
  BY DEF IInv, Work, Log, Points
<1>a. /\ event \in [kind : {"requested", "approved", "revoked", "used"}, override : Overrides]
      /\ ToSet(log') = ToSet(log) \cup {event}
  BY <1>0, AppendToSet DEF Logging, Types
<1>b. log' \in Seq([kind : {"requested", "approved", "revoked", "used"}, override : Overrides])
  BY <1>0, <1>a DEF Types
<1> HIDE DEF event
<1>2. Files'
  BY <1>0 DEF Files, history, files
<1>3. Out'
  BY <1>0, <1>a DEF Out, Logged, history
<1>4. CASE job[p].command = "used" /\ At(p, "log", "report") /\ UNCHANGED job
  <2>1. Types'
    BY <1>0, <1>4, <1>b, GoOn DEF Types, files, history
  <2>2. Work(p)'
    BY <1>0, <1>4, <1>a, GoOn
      DEF event, Work, Deciding, Approving, Comparing, Resolving, Releasing, Logging, Logged, history
  <2> QED
    BY <1>0, <1>2, <1>3, <1>4, <2>1, <2>2, <1>a, GoOn, OneProcessStep DEF history, files
<1>5. CASE Exit(p)
  <2>1. Types'
    BY <1>0, <1>5, <1>b, ExitStep DEF Types, files, history
  <2> QED
    BY <1>0, <1>2, <1>3, <1>5, <2>1, <1>a, ExitStep, IdleWork, OneProcessStep DEF history, files
<1> QED
  BY <1>4, <1>5 DEF Log
------------------------------------------------------------------------------
(* The commands that set, approve and revoke baselines.                    *)

LEMMA SetBaselineStep == ASSUME IInv, NEW p \in Procs, SetBaseline(p) PROVE IInv'
<1> PICK n \in Names, r \in BenchRuns :
      /\ Begin(p, "idle", NoJob)
      /\ baselines' = [baselines EXCEPT ![n] = [status |-> "set", run |-> r]]
      /\ UNCHANGED <<overrides, approvals, log, history>>
  BY DEF SetBaseline
<1> "idle" \in Points
  BY DEF Points
<1>0. Types /\ Files /\ Out
  BY DEF IInv
<1>1. Types'
  BY <1>0, BeginStep DEF Types, history
<1>2. Files'
  BY <1>0 DEF Files, history
<1>3. Out'
  BY <1>0, BeginStep, ReadyStays DEF Out, history, Types
<1>4. \A m \in Names : Exists(baselines[m]) => Exists(baselines'[m])
  BY <1>0 DEF Types, Exists
<1>5. \A q \in Procs : alone' => pc[q] \notin {"approval", "match"}
  BY BeginStep
<1> QED
  BY <1>1, <1>2, <1>3, <1>4, <1>5, BeginStep, IdleWork, OneProcessStep DEF history

LEMMA LoadBaselineStep == ASSUME IInv, NEW p \in Procs, LoadBaseline(p) PROVE IInv'
<1> PICK n \in Names :
      /\ Exists(baselines[n])
      /\ Begin(p, "approve", [command |-> "approve", name |-> n, run |-> baselines[n].run])
      /\ UNCHANGED <<files, log, history>>
  BY DEF LoadBaseline
<1> "approve" \in Points
  BY DEF Points
<1>0. Types /\ Files /\ Out
  BY DEF IInv
<1>1. Types'
  BY <1>0, BeginStep DEF Types, history, files
<1>2. Files'
  BY <1>0 DEF Files, history, files
<1>3. Out'
  BY <1>0, BeginStep, ReadyStays DEF Out, history, Types
<1>4. Work(p)'
  <2>1. baselines[n].run \in BenchRuns
    BY <1>0 DEF Types, Exists, NoFile
  <2> QED
    BY <2>1, BeginStep DEF Work, Deciding, Approving, Comparing, Resolving, Releasing, Logging
<1> QED
  BY <1>1, <1>2, <1>3, <1>4, BeginStep, OneProcessStep DEF history, files

LEMMA ApproveBaselineStep == ASSUME IInv, NEW p \in Procs, ApproveBaseline(p) PROVE IInv'
<1> USE DEF counts
<1>0. /\ Types /\ Files /\ Out /\ Approving(p)
      /\ pc[p] = "approve" /\ Exit(p)
      /\ approvals' = [approvals EXCEPT ![job[p].name] =
                         [status |-> "approved", run |-> job[p].run]]
      /\ agreed' = agreed \cup {[name |-> job[p].name, run |-> job[p].run]}
      /\ UNCHANGED <<overrides, baselines, log, now, releases, alone, begun, kills>>
  BY DEF IInv, Work, ApproveBaseline
<1>a. job[p].name \in Names /\ job[p].run \in BenchRuns
  BY <1>0 DEF Approving
<1>1. Types'
  BY <1>0, <1>a, ExitStep DEF Types, Approvals
<1>2. Files'
  BY <1>0, <1>a DEF Files, Types, Agreed, AgreedRun
<1>3. Out'
  BY <1>0, ReadyStays DEF Out, Types
<1> QED
  BY <1>0, <1>1, <1>2, <1>3, ExitStep, IdleWork, OneProcessStep

LEMMA RevokeApprovalStep == ASSUME IInv, NEW p \in Procs, RevokeApproval(p) PROVE IInv'
<1> PICK n \in Names :
      /\ Begin(p, "idle", NoJob)
      /\ approvals' = [approvals EXCEPT ![n] = [status |-> "revoked"]]
      /\ UNCHANGED <<overrides, baselines, log, history>>
  BY DEF RevokeApproval
<1> "idle" \in Points
  BY DEF Points
<1>0. Types /\ Files /\ Out
  BY DEF IInv
<1>1. Types'
  BY <1>0, BeginStep DEF Types, history, Approvals
<1>2. Files'
  BY <1>0 DEF Files, Types, history
<1>3. Out'
  BY <1>0, BeginStep, ReadyStays DEF Out, history, Types
<1> QED
  BY <1>1, <1>2, <1>3, BeginStep, IdleWork, OneProcessStep DEF history

------------------------------------------------------------------------------
(* The release check.                                                      *)

LEMMA CheckBegins == ASSUME IInv, NEW p \in Procs, Check(p) PROVE IInv'
<1> PICK policy \in Policies :
      LET names  == Candidates[policy]
          there  == {i \in 1..Len(names) : Exists(baselines[names[i]])}
          absent == IF policy \in Anchored THEN "warn" ELSE "skip"
      IN  /\ \/ /\ there = {}
                /\ Begin(p, "resolve", [policy |-> policy, compared |-> "none",
                                        comparison |-> absent, approval |-> absent])
             \/ \E i \in there :
                  /\ \A j \in there : i <= j
                  /\ Begin(p, "compare", [policy |-> policy, name |-> names[i]])
          /\ UNCHANGED <<files, log, history>>
  BY DEF Check
<1> DEFINE absent == IF policy \in Anchored THEN "warn" ELSE "skip"
<1> "resolve" \in Points /\ "compare" \in Points
  BY DEF Points
<1>0. Types /\ Files /\ Out /\ UNCHANGED <<files, log, history>>
  BY DEF IInv
<1>1. Files'
  BY <1>0 DEF Files, history, files
<1>2. CASE Begin(p, "resolve", [policy |-> policy, compared |-> "none",
                                comparison |-> absent, approval |-> absent])
  <2>1. Types'
    BY <1>0, <1>2, BeginStep DEF Types, history, files
  <2>2. Out'
    BY <1>0, <1>2, BeginStep, ReadyStays DEF Out, history, Types
  <2>3. Work(p)'
    BY <1>2, BeginStep
      DEF Work, Deciding, Approving, Comparing, Resolving, Releasing, Logging, Outcomes
  <2> QED
    BY <1>0, <1>1, <1>2, <2>1, <2>2, <2>3, BeginStep, OneProcessStep DEF history, files
<1>3. ASSUME NEW n \in Names, Exists(baselines[n]),
             Begin(p, "compare", [policy |-> policy, name |-> n])
      PROVE  IInv'
  <2>1. Types'
    BY <1>0, <1>3, BeginStep DEF Types, history, files
  <2>2. Out'
    BY <1>0, <1>3, BeginStep, ReadyStays DEF Out, history, Types
  <2>3. Work(p)'
    BY <1>0, <1>3, BeginStep
      DEF Work, Deciding, Approving, Comparing, Resolving, Releasing, Logging, files
  <2> QED
    BY <1>0, <1>1, <1>3, <2>1, <2>2, <2>3, BeginStep, OneProcessStep DEF history, files
<1>4. \A i \in 1..Len(Candidates[policy]) : Candidates[policy][i] \in Names
  BY ReleaseAssumption
<1> QED
  BY <1>2, <1>3, <1>4

LEMMA CompareStep == ASSUME IInv, NEW p \in Procs, Compare(p) PROVE IInv'
<1> USE DEF counts
<1> PICK comparison \in {"pass", "warn"} :
      job' = [job EXCEPT ![p] =
        [policy |-> @.policy, name |-> @.name,
         compared |-> baselines[@.name].run, comparison |-> comparison]]
  BY DEF Compare
<1>0. /\ Types /\ Files /\ Out /\ Comparing(p) /\ At(p, "compare", "approval")
      /\ "compare" \in Points \ {"idle"} /\ "approval" \in Points
      /\ UNCHANGED <<files, log, now, history, counts>>
  BY DEF IInv, Work, Compare, Points
<1>a. /\ job' = [q \in Procs |-> job'[q]] /\ \A q \in Procs \ {p} : job'[q] = job[q]
      /\ job'[p] = [policy |-> job[p].policy, name |-> job[p].name,
                    compared |-> baselines[job[p].name].run, comparison |-> comparison]
  BY <1>0 DEF Types
<1>1. Types'
  BY <1>0, <1>a, GoOn DEF Types, history, files
<1>2. Files' /\ Out'
  BY <1>0 DEF Files, Out, history, files
<1>3. Work(p)'
  <2>1. /\ job[p].policy \in Policies /\ job[p].name \in Names
        /\ baselines[job[p].name].run \in BenchRuns
    BY <1>0, GoOn DEF Comparing, Types, Exists, NoFile
  <2> QED
    BY <1>0, <1>a, <2>1, GoOn
      DEF Work, Deciding, Approving, Comparing, Resolving, Releasing, Logging, Outcomes, files
<1> QED
  BY <1>0, <1>a, <1>1, <1>2, <1>3, GoOn, OneProcessStep DEF history, files

LEMMA ReadApprovalStep == ASSUME IInv, NEW p \in Procs, ReadApproval(p) PROVE IInv'
<1> USE DEF counts
<1>0. /\ Types /\ Files /\ Out /\ Comparing(p) /\ At(p, "approval", "match")
      /\ "approval" \in Points \ {"idle"} /\ "match" \in Points
      /\ UNCHANGED <<files, log, now, history, counts>>
  BY DEF IInv, Work, ReadApproval, Points
<1>a. /\ job' = [q \in Procs |-> job'[q]] /\ \A q \in Procs \ {p} : job'[q] = job[q]
      /\ job'[p] = [policy |-> job[p].policy, name |-> job[p].name,
                    compared |-> job[p].compared, comparison |-> job[p].comparison,
                    held |-> approvals[job[p].name]]
  BY <1>0 DEF Types, ReadApproval
<1>1. Types'
  BY <1>0, <1>a, GoOn DEF Types, history, files
<1>2. Files' /\ Out'
  BY <1>0 DEF Files, Out, history, files
<1>3. Work(p)'
  <2>1. /\ job[p].name \in Names /\ approvals[job[p].name] \in Approvals
        /\ approvals[job[p].name].status = "approved" =>
             AgreedRun(job[p].name, approvals[job[p].name].run, agreed)
    BY <1>0, GoOn DEF Comparing, Types, Files
  <2> QED
    BY <1>0, <1>a, <2>1, GoOn
      DEF Work, Deciding, Approving, Comparing, Resolving, Releasing, Logging, files, history
<1> QED
  BY <1>0, <1>a, <1>1, <1>2, <1>3, GoOn, OneProcessStep DEF history, files

LEMMA MatchApprovalStep == ASSUME IInv, NEW p \in Procs, MatchApproval(p) PROVE IInv'
<1> USE DEF counts
<1> DEFINE approval == IF resolveApprovalStatus(job[p].held, baselines[job[p].name]) THEN "pass"
                       ELSE IF job[p].policy \in Anchored THEN "warn" ELSE "skip"
<1>0. /\ Types /\ Files /\ Out /\ Comparing(p) /\ At(p, "match", "resolve")
      /\ "match" \in Points \ {"idle"} /\ "resolve" \in Points
      /\ UNCHANGED <<files, log, now, history, counts>>
  BY DEF IInv, Work, MatchApproval, Points
<1>a. /\ job' = [q \in Procs |-> job'[q]] /\ \A q \in Procs \ {p} : job'[q] = job[q]
      /\ job'[p] = [policy |-> job[p].policy, compared |-> job[p].compared,
                    comparison |-> job[p].comparison, approval |-> approval]
  BY <1>0 DEF Types, MatchApproval
<1>b. approval = "pass" => AnchoredBy(job[p].compared, agreed, alone)
  <2>1. pc[p] = "match"
    BY <1>0, GoOn
  <2>2. /\ job[p].name \in Names /\ job[p].held \in Approvals
        /\ alone => job[p].compared = baselines[job[p].name].run
        /\ job[p].held.status = "approved" => AgreedRun(job[p].name, job[p].held.run, agreed)
    BY <1>0, <2>1 DEF Comparing
  <2>3. ASSUME job[p].held.status = "approved", job[p].held.run = baselines[job[p].name].run
        PROVE  AnchoredBy(job[p].compared, agreed, alone)
    <3>1. job[p].held.run \in BenchRuns
      BY <2>2, <2>3 DEF Approvals, NoFile
    <3> QED
      BY <2>2, <2>3, <3>1 DEF AnchoredBy
  <2> QED
    BY <2>3 DEF resolveApprovalStatus
<1>c. approval \in {"pass", "warn", "skip"} /\ (approval = "skip" => job[p].policy \notin Anchored)
  OBVIOUS
<1> HIDE DEF approval
<1>1. Types'
  BY <1>0, <1>a, GoOn DEF Types, history, files
<1>2. Files' /\ Out'
  BY <1>0 DEF Files, Out, history, files
<1>3. Work(p)'
  <2>1. pc[p] = "match" /\ pc'[p] = "resolve"
    BY <1>0, GoOn
  <2>2. Resolving(p)'
    BY <1>0, <1>a, <1>b, <1>c, <2>1 DEF Resolving, Comparing, Outcomes, counts, history
  <2> QED
    BY <1>0, <1>a, <2>1, <2>2 DEF Work, Deciding, Approving, Comparing, Releasing, Logging
<1> QED
  BY <1>0, <1>a, <1>1, <1>2, <1>3, GoOn, OneProcessStep DEF history, files
\* An override is applied, or the check lets the release out, only for what was
\* agreed: the approval of the baseline is never among what an override covers.
LEMMA ReleasedIsReady ==
  ASSUME IInv, NEW p \in Procs, pc[p] = "resolve", NEW found \in Findings,
         NEW override \in Overrides \cup {"none"},
         NEW terms \in [policy : Policies, allowed : Coverages, created : Nat,
                        expires : Nat, serial : Nat] \cup {NoFile},
         job[p].policy \in Anchored => "approval" \notin NonPass(Results(p, found)),
         Covered(Released(p, Results(p, found), override, terms), agreed)
  PROVE  Ready(Released(p, Results(p, found), override, terms), agreed, alone)
<1> DEFINE results == Results(p, found)
<1>0. Types /\ Comparing(p) /\ Resolving(p)
  BY DEF IInv, Work
<1>1. /\ job[p].policy \in Policies /\ job[p].approval \in Outcomes
      /\ job[p].compared \in BenchRuns \cup {"none"} /\ job[p].comparison \in Outcomes
      /\ job[p].policy \in Anchored =>
           \/ job[p].approval = "pass" /\ AnchoredBy(job[p].compared, agreed, alone)
           \/ job[p].approval = "warn"
  BY <1>0 DEF Comparing, Resolving
<1>2. results \in [Checks -> Outcomes] /\ results["approval"] = job[p].approval
  <2>1. found \in [Others -> {"pass", "warn", "fail"}]
    BY ReleaseAssumption
  <2> QED
    BY <1>1, <2>1 DEF Results, Checks, Outcomes
<1>3. job[p].policy \in Anchored => job[p].approval # "warn"
  BY <1>2 DEF NonPass, Checks
<1> HIDE DEF results
<1>4. Released(p, results, override, terms) \in Reports
  BY <1>0, <1>1, <1>2 DEF Released, Reports, Types
<1>5. Anchoring(Released(p, results, override, terms), agreed, alone)
  BY <1>1, <1>2, <1>3 DEF Released, Anchoring
<1> QED
  BY <1>4, <1>5 DEF Ready, results

LEMMA ResolveStep == ASSUME IInv, NEW p \in Procs, Resolve(p) PROVE IInv'
<1> USE DEF counts
<1> PICK found \in Findings, strict \in BOOLEAN, timed \in BOOLEAN, o \in Overrides,
         asked \in BOOLEAN :
      LET results  == Results(p, found)
          decision == computeDecision(results, strict \/ job[p].policy \in BlockOnWarn)
          rec      == overrides[o]
          applied  == /\ asked /\ decision # "ready"
                      /\ resolvePolicyOverride(rec, job[p].policy,
                                               IF timed THEN now ELSE rec.created)
                      /\ matchOverrideToChecks(rec, results)
      IN  /\ pc[p] = "resolve"
          /\ IF applied
             THEN /\ At(p, "resolve", "use")
                  /\ job' = [job EXCEPT ![p] = [command |-> "used", override |-> o,
                       report |-> Released(p, results, o, Terms(rec))]]
                  /\ UNCHANGED releases
             ELSE /\ Exit(p)
                  /\ releases' = IF decision = "ready"
                                 THEN Append(releases, Released(p, results, "none", NoFile))
                                 ELSE releases
          /\ UNCHANGED <<files, log, now, agreed, counts>>
  BY DEF Resolve
<1> DEFINE results  == Results(p, found)
           decision == computeDecision(results, strict \/ job[p].policy \in BlockOnWarn)
           rec      == overrides[o]
           used     == Released(p, results, o, Terms(rec))
           plain    == Released(p, results, "none", NoFile)
<1>0. /\ Types /\ Files /\ Out /\ Resolving(p) /\ pc[p] = "resolve"
      /\ "resolve" \in Points \ {"idle"} /\ "use" \in Points
      /\ UNCHANGED <<files, log, now, agreed, counts>>
  BY DEF IInv, Work, Points
<1>1. Files'
  BY <1>0 DEF Files, files
<1>2. ASSUME rec.status = "approved", rec.policy = job[p].policy,
             matchOverrideToChecks(rec, results), At(p, "resolve", "use"),
             job' = [job EXCEPT ![p] = [command |-> "used", override |-> o, report |-> used]],
             UNCHANGED releases
      PROVE  IInv'
  <2>1. rec \in Records /\ Terms(rec) \in agreed /\ rec.policy \in Policies
    BY <1>0, <1>2 DEF Types, NoFile, Files, Agreed, Records
  <2>2. Terms(rec) \in [policy : Policies, allowed : Coverages, created : Nat,
                        expires : Nat, serial : Nat]
    BY <2>1 DEF Terms, Records
  <2>3. job[p].policy \in Anchored => "approval" \notin NonPass(results)
    BY <1>2, ReleaseAssumption DEF matchOverrideToChecks
  <2>4. Covered(used, agreed)
    BY <1>2, <2>1 DEF Covered, Released, Terms, matchOverrideToChecks
  <2>5. Ready(used, agreed, alone) /\ used.override = o
    BY <1>0, <2>2, <2>3, <2>4, ReleasedIsReady DEF Released
  <2> HIDE DEF used
  <2>6. /\ job' = [q \in Procs |-> job'[q]] /\ \A q \in Procs \ {p} : job'[q] = job[q]
        /\ job'[p] = [command |-> "used", override |-> o, report |-> used]
    BY <1>0, <1>2 DEF Types
  <2>7. Types'
    BY <1>0, <1>2, <2>6, GoOn DEF Types, files
  <2>8. Out'
    BY <1>0, <1>2 DEF Out
  <2>9. Work(p)'
    BY <1>0, <1>2, <2>5, <2>6, GoOn
      DEF Exists, files, Work, Deciding, Approving, Comparing, Resolving, Releasing, Logging
  <2> QED
    BY <1>0, <1>1, <1>2, <2>6, <2>7, <2>8, <2>9, GoOn, OneProcessStep DEF files
<1>3. ASSUME Exit(p), UNCHANGED releases PROVE IInv'
  <2>1. Types'
    BY <1>0, <1>3, ExitStep DEF Types, files
  <2>2. Out'
    BY <1>0, <1>3 DEF Out
  <2> QED
    BY <1>0, <1>1, <1>3, <2>1, <2>2, ExitStep, IdleWork, OneProcessStep DEF files
<1>4. ASSUME Exit(p), NonPass(results) = {}, releases' = Append(releases, plain)
      PROVE  IInv'
  <2>1. Ready(plain, agreed, alone) /\ Logged(plain, log)
    <3>1. plain.override = "none"
      BY DEF Released
    <3> QED
      BY <1>0, <1>4, <3>1, ReleasedIsReady DEF Covered, Logged
  <2> HIDE DEF plain
  <2>2. plain \in Reports /\ releases \in Seq(Reports)
    BY <1>0, <2>1 DEF Ready, Types
  <2>3. Types'
    BY <1>0, <1>4, <2>2, ExitStep DEF Types, files
  <2>4. Out'
    <3>1. ASSUME NEW i \in DOMAIN releases' PROVE Ready(releases'[i], agreed, alone)
                                                  /\ Logged(releases'[i], log)
      BY <1>0, <1>4, <2>1, <2>2, <3>1 DEF Out
    <3> QED
      BY <1>0, <3>1 DEF Out
  <2> QED
    BY <1>0, <1>1, <1>4, <2>3, <2>4, ExitStep, IdleWork, OneProcessStep DEF files
<1>5. decision = "ready" => NonPass(results) = {}
  BY DEF computeDecision
<1> HIDE DEF used, plain
<1> QED
  BY <1>2, <1>3, <1>4, <1>5 DEF resolvePolicyOverride, used, plain

LEMMA ReadUseStep == ASSUME IInv, NEW p \in Procs, ReadUse(p) PROVE IInv'
<1> USE DEF counts
<1>0. /\ Types /\ Files /\ Out /\ Releasing(p) /\ Logging(p) /\ At(p, "use", "record")
      /\ "use" \in Points \ {"idle"} /\ "record" \in Points
      /\ UNCHANGED <<files, log, now, history, counts>>
  BY DEF IInv, Work, ReadUse, Points
<1>a. /\ job' = [q \in Procs |-> job'[q]] /\ \A q \in Procs \ {p} : job'[q] = job[q]
      /\ job'[p] = [command |-> "used", override |-> job[p].override,
                    report |-> job[p].report, held |-> overrides[job[p].override]]
  BY <1>0 DEF Types, ReadUse
<1>1. Types'
  BY <1>0, <1>a, GoOn DEF Types, history, files
<1>2. Files' /\ Out'
  BY <1>0 DEF Files, Out, history, files
<1>3. Work(p)'
  <2>1. overrides[job[p].override] \in Records
    <3>1. pc[p] = "use"
      BY <1>0, GoOn
    <3>2. job[p].override \in Overrides /\ overrides[job[p].override].status # "none"
      BY <1>0, <3>1 DEF Releasing, Exists
    <3>3. overrides[job[p].override] \in Records \cup {NoFile}
      BY <1>0, <3>2 DEF Types
    <3> QED
      BY <3>2, <3>3 DEF NoFile
  <2> QED
    BY <1>0, <1>a, <2>1, GoOn
      DEF Work, Deciding, Approving, Comparing, Resolving, Releasing, Logging, Files, history
<1> QED
  BY <1>0, <1>a, <1>1, <1>2, <1>3, GoOn, OneProcessStep DEF history, files

LEMMA RecordUseStep == ASSUME IInv, NEW p \in Procs, RecordUse(p) PROVE IInv'
<1> USE DEF counts
<1> DEFINE held == [job[p].held EXCEPT !.uses = @ + 1]
<1>0. /\ Types /\ Files /\ Out /\ Releasing(p) /\ Logging(p) /\ At(p, "record", "log")
      /\ "record" \in Points \ {"idle"} /\ "log" \in Points
      /\ overrides' = [overrides EXCEPT ![job[p].override] = held]
      /\ UNCHANGED <<baselines, approvals, log, now, job, history, counts>>
  BY DEF IInv, Work, RecordUse, Points
<1>a. /\ job[p].held \in Records /\ Agreed(job[p].held, agreed)
      /\ job[p].override \in Overrides
  BY <1>0, GoOn DEF Releasing, Logging
<1>b. held \in Records /\ Agreed(held, agreed)
  BY <1>a DEF Records, Agreed, Terms
<1> HIDE DEF held
<1>1. Types'
  BY <1>0, <1>a, <1>b, GoOn DEF Types, history
<1>2. Files' /\ Out'
  BY <1>0, <1>b DEF Files, Out, Types, history, Agreed
<1>3. Work(p)'
  BY <1>0, GoOn DEF Work, Deciding, Approving, Comparing, Resolving, Releasing, Logging, history
<1>4. \A o \in Overrides : Exists(overrides[o]) => Exists(overrides'[o])
  BY <1>0, <1>b DEF Types, Exists, Records
<1> QED
  BY <1>0, <1>1, <1>2, <1>3, <1>4, GoOn, OneProcessStep DEF history

LEMMA ReportStep == ASSUME IInv, NEW p \in Procs, Report(p) PROVE IInv'
<1> USE DEF counts
<1>0. /\ Types /\ Files /\ Out /\ Releasing(p) /\ pc[p] = "report" /\ Exit(p)
      /\ releases' = Append(releases, job[p].report)
      /\ UNCHANGED <<files, log, now, agreed, counts>>
  BY DEF IInv, Work, Report
<1>a. /\ Ready(job[p].report, agreed, alone) /\ Logged(job[p].report, log)
      /\ job[p].report \in Reports /\ releases \in Seq(Reports)
  BY <1>0 DEF Releasing, Ready, Types
<1>1. Types'
  BY <1>0, <1>a, ExitStep DEF Types, files
<1>2. Files'
  BY <1>0 DEF Files, files
<1>3. Out'
  <2>1. ASSUME NEW i \in DOMAIN releases'
        PROVE  Ready(releases'[i], agreed, alone) /\ Logged(releases'[i], log)
    BY <1>0, <1>a, <2>1 DEF Out
  <2> QED
    BY <1>0, <2>1 DEF Out
<1> QED
  BY <1>0, <1>1, <1>2, <1>3, ExitStep, IdleWork, OneProcessStep DEF files

------------------------------------------------------------------------------
(* Time, and the death of a command.                                       *)

LEMMA TickStep == ASSUME IInv, Tick PROVE IInv'
BY DEF IInv, Tick, Types, Files, OneBusy, Out, Work, Deciding, Approving, Comparing, Resolving,
       Releasing, Logging, files, history, counts

LEMMA KillStep == ASSUME IInv, NEW p \in Procs, Kill(p) PROVE IInv'
<1>0. Types /\ Files /\ Out /\ Exit(p) /\ UNCHANGED <<files, log, now, history, alone, begun>>
  BY DEF IInv, Kill
<1>1. Types'
  BY <1>0, ExitStep DEF Types, files, history
<1>2. Files' /\ Out'
  BY <1>0 DEF Files, Out, files, history
<1> QED
  BY <1>0, <1>1, <1>2, ExitStep, IdleWork, OneProcessStep DEF files, history

------------------------------------------------------------------------------
LEMMA IInvStep == IInv /\ [Next]_vars => IInv'
<1> SUFFICES ASSUME IInv, [Next]_vars PROVE IInv'
  OBVIOUS
<1>1. CASE Tick
  BY <1>1, TickStep
<1>2. ASSUME NEW p \in Procs, OverrideStep(p) PROVE IInv'
  BY <1>2, RequestStep, LoadOverrideStep, DecideStep, LogStep DEF OverrideStep
<1>3. ASSUME NEW p \in Procs, BaselineStep(p) PROVE IInv'
  BY <1>3, SetBaselineStep, LoadBaselineStep, ApproveBaselineStep, RevokeApprovalStep
    DEF BaselineStep
<1>4. ASSUME NEW p \in Procs, CheckStep(p) PROVE IInv'
  BY <1>4, CheckBegins, CompareStep, ReadApprovalStep, MatchApprovalStep, ResolveStep,
     ReadUseStep, RecordUseStep, ReportStep DEF CheckStep
<1>5. ASSUME NEW p \in Procs, Kill(p) PROVE IInv'
  BY <1>5, KillStep
<1>6. CASE UNCHANGED vars
  BY <1>6 DEF vars, IInv, Types, Files, OneBusy, Out, Work, Deciding, Approving, Comparing,
              Resolving, Releasing, Logging, files, history, counts
<1> QED
  BY <1>1, <1>2, <1>3, <1>4, <1>5, <1>6 DEF Next

\* However the commands overlap and whichever of them die, a production release
\* is compared with an approved baseline, with the very run approved unless two
\* commands overlapped, and no override stands in for that approval.
THEOREM ProductionAnchoredHolds == Spec => []ProductionAnchored
<1>1. IInv => ProductionAnchored
  <2> SUFFICES ASSUME IInv, NEW i \in DOMAIN releases, releases[i].policy \in Anchored
               PROVE  /\ releases[i].results["approval"] = "pass"
                      /\ \E term \in agreed : "name" \in DOMAIN term /\
                           (alone => releases[i].compared = term.run)
    BY DEF ProductionAnchored
  <2>1. /\ releases[i].results["approval"] = "pass"
        /\ AnchoredBy(releases[i].compared, agreed, alone)
    BY DEF IInv, Out, Ready, Anchoring
  <2>2. PICK n \in Names, r \in BenchRuns :
          [name |-> n, run |-> r] \in agreed /\ (alone => releases[i].compared = r)
    BY <2>1 DEF AnchoredBy, AgreedRun
  <2> QED
    BY <2>1, <2>2
<1> QED
  BY <1>1, InitInv, IInvStep, PTL DEF Spec

\* However the commands overlap and whichever of them die, a release by override
\* was let out on terms someone approved, which cover every check that did not
\* pass, none of them one its policy keeps from overrides, and its use is in the
\* event log.
THEOREM OverridesAreAgreedHolds == Spec => []OverridesAreAgreed
<1>1. IInv => OverridesAreAgreed
  BY DEF IInv, Out, Ready, Covered, Logged, OverridesAreAgreed, ByOverride
<1> QED
  BY <1>1, InitInv, IInvStep, PTL DEF Spec
------------------------------------------------------------------------------
(* The counting of uses, while no two commands overlap.  A command that     *)
(* reads an override and writes it back then writes back what is there; a   *)
(* use is counted before it is logged, and logged before the release is     *)
(* reported; and a request, whose serial is its own, starts the count anew. *)

\* The releases let out by an override on its present terms.
OutBy(rels, o, rec) == {i \in DOMAIN rels : rels[i].override = o /\ rels[i].terms = Terms(rec)}

\* Releases and overrides are of earlier requests than the next one.
Earlier ==
  /\ \A o \in Overrides : Exists(overrides[o]) => overrides[o].serial \in 0..begun-1
  /\ \A i \in DOMAIN releases :
       releases[i].override # "none" => releases[i].terms.serial \in 0..begun-1

Counted ==
  \A o \in Overrides : Exists(overrides[o]) =>
    /\ Cardinality(OutBy(releases, o, overrides[o])) <= overrides[o].uses
    /\ overrides[o].uses <= MaxUses[overrides[o].policy]

\* What a busy process holds is what the file says; a use counted and not yet
\* reported is one more than the releases there are.
Carrying == {"decide", "use", "record", "log", "report"}

Holds(p, o) ==
  /\ o \in Overrides /\ Exists(overrides[o])
  /\ pc[p] \in {"decide", "record"} => job[p].held = overrides[o]
  /\ pc[p] \in {"use", "record", "report"} \/ (pc[p] = "log" /\ job[p].command = "used") =>
       /\ job[p].report.override = o /\ job[p].report.terms = Terms(overrides[o])
       /\ IF pc[p] \in {"use", "record"}
          THEN overrides[o].uses < MaxUses[overrides[o].policy]
          ELSE Cardinality(OutBy(releases, o, overrides[o])) < overrides[o].uses

Holding(p) == pc[p] \in Carrying => Holds(p, job[p].override)

\* The file of an override is ahead of the log by the event about to be written.
Event(p) == [kind |-> job[p].command, override |-> job[p].override]

Replayed ==
  \A o \in Overrides : Exists(overrides[o]) =>
    /\ \A p \in Procs : pc[p] = "log" => Replays(Append(log, Event(p)), o, overrides[o])
    /\ (\A p \in Procs : pc[p] # "log") => Replays(log, o, overrides[o])

CountInv ==
  /\ kills \in Nat
  /\ alone => Earlier /\ Counted /\ (\A p \in Procs : Holding(p)) /\ (kills = 0 => Replayed)

LEMMA SinceAppend ==
  ASSUME NEW S, NEW events \in Seq(S), NEW e, NEW o
  PROVE  /\ e.override # o => SinceRequest(Append(events, e), o) = SinceRequest(events, o)
         /\ e = [kind |-> "requested", override |-> o] => SinceRequest(Append(events, e), o) = {}
         /\ e.override = o /\ e # [kind |-> "requested", override |-> o] =>
              SinceRequest(Append(events, e), o) = SinceRequest(events, o) \cup {Len(events) + 1}
<1> DEFINE more == Append(events, e)
           n == Len(events) + 1
           req == [kind |-> "requested", override |-> o]
<1>1. /\ DOMAIN more = DOMAIN events \cup {n} /\ n \notin DOMAIN events /\ more[n] = e
      /\ \A i \in DOMAIN events : more[i] = events[i] /\ i < n /\ ~(n < i)
      /\ ~(n < n)
  OBVIOUS
<1>2. req.override = o
  OBVIOUS
<1> HIDE DEF more, n, req
<1>3. e.override # o => SinceRequest(more, o) = SinceRequest(events, o)
  <2> SUFFICES ASSUME e.override # o PROVE SinceRequest(more, o) = SinceRequest(events, o)
    OBVIOUS
  <2>1. e # req
    BY <1>2
  <2> QED
    BY <1>1, <2>1, Zenon DEF SinceRequest, req
<1>4. e = req => SinceRequest(more, o) = {}
  BY <1>1, Zenon DEF SinceRequest, req
<1>5. e.override = o /\ e # req => SinceRequest(more, o) = SinceRequest(events, o) \cup {n}
  BY <1>1, Zenon DEF SinceRequest, req
<1> QED
  BY <1>3, <1>4, <1>5 DEF more, n, req

LEMMA SinceFinite ==
  ASSUME NEW S, NEW events \in Seq(S), NEW o
  PROVE  /\ SinceRequest(events, o) \subseteq 1..Len(events)
         /\ IsFiniteSet(UsesIn(events, o)) /\ Cardinality(UsesIn(events, o)) \in Nat
<1>1. SinceRequest(events, o) \subseteq 1..Len(events)
  BY DEF SinceRequest
<1>2. UsesIn(events, o) \subseteq 1..Len(events)
  BY <1>1 DEF UsesIn
<1>3. IsFiniteSet(1..Len(events))
  BY FS_Interval
<1> QED
  BY <1>1, <1>2, <1>3, FS_Subset, FS_CardinalityType

\* What an event of another override, a request, a verdict and a use do to a replay.
LEMMA ReplaysOther ==
  ASSUME NEW S, NEW events \in Seq(S), NEW e, NEW o, NEW rec,
         e.override # o, Replays(events, o, rec)
  PROVE  Replays(Append(events, e), o, rec)
<1>1. SinceRequest(Append(events, e), o) = SinceRequest(events, o)
  BY SinceAppend
<1>2. \A i \in SinceRequest(events, o) : Append(events, e)[i] = events[i]
  BY SinceFinite
<1>3. /\ UsesIn(Append(events, e), o) = UsesIn(events, o)
      /\ VerdictsIn(Append(events, e), o) = VerdictsIn(events, o)
  BY <1>1, <1>2, Zenon DEF UsesIn, VerdictsIn
<1>4. VerdictsIn(events, o) \subseteq SinceRequest(events, o)
  BY DEF VerdictsIn
<1> QED
  BY <1>2, <1>3, <1>4 DEF Replays

LEMMA ReplaysRequest ==
  ASSUME NEW S, NEW events \in Seq(S), NEW o, NEW rec, rec.uses = 0, rec.status = "pending"
  PROVE  Replays(Append(events, [kind |-> "requested", override |-> o]), o, rec)
<1> DEFINE e == [kind |-> "requested", override |-> o]
<1>1. SinceRequest(Append(events, e), o) = {}
  BY SinceAppend
<1> HIDE DEF e
<1>2. UsesIn(Append(events, e), o) = {} /\ VerdictsIn(Append(events, e), o) = {}
  BY <1>1 DEF UsesIn, VerdictsIn
<1> QED
  BY <1>2, FS_EmptySet DEF Replays, e

LEMMA ReplaysVerdict ==
  ASSUME NEW S, NEW events \in Seq(S), NEW o, NEW verdict \in {"approved", "revoked"},
         NEW rec, NEW rec2, rec2.uses = rec.uses, rec2.status = verdict, Replays(events, o, rec)
  PROVE  Replays(Append(events, [kind |-> verdict, override |-> o]), o, rec2)
<1> DEFINE e == [kind |-> verdict, override |-> o]
           n == Len(events) + 1
<1>1. SinceRequest(Append(events, e), o) = SinceRequest(events, o) \cup {n}
  BY SinceAppend
<1>2. /\ \A i \in SinceRequest(events, o) : Append(events, e)[i] = events[i] /\ i <= n
      /\ Append(events, e)[n] = e /\ e.kind = verdict /\ n <= n
  BY SinceFinite
<1> HIDE DEF e, n
<1>3. /\ UsesIn(Append(events, e), o) = UsesIn(events, o)
      /\ VerdictsIn(Append(events, e), o) = VerdictsIn(events, o) \cup {n}
  <2>1. UsesIn(Append(events, e), o) = UsesIn(events, o)
    BY <1>1, <1>2 DEF UsesIn
  <2>2. n \notin UsesIn(events, o)
    BY <1>2, <2>1 DEF UsesIn
  <2> QED
    BY <1>1, <2>1, <2>2 DEF VerdictsIn
<1>4. \A i \in VerdictsIn(Append(events, e), o) : i <= n
  BY <1>2, <1>3 DEF VerdictsIn
<1> QED
  BY <1>2, <1>3, <1>4 DEF Replays, e

LEMMA ReplaysUse ==
  ASSUME NEW S, NEW events \in Seq(S), NEW o, NEW rec, NEW rec2,
         rec2.uses = rec.uses + 1, rec2.status = rec.status, Replays(events, o, rec)
  PROVE  Replays(Append(events, [kind |-> "used", override |-> o]), o, rec2)
<1> DEFINE e == [kind |-> "used", override |-> o]
           n == Len(events) + 1
<1>1. SinceRequest(Append(events, e), o) = SinceRequest(events, o) \cup {n}
  BY SinceAppend
<1>2. /\ \A i \in SinceRequest(events, o) : Append(events, e)[i] = events[i]
      /\ n \notin SinceRequest(events, o)
      /\ Append(events, e)[n] = e /\ e.kind = "used"
  BY SinceFinite
<1> HIDE DEF e, n
<1>3. /\ UsesIn(Append(events, e), o) = UsesIn(events, o) \cup {n}
      /\ VerdictsIn(Append(events, e), o) = VerdictsIn(events, o)
      /\ n \notin UsesIn(events, o)
  BY <1>1, <1>2 DEF UsesIn, VerdictsIn
<1>4. Cardinality(UsesIn(Append(events, e), o)) = Cardinality(UsesIn(events, o)) + 1
  BY <1>3, SinceFinite, FS_AddElement
<1>5. \A i \in VerdictsIn(events, o) : Append(events, e)[i] = events[i]
  BY <1>2 DEF VerdictsIn
<1> QED
  BY <1>3, <1>4, <1>5 DEF Replays, e

------------------------------------------------------------------------------
(* While no two commands overlap, a step has to be looked at where it       *)
(* happens: the others are idle, before it and after.                       *)

Solo(p) == \A q \in Procs \ {p} : pc[q] = "idle"

LEMMA SoloStep ==
  ASSUME IInv, IInv', NEW p \in Procs, alone' => alone,
         \A q \in Procs \ {p} : pc'[q] = pc[q],
         pc[p] = "idle" /\ alone' => \A q \in Procs : pc[q] = "idle"
  PROVE  alone' => Solo(p) /\ Solo(p)'
BY DEF IInv, OneBusy, Solo

LEMMA OutFinite ==
  ASSUME NEW S, NEW rels \in Seq(S), NEW o, NEW rec
  PROVE  /\ OutBy(rels, o, rec) \subseteq 1..Len(rels)
         /\ IsFiniteSet(OutBy(rels, o, rec)) /\ Cardinality(OutBy(rels, o, rec)) \in Nat
<1>1. OutBy(rels, o, rec) \subseteq 1..Len(rels)
  BY DEF OutBy
<1>2. IsFiniteSet(1..Len(rels))
  BY FS_Interval
<1> QED
  BY <1>1, <1>2, FS_Subset, FS_CardinalityType

\* The log as it will be when the process has written the event it carries.
ToldBy(p) == IF pc[p] = "log" THEN Append(log, Event(p)) ELSE log

LEMMA SoloReplayed ==
  ASSUME NEW p \in Procs, Solo(p)
  PROVE  Replayed => \A o \in Overrides : Exists(overrides[o]) =>
                       Replays(ToldBy(p), o, overrides[o])
<1>1. \A q \in Procs : pc[q] = "log" => q = p
  BY DEF Solo
<1> QED
  BY <1>1, Zenon DEF Replayed, ToldBy

LEMMA SoloReplays ==
  ASSUME NEW p \in Procs, Solo(p)',
         \A o \in Overrides : Exists(overrides'[o]) => Replays(ToldBy(p)', o, overrides'[o])
  PROVE  Replayed'
<1>1. \A q \in Procs : pc'[q] = "log" => q = p
  BY DEF Solo
<1> QED
  BY <1>1, Zenon DEF Replayed, ToldBy

LEMMA SoloHolding ==
  ASSUME NEW p \in Procs, Solo(p)', Holding(p)'
  PROVE  (\A q \in Procs : Holding(q))'
BY DEF Holding, Solo, Carrying

\* A step that writes neither an override nor an event nor a release.
LEMMA FilesStay ==
  ASSUME IInv, IInv', CountInv, NEW p \in Procs, alone' => alone /\ Solo(p) /\ Solo(p)',
         UNCHANGED <<overrides, releases, log>>, begun' \in {begun, begun + 1},
         kills' = kills + 1 \/ (kills' = kills /\ pc[p] # "log"), pc'[p] # "log",
         alone' => Holding(p)'
  PROVE  CountInv'
<1>1. kills \in Nat /\ kills' \in Nat /\ (kills' = 0 => kills = 0 /\ pc[p] # "log")
  BY DEF CountInv
<1> SUFFICES ASSUME alone'
             PROVE  /\ Earlier' /\ Counted' /\ (\A q \in Procs : Holding(q))'
                    /\ kills' = 0 => Replayed'
  BY <1>1 DEF CountInv
<1>2. Earlier /\ Counted /\ (kills = 0 => Replayed) /\ Types
  BY DEF CountInv, IInv
<1>3. Earlier'
  <2>1. begun' >= begun /\ begun \in Nat
    BY <1>2 DEF Types
  <2> QED
    BY <1>2, <2>1 DEF Earlier
<1>4. Counted'
  BY <1>2 DEF Counted
<1>5. (\A q \in Procs : Holding(q))'
  BY SoloHolding
<1>6. ASSUME kills' = 0 PROVE Replayed'
  <2>1. \A o \in Overrides : Exists(overrides[o]) => Replays(ToldBy(p), o, overrides[o])
    BY <1>1, <1>2, <1>6, SoloReplayed
  <2>2. ToldBy(p) = log /\ ToldBy(p)' = log
    BY <1>1, <1>6 DEF ToldBy
  <2> QED
    BY <2>1, <2>2, SoloReplays
<1> QED
  BY <1>3, <1>4, <1>5, <1>6

------------------------------------------------------------------------------
\* The steps that write neither an override nor an event nor a release.
LEMMA BeginsQuietly ==
  ASSUME IInv, IInv', CountInv, NEW p \in Procs, NEW next \in Points \ {"log"}, NEW work,
         Begin(p, next, work), UNCHANGED <<overrides, releases, log>>,
         alone' => Holding(p)'
  PROVE  CountInv'
<1>1. /\ pc[p] = "idle"
      /\ alone' => alone /\ \A q \in Procs : pc[q] = "idle"
      /\ \A q \in Procs \ {p} : pc'[q] = pc[q]
      /\ pc'[p] = next /\ begun' = begun + 1 /\ kills' = kills
  BY BeginStep DEF Begin
<1>2. alone' => Solo(p) /\ Solo(p)'
  BY <1>1, SoloStep
<1> QED
  BY <1>1, <1>2, FilesStay

LEMMA GoesOnQuietly ==
  ASSUME IInv, IInv', CountInv, NEW p \in Procs, NEW next \in Points \ {"log"},
         pc[p] \notin {"idle", "log"}, pc'[p] = next, \A q \in Procs \ {p} : pc'[q] = pc[q],
         UNCHANGED <<overrides, releases, log, counts>>, alone' => Holding(p)'
  PROVE  CountInv'
<1>1. alone' => Solo(p) /\ Solo(p)'
  BY SoloStep DEF counts
<1> QED
  BY <1>1, FilesStay DEF counts

LEMMA BaselineCount ==
  ASSUME IInv, IInv', CountInv, NEW p \in Procs, BaselineStep(p)
  PROVE  CountInv'
<1> "idle" \in Points \ {"log"} /\ "approve" \in Points \ {"log"}
  BY DEF Points
<1>1. ASSUME SetBaseline(p) \/ RevokeApproval(p) PROVE CountInv'
  <2>1. Begin(p, "idle", NoJob) /\ UNCHANGED <<overrides, releases, log>>
    BY <1>1 DEF SetBaseline, RevokeApproval, history
  <2> QED
    BY <2>1, BeginStep, BeginsQuietly DEF Holding, Carrying
<1>2. ASSUME LoadBaseline(p) PROVE CountInv'
  <2> PICK n \in Names :
        /\ Begin(p, "approve", [command |-> "approve", name |-> n, run |-> baselines[n].run])
        /\ UNCHANGED <<overrides, releases, log>>
    BY <1>2 DEF LoadBaseline, files, history
  <2> QED
    BY BeginStep, BeginsQuietly DEF Holding, Carrying
<1>3. ASSUME ApproveBaseline(p) PROVE CountInv'
  <2>1. /\ pc[p] = "approve" /\ Exit(p)
        /\ UNCHANGED <<overrides, releases, log, counts>>
    BY <1>3 DEF ApproveBaseline, counts
  <2> QED
    BY <2>1, ExitStep, GoesOnQuietly DEF Holding, Carrying, counts
<1> QED
  BY <1>1, <1>2, <1>3 DEF BaselineStep

LEMMA ComparingCount ==
  ASSUME IInv, IInv', CountInv, NEW p \in Procs,
         Check(p) \/ Compare(p) \/ ReadApproval(p) \/ MatchApproval(p)
  PROVE  CountInv'
<1> /\ "resolve" \in Points \ {"log", "idle"} /\ "compare" \in Points \ {"log", "idle"}
    /\ "approval" \in Points \ {"log", "idle"} /\ "match" \in Points \ {"log", "idle"}
  BY DEF Points
<1>1. ASSUME Check(p) PROVE CountInv'
  <2>1. PICK next \in {"resolve", "compare"}, work \in {job'[p]} : Begin(p, next, work)
    <3>1. \/ \E work : Begin(p, "resolve", work)
          \/ \E work : Begin(p, "compare", work)
      BY <1>1 DEF Check
    <3>2. ASSUME NEW next \in Points, NEW work, Begin(p, next, work) PROVE job'[p] = work
      BY <3>2, BeginStep
    <3> QED
      BY <3>1, <3>2
  <2>2. UNCHANGED <<overrides, releases, log>>
    BY <1>1 DEF Check, files, history
  <2> QED
    BY <2>1, <2>2, BeginStep, BeginsQuietly DEF Holding, Carrying
<1>2. ASSUME NEW here \in {"compare", "approval", "match"},
             NEW next \in {"approval", "match", "resolve"},
             At(p, here, next), UNCHANGED <<overrides, releases, log, counts>>
      PROVE  CountInv'
  BY <1>2, GoOn, GoesOnQuietly DEF Holding, Carrying, counts
<1>3. /\ Compare(p) => At(p, "compare", "approval") /\ UNCHANGED <<overrides, releases, log, counts>>
      /\ ReadApproval(p) => At(p, "approval", "match") /\ UNCHANGED <<overrides, releases, log, counts>>
      /\ MatchApproval(p) => At(p, "match", "resolve") /\ UNCHANGED <<overrides, releases, log, counts>>
  BY DEF Compare, ReadApproval, MatchApproval, files, history, counts
<1> QED
  BY <1>1, <1>2, <1>3

LEMMA LoadOverrideCount ==
  ASSUME IInv, IInv', CountInv, NEW p \in Procs, LoadOverride(p)
  PROVE  CountInv'
<1> PICK o \in Overrides, verdict \in {"approved", "revoked"} :
      /\ Exists(overrides[o])
      /\ Begin(p, "decide", [command |-> verdict, override |-> o, held |-> overrides[o]])
      /\ UNCHANGED <<files, log, history>>
  BY DEF LoadOverride
<1> "decide" \in Points \ {"log"}
  BY DEF Points
<1>1. UNCHANGED <<overrides, releases, log>>
  BY DEF files, history
<1>2. Holding(p)'
  BY <1>1, BeginStep DEF Holding, Holds
<1> QED
  BY <1>1, <1>2, BeginsQuietly

LEMMA ReadUseCount ==
  ASSUME IInv, IInv', CountInv, NEW p \in Procs, ReadUse(p)
  PROVE  CountInv'
<1> "use" \in Points \ {"idle"} /\ "record" \in Points \ {"log"}
  BY DEF Points
<1>1. /\ At(p, "use", "record") /\ UNCHANGED <<overrides, releases, log, counts>>
      /\ job'[p] = [command |-> "used", override |-> job[p].override,
                    report |-> job[p].report, held |-> overrides[job[p].override]]
  BY DEF ReadUse, files, history, IInv, Types
<1>2. /\ pc[p] = "use" /\ pc'[p] = "record" /\ \A q \in Procs \ {p} : pc'[q] = pc[q]
      /\ alone' = alone
  BY <1>1, GoOn DEF counts
<1>3. alone' => Holding(p)'
  <2> SUFFICES ASSUME alone' PROVE Holds(p, job[p].override)'
    BY <1>1, <1>2 DEF Holding
  <2>1. Holds(p, job[p].override)
    BY <1>2 DEF CountInv, Holding, Carrying
  <2> QED
    BY <1>1, <1>2, <2>1 DEF Holds
<1> QED
  BY <1>1, <1>2, <1>3, GoesOnQuietly

LEMMA KillCount ==
  ASSUME IInv, IInv', CountInv, NEW p \in Procs, Kill(p)
  PROVE  CountInv'
<1>1. /\ pc[p] # "idle" /\ Exit(p) /\ kills' = kills + 1 /\ alone' = alone /\ begun' = begun
      /\ UNCHANGED <<overrides, releases, log>>
  BY DEF Kill, files, history
<1>2. pc'[p] = "idle" /\ \A q \in Procs \ {p} : pc'[q] = pc[q]
  BY <1>1, ExitStep
<1>3. alone' => Solo(p) /\ Solo(p)'
  BY <1>1, <1>2, SoloStep
<1> QED
  BY <1>1, <1>2, <1>3, FilesStay DEF Holding, Carrying

------------------------------------------------------------------------------
\* A step that leaves an override of the file on other terms or with another count.
\* The other overrides, and what they let out, are as they were.
LEMMA OverrideWritten ==
  ASSUME IInv, IInv', CountInv, NEW p \in Procs, alone' => alone /\ Solo(p) /\ Solo(p)',
         NEW o \in Overrides, NEW rec, Exists(rec), overrides' = [overrides EXCEPT ![o] = rec],
         UNCHANGED <<releases, log, kills>>, begun' \in {begun, begun + 1},
         pc[p] # "log", pc'[p] = "log", job'[p].override = o,
         alone' => 
           /\ rec.serial \in 0..begun'-1 /\ rec.uses <= MaxUses[rec.policy]
           /\ Cardinality(OutBy(releases, o, rec)) <= rec.uses
           /\ job'[p].command = "used" =>
                /\ job'[p].report.override = o /\ job'[p].report.terms = Terms(rec)
                /\ Cardinality(OutBy(releases, o, rec)) < rec.uses
           /\ kills = 0 => Replays(Append(log, [kind |-> job'[p].command, override |-> o]), o, rec)
  PROVE  CountInv'
<1> SUFFICES ASSUME alone'
             PROVE  /\ Earlier' /\ Counted' /\ (\A q \in Procs : Holding(q))'
                    /\ kills' = 0 => Replayed'
  BY DEF CountInv
<1>1. Earlier /\ Counted /\ (kills = 0 => Replayed) /\ Types
  BY DEF CountInv, IInv
<1>2. /\ overrides'[o] = rec
      /\ \A q \in Overrides \ {o} : overrides'[q] = overrides[q]
  BY <1>1 DEF Types
<1>3. Earlier'
  <2>1. 0..begun-1 \subseteq 0..begun'-1
    BY <1>1 DEF Types
  <2> QED
    BY <1>1, <1>2, <2>1 DEF Earlier
<1>4. Counted'
  BY <1>1, <1>2 DEF Counted
<1>5. Holding(p)'
  BY <1>2 DEF Holding, Holds
<1>6. ASSUME kills' = 0 PROVE Replayed'
  <2>1. \A q \in Overrides : Exists(overrides[q]) => Replays(log, q, overrides[q])
    BY <1>1, <1>6, SoloReplayed DEF ToldBy
  <2>2. ToldBy(p)' = Append(log, [kind |-> job'[p].command, override |-> o])
    BY DEF ToldBy, Event
  <2>3. PICK e : e = [kind |-> job'[p].command, override |-> o]
    OBVIOUS
  <2>4. ASSUME NEW q \in Overrides, Exists(overrides'[q])
        PROVE  Replays(Append(log, e), q, overrides'[q])
    <3>1. CASE q = o
      BY <1>2, <1>6, <2>3, <3>1
    <3>2. CASE q # o
      <4>1. Replays(log, q, overrides[q]) /\ overrides'[q] = overrides[q] /\ e.override # q
        BY <1>2, <2>1, <2>3, <2>4, <3>2
      <4>2. log \in Seq([kind : {"requested", "approved", "revoked", "used"},
                         override : Overrides])
        BY <1>1 DEF Types
      <4> QED
        BY <4>1, <4>2, ReplaysOther
    <3> QED
      BY <3>1, <3>2
  <2> QED
    BY <2>2, <2>3, <2>4, SoloReplays
<1> QED
  BY <1>3, <1>4, <1>5, <1>6, SoloHolding

\* A new request: nothing was let out on its terms, whose serial is new.
LEMMA RequestCount ==
  ASSUME IInv, IInv', CountInv, NEW p \in Procs, Request(p)
  PROVE  CountInv'
<1> PICK o \in Overrides, policy \in Policies, allowed \in Coverages :
      \E duration \in 1..MaxDuration[policy] :
        /\ Begin(p, "log", [command |-> "requested", override |-> o])
        /\ overrides' = [overrides EXCEPT ![o] =
             [status |-> "pending", policy |-> policy, allowed |-> allowed,
              created |-> now, expires |-> now + duration, uses |-> 0,
              serial |-> begun]]
        /\ UNCHANGED <<baselines, approvals, log, history>>
  BY DEF Request
<1> PICK rec : /\ rec.status = "pending" /\ rec.policy = policy /\ rec.uses = 0
               /\ rec.serial = begun
               /\ Begin(p, "log", [command |-> "requested", override |-> o])
               /\ overrides' = [overrides EXCEPT ![o] = rec]
               /\ UNCHANGED <<log, releases>>
  BY DEF history
<1> "log" \in Points
  BY DEF Points
<1>1. /\ pc[p] = "idle" /\ pc'[p] = "log"
      /\ alone' => alone /\ \A q \in Procs : pc[q] = "idle"
      /\ \A q \in Procs \ {p} : pc'[q] = pc[q]
      /\ job'[p] = [command |-> "requested", override |-> o]
      /\ begun' = begun + 1 /\ kills' = kills
  BY BeginStep DEF Begin
<1>2. alone' => Solo(p) /\ Solo(p)'
  BY <1>1, SoloStep
<1>3. begun \in Nat /\ MaxUses[policy] \in Nat /\ releases \in Seq(Reports)
      /\ log \in Seq([kind : {"requested", "approved", "revoked", "used"}, override : Overrides])
  BY ReleaseAssumption DEF IInv, Types
<1>4. alone' => Cardinality(OutBy(releases, o, rec)) = 0
  <2> SUFFICES ASSUME alone' PROVE OutBy(releases, o, rec) = {}
    BY FS_EmptySet
  <2>1. Earlier
    BY <1>1 DEF CountInv
  <2>2. \A i \in DOMAIN releases : releases[i].override = o =>
          releases[i].terms.serial \in 0..begun-1 /\ o # "none"
    BY <2>1, ReleaseAssumption DEF Earlier
  <2>3. Terms(rec).serial = begun /\ begun \notin 0..begun-1
    BY <1>3 DEF Terms
  <2> QED
    BY <2>2, <2>3 DEF OutBy
<1>5. Replays(Append(log, [kind |-> "requested", override |-> o]), o, rec)
  BY <1>3, ReplaysRequest
<1>6. rec.serial \in 0..begun'-1 /\ rec.uses <= MaxUses[rec.policy] /\ Exists(rec)
  BY <1>1, <1>3 DEF Exists
<1>7. /\ job'[p].override = o /\ job'[p].command = "requested"
      /\ Replays(Append(log, [kind |-> job'[p].command, override |-> o]), o, rec)
  <2> job'[p].override = o /\ job'[p].command = "requested"
    BY <1>1
  <2> QED
    BY <1>5
<1>8. /\ alone' => alone /\ Solo(p) /\ Solo(p)'
      /\ UNCHANGED <<releases, log, kills>> /\ begun' \in {begun, begun + 1}
      /\ pc[p] # "log" /\ pc'[p] = "log" /\ job'[p].command # "used"
  BY <1>1, <1>2, <1>7
<1>9. alone' => Cardinality(OutBy(releases, o, rec)) <= rec.uses
  BY <1>4
<1> QED
  BY <1>6, <1>7, <1>8, <1>9, OverrideWritten

LEMMA DecideCount ==
  ASSUME IInv, IInv', CountInv, NEW p \in Procs, Decide(p)
  PROVE  CountInv'
<1> DEFINE o == job[p].override
           held == [job[p].held EXCEPT !.status = job[p].command]
<1> "log" \in Points /\ "decide" \in Points \ {"idle"}
  BY DEF Points
<1>1. /\ At(p, "decide", "log") /\ UNCHANGED <<log, job, releases, counts>>
      /\ overrides' = [overrides EXCEPT ![o] = held]
  BY DEF Decide
<1>2. /\ pc[p] = "decide" /\ pc'[p] = "log" /\ \A q \in Procs \ {p} : pc'[q] = pc[q]
      /\ alone' = alone /\ begun' = begun /\ kills' = kills
  BY <1>1, GoOn DEF counts
<1>3. alone' => Solo(p) /\ Solo(p)'
  BY <1>2, SoloStep
<1>4. job[p].command \in {"approved", "revoked"} /\ o \in Overrides /\ job[p].held \in Records
  BY <1>2 DEF IInv, Work, Deciding
<1> HIDE DEF o
<1>5. PICK rec : /\ rec = held /\ Exists(rec) /\ rec.status = job[p].command
                 /\ rec.uses = job[p].held.uses /\ rec.serial = job[p].held.serial
                 /\ rec.policy = job[p].held.policy /\ Terms(rec) = Terms(job[p].held)
  <2>1. /\ held.status = job[p].command /\ held.uses = job[p].held.uses
        /\ held.serial = job[p].held.serial /\ held.policy = job[p].held.policy
        /\ held.allowed = job[p].held.allowed /\ held.created = job[p].held.created
        /\ held.expires = job[p].held.expires
    BY <1>4 DEF Records
  <2> HIDE DEF held
  <2> QED
    BY <1>4, <2>1 DEF Terms, Exists
<1> HIDE DEF held
<1>6. ASSUME alone' PROVE job[p].held = overrides[o] /\ Exists(overrides[o])
  BY <1>2, <1>6 DEF CountInv, Holding, Holds, Carrying, o
<1>7. ASSUME alone'
      PROVE  /\ rec.serial \in 0..begun-1 /\ rec.uses <= MaxUses[rec.policy]
             /\ Cardinality(OutBy(releases, o, rec)) <= rec.uses
  BY <1>2, <1>4, <1>5, <1>6, <1>7 DEF CountInv, Earlier, Counted, OutBy
<1>8. ASSUME alone', kills = 0
      PROVE  Replays(Append(log, [kind |-> job[p].command, override |-> o]), o, rec)
  <2>1. Replays(log, o, overrides[o])
    BY <1>2, <1>3, <1>4, <1>6, <1>8, SoloReplayed DEF ToldBy, CountInv
  <2>2. log \in Seq([kind : {"requested", "approved", "revoked", "used"}, override : Overrides])
    BY DEF IInv, Types
  <2> QED
    BY <1>4, <1>5, <1>6, <1>8, <2>1, <2>2, ReplaysVerdict
<1>9. job'[p].override = o /\ job'[p].command # "used" /\ job' = job /\ log' = log
      /\ releases' = releases /\ overrides' = [overrides EXCEPT ![o] = rec]
  BY <1>1, <1>4, <1>5 DEF o
<1> QED
  BY <1>2, <1>3, <1>4, <1>5, <1>7, <1>8, <1>9, OverrideWritten

LEMMA RecordUseCount ==
  ASSUME IInv, IInv', CountInv, NEW p \in Procs, RecordUse(p)
  PROVE  CountInv'
<1> DEFINE o == job[p].override
           held == [job[p].held EXCEPT !.uses = @ + 1]
<1> "log" \in Points /\ "record" \in Points \ {"idle"}
  BY DEF Points
<1>1. /\ At(p, "record", "log") /\ UNCHANGED <<log, job, releases, counts>>
      /\ overrides' = [overrides EXCEPT ![o] = held]
  BY DEF RecordUse, history
<1>2. /\ pc[p] = "record" /\ pc'[p] = "log" /\ \A q \in Procs \ {p} : pc'[q] = pc[q]
      /\ alone' = alone /\ begun' = begun /\ kills' = kills
  BY <1>1, GoOn DEF counts
<1>3. alone' => Solo(p) /\ Solo(p)'
  BY <1>2, SoloStep
<1>4. job[p].command = "used" /\ o \in Overrides /\ job[p].held \in Records
  BY <1>2 DEF IInv, Work, Releasing, Logging
<1>5. PICK rec : /\ rec = held /\ Exists(rec) /\ rec.status = job[p].held.status
                 /\ rec.uses = job[p].held.uses + 1 /\ rec.serial = job[p].held.serial
                 /\ rec.policy = job[p].held.policy /\ Terms(rec) = Terms(job[p].held)
                 /\ rec.policy \in Policies /\ job[p].held.uses \in Nat
  <2>1. /\ held.status = job[p].held.status /\ held.uses = job[p].held.uses + 1
        /\ held.serial = job[p].held.serial /\ held.policy = job[p].held.policy
        /\ held.allowed = job[p].held.allowed /\ held.created = job[p].held.created
        /\ held.expires = job[p].held.expires
        /\ job[p].held.policy \in Policies /\ job[p].held.uses \in Nat
        /\ job[p].held.status # "none"
    BY <1>4 DEF Records
  <2> HIDE DEF held
  <2> QED
    BY <2>1 DEF Terms, Exists
<1> HIDE DEF held
<1>6. ASSUME alone'
      PROVE  /\ job[p].held = overrides[o] /\ Exists(overrides[o])
             /\ overrides[o].uses < MaxUses[overrides[o].policy]
             /\ job[p].report.override = o /\ job[p].report.terms = Terms(rec)
  BY <1>2, <1>5, <1>6 DEF CountInv, Holding, Holds, Carrying
<1> HIDE DEF o
<1>7. ASSUME alone'
      PROVE  /\ rec.serial \in 0..begun-1 /\ rec.uses <= MaxUses[rec.policy]
             /\ Cardinality(OutBy(releases, o, rec)) <= rec.uses
             /\ Cardinality(OutBy(releases, o, rec)) < rec.uses
  <2>1. /\ overrides[o].serial \in 0..begun-1
        /\ Cardinality(OutBy(releases, o, overrides[o])) <= overrides[o].uses
    BY <1>2, <1>4, <1>6, <1>7 DEF CountInv, Earlier, Counted
  <2>2. OutBy(releases, o, overrides[o]) = OutBy(releases, o, rec)
    BY <1>5, <1>6, <1>7 DEF OutBy
  <2>3. Cardinality(OutBy(releases, o, rec)) \in Nat /\ MaxUses[rec.policy] \in Nat
    BY <1>5, OutFinite, ReleaseAssumption DEF IInv, Types
  <2> QED
    BY <1>5, <1>6, <1>7, <2>1, <2>2, <2>3
<1>8. ASSUME alone', kills = 0
      PROVE  Replays(Append(log, [kind |-> "used", override |-> o]), o, rec)
  <2>1. Replays(log, o, overrides[o])
    BY <1>2, <1>3, <1>4, <1>6, <1>8, SoloReplayed DEF ToldBy, CountInv
  <2>2. log \in Seq([kind : {"requested", "approved", "revoked", "used"}, override : Overrides])
    BY DEF IInv, Types
  <2> QED
    BY <1>5, <1>6, <1>8, <2>1, <2>2, ReplaysUse
<1>9. job'[p].override = o /\ job' = job /\ log' = log
      /\ releases' = releases /\ overrides' = [overrides EXCEPT ![o] = rec]
  BY <1>1, <1>5 DEF o
<1> QED
  BY <1>2, <1>3, <1>4, <1>5, <1>6, <1>7, <1>8, <1>9, OverrideWritten

LEMMA LogCount ==
  ASSUME IInv, IInv', CountInv, NEW p \in Procs, Log(p)
  PROVE  CountInv'
<1> "log" \in Points /\ "report" \in Points
  BY DEF Points
<1>1. /\ pc[p] = "log" /\ log' = Append(log, Event(p))
      /\ UNCHANGED <<overrides, releases, alone, begun, kills>>
      /\ \A q \in Procs \ {p} : pc'[q] = pc[q]
      /\ \/ job[p].command = "used" /\ pc'[p] = "report" /\ job' = job
         \/ pc'[p] = "idle"
  BY GoOn, ExitStep DEF Log, Event, files, history, counts
<1>2. alone' => Solo(p) /\ Solo(p)'
  BY <1>1, SoloStep
<1> SUFFICES ASSUME alone'
             PROVE  /\ Earlier' /\ Counted' /\ (\A q \in Procs : Holding(q))'
                    /\ kills' = 0 => Replayed'
  BY <1>1 DEF CountInv
<1>3. Earlier /\ Counted /\ Holding(p) /\ (kills = 0 => Replayed)
  BY <1>1 DEF CountInv
<1>4. Earlier' /\ Counted'
  BY <1>1, <1>3 DEF Earlier, Counted
<1>5. Holding(p)'
  <2>1. CASE pc'[p] = "idle"
    BY <2>1 DEF Holding, Carrying
  <2>2. CASE job[p].command = "used" /\ pc'[p] = "report" /\ job' = job
    BY <1>1, <1>3, <2>2 DEF Holding, Holds, Carrying
  <2> QED
    BY <1>1, <2>1, <2>2
<1>6. ASSUME kills' = 0 PROVE Replayed'
  <2>1. \A o \in Overrides : Exists(overrides[o]) => Replays(ToldBy(p), o, overrides[o])
    BY <1>1, <1>2, <1>3, <1>6, SoloReplayed
  <2>2. ToldBy(p)' = ToldBy(p)
    BY <1>1 DEF ToldBy
  <2> QED
    BY <1>1, <1>2, <2>1, <2>2, SoloReplays
<1> QED
  BY <1>2, <1>4, <1>5, <1>6, SoloHolding

\* A release is one more of those let out by its override, if it is by one.
LEMMA OneMoreOut ==
  ASSUME NEW S, NEW rels \in Seq(S), NEW rel, NEW o, NEW rec
  PROVE  /\ rel.override # o => OutBy(Append(rels, rel), o, rec) = OutBy(rels, o, rec)
         /\ Cardinality(OutBy(Append(rels, rel), o, rec)) <= Cardinality(OutBy(rels, o, rec)) + 1
<1> DEFINE more == Append(rels, rel)
           n == Len(rels) + 1
<1>1. /\ DOMAIN more = DOMAIN rels \cup {n} /\ more[n] = rel /\ n \notin DOMAIN rels
      /\ \A i \in DOMAIN rels : more[i] = rels[i]
  OBVIOUS
<1> HIDE DEF more, n
<1>2. rel.override # o => OutBy(more, o, rec) = OutBy(rels, o, rec)
  BY <1>1, Zenon DEF OutBy
<1>3. \/ OutBy(more, o, rec) = OutBy(rels, o, rec)
      \/ OutBy(more, o, rec) = OutBy(rels, o, rec) \cup {n}
  BY <1>1 DEF OutBy
<1>4. n \notin OutBy(rels, o, rec)
  BY <1>1 DEF OutBy
<1>5. IsFiniteSet(OutBy(rels, o, rec)) /\ Cardinality(OutBy(rels, o, rec)) \in Nat
  BY OutFinite
<1>6. Cardinality(OutBy(rels, o, rec) \cup {n}) = Cardinality(OutBy(rels, o, rec)) + 1
  BY <1>4, <1>5, FS_AddElement
<1>7. Cardinality(OutBy(more, o, rec)) <= Cardinality(OutBy(rels, o, rec)) + 1
  <2>1. PICK m \in Nat : m = Cardinality(OutBy(rels, o, rec))
    BY <1>5
  <2>2. Cardinality(OutBy(more, o, rec)) \in {m, m + 1}
    BY <1>3, <1>6, <2>1
  <2> QED
    BY <2>1, <2>2
<1> QED
  BY <1>2, <1>7 DEF more

LEMMA ReportedCount ==
  ASSUME IInv, IInv', CountInv, NEW p \in Procs, pc[p] \in {"resolve", "report"}, Exit(p),
         UNCHANGED <<overrides, log, counts>>, NEW rel, releases' = Append(releases, rel),
         \/ rel.override = "none"
         \/ pc[p] = "report" /\ rel = job[p].report
  PROVE  CountInv'
<1>1. /\ UNCHANGED <<alone, begun, kills>> /\ pc'[p] = "idle" /\ pc[p] # "idle" /\ pc[p] # "log"
      /\ \A q \in Procs \ {p} : pc'[q] = pc[q]
  BY ExitStep DEF counts
<1>2. alone' => Solo(p) /\ Solo(p)'
  BY <1>1, SoloStep
<1> SUFFICES ASSUME alone'
             PROVE  /\ Earlier' /\ Counted' /\ (\A q \in Procs : Holding(q))'
                    /\ kills' = 0 => Replayed'
  BY <1>1 DEF CountInv
<1>3. Earlier /\ Counted /\ Holding(p) /\ (kills = 0 => Replayed) /\ Types
  BY <1>1 DEF CountInv, IInv
<1>4. rel.override # "none" =>
        /\ rel.override \in Overrides /\ Exists(overrides[rel.override])
        /\ rel.terms = Terms(overrides[rel.override])
        /\ Cardinality(OutBy(releases, rel.override, overrides[rel.override]))
             < overrides[rel.override].uses
  <2> SUFFICES ASSUME rel.override # "none"
               PROVE  /\ rel.override \in Overrides /\ Exists(overrides[rel.override])
                      /\ rel.terms = Terms(overrides[rel.override])
                      /\ Cardinality(OutBy(releases, rel.override, overrides[rel.override]))
                           < overrides[rel.override].uses
    OBVIOUS
  <2>1. Holds(p, job[p].override) /\ pc[p] = "report" /\ rel = job[p].report
    BY <1>3 DEF Holding, Carrying
  <2> QED
    BY <2>1 DEF Holds
<1>5. releases \in Seq(Reports)
  BY <1>3 DEF Types
<1>6. Earlier'
  <2>1. rel.override # "none" => rel.terms.serial \in 0..begun-1
    BY <1>3, <1>4 DEF Earlier, Terms
  <2>2. ASSUME NEW i \in DOMAIN releases', releases'[i].override # "none"
        PROVE  releases'[i].terms.serial \in 0..begun-1
    <3>1. (i \in DOMAIN releases /\ releases'[i] = releases[i]) \/ releases'[i] = rel
      BY <1>5
    <3> QED
      BY <1>3, <2>1, <2>2, <3>1 DEF Earlier
  <2> QED
    BY <1>1, <1>3, <2>2 DEF Earlier
<1>7. Counted'
  <2> SUFFICES ASSUME NEW o \in Overrides, Exists(overrides[o])
               PROVE  /\ Cardinality(OutBy(releases', o, overrides[o])) <= overrides[o].uses
                      /\ overrides[o].uses <= MaxUses[overrides[o].policy]
    BY DEF Counted
  <2>1. /\ Cardinality(OutBy(releases, o, overrides[o])) <= overrides[o].uses
        /\ overrides[o].uses <= MaxUses[overrides[o].policy]
    BY <1>3 DEF Counted
  <2>2. CASE rel.override # o
    BY <1>5, <2>1, <2>2, OneMoreOut
  <2>3. CASE rel.override = o
    <3>1. o # "none"
      BY ReleaseAssumption
    <3>2. PICK m \in Nat : m = Cardinality(OutBy(releases, o, overrides[o]))
      BY <1>5, OutFinite
    <3>3. PICK n \in Nat : n = Cardinality(OutBy(releases', o, overrides[o]))
      <4>1. releases' \in Seq(Reports)
        BY DEF IInv, Types
      <4> QED
        BY <4>1, OutFinite
    <3>4. n <= m + 1
      BY <1>5, <3>2, <3>3, OneMoreOut
    <3>5. m < overrides[o].uses /\ overrides[o].uses \in Nat
      <4>1. overrides[o].uses \in Nat
        BY <1>3 DEF Types, Exists, NoFile, Records
      <4> QED
        BY <1>4, <2>3, <3>1, <3>2, <4>1
    <3> QED
      BY <2>1, <3>3, <3>4, <3>5
  <2> QED
    BY <2>2, <2>3
<1>8. Holding(p)'
  BY <1>1 DEF Holding, Carrying
<1>9. ASSUME kills' = 0 PROVE Replayed'
  <2>1. \A o \in Overrides : Exists(overrides[o]) => Replays(ToldBy(p), o, overrides[o])
    BY <1>1, <1>2, <1>3, <1>9, SoloReplayed
  <2>2. ToldBy(p) = log /\ ToldBy(p)' = log
    BY <1>1 DEF ToldBy
  <2> QED
    BY <1>2, <2>1, <2>2, SoloReplays
<1> QED
  BY <1>2, <1>6, <1>7, <1>8, <1>9, SoloHolding

LEMMA ReportCount ==
  ASSUME IInv, IInv', CountInv, NEW p \in Procs, Report(p)
  PROVE  CountInv'
BY ReportedCount DEF Report, files

LEMMA ResolveCount ==
  ASSUME IInv, IInv', CountInv, NEW p \in Procs, Resolve(p)
  PROVE  CountInv'
<1> PICK found \in Findings, strict \in BOOLEAN, timed \in BOOLEAN, o \in Overrides,
         asked \in BOOLEAN :
      LET results  == Results(p, found)
          decision == computeDecision(results, strict \/ job[p].policy \in BlockOnWarn)
          rec      == overrides[o]
          applied  == /\ asked /\ decision # "ready"
                      /\ resolvePolicyOverride(rec, job[p].policy,
                                               IF timed THEN now ELSE rec.created)
                      /\ matchOverrideToChecks(rec, results)
      IN  /\ pc[p] = "resolve"
          /\ IF applied
             THEN /\ At(p, "resolve", "use")
                  /\ job' = [job EXCEPT ![p] = [command |-> "used", override |-> o,
                       report |-> Released(p, results, o, Terms(rec))]]
                  /\ UNCHANGED releases
             ELSE /\ Exit(p)
                  /\ releases' = IF decision = "ready"
                                 THEN Append(releases, Released(p, results, "none", NoFile))
                                 ELSE releases
          /\ UNCHANGED <<files, log, now, agreed, counts>>
  BY DEF Resolve
<1> "resolve" \in Points \ {"idle"} /\ "use" \in Points \ {"log"} /\ "idle" \in Points \ {"log"}
  BY DEF Points
<1>1. pc[p] = "resolve" /\ UNCHANGED <<overrides, log, counts>>
  BY DEF files
<1>2. ASSUME overrides[o].status = "approved", overrides[o].uses < MaxUses[overrides[o].policy],
             At(p, "resolve", "use"), UNCHANGED releases,
             NEW report, report.override = o, report.terms = Terms(overrides[o]),
             job' = [job EXCEPT ![p] = [command |-> "used", override |-> o, report |-> report]]
      PROVE  CountInv'
  <2>1. job'[p] = [command |-> "used", override |-> o, report |-> report]
    BY <1>2 DEF IInv, Types
  <2>2. /\ pc'[p] = "use" /\ \A q \in Procs \ {p} : pc'[q] = pc[q]
    BY <1>1, <1>2, GoOn DEF counts
  <2>3. Holding(p)'
    BY <1>1, <1>2, <2>1, <2>2 DEF Holding, Holds, Exists
  <2> QED
    BY <1>1, <1>2, <2>2, <2>3, GoesOnQuietly
<1>3. ASSUME Exit(p), UNCHANGED releases PROVE CountInv'
  <2>1. pc'[p] = "idle" /\ \A q \in Procs \ {p} : pc'[q] = pc[q]
    BY <1>1, <1>3, ExitStep DEF counts
  <2> QED
    BY <1>1, <1>3, <2>1, GoesOnQuietly DEF Holding, Carrying
<1>4. ASSUME Exit(p), NEW rel, rel.override = "none", releases' = Append(releases, rel)
      PROVE  CountInv'
  BY <1>1, <1>4, ReportedCount
<1>5. /\ Released(p, Results(p, found), "none", NoFile).override = "none"
      /\ Released(p, Results(p, found), o, Terms(overrides[o])).override = o
      /\ Released(p, Results(p, found), o, Terms(overrides[o])).terms = Terms(overrides[o])
  BY DEF Released
<1> QED
  BY <1>2, <1>3, <1>4, <1>5 DEF resolvePolicyOverride

LEMMA CountInvStep == IInv /\ IInv' /\ CountInv /\ [Next]_vars => CountInv'
<1> SUFFICES ASSUME IInv, IInv', CountInv, [Next]_vars PROVE CountInv'
  OBVIOUS
<1>1. CASE Tick \/ UNCHANGED vars
  BY <1>1 DEF Tick, vars, files, history, counts, CountInv, Earlier, Counted, Holding, Holds,
              Replayed, Event
<1>2. ASSUME NEW p \in Procs, OverrideStep(p) PROVE CountInv'
  BY <1>2, RequestCount, LoadOverrideCount, DecideCount, LogCount DEF OverrideStep
<1>3. ASSUME NEW p \in Procs, BaselineStep(p) PROVE CountInv'
  BY <1>3, BaselineCount
<1>4. ASSUME NEW p \in Procs, CheckStep(p) PROVE CountInv'
  BY <1>4, ComparingCount, ResolveCount, ReadUseCount, RecordUseCount, ReportCount DEF CheckStep
<1>5. ASSUME NEW p \in Procs, Kill(p) PROVE CountInv'
  BY <1>5, KillCount
<1> QED
  BY <1>1, <1>2, <1>3, <1>4, <1>5 DEF Next

LEMMA InitCount == Init => CountInv
<1> SUFFICES ASSUME Init PROVE CountInv
  OBVIOUS
<1>1. \A o \in Overrides : ~Exists(overrides[o])
  BY DEF Init, Exists, NoFile
<1> QED
  BY <1>1 DEF Init, CountInv, Earlier, Counted, Holding, Replayed, Carrying

\* While no two commands overlap an override lets out no more releases than it has
\* uses and is used no more often than its policy allows, whenever commands are
\* killed; and when none was, the file of an idle system is what replaying the
\* events of the override gives.
THEOREM UsesAreCountedHolds == Spec => []UsesAreCounted
<1>1. CountInv => UsesAreCounted
  <2> SUFFICES ASSUME CountInv, alone, NEW o \in Overrides, Exists(overrides[o])
               PROVE  LET rec == overrides[o]
                          out == {i \in ByOverride : releases[i].override = o
                                                     /\ releases[i].terms = Terms(rec)}
                      IN  /\ Cardinality(out) <= rec.uses /\ rec.uses <= MaxUses[rec.policy]
                          /\ (kills = 0 /\ \A p \in Procs : pc[p] = "idle") =>
                               Replays(log, o, rec)
    BY DEF UsesAreCounted
  <2>1. {i \in ByOverride : releases[i].override = o /\ releases[i].terms = Terms(overrides[o])}
          = OutBy(releases, o, overrides[o])
    BY ReleaseAssumption DEF OutBy, ByOverride
  <2>2. Counted /\ (kills = 0 => Replayed)
    BY DEF CountInv
  <2>3. kills = 0 /\ (\A p \in Procs : pc[p] = "idle") => Replays(log, o, overrides[o])
    BY <2>2 DEF Replayed
  <2> QED
    BY <2>1, <2>2, <2>3 DEF Counted
<1>2. Init => IInv /\ CountInv
  BY InitInv, InitCount
<1>3. (IInv /\ CountInv) /\ [Next]_vars => (IInv /\ CountInv)'
  BY IInvStep, CountInvStep
<1> QED
  BY <1>1, <1>2, <1>3, PTL DEF Spec
=============================================================================
