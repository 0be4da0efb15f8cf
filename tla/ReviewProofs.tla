---------------------------- MODULE ReviewProofs ----------------------------
(***************************************************************************)
(* Of every working tree, every project and every making of a plan: the    *)
(* two judgements of a review agree, and a change that a delivery report   *)
(* calls ready has earned it; a gated run passes its review only on        *)
(* verdicts signed for it, however the files that hold them were handled;  *)
(* a server is claimed ready, a scope called ready, a run archived and a   *)
(* release let out only on what shows it; and advice, the reports on it    *)
(* and the commands tried instead of others are about the project as it    *)
(* is.                                                                     *)
(***************************************************************************)
EXTENDS MCReview, FiniteSetTheorems, TLAPS

RunRecords == [status : Statuses, surface : Surfaces \cup {None}, style : BOOLEAN]
PlanRecords == [status : Statuses, snapshot : {m.snapshot : m \in Makings},
                targets : SUBSET Files, bucket : Buckets]

ReviewTypeOK ==
  /\ tree \in [staged : SUBSET Files, unstaged : SUBSET Files, untracked : SUBSET Files]
  /\ setup \in Projects /\ bucket \in Buckets
  /\ plans \in [Tasks -> PlanRecords \cup {None}]
  /\ runs \in [Tasks -> RunRecords \cup {None}]
  /\ latestRun \in Tasks \cup {None}
  /\ stale \in BOOLEAN

\* A plan is written with its run.
PlansHaveRuns == \A t \in Tasks : plans[t] # None => runs[t] # None

(* What a review is to have read when it is at a point of its way.         *)
InGit(fs) == IF setup.git THEN fs ELSE {}
Targets(t) == IF t = None THEN {} ELSE plans[t].targets

Diff(at) ==
  CASE at = "index" -> {}
    [] at = "tree" -> InGit(tree.staged)
    [] OTHER -> InGit(tree.staged) \cup InGit(tree.unstaged)

Finding(ask) ==
  CASE ask.quality = "none" -> None
    [] ask.quality # "none" /\ ask.elsewhere -> Spotless
    [] OTHER -> runQualityGate(ask.quality = "full")

(* The review under way is at one of its points, was asked for in one of   *)
(* the ways there are, has a quality gate if it asked for one, and has     *)
(* read what there is to be read unless something moved.                   *)
Fields == {"at", "moved", "ask", "task", "run", "plan", "coder", "changed", "diff", "lines", "found"}

UnderWay ==
  look # Idle =>
    /\ DOMAIN look = Fields
    /\ look.at \in {"index", "tree", "quality", "judge"}
    /\ look.moved \in BOOLEAN /\ look.ask \in Asks
    /\ look.task \in Tasks \cup {None} /\ look.run \in Tasks \cup {None}
    /\ look.at = "judge" /\ look.ask.quality # "none" => look.found # None
    /\ ~look.moved =>
         /\ look.task # None => plans[look.task] # None
         /\ look.plan = IF look.task = None THEN None ELSE plans[look.task]
         /\ look.coder = IF look.run = None THEN None ELSE runs[look.run]
         /\ look.diff = Diff(look.at) /\ look.changed = Targets(look.task) \cup Diff(look.at)
         /\ look.at = "judge" => look.found = Finding(look.ask)

(* What an accepting review of what there is stands on.                    *)
Touched(t) == Targets(t) \cup Diff("judge")

Sound(ask, t, r) ==
  /\ t # None /\ plans[t] # None => plans[t].snapshot = "ready"
  /\ r # None /\ runs[r] # None =>
       /\ runs[r].status = "green"
       /\ runs[r].surface # None => Cardinality(Touched(t)) <= runs[r].surface.allowed
  /\ ask.quality # "none" /\ ~ask.elsewhere =>
       Failed(ask.quality = "full") = {} /\ Warned = {}
  /\ Touched(t) \cap Sources # {} => Touched(t) \cap Tests # {}
  /\ Touched(t) \cap Sensitive = {} /\ Diff("judge") \cap Marked = {}
  /\ ~ReviewRequired(bucket)

UpToDate ==
  ~stale => /\ review.verdict \in {"BLOCK", "ACCEPT_WITH_FOLLOWUPS", "ACCEPT"}
            /\ review.verdict = "ACCEPT" => Sound(review.ask, review.task, review.run)

ReviewInv == ReviewTypeOK /\ PlansHaveRuns /\ UnderWay /\ UpToDate /\ VerdictsAgree

------------------------------------------------------------------------------
\* The two judgements of one evidence agree.
LEMMA JudgementsAgree ==
  ASSUME NEW l, l.ask.quality # "none" => l.found # None, NEW v, v = Judged(l)
  PROVE  /\ v.decision = "blocked" => v.verdict = "BLOCK"
         /\ v.verdict = "ACCEPT" =>
              /\ v.decision = "ready" \/ (v.decision = "caution" /\ v.ask.quality = "none")
              /\ v.patch \in {None, "apply"} /\ v.posture # "strict"
         /\ (v.footprint = "reject") <=> (v.patch = "split_or_rollback")
         /\ (v.footprint = "warning") <=> (v.patch = "narrow_patch")
         /\ v.footprint = "reject" => v.verdict = "BLOCK"
<1> DEFINE foot == evaluatePatchFootprint(l)
<1>1. /\ v.verdict = Verdict(l) /\ v.decision = evaluateGate(l) /\ v.footprint = foot
      /\ v.patch = IF HasSurface(l) THEN derivePatchDecision(Assessment(l)) ELSE None
      /\ v.ask = l.ask /\ v.posture = buildReviewPolicy(bucket).posture
  BY DEF Judged
<1>2. foot \in {None, "reject", "warning", "accept"}
  BY DEF evaluatePatchFootprint
<1>3. /\ (foot = "reject") <=> (v.patch = "split_or_rollback")
      /\ (foot = "warning") <=> (v.patch = "narrow_patch")
      /\ v.patch \in {None, "apply", "narrow_patch", "split_or_rollback"}
  <2>1. CASE ~HasSurface(l)
    BY <1>1, <2>1, NoneAssumption DEF evaluatePatchFootprint
  <2>2. CASE HasSurface(l) /\ Assessment(l).exceeded
    BY <1>1, <2>2, NoneAssumption DEF evaluatePatchFootprint, derivePatchDecision
  <2>3. CASE HasSurface(l) /\ ~Assessment(l).exceeded /\ Assessment(l).strays
    BY <1>1, <2>3, NoneAssumption DEF evaluatePatchFootprint, derivePatchDecision
  <2>4. CASE HasSurface(l) /\ ~Assessment(l).exceeded /\ ~Assessment(l).strays
    BY <1>1, <2>4, NoneAssumption DEF evaluatePatchFootprint, derivePatchDecision
  <2> QED BY <2>1, <2>2, <2>3, <2>4
<1>4. foot = "reject" => Blockers(l) # {}
  BY DEF Blockers, When
<1>5. Blockers(l) # {} <=> Verdict(l) = "BLOCK"
  BY DEF Verdict
<1>6. Verdict(l) = "ACCEPT" => Blockers(l) = {} /\ Followups(l) = {}
  BY DEF Verdict
<1>7. foot = "warning" \/ ReviewRequired(bucket) \/ (l.changed \cap Sources # {} /\ Untested(l))
        => Followups(l) # {}
  <2>1. foot = "warning" => "unrelated edits" \in Followups(l)
    BY DEF Followups, When
  <2>2. ReviewRequired(bucket) => "benchmark history" \in Followups(l)
    BY DEF Followups, When
  <2>3. l.changed \cap Sources # {} /\ Untested(l) => "tests" \in Followups(l)
    BY DEF Followups, When
  <2> QED BY <2>1, <2>2, <2>3
<1>8. DOMAIN Rules(l) = {"quality", "tests", "risk", "patch"}
  BY DEF Rules
<1>9. /\ Rules(l)["quality"] = "fail" <=> (l.found # None /\ l.found.failed # {})
      /\ Rules(l)["quality"] = "warn" <=> l.found = None
      /\ Rules(l)["quality"] \in {"pass", "warn", "fail"}
      /\ Rules(l)["tests"] = "warn" <=> (l.changed \cap Sources # {} /\ Untested(l))
      /\ Rules(l)["tests"] \in {"pass", "warn"}
      /\ Rules(l)["risk"] = "warn" <=> ReviewRequired(bucket)
      /\ Rules(l)["risk"] \in {"pass", "warn"}
  BY DEF Rules
<1>10. /\ Rules(l)["patch"] = "fail" <=> foot = "reject"
       /\ Rules(l)["patch"] = "warn" <=> foot = "warning"
       /\ Rules(l)["patch"] \in {"skip", "pass", "warn", "fail"}
  BY <1>2, NoneAssumption DEF Rules
<1>11. evaluateGate(l) = "blocked" => Blockers(l) # {}
  <2> SUFFICES ASSUME evaluateGate(l) = "blocked" PROVE Blockers(l) # {}
    OBVIOUS
  <2>1. \E r \in {"quality", "tests", "risk", "patch"} : Rules(l)[r] = "fail"
    BY <1>8 DEF evaluateGate
  <2>2. CASE Rules(l)["quality"] = "fail"
    BY <1>9, <2>2 DEF Blockers, When
  <2> QED BY <1>4, <1>9, <1>10, <2>1, <2>2
<1>12. Verdict(l) = "ACCEPT" =>
         evaluateGate(l) = "ready" \/ (evaluateGate(l) = "caution" /\ l.ask.quality = "none")
  <2> SUFFICES ASSUME Verdict(l) = "ACCEPT"
               PROVE  evaluateGate(l) = "ready" \/ (evaluateGate(l) = "caution" /\ l.ask.quality = "none")
    OBVIOUS
  <2>1. Rules(l)["tests"] # "warn" /\ Rules(l)["risk"] # "warn" /\ Rules(l)["patch"] # "warn"
    BY <1>6, <1>7, <1>9, <1>10
  <2>2. evaluateGate(l) # "blocked"
    BY <1>6, <1>11
  <2>3. evaluateGate(l) \in {"blocked", "caution", "ready"}
    BY DEF evaluateGate
  <2>4. CASE evaluateGate(l) = "caution"
    <3>1. \E r \in {"quality", "tests", "risk", "patch"} : Rules(l)[r] = "warn"
      BY <1>8, <2>4 DEF evaluateGate
    <3> QED BY <1>9, <2>1, <2>4, <3>1
  <2> QED BY <2>2, <2>3, <2>4
<1>13. Verdict(l) = "ACCEPT" => ~ReviewRequired(bucket)
  BY <1>6, <1>7
<1>14. buildReviewPolicy(bucket).posture = "strict" => ReviewRequired(bucket)
  BY DEF buildReviewPolicy, StrategyBias, ReviewRequired
<1> QED
  BY <1>1, <1>2, <1>3, <1>4, <1>5, <1>6, <1>7, <1>11, <1>12, <1>13, <1>14
------------------------------------------------------------------------------
LEMMA ReviewInvInit == Init => ReviewInv
<1> SUFFICES ASSUME Init PROVE ReviewInv
  OBVIOUS
<1>1. ReviewTypeOK
  BY DEF Init, ReviewTypeOK
<1>2. PlansHaveRuns
  BY DEF Init, PlansHaveRuns
<1> QED BY <1>1, <1>2 DEF Init, ReviewInv, UnderWay, UpToDate, VerdictsAgree

\* A record of a run, and what a gate finds, is something.
LEMMA RecordsAreSome ==
  /\ \A r \in RunRecords : r # None
  /\ \A failed, warned \in SUBSET Checks : [failed |-> failed, warned |-> warned] # None
BY NoneAssumption DEF RunRecords

LEMMA GateFindsSome ==
  ASSUME setup \in Projects, NEW full \in BOOLEAN
  PROVE  runQualityGate(full) # None /\ Spotless # None
<1>1. Failed(full) \in SUBSET Checks
  BY ProjectsAssumption DEF Failed, When, Checks
<1>2. Warned \in SUBSET Checks
  BY DEF Warned, When, Checks
<1> QED BY <1>1, <1>2, RecordsAreSome DEF runQualityGate, Spotless

\* What goes on beside a review leaves its reading and the last report out of date.
LEMMA MovesKeep == ReviewInv /\ Moves => ReviewInv'
<1> SUFFICES ASSUME ReviewInv, Moves PROVE ReviewInv'
  OBVIOUS
<1> USE DEF ReviewInv
<1>1. Move
  BY DEF Moves, Edit, AddFile, Stage, Configure, Measure, Plan, Round
<1>2. /\ stale' = TRUE /\ review' = review
      /\ look' = IF look = Idle THEN Idle ELSE [look EXCEPT !.moved = TRUE]
  BY <1>1 DEF Move
<1>3. UnderWay'
  <2> SUFFICES ASSUME look' # Idle PROVE UnderWay'
    BY DEF UnderWay
  <2>1. look # Idle /\ look' = [look EXCEPT !.moved = TRUE]
    BY <1>2
  <2>2. /\ DOMAIN look' = Fields /\ look'.moved = TRUE
        /\ look'.at = look.at /\ look'.ask = look.ask /\ look'.found = look.found
    BY <2>1 DEF UnderWay, Fields
  <2> QED BY <2>1, <2>2 DEF UnderWay
<1>4. UpToDate' /\ VerdictsAgree'
  BY <1>2 DEF UpToDate, VerdictsAgree
<1>5. CASE Edit
  <2> PICK changed \in Changes : tree' = [tree EXCEPT !.unstaged = @ \cup changed]
    BY <1>5 DEF Edit
  <2>1. ReviewTypeOK'
    BY <1>2, <1>5, ReviewAssumption DEF Edit, ReviewTypeOK
  <2>2. PlansHaveRuns'
    BY <1>5 DEF Edit, PlansHaveRuns
  <2> QED BY <1>3, <1>4, <2>1, <2>2
<1>6. CASE AddFile
  <2>1. ReviewTypeOK'
    BY <1>2, <1>6 DEF AddFile, ReviewTypeOK
  <2>2. PlansHaveRuns'
    BY <1>6 DEF AddFile, PlansHaveRuns
  <2> QED BY <1>3, <1>4, <2>1, <2>2
<1>7. CASE Stage
  <2>1. ReviewTypeOK'
    BY <1>2, <1>7 DEF Stage, ReviewTypeOK
  <2>2. PlansHaveRuns'
    BY <1>7 DEF Stage, PlansHaveRuns
  <2> QED BY <1>3, <1>4, <2>1, <2>2
<1>8. CASE Configure
  <2>1. ReviewTypeOK'
    BY <1>2, <1>8 DEF Configure, ReviewTypeOK
  <2>2. PlansHaveRuns'
    BY <1>8 DEF Configure, PlansHaveRuns
  <2> QED BY <1>3, <1>4, <2>1, <2>2
<1>9. CASE Measure
  <2>1. ReviewTypeOK'
    BY <1>2, <1>9 DEF Measure, ReviewTypeOK
  <2>2. PlansHaveRuns'
    BY <1>9 DEF Measure, PlansHaveRuns
  <2> QED BY <1>3, <1>4, <2>1, <2>2
<1>10. CASE Plan
  <2>1. \E t \in Tasks, r \in RunRecords, q \in PlanRecords :
          runs' = [runs EXCEPT ![t] = r] /\ plans' = [plans EXCEPT ![t] = q] /\ latestRun' = t
    <3> PICK t \in Tasks, m \in Makings :
          /\ runs' = [runs EXCEPT ![t] = [status |-> m.status, surface |-> m.surface, style |-> m.style]]
          /\ plans' = [plans EXCEPT ![t] = [status |-> m.status, snapshot |-> m.snapshot,
                                           targets |-> m.targets, bucket |-> bucket]]
          /\ latestRun' = t
      BY <1>10 DEF Plan
    <3>1. [status |-> m.status, surface |-> m.surface, style |-> m.style] \in RunRecords
      BY MakingsAssumption DEF RunRecords
    <3>2. [status |-> m.status, snapshot |-> m.snapshot, targets |-> m.targets, bucket |-> bucket]
            \in PlanRecords
      BY MakingsAssumption DEF PlanRecords, ReviewTypeOK
    <3> QED BY <3>1, <3>2
  <2>2. PICK t \in Tasks, r \in RunRecords, q \in PlanRecords :
          runs' = [runs EXCEPT ![t] = r] /\ plans' = [plans EXCEPT ![t] = q] /\ latestRun' = t
    BY <2>1
  <2>3. r # None
    BY RecordsAreSome
  <2>4. UNCHANGED <<tree, setup, bucket>>
    BY <1>10 DEF Plan
  <2>5. ReviewTypeOK'
    BY <1>2, <2>2, <2>4 DEF ReviewTypeOK
  <2>6. PlansHaveRuns'
    BY <2>2, <2>3 DEF ReviewTypeOK, PlansHaveRuns
  <2> QED BY <1>3, <1>4, <2>5, <2>6
<1>11. CASE Round
  <2>1. \E t \in Tasks, r \in RunRecords : runs' = [runs EXCEPT ![t] = r] /\ latestRun' = t
    <3> PICK t \in Tasks, status \in {"green", "needs_fix"} :
          runs[t] # None /\ runs' = [runs EXCEPT ![t].status = status] /\ latestRun' = t
      BY <1>11 DEF Round
    <3>1. runs[t] \in RunRecords
      BY DEF ReviewTypeOK
    <3>2. [runs[t] EXCEPT !.status = status] \in RunRecords
      BY <3>1 DEF RunRecords, Statuses
    <3> QED BY <3>2
  <2>2. PICK t \in Tasks, r \in RunRecords : runs' = [runs EXCEPT ![t] = r] /\ latestRun' = t
    BY <2>1
  <2>3. r # None
    BY RecordsAreSome
  <2>4. UNCHANGED <<tree, setup, bucket, plans>>
    BY <1>11 DEF Round
  <2>5. ReviewTypeOK'
    BY <1>2, <2>2, <2>4 DEF ReviewTypeOK
  <2>6. PlansHaveRuns'
    BY <2>2, <2>3, <2>4 DEF ReviewTypeOK, PlansHaveRuns
  <2> QED BY <1>3, <1>4, <2>5, <2>6
<1> QED BY <1>5, <1>6, <1>7, <1>8, <1>9, <1>10, <1>11 DEF Moves

\* What a review accepts without followups is sound.
LEMMA AcceptedIsSound ==
  ASSUME ReviewInv, look # Idle, look.at = "judge", ~look.moved, Verdict(look) = "ACCEPT"
  PROVE  Sound(look.ask, look.task, look.run)
<1> DEFINE t == look.task
           r == look.run
<1>1. /\ look.plan = IF t = None THEN None ELSE plans[t]
      /\ look.coder = IF r = None THEN None ELSE runs[r]
      /\ look.diff = Diff("judge") /\ look.changed = Touched(t)
      /\ look.found = Finding(look.ask) /\ look.ask \in Asks
  BY DEF ReviewInv, UnderWay, Touched
<1>2. Blockers(look) = {} /\ Followups(look) = {}
  BY DEF Verdict
<1>3. look.plan # None => look.plan.snapshot = "ready"
  <2>1. Unready(look) /\ Critical(look) => "snapshot" \in Blockers(look)
    BY DEF Blockers, When
  <2>2. Unready(look) /\ ~Critical(look) => "snapshot" \in Followups(look)
    BY DEF Followups, When
  <2> QED BY <1>2, <2>1, <2>2 DEF Unready
<1>4. look.coder # None => look.coder.status = "green"
  <2>1. look.coder # None /\ look.coder.status # "green" => "coder-loop" \in Blockers(look)
    BY DEF Blockers, When
  <2> QED BY <1>2, <2>1
<1>5. look.coder # None /\ look.coder.surface # None =>
        Cardinality(look.changed) <= look.coder.surface.allowed
  <2> SUFFICES ASSUME look.coder # None, look.coder.surface # None
               PROVE  Cardinality(look.changed) <= look.coder.surface.allowed
    OBVIOUS
  <2>1. evaluatePatchFootprint(look) # "reject"
    <3>1. evaluatePatchFootprint(look) = "reject" => "patch footprint" \in Blockers(look)
      BY DEF Blockers, When
    <3> QED BY <1>2, <3>1
  <2>2. ~Assessment(look).exceeded
    BY <2>1 DEF evaluatePatchFootprint, HasSurface
  <2>3. ~(Cardinality(look.changed) > look.coder.surface.allowed)
    BY <2>2 DEF Assessment
  <2>4. look.coder.surface.allowed \in Nat
    <3>1. r # None /\ look.coder = runs[r]
      BY <1>1
    <3>2. r \in Tasks
      BY <3>1 DEF ReviewInv, UnderWay
    <3>3. runs[r] \in RunRecords
      BY <3>1, <3>2 DEF ReviewInv, ReviewTypeOK
    <3> QED BY <3>1, <3>3 DEF RunRecords, Surfaces
  <2>5. IsFiniteSet(look.changed)
    <3>1. t # None => t \in Tasks /\ plans[t] # None
      BY DEF ReviewInv, UnderWay
    <3>2. Targets(t) \subseteq Files
      BY <3>1 DEF ReviewInv, ReviewTypeOK, PlanRecords, Targets
    <3>3. Diff("judge") \subseteq Files
      BY DEF ReviewInv, ReviewTypeOK, Diff, InGit
    <3> QED BY <1>1, <3>2, <3>3, ReviewAssumption, FS_Subset DEF Touched
  <2>6. Cardinality(look.changed) \in Nat
    BY <2>5, FS_CardinalityType
  <2> QED BY <2>3, <2>4, <2>6
<1>6. look.ask.quality # "none" /\ ~look.ask.elsewhere =>
        Failed(look.ask.quality = "full") = {} /\ Warned = {}
  <2> SUFFICES ASSUME look.ask.quality # "none", ~look.ask.elsewhere
               PROVE  Failed(look.ask.quality = "full") = {} /\ Warned = {}
    OBVIOUS
  <2>1. look.found = runQualityGate(look.ask.quality = "full")
    BY <1>1 DEF Finding
  <2>2. look.found # None
    BY DEF ReviewInv, UnderWay
  <2>3. look.found.failed # {} => "quality gate failed" \in Blockers(look)
    BY <2>2 DEF Blockers, When
  <2>4. look.found.warned # {} => "quality gate warning" \in Followups(look)
    BY <2>2 DEF Followups, When
  <2> QED BY <1>2, <2>1, <2>3, <2>4 DEF runQualityGate
<1>7. look.changed \cap Sources # {} => look.changed \cap Tests # {}
  <2>1. look.changed \cap Sources # {} /\ Untested(look) => "tests" \in Followups(look)
    BY DEF Followups, When
  <2> QED BY <1>2, <2>1 DEF Untested
<1>8. look.changed \cap Sensitive = {}
  <2>1. look.changed \cap Sensitive # {} => "sensitive files" \in Followups(look)
    BY DEF Followups, When
  <2> QED BY <1>2, <2>1
<1>9. look.diff \cap Marked = {}
  <2>1. look.diff \cap Marked # {} => "debug marks" \in Followups(look)
    BY DEF Followups, When
  <2> QED BY <1>2, <2>1
<1>10. ~ReviewRequired(bucket)
  <2>1. ReviewRequired(bucket) => "benchmark history" \in Followups(look)
    BY DEF Followups, When
  <2> QED BY <1>2, <2>1
<1> QED BY <1>1, <1>3, <1>4, <1>5, <1>6, <1>7, <1>8, <1>9, <1>10 DEF Sound

\* A review goes from point to point, and reads there what there is to be read.
LEMMA ReviewsKeep == ReviewInv /\ Reviews => ReviewInv'
<1> SUFFICES ASSUME ReviewInv, Reviews PROVE ReviewInv'
  OBVIOUS
<1> USE DEF ReviewInv
<1>1. UNCHANGED <<tree, setup, bucket, plans, runs, latestRun>>
  BY DEF Reviews, Begin, ReadIndex, ReadTree, Collect, RunQuality, Judge, Kill
<1>2. PlansHaveRuns' /\ (stale' \in BOOLEAN => ReviewTypeOK')
  BY <1>1 DEF PlansHaveRuns, ReviewTypeOK
<1>3. /\ \A at : Diff(at)' = Diff(at)
      /\ \A t : Targets(t)' = Targets(t)
      /\ \A ask : Finding(ask)' = Finding(ask)
      /\ \A t : Touched(t)' = Touched(t)
      /\ \A ask, t, r : Sound(ask, t, r)' = Sound(ask, t, r)
  BY <1>1 DEF Diff, InGit, Targets, Finding, runQualityGate, Failed, Warned, Touched, Sound
<1>4. ASSUME UNCHANGED <<review, stale>>
      PROVE  ReviewTypeOK' /\ VerdictsAgree' /\ UpToDate'
  BY <1>1, <1>2, <1>3, <1>4 DEF ReviewTypeOK, VerdictsAgree, UpToDate
<1> HIDE DEF ReviewInv
<1>5. CASE Begin
  <2> PICK ask \in Asks, t \in {None} \cup {u \in Tasks : plans[u] # None} :
        \E r \in {IF t = None THEN latestRun ELSE t} \cup {u \in Tasks : runs[u] # None} :
          look' = [at |-> "index", moved |-> FALSE, ask |-> ask, task |-> t, run |-> r,
                plan |-> IF t = None THEN None ELSE plans[t],
                coder |-> IF r = None THEN None ELSE runs[r],
                changed |-> IF t = None THEN {} ELSE plans[t].targets,
                diff |-> {}, lines |-> 0, found |-> None]
    BY <1>5 DEF Begin
  <2> PICK r \in {IF t = None THEN latestRun ELSE t} \cup {u \in Tasks : runs[u] # None} :
        look' = [at |-> "index", moved |-> FALSE, ask |-> ask, task |-> t, run |-> r,
                 plan |-> IF t = None THEN None ELSE plans[t],
                 coder |-> IF r = None THEN None ELSE runs[r],
                 changed |-> IF t = None THEN {} ELSE plans[t].targets,
                 diff |-> {}, lines |-> 0, found |-> None]
    OBVIOUS
  <2>1. t \in Tasks \cup {None} /\ r \in Tasks \cup {None} /\ (t # None => plans[t] # None)
    BY DEF ReviewInv, ReviewTypeOK
  <2>2. /\ DOMAIN look' = Fields /\ look'.at = "index" /\ look'.moved = FALSE
        /\ look'.ask = ask /\ look'.task = t /\ look'.run = r
        /\ look'.plan = IF t = None THEN None ELSE plans[t]
        /\ look'.coder = IF r = None THEN None ELSE runs[r]
        /\ look'.changed = Targets(t) /\ look'.diff = {}
    BY DEF Fields, Targets
  <2>3. UnderWay'
    BY <1>1, <1>3, <2>1, <2>2 DEF UnderWay, Diff
  <2> QED BY <1>2, <1>4, <1>5, <2>3 DEF Begin, ReviewInv
<1>6. CASE ReadIndex
  <2>1. /\ look.at = "index" /\ look # Idle
        /\ look' = [look EXCEPT !.at = "tree", !.changed = @ \cup InGit(tree.staged),
                               !.diff = @ \cup InGit(tree.staged),
                               !.lines = @ + MapThenSumSet(LAMBDA f : Lines[f], InGit(tree.staged))]
    BY <1>6 DEF ReadIndex, Collect, InGit, Idle
  <2>2. DOMAIN look = Fields
    BY <2>1 DEF ReviewInv, UnderWay
  <2>3. /\ DOMAIN look' = Fields /\ look'.at = "tree"
        /\ look'.changed = look.changed \cup InGit(tree.staged)
        /\ look'.diff = look.diff \cup InGit(tree.staged)
        /\ look'.moved = look.moved /\ look'.ask = look.ask /\ look'.task = look.task
        /\ look'.run = look.run /\ look'.plan = look.plan /\ look'.coder = look.coder
    BY <2>1, <2>2 DEF Fields
  <2>4. UnderWay'
    BY <1>1, <1>3, <2>1, <2>3 DEF ReviewInv, UnderWay, Diff
  <2> QED BY <1>2, <1>4, <1>6, <2>4 DEF ReadIndex, Collect, ReviewInv
<1>7. CASE ReadTree
  <2>1. /\ look.at = "tree" /\ look # Idle
        /\ look' = [look EXCEPT !.at = "quality", !.changed = @ \cup InGit(tree.unstaged),
                               !.diff = @ \cup InGit(tree.unstaged),
                               !.lines = @ + MapThenSumSet(LAMBDA f : Lines[f], InGit(tree.unstaged))]
    BY <1>7 DEF ReadTree, Collect, InGit, Idle
  <2>2. DOMAIN look = Fields
    BY <2>1 DEF ReviewInv, UnderWay
  <2>3. /\ DOMAIN look' = Fields /\ look'.at = "quality"
        /\ look'.changed = look.changed \cup InGit(tree.unstaged)
        /\ look'.diff = look.diff \cup InGit(tree.unstaged)
        /\ look'.moved = look.moved /\ look'.ask = look.ask /\ look'.task = look.task
        /\ look'.run = look.run /\ look'.plan = look.plan /\ look'.coder = look.coder
    BY <2>1, <2>2 DEF Fields
  <2>4. UnderWay'
    BY <1>1, <1>3, <2>1, <2>3 DEF ReviewInv, UnderWay, Diff
  <2> QED BY <1>2, <1>4, <1>7, <2>4 DEF ReadTree, Collect, ReviewInv
<1>8. CASE RunQuality
  <2> DEFINE found == CASE look.ask.quality = "none" -> None
                        [] look.ask.elsewhere -> Spotless
                        [] OTHER -> runQualityGate(look.ask.quality = "full")
  <2>1. /\ look.at = "quality" /\ look # Idle
        /\ look' = [look EXCEPT !.at = "judge", !.found = found]
    BY <1>8 DEF RunQuality, Idle
  <2>2. DOMAIN look = Fields /\ look.ask \in Asks
    BY <2>1 DEF ReviewInv, UnderWay
  <2>3. /\ found = Finding(look.ask)
        /\ look.ask.quality # "none" => found # None
    <3>1. setup \in Projects
      BY DEF ReviewInv, ReviewTypeOK
    <3>2. /\ runQualityGate(look.ask.quality = "full") # None /\ Spotless # None
      BY <3>1, GateFindsSome
    <3>3. CASE look.ask.quality = "none"
      BY <3>3 DEF Finding
    <3>4. CASE look.ask.quality # "none"
      BY <3>2, <3>4 DEF Finding
    <3> QED BY <3>3, <3>4
  <2> HIDE DEF found
  <2>4. /\ DOMAIN look' = Fields /\ look'.at = "judge" /\ look'.found = found
        /\ look'.moved = look.moved /\ look'.ask = look.ask /\ look'.task = look.task
        /\ look'.run = look.run /\ look'.plan = look.plan /\ look'.coder = look.coder
        /\ look'.changed = look.changed /\ look'.diff = look.diff
    BY <2>1, <2>2 DEF Fields
  <2>5. UnderWay'
    BY <1>1, <1>3, <2>1, <2>3, <2>4 DEF ReviewInv, UnderWay, Diff
  <2> QED BY <1>2, <1>4, <1>8, <2>5 DEF RunQuality, ReviewInv
<1>9. CASE Judge
  <2>1. /\ look.at = "judge" /\ look # Idle /\ review' = Judged(look)
        /\ look' = Idle /\ stale' = look.moved
    BY <1>9 DEF Judge, Idle
  <2>2. /\ look.ask.quality # "none" => look.found # None
        /\ look.moved \in BOOLEAN
    BY <2>1 DEF ReviewInv, UnderWay
  <2>3. VerdictsAgree'
    BY <2>1, <2>2, JudgementsAgree DEF VerdictsAgree
  <2>4. UpToDate'
    <3> SUFFICES ASSUME ~look.moved PROVE UpToDate'
      BY <2>1 DEF UpToDate
    <3>1. /\ review'.verdict = Verdict(look) /\ review'.ask = look.ask
          /\ review'.task = look.task /\ review'.run = look.run
      BY <2>1 DEF Judged
    <3>2. Verdict(look) \in {"BLOCK", "ACCEPT_WITH_FOLLOWUPS", "ACCEPT"}
      BY DEF Verdict
    <3>3. Verdict(look) = "ACCEPT" => Sound(look.ask, look.task, look.run)
      BY <2>1, AcceptedIsSound
    <3> QED BY <1>3, <3>1, <3>2, <3>3 DEF UpToDate
  <2>5. UnderWay' /\ stale' \in BOOLEAN
    BY <2>1, <2>2 DEF UnderWay
  <2> QED BY <1>2, <2>3, <2>4, <2>5 DEF ReviewInv
<1>10. CASE Kill
  <2>1. UnderWay'
    BY <1>10 DEF Kill, UnderWay
  <2> QED BY <1>2, <1>4, <1>10, <2>1 DEF Kill, ReviewInv
<1> QED BY <1>5, <1>6, <1>7, <1>8, <1>9, <1>10 DEF Reviews

LEMMA ReviewStep == ReviewInv /\ [Next]_reviewVars => ReviewInv'
<1> SUFFICES ASSUME ReviewInv, [Next]_reviewVars PROVE ReviewInv'
  OBVIOUS
<1>1. CASE Next
  BY <1>1, MovesKeep, ReviewsKeep DEF Next
<1>2. CASE UNCHANGED reviewVars
  <2>1. ReviewTypeOK' /\ PlansHaveRuns' /\ UnderWay' /\ VerdictsAgree'
    BY <1>2 DEF ReviewInv, reviewVars, ReviewTypeOK, PlansHaveRuns, UnderWay, VerdictsAgree,
         Diff, InGit, Targets, Finding, runQualityGate, Failed, Warned
  <2>2. UpToDate'
    BY <1>2 DEF ReviewInv, reviewVars, UpToDate, Sound, Touched, Diff, InGit, Targets, Failed, Warned
  <2> QED BY <2>1, <2>2 DEF ReviewInv
<1> QED BY <1>1, <1>2

LEMMA ReviewInvariance == Spec => []ReviewInv
BY ReviewInvInit, ReviewStep, PTL DEF Spec

\* A review's verdict, the decision of its evidence bundle and its patch decision never
\* contradict one another, whatever moves while the review reads.
THEOREM VerdictsAgreeHolds == Spec => []VerdictsAgree
<1>1. ReviewInv => VerdictsAgree
  BY DEF ReviewInv
<1> QED BY <1>1, ReviewInvariance, PTL

LEMMA ReadyIsEarnedInv == ReviewInv => ReadyIsEarned
<1> SUFFICES ASSUME ReviewInv, NEW t \in Tasks,
                    plans[t] # None, buildReport(t).level = "ready_to_merge",
                    ~stale, review.task = t, review.run = t,
                    review.ask.quality # "none", ~review.ask.elsewhere, setup.git
             PROVE  LET diff == tree.staged \cup tree.unstaged
                        reach == diff \cup plans[t].targets
                    IN /\ runs[t].status = "green"
                       /\ Failed(review.ask.quality = "full") = {} /\ setup.manifest = "valid"
                       /\ reach \cap Sources # {} => reach \cap Tests # {}
                       /\ reach \cap Sensitive = {} /\ diff \cap Marked = {}
                       /\ plans[t].snapshot = "ready" /\ ~ReviewRequired(bucket)
                       /\ runs[t].surface # None =>
                            Cardinality(reach) <= runs[t].surface.allowed
  BY DEF ReadyIsEarned
<1>1. t # None /\ runs[t] # None
  BY NoneAssumption DEF ReviewInv, PlansHaveRuns
<1>2. review.verdict = "ACCEPT"
  <2>1. review.verdict \in {"BLOCK", "ACCEPT_WITH_FOLLOWUPS", "ACCEPT"}
    BY DEF ReviewInv, UpToDate
  <2>2. deriveDeliveryAdvice(plans[t].status, plans[t].bucket) = "ready_to_merge"
    BY <1>1 DEF buildReport, Report
  <2> QED BY <2>1, <2>2 DEF deriveDeliveryAdvice
<1>3. Sound(review.ask, t, t)
  BY <1>2 DEF ReviewInv, UpToDate
<1>4. /\ Diff("judge") = tree.staged \cup tree.unstaged
      /\ Touched(t) = (tree.staged \cup tree.unstaged) \cup plans[t].targets
  BY <1>1 DEF Diff, InGit, Touched, Targets
<1>5. setup.manifest = "valid"
  <2>1. setup.manifest \in {"valid", "none", "broken"}
    BY ProjectsAssumption DEF ReviewInv, ReviewTypeOK
  <2>2. Failed(review.ask.quality = "full") = {} /\ Warned = {}
    BY <1>3 DEF Sound
  <2>3. setup.manifest = "broken" => "package.json.parse" \in Failed(review.ask.quality = "full")
    BY DEF Failed, When
  <2>4. setup.manifest = "none" => "package.json" \in Warned
    BY DEF Warned, When
  <2> QED BY <2>1, <2>2, <2>3, <2>4
<1> QED BY <1>1, <1>3, <1>4, <1>5 DEF Sound

\* A change that deriveDeliveryAdvice calls ready to merge has earned it, if nothing has
\* moved since the review it stands on began.
THEOREM ReadyIsEarnedHolds == Spec => []ReadyIsEarned
BY ReadyIsEarnedInv, ReviewInvariance, PTL

------------------------------------------------------------------------------
(* The signed reviews of eoc-ultrawork. *)

\* A file holds no signature but what a reviewer has signed.
Signatures == {<<>>} \cup {<<s[1], s[2], s[3], s[4], "list">> : s \in signed}
Documents == [id : Ids, reviewer : Reviewers, verdict : U!ALLOWED_EXTERNAL_VERDICTS,
              findings : {"list", "none", None}, signature : Signatures]

SignedInv ==
  /\ signed \subseteq U!Papers \X Ids \X U!ALLOWED_EXTERNAL_VERDICTS \X Reviewers
  /\ paper \in [U!Papers -> Documents \cup {None}]

LEMMA SignedInvInit == U!Init => SignedInv
BY DEF U!Init, U!EvidenceInit, SignedInv

LEMMA ReviewKeeps == SignedInv /\ U!Review => SignedInv'
<1> SUFFICES ASSUME SignedInv, U!Review PROVE SignedInv'
  OBVIOUS
<1>1. PICK k \in U!Papers, id \in Ids, who \in Reviewers, verdict \in U!ALLOWED_EXTERNAL_VERDICTS :
        /\ paper' = [paper EXCEPT ![k] =
                       [id |-> id, verdict |-> verdict, reviewer |-> who, findings |-> "list",
                        signature |-> <<k, id, verdict, who, "list">>]]
        /\ signed' = signed \cup {<<k, id, verdict, who>>}
  BY DEF U!Review, U!signaturePayload
<1>2. signed' \subseteq U!Papers \X Ids \X U!ALLOWED_EXTERNAL_VERDICTS \X Reviewers
  BY <1>1 DEF SignedInv
<1>3. <<k, id, verdict, who, "list">> \in Signatures' /\ Signatures \subseteq Signatures'
  <2> DEFINE s == <<k, id, verdict, who>>
  <2>1. s \in signed' /\ s[1] = k /\ s[2] = id /\ s[3] = verdict /\ s[4] = who
    BY <1>1
  <2> HIDE DEF s
  <2>2. \E x \in signed' : <<k, id, verdict, who, "list">> = <<x[1], x[2], x[3], x[4], "list">>
    BY <2>1
  <2>3. Signatures' = {<<>>} \cup {<<x[1], x[2], x[3], x[4], "list">> : x \in signed'}
    BY DEF Signatures
  <2>4. signed \subseteq signed'
    BY <1>1
  <2> QED BY <2>2, <2>3, <2>4 DEF Signatures
<1>4. Documents \subseteq Documents'
  BY <1>3 DEF Documents
<1> DEFINE doc == [id |-> id, verdict |-> verdict, reviewer |-> who, findings |-> "list",
                   signature |-> <<k, id, verdict, who, "list">>]
<1>5. doc \in Documents'
  BY <1>3 DEF Documents
<1>6. paper' = [paper EXCEPT ![k] = doc]
  BY <1>1
<1> HIDE DEF doc
<1> QED BY <1>2, <1>4, <1>5, <1>6 DEF SignedInv

LEMMA HandlingKeeps == SignedInv /\ (U!Copy \/ U!Alter) => SignedInv'
<1> SUFFICES ASSUME SignedInv, U!Copy \/ U!Alter PROVE SignedInv'
  OBVIOUS
<1>1. signed' = signed /\ Documents' = Documents
  BY DEF U!Copy, U!Alter, Documents, Signatures
<1>2. SUFFICES \E k \in U!Papers, d \in Documents \cup {None} : paper' = [paper EXCEPT ![k] = d]
  BY <1>1 DEF SignedInv
<1>3. CASE U!Copy
  BY <1>3 DEF U!Copy, SignedInv
<1>4. CASE U!Alter
  <2>1. PICK k \in U!Papers :
          /\ paper[k] # None
          /\ \/ \E id \in Ids : paper' = [paper EXCEPT ![k].id = id]
             \/ \E verdict \in U!ALLOWED_EXTERNAL_VERDICTS : paper' = [paper EXCEPT ![k].verdict = verdict]
             \/ \E findings \in {"list", "none", None} : paper' = [paper EXCEPT ![k].findings = findings]
             \/ paper' = [paper EXCEPT ![k].signature = <<>>]
             \/ paper' = [paper EXCEPT ![k] = None]
    BY <1>4 DEF U!Alter
  <2>2. paper[k] \in Documents
    BY <2>1 DEF SignedInv
  <2>3. /\ \A id \in Ids : [paper[k] EXCEPT !.id = id] \in Documents
        /\ \A v \in U!ALLOWED_EXTERNAL_VERDICTS : [paper[k] EXCEPT !.verdict = v] \in Documents
        /\ \A f \in {"list", "none", None} : [paper[k] EXCEPT !.findings = f] \in Documents
        /\ [paper[k] EXCEPT !.signature = <<>>] \in Documents
    BY <2>2 DEF Documents, Signatures
  <2> QED BY <2>1, <2>3
<1> QED BY <1>3, <1>4

LEMMA SignedInvariance == MCSpec => [](part = "ultrawork" => SignedInv)
<1>1. SignedInv /\ [U!Next]_ultraVars => SignedInv'
  <2> SUFFICES ASSUME SignedInv, [U!Next]_ultraVars PROVE SignedInv'
    OBVIOUS
  <2>1. CASE U!Reviewed
    BY <2>1, ReviewKeeps, HandlingKeeps DEF U!Reviewed
  <2>2. CASE UNCHANGED <<paper, signed>>
    BY <2>2 DEF SignedInv, Documents, Signatures
  <2>3. U!Reviewed \/ UNCHANGED <<paper, signed>>
    BY DEF U!Next, U!Proceed, U!Stop, U!Supply, U!Meddle, U!evidenceVars, ultraVars
  <2> QED BY <2>1, <2>2, <2>3
<1>2. MCInit => (part = "ultrawork" => SignedInv)
  BY SignedInvInit DEF MCInit
<1>3. (part = "ultrawork" => SignedInv) /\ [MCNext]_allVars => (part = "ultrawork" => SignedInv)'
  BY <1>1 DEF MCNext, allVars
<1> QED BY <1>2, <1>3, PTL DEF MCSpec

\* runReviewEvidenceGate passes a run only on verdicts that trusted reviewers signed, each
\* for this review of this run, whoever copied or edited the files since.
THEOREM ReviewsAreSignedHolds == MCSpec => []ReviewsAreSigned
<1>1. SignedInv => U!ReviewsAreSigned
  <2> SUFFICES ASSUME SignedInv, NEW id \in Ids, U!runReviewEvidenceGate(id), NEW k \in U!Papers
               PROVE  \E who \in Trusted, v \in {"APPROVE", "APPROVE_WITH_WARNINGS"} :
                        <<k, id, v, who>> \in signed
    BY DEF U!ReviewsAreSigned
  <2> DEFINE doc == paper[k]
  <2>1. /\ doc # None /\ doc.id = id /\ doc.reviewer \in Trusted
        /\ doc.signature = <<k, id, doc.verdict, doc.reviewer, doc.findings>>
        /\ doc.verdict # "REJECT"
    BY DEF U!runReviewEvidenceGate, U!readVerdict, U!signaturePayload
  <2>2. doc.signature \in Signatures /\ doc.verdict \in {"APPROVE", "APPROVE_WITH_WARNINGS"}
    BY <2>1 DEF SignedInv, Documents, U!ALLOWED_EXTERNAL_VERDICTS
  <2>3. PICK s \in signed : doc.signature = <<s[1], s[2], s[3], s[4], "list">>
    BY <2>1, <2>2 DEF Signatures
  <2>4. s = <<s[1], s[2], s[3], s[4]>>
    BY DEF SignedInv
  <2>5. s[1] = k /\ s[2] = id /\ s[3] = doc.verdict /\ s[4] = doc.reviewer
    BY <2>1, <2>3
  <2>6. <<k, id, doc.verdict, doc.reviewer>> \in signed
    BY <2>4, <2>5
  <2> QED BY <2>1, <2>2, <2>6
<1>2. (part = "ultrawork" => SignedInv) => ReviewsAreSigned
  BY <1>1 DEF ReviewsAreSigned
<1> QED BY <1>2, SignedInvariance, PTL
------------------------------------------------------------------------------
(* The readiness of language servers.  While no server was exchanged, what *)
(* a process remembers of a place is what is there, a report's probe is of *)
(* the place that would be found now, and a scenario that was answered was *)
(* answered by a server that starts.                                       *)

Places == {"explicit", "discovered", "path"}

ReadinessTypeOK ==
  /\ DOMAIN places = P!Languages /\ \A l \in P!Languages : DOMAIN places[l] = Places
  /\ DOMAIN cache = P!Languages /\ \A l \in P!Languages : DOMAIN cache[l] = Places
  /\ DOMAIN probes = P!Languages
  /\ DOMAIN results = P!Languages /\ \A l \in P!Languages : DOMAIN results[l] = P!Scenarios
  /\ swaps \in Nat
  /\ phase = "reported" => \A l \in P!Languages : probes[l] # None

CacheIsTrue == \A l \in P!Languages, at \in Places :
  cache[l][at] # None => cache[l][at].server = places[l][at]

ProbeIsTrue(l, probe) ==
  probe.at = P!resolveServerSpec(l) /\ probe.server = places[l][probe.at]

Starts(l) == places[l][P!resolveServerSpec(l)] \notin {"broken", "missing"}

\* What is remembered or reported of a place has been there.
HeldOK ==
  /\ DOMAIN held = P!Languages /\ \A l \in P!Languages : DOMAIN held[l] = Places
  /\ \A l \in P!Languages, at \in Places :
       /\ places[l][at] \in held[l][at]
       /\ cache[l][at] # None => cache[l][at].server \in held[l][at]
  /\ \A l \in P!Languages : probes[l] # None =>
       probes[l].at \in Places /\ probes[l].server \in held[l][probes[l].at]

ReadinessInv ==
  /\ ReadinessTypeOK /\ HeldOK
  /\ swaps = 0 =>
       /\ CacheIsTrue
       /\ \A l \in P!Languages : probes[l] # None => ProbeIsTrue(l, probes[l])
       /\ \A l \in P!Languages, s \in P!Scenarios :
            results[l][s] # None /\ results[l][s].ok => Starts(l)

LEMMA ResolvesToPlace == \A l : P!resolveServerSpec(l) \in Places
BY DEF P!resolveServerSpec, Places

\* A probe is of the place that is found, and says what is there if what is remembered does.
LEMMA ProbesAreTrue ==
  ASSUME NEW l \in P!Languages, NEW probe \in P!probesOf(l)
  PROVE  /\ probe.at = P!resolveServerSpec(l)
         /\ CacheIsTrue => ProbeIsTrue(l, probe)
         /\ HeldOK => probe.server \in held[l][probe.at]
<1> DEFINE at == P!resolveServerSpec(l)
           Said(ok) == [at |-> at, server |-> places[l][at], ok |-> ok,
                        lacking |-> P!buildEnvironmentSnapshot(l)]
<1>1. \/ \E ok : probe = Said(ok)
      \/ cache[l][at] # None /\ probe = [Said(cache[l][at].ok) EXCEPT !.server = cache[l][at].server]
  BY DEF P!probesOf
<1>2. CASE \E ok : probe = Said(ok)
  BY <1>2, ResolvesToPlace DEF ProbeIsTrue, HeldOK
<1>3. CASE cache[l][at] # None /\ probe = [Said(cache[l][at].ok) EXCEPT !.server = cache[l][at].server]
  <2>1. probe.at = at /\ probe.server = cache[l][at].server
    BY <1>3
  <2>2. at \in Places
    BY ResolvesToPlace
  <2> QED BY <1>3, <2>1, <2>2 DEF ProbeIsTrue, CacheIsTrue, HeldOK
<1> QED BY <1>1, <1>2, <1>3

\* What is remembered of a true probe is true.
LEMMA RememberedIsTrue ==
  ASSUME NEW l \in P!Languages, NEW probe, probe.at \in Places, NEW known, NEW next,
         next = P!With(known, l, probe),
         DOMAIN known = P!Languages, \A k \in P!Languages : DOMAIN known[k] = Places
  PROVE  /\ DOMAIN next = P!Languages /\ \A k \in P!Languages : DOMAIN next[k] = Places
         /\ \A k \in P!Languages, at \in Places :
              \/ next[k][at] = known[k][at]
              \/ k = l /\ at = probe.at /\ next[k][at].server = probe.server
<1>1. CASE probe.server = None
  BY <1>1 DEF P!With
<1>2. CASE probe.server # None
  <2> DEFINE new == [server |-> probe.server, ok |-> probe.ok]
  <2>1. next = [known EXCEPT ![l] = [known[l] EXCEPT ![probe.at] = new]]
    BY <1>2 DEF P!With
  <2>2. new.server = probe.server
    OBVIOUS
  <2> HIDE DEF new
  <2>3. DOMAIN next = P!Languages /\ \A k \in P!Languages : DOMAIN next[k] = Places
    BY <2>1
  <2>4. \A k \in P!Languages, at \in Places :
          next[k][at] = IF k = l /\ at = probe.at THEN new ELSE known[k][at]
    BY <2>1
  <2> QED BY <2>2, <2>3, <2>4
<1> QED BY <1>1, <1>2

LEMMA ReadinessInit == P!ReadinessInit => ReadinessInv
<1> SUFFICES ASSUME P!ReadinessInit PROVE ReadinessInv
  OBVIOUS
<1>1. /\ cache = [l \in P!Languages |-> [at \in DOMAIN P!Holds |-> None]]
      /\ probes = [l \in P!Languages |-> None]
      /\ results = [l \in P!Languages |-> [s \in P!Scenarios |-> None]]
      /\ swaps = 0 /\ places \in Worlds /\ phase = "started"
      /\ held = [l \in P!Languages |-> [at \in DOMAIN P!Holds |-> {places[l][at]}]]
  BY DEF P!ReadinessInit
<1>2. DOMAIN P!Holds = Places
  BY DEF P!Holds, Places
<1> QED BY <1>1, <1>2, WorldsAssumption DEF ReadinessInv, ReadinessTypeOK, HeldOK, CacheIsTrue, P!Languages, Places

LEMMA ReadinessStep == ReadinessInv /\ [P!ReadinessNext]_readinessVars => ReadinessInv'
<1> SUFFICES ASSUME ReadinessInv, [P!ReadinessNext]_readinessVars PROVE ReadinessInv'
  OBVIOUS
<1> USE DEF ReadinessInv
<1>1. ASSUME UNCHANGED <<places, toolchain>>
      PROVE  \A l : /\ P!resolveServerSpec(l)' = P!resolveServerSpec(l) /\ Starts(l)' = Starts(l)
                    /\ \A probe : ProbeIsTrue(l, probe)' = ProbeIsTrue(l, probe)
  BY <1>1 DEF P!resolveServerSpec, Starts, ProbeIsTrue
<1>2. ASSUME NEW l \in P!Languages, NEW probe \in P!probesOf(l), P!Remember(l, probe),
             UNCHANGED <<places, toolchain, probes, swaps, held>>
      PROVE  /\ DOMAIN cache' = P!Languages /\ \A k \in P!Languages : DOMAIN cache'[k] = Places
             /\ HeldOK'
             /\ swaps = 0 => ProbeIsTrue(l, probe) /\ CacheIsTrue'
  <2>1. /\ probe.at \in Places /\ (CacheIsTrue => ProbeIsTrue(l, probe))
        /\ probe.server \in held[l][probe.at]
    BY ProbesAreTrue, ResolvesToPlace
  <2>2. cache' = P!With(cache, l, probe)
    BY <1>2 DEF P!Remember
  <2>3. /\ DOMAIN cache' = P!Languages /\ \A k \in P!Languages : DOMAIN cache'[k] = Places
        /\ \A k \in P!Languages, at \in Places :
             \/ cache'[k][at] = cache[k][at]
             \/ k = l /\ at = probe.at /\ cache'[k][at].server = probe.server
    BY <2>1, <2>2, RememberedIsTrue DEF ReadinessTypeOK
  <2>4. HeldOK'
    BY <1>2, <2>1, <2>3 DEF HeldOK
  <2> QED BY <1>2, <2>1, <2>3, <2>4 DEF CacheIsTrue, ProbeIsTrue
<1>3. ASSUME NEW go \in P!probesOf("go"), NEW java \in P!probesOf("java"), P!describeProviders(go, java),
             UNCHANGED <<places, held>>
      PROVE  /\ DOMAIN cache' = P!Languages /\ \A k \in P!Languages : DOMAIN cache'[k] = Places
             /\ \A k \in P!Languages, at \in Places : cache'[k][at] # None => cache'[k][at].server \in held[k][at]
             /\ CacheIsTrue => CacheIsTrue'
  <2>2. "go" \in P!Languages /\ "java" \in P!Languages
    BY DEF P!Languages
  <2>3. /\ go.at \in Places /\ java.at \in Places
        /\ go.server \in held["go"][go.at] /\ java.server \in held["java"][java.at]
        /\ CacheIsTrue => go.server = places["go"][go.at] /\ java.server = places["java"][java.at]
    BY <2>2, ProbesAreTrue, ResolvesToPlace DEF ProbeIsTrue
  <2> DEFINE half == P!With(cache, "go", go)
  <2>4. /\ DOMAIN half = P!Languages /\ \A k \in P!Languages : DOMAIN half[k] = Places
        /\ \A k \in P!Languages, at \in Places :
             half[k][at] = cache[k][at] \/ (k = "go" /\ at = go.at /\ half[k][at].server = go.server)
    BY <2>2, <2>3, RememberedIsTrue DEF ReadinessTypeOK
  <2>5. cache' = P!With(half, "java", java)
    BY <1>3 DEF P!describeProviders
  <2> HIDE DEF half
  <2>6. /\ DOMAIN cache' = P!Languages /\ \A k \in P!Languages : DOMAIN cache'[k] = Places
        /\ \A k \in P!Languages, at \in Places :
             cache'[k][at] = half[k][at] \/ (k = "java" /\ at = java.at /\ cache'[k][at].server = java.server)
    BY <2>2, <2>3, <2>4, <2>5, RememberedIsTrue
  <2>7. \A k \in P!Languages, at \in Places :
          \/ cache'[k][at] = cache[k][at]
          \/ k = "go" /\ at = go.at /\ cache'[k][at].server = go.server
          \/ k = "java" /\ at = java.at /\ cache'[k][at].server = java.server
    BY <2>4, <2>6
  <2>8. \A k \in P!Languages, at \in Places : cache'[k][at] # None => cache'[k][at].server \in held[k][at]
    BY <2>3, <2>7 DEF HeldOK
  <2>9. CacheIsTrue => CacheIsTrue'
    BY <1>3, <2>3, <2>7 DEF CacheIsTrue
  <2> QED BY <2>6, <2>8, <2>9
<1>4. CASE P!Describe
  <2>1. PICK go \in P!probesOf("go"), java \in P!probesOf("java") :
          /\ P!describeProviders(go, java) /\ phase' = "running"
          /\ UNCHANGED <<places, toolchain, assumed, probes, results, swaps, held>>
    BY <1>4 DEF P!Describe
  <2>2. /\ DOMAIN cache' = P!Languages /\ \A k \in P!Languages : DOMAIN cache'[k] = Places
        /\ \A k \in P!Languages, at \in Places : cache'[k][at] # None => cache'[k][at].server \in held[k][at]
        /\ CacheIsTrue => CacheIsTrue'
    BY <1>3, <2>1
  <2>3. ReadinessTypeOK' /\ HeldOK'
    BY <2>1, <2>2 DEF ReadinessTypeOK, HeldOK
  <2>4. \A l : /\ Starts(l)' = Starts(l)
              /\ \A probe : ProbeIsTrue(l, probe)' = ProbeIsTrue(l, probe)
    BY <1>1, <2>1
  <2> QED BY <2>1, <2>2, <2>3, <2>4
<1>5. ASSUME NEW l \in P!Languages, P!Begin(l) PROVE ReadinessInv'
  <2>1. PICK go \in P!probesOf("go"), java \in P!probesOf("java") :
          /\ probes' = [probes EXCEPT ![l] = IF l = "go" THEN go ELSE java] /\ P!describeProviders(go, java)
          /\ phase = "running" /\ UNCHANGED <<places, toolchain, assumed, results, phase, swaps, held>>
    BY <1>5 DEF P!Begin
  <2> DEFINE probe == IF l = "go" THEN go ELSE java
  <2>2. probe \in P!probesOf(l)
    BY DEF P!Languages
  <2>3. probes' = [probes EXCEPT ![l] = probe]
    BY <2>1
  <2> HIDE DEF probe
  <2>4. /\ DOMAIN cache' = P!Languages /\ \A k \in P!Languages : DOMAIN cache'[k] = Places
        /\ \A k \in P!Languages, at \in Places : cache'[k][at] # None => cache'[k][at].server \in held[k][at]
        /\ CacheIsTrue => CacheIsTrue'
    BY <1>3, <2>1
  <2>5. /\ probe.at \in Places /\ (CacheIsTrue => ProbeIsTrue(l, probe))
        /\ probe.server \in held[l][probe.at]
    BY <2>2, ProbesAreTrue, ResolvesToPlace
  <2>6. ReadinessTypeOK' /\ HeldOK'
    BY <2>1, <2>3, <2>4, <2>5 DEF ReadinessTypeOK, HeldOK
  <2>7. swaps' = 0 => CacheIsTrue' /\ \A k \in P!Languages : probes'[k] # None => ProbeIsTrue(k, probes'[k])
    BY <2>1, <2>3, <2>4, <2>5 DEF ReadinessTypeOK
  <2> QED BY <1>1, <2>1, <2>6, <2>7
<1>6. ASSUME NEW l \in P!Languages, P!runScenario(l) PROVE ReadinessInv'
  <2>1. PICK probe \in P!probesOf(l), result \in {P!Fails} \cup Answers :
          /\ result # P!Fails => probe.ok /\ places[l][probe.at] \notin {"broken", "missing"}
          /\ results' = [results EXCEPT ![l][P!Upcoming(l)] = result]
          /\ P!Remember(l, probe) /\ UNCHANGED <<places, toolchain, assumed, probes, phase, swaps, held>>
    BY <1>6 DEF P!runScenario
  <2>2. P!Upcoming(l) \in P!Scenarios
    BY DEF P!Upcoming, P!Scenarios
  <2>3. results' = [results EXCEPT ![l] = [results[l] EXCEPT ![P!Upcoming(l)] = result]]
    BY <2>1
  <2>4. /\ DOMAIN results' = P!Languages /\ \A k \in P!Languages : DOMAIN results'[k] = P!Scenarios
        /\ \A k \in P!Languages, s \in P!Scenarios :
             results'[k][s] = IF k = l /\ s = P!Upcoming(l) THEN result ELSE results[k][s]
    BY <2>2, <2>3 DEF ReadinessTypeOK
  <2>5. swaps = 0 /\ result.ok => Starts(l)
    BY <1>2, <2>1 DEF P!Fails, ProbeIsTrue, Starts
  <2>6. ReadinessTypeOK'
    BY <1>2, <2>1, <2>4 DEF ReadinessTypeOK
  <2>7. HeldOK' /\ (swaps' = 0 => CacheIsTrue')
    BY <1>2, <2>1
  <2>8. swaps' = 0 => \A k \in P!Languages, s \in P!Scenarios :
          results'[k][s] # None /\ results'[k][s].ok => Starts(k)'
    BY <1>1, <2>1, <2>4, <2>5
  <2>9. UNCHANGED <<probes, swaps>> /\ \A k, p : ProbeIsTrue(k, p)' = ProbeIsTrue(k, p)
    BY <1>1, <2>1
  <2> QED BY <2>6, <2>7, <2>8, <2>9
<1>7. CASE P!Change
  <2>1. PICK l \in P!Languages, at \in DOMAIN P!Holds :
          \E server \in P!Holds[at] : /\ places' = [places EXCEPT ![l][at] = server]
                                     /\ held' = [held EXCEPT ![l][at] = held[l][at] \cup {server}]
    BY <1>7 DEF P!Change
  <2>2. PICK server \in P!Holds[at] : /\ places' = [places EXCEPT ![l] = [places[l] EXCEPT ![at] = server]]
                                      /\ held' = [held EXCEPT ![l][at] = held[l][at] \cup {server}]
    BY <2>1
  <2>3. DOMAIN places' = P!Languages /\ \A k \in P!Languages : DOMAIN places'[k] = Places
    BY <2>2 DEF ReadinessTypeOK
  <2>4. swaps' = swaps + 1 /\ UNCHANGED <<cache, probes, results, phase>>
    BY <1>7 DEF P!Change
  <2>5. HeldOK'
    <3>1. at \in Places
      BY DEF P!Holds, Places
    <3>2. held' = [held EXCEPT ![l] = [held[l] EXCEPT ![at] = held[l][at] \cup {server}]]
      BY <2>2
    <3> QED BY <2>2, <2>4, <3>1, <3>2 DEF HeldOK, ReadinessTypeOK
  <2> QED BY <2>3, <2>4, <2>5 DEF ReadinessTypeOK
<1>8. CASE P!Report \/ UNCHANGED readinessVars
  <2>1. /\ UNCHANGED <<places, toolchain, cache, probes, results, swaps, held>>
        /\ phase' = phase \/ \A l \in P!Languages : probes[l] # None
    BY <1>8 DEF P!Report, readinessVars
  <2>2. ReadinessTypeOK' /\ HeldOK' /\ (swaps = 0 => CacheIsTrue')
    BY <2>1 DEF ReadinessTypeOK, HeldOK, CacheIsTrue
  <2>3. \A l : /\ Starts(l)' = Starts(l)
              /\ \A probe : ProbeIsTrue(l, probe)' = ProbeIsTrue(l, probe)
    BY <1>1, <2>1
  <2> QED BY <2>1, <2>2, <2>3
<1> QED BY <1>4, <1>5, <1>6, <1>7, <1>8 DEF P!ReadinessNext

\* lsp-production-readiness calls renames ready for production only on scenarios that were
\* answered and left the new name in a file, by a server that is real or vouched for, and
\* a language's blockers tell whether, and at which stage, it is pending.
THEOREM ClaimsAreProvenHolds == MCSpec => []ClaimsAreProven
<1>1. ReadinessInv => P!ClaimsAreProven
  <2> SUFFICES ASSUME ReadinessInv, phase = "reported" PROVE P!ClaimsAreProven
    BY DEF P!ClaimsAreProven
  <2>1. ASSUME NEW l \in P!Languages, P!evaluateLanguage(l)
        PROVE  /\ \A s \in P!Scenarios : results[l][s].ok /\ results[l][s].renamed # "none"
               /\ ~assumed => held[l][probes[l].at] \cap {"real", "broken"} # {}
               /\ swaps = 0 /\ ~assumed => places[l][P!resolveServerSpec(l)] = "real"
    <3>1. \A s \in P!Scenarios : results[l][s] # None /\ results[l][s].ok /\ results[l][s].renamed # "none"
      BY <2>1 DEF P!evaluateLanguage, P!Passed, P!Passes, P!verifyScenarioOutcome
    <3>2. probes[l].ok /\ (assumed \/ probes[l].server \in {"real", "broken"})
      BY <2>1 DEF P!evaluateLanguage, P!Available, P!Real, P!detectServerIdentity
    <3>3. swaps = 0 => Starts(l)
      BY <3>1 DEF ReadinessInv, P!Scenarios
    <3>4. ~assumed => held[l][probes[l].at] \cap {"real", "broken"} # {}
      BY <3>2 DEF ReadinessInv, ReadinessTypeOK, HeldOK
    <3> QED BY <3>1, <3>2, <3>3, <3>4 DEF ReadinessInv, ReadinessTypeOK, ProbeIsTrue, Starts
  <2>2. P!production_claim_ready => \A l \in P!Languages : P!evaluateLanguage(l)
    BY DEF P!production_claim_ready, P!claimable
  <2>3. \A l \in P!Languages :
          l \in P!claimable <=> P!buildLanguageClaimBlockers(l) \subseteq {"prepare_rename_not_confirmed"}
    BY DEF P!claimable, P!evaluateLanguage, P!buildLanguageClaimBlockers, P!When
  <2>4. \A l \in P!Languages :
          P!deriveReadinessStage(l) = "verification_blocked"
            <=> P!buildLanguageClaimBlockers(l)
                  \cap {"missing_real_server", "server_unavailable", "real_server_not_verified"} # {}
    BY DEF P!deriveReadinessStage, P!evaluateLanguage, P!buildLanguageClaimBlockers, P!When
  <2> QED BY <2>1, <2>2, <2>3, <2>4 DEF P!ClaimsAreProven
<1>2. (part = "readiness" => ReadinessInv) => ClaimsAreProven
  BY <1>1 DEF ClaimsAreProven
<1>3. MCInit => (part = "readiness" => ReadinessInv)
  BY ReadinessInit DEF MCInit
<1>4. (part = "readiness" => ReadinessInv) /\ [MCNext]_allVars => (part = "readiness" => ReadinessInv)'
  BY ReadinessStep DEF MCNext, allVars
<1> QED BY <1>2, <1>3, <1>4, PTL DEF MCSpec
------------------------------------------------------------------------------
(* The benchmark history. *)

\* A set of numbers that is finite and not empty has a greatest.
LEMMA MaxIsGreatest ==
  ASSUME NEW S \in SUBSET Int, IsFiniteSet(S), S # {}
  PROVE  Max(S) \in S /\ \A y \in S : y <= Max(S)
<1> DEFINE Above(m) == {y \in S : y > m}
           F == {Above(m) : m \in S}
           R == StrictSubsetOrdering(S)
<1>1. IsWellFoundedOn(R, FiniteSubsetsOf(S))
  BY FS_StrictSubsetOrderingWellFounded
<1>2. F \subseteq FiniteSubsetsOf(S) /\ F # {}
  <2>1. \A m \in S : Above(m) \in SUBSET S /\ IsFiniteSet(Above(m))
    BY FS_Subset
  <2> QED BY <2>1 DEF FiniteSubsetsOf
<1> HIDE DEF R, F
<1>3. PICK T \in F : \A V \in F : ~(<<V, T>> \in R)
  BY <1>1, <1>2, WFMin
<1>4. PICK m \in S : T = Above(m)
  BY DEF F
<1>5. ASSUME NEW y \in S PROVE y <= m
  <2> SUFFICES ASSUME y > m PROVE FALSE
    OBVIOUS
  <2>1. Above(y) \subseteq T /\ y \in T /\ y \notin Above(y)
    <3>1. \A z \in S : z \in Int
      OBVIOUS
    <3>2. y \in T /\ y \notin Above(y)
      BY <1>4, <3>1
    <3>3. \A z \in Above(y) : z \in S /\ z > m
      BY <3>1
    <3> QED BY <1>4, <3>2, <3>3
  <2>3. Above(y) \in F
    BY DEF F
  <2>2. <<Above(y), T>> \in R
    <3>1. Above(y) \in SUBSET S /\ T \in SUBSET S
      BY <1>4
    <3> HIDE DEF Above
    <3>2. Above(y) # T
      BY <2>1
    <3> QED BY <2>1, <3>1, <3>2 DEF R, StrictSubsetOrdering
  <2> QED BY <1>3, <2>2, <2>3
<1> QED BY <1>5 DEF Max

\* The operators of the modules that a part extends are those of this one.
LEMMA SameOperators == \A S : B!Cardinality(S) = Cardinality(S) /\ B!Max(S) = Max(S)
BY DEF B!Cardinality, Cardinality, B!Max, Max

LEMMA IdsAreFinite ==
  /\ \A S : S \subseteq B!RunIds => S \in SUBSET Int /\ S \in SUBSET Nat /\ IsFiniteSet(S)
  /\ B!Readable \subseteq B!RunIds
<1>1. B!RunIds \subseteq Int /\ B!RunIds \subseteq Nat /\ IsFiniteSet(B!RunIds)
  BY CasesAssumption, FS_Interval DEF B!RunIds
<1> QED BY <1>1, FS_Subset DEF B!Readable

\* What a run's file is to hold, and the runs that were ever written.
ResultsOf(o) == [c \in Cases |-> IF o[c] = None THEN None ELSE B!evaluateCase(c, o[c])]
IsRun(r) == r.week \in Nat /\ r.outcomes \in Suites /\ r.results = ResultsOf(r.outcomes)
Written == {i \in B!RunIds : files[i] # None} \cup archived

\* The readable runs that an archive under way has not found to move, newer than another.
Kept(i) == {j \in B!Readable \ sweep.left : j > i}

HistoryTypeOK ==
  /\ week \in Nat /\ DOMAIN files = B!RunIds /\ archived \subseteq B!RunIds
  /\ \A i \in B!Readable : IsRun(files[i])
  /\ baseline # None => IsRun(baseline.run)
  /\ \E n \in Nat : Written = 1..n

\* An archive moves runs that are old enough, that enough others are newer than which
\* stay, and that nothing stands on unless something happened since it looked.
SweepIsSafe == sweep # None =>
  /\ DOMAIN sweep = {"policy", "left", "disturbed"}
  /\ sweep.policy \in Presets /\ sweep.left \subseteq B!Readable
  /\ \A i \in sweep.left :
       /\ week - files[i].week > sweep.policy.aging
       /\ Cardinality(Kept(i)) >= sweep.policy.runs
       /\ i \in B!collectProtectedRunIds => sweep.disturbed

HistoryInv == HistoryTypeOK /\ SweepIsSafe

\* The newest of those that are newer than a run which has `limit' of them are `limit'.
LEMMA NewestAreEnough ==
  ASSUME NEW i \in B!Readable, NEW limit \in Nat, i \notin B!readBenchmarkRuns(limit)
  PROVE  Cardinality({j \in B!readBenchmarkRuns(limit) : j > i}) >= limit
<1> DEFINE Newer(j) == {k \in B!Readable : k > j}
           W == B!readBenchmarkRuns(limit)
           W1 == {j \in W : j > i}
<1>1. /\ \A j \in B!Readable : j \in Int
      /\ \A j : IsFiniteSet(Newer(j)) /\ Cardinality(Newer(j)) \in Nat
      /\ IsFiniteSet(W1) /\ Cardinality(W1) \in Nat
  <2>1. \A j : Newer(j) \subseteq B!RunIds
    BY IdsAreFinite
  <2>2. W1 \subseteq B!RunIds
    BY IdsAreFinite DEF B!readBenchmarkRuns
  <2> QED BY <2>1, <2>2, IdsAreFinite, FS_CardinalityType
<1>2. \A j \in B!Readable : j \in W <=> Cardinality(Newer(j)) < limit
  <2>1. W = {j \in B!Readable : Cardinality(Newer(j)) < limit}
    BY SameOperators DEF B!readBenchmarkRuns
  <2> HIDE DEF W, Newer
  <2> QED BY <2>1
<1>3. Cardinality(Newer(i)) >= limit
  BY <1>1, <1>2
<1>4. W1 \subseteq Newer(i)
  BY DEF B!readBenchmarkRuns
<1>5. CASE Newer(i) \subseteq W
  <2>1. W1 = Newer(i)
    BY <1>4, <1>5
  <2> QED BY <1>3, <2>1
<1>6. CASE ~(Newer(i) \subseteq W)
  <2> DEFINE D == Newer(i) \ W
  <2>1. D \in SUBSET Int /\ IsFiniteSet(D) /\ D # {}
    <3>1. D \subseteq B!RunIds
      BY IdsAreFinite
    <3> QED BY <1>6, <3>1, IdsAreFinite
  <2> DEFINE m == Max(D)
  <2>2. m \in D /\ \A y \in D : y <= m
    BY <2>1, MaxIsGreatest
  <2> HIDE DEF m
  <2>3. Newer(m) \subseteq W1
    <3> SUFFICES ASSUME NEW k \in B!Readable, k > m PROVE k \in W /\ k > i
      OBVIOUS
    <3>1. m \in Int /\ i \in Int /\ k \in Int /\ m > i
      BY <1>1, <2>2
    <3> QED BY <2>2, <3>1
  <2>4. Cardinality(Newer(m)) <= Cardinality(W1)
    <3> HIDE DEF Newer, W1
    <3> QED BY <1>1, <2>3, FS_Subset
  <2>5. Cardinality(Newer(m)) >= limit
    <3>1. m \in B!Readable /\ m \notin W
      BY <2>2
    <3> HIDE DEF Newer, W
    <3> QED BY <1>1, <1>2, <3>1
  <2> QED BY <1>1, <2>4, <2>5
<1> QED BY <1>5, <1>6

LEMMA EvaluatedIsResult ==
  \A o \in Suites : \A c \in Cases : o[c] # None => B!evaluateCase(c, o[c]) \in CaseResults
BY CasesAssumption DEF B!evaluateCase, CaseResults, Scope

LEMMA HistoryInit == B!HistoryInit => HistoryInv
<1> SUFFICES ASSUME B!HistoryInit PROVE HistoryInv
  OBVIOUS
<1>1. Written = 1..0
  BY DEF B!HistoryInit, Written
<1> QED BY <1>1 DEF B!HistoryInit, HistoryInv, HistoryTypeOK, SweepIsSafe, B!Readable

\* A run is numbered after those that were ever written.
LEMMA RunSuiteKeeps == HistoryInv /\ B!RunSuite => HistoryInv' /\ B!Readable \subseteq B!Readable'
<1> SUFFICES ASSUME HistoryInv, B!RunSuite PROVE HistoryInv' /\ B!Readable \subseteq B!Readable'
  OBVIOUS
<1> DEFINE id == Cardinality(Written) + 1
<1>0. B!Cardinality(Written) + 1 = id
  BY SameOperators
<1> HIDE DEF id
<1>1. PICK o \in Suites : \E r \in {[week |-> week, outcomes |-> o, results |-> ResultsOf(o)], Torn} :
        id \in B!RunIds /\ files' = [files EXCEPT ![id] = r] /\ UNCHANGED <<week, archived, baseline, approval, sweep>>
  BY Zenon, <1>0 DEF B!RunSuite, Written, ResultsOf
<1>2. \E r : r # None /\ (r = Torn \/ IsRun(r)) /\ files' = [files EXCEPT ![id] = r]
  <2> DEFINE new == [week |-> week, outcomes |-> o, results |-> ResultsOf(o)]
  <2>1. \A c \in Cases : ResultsOf(o)[c] \in {None} \cup CaseResults
    BY EvaluatedIsResult DEF ResultsOf
  <2>2. ResultsOf(o) \in [Cases -> {None} \cup CaseResults]
    BY <2>1 DEF ResultsOf
  <2>3. new # None
    BY <2>2, CasesAssumption DEF HistoryInv, HistoryTypeOK
  <2>4. IsRun(new)
    BY DEF IsRun, HistoryInv, HistoryTypeOK
  <2> QED BY <1>1, <2>3, <2>4, CasesAssumption
<1>3. PICK r : r # None /\ (r = Torn \/ IsRun(r)) /\ files' = [files EXCEPT ![id] = r]
  BY <1>2
<1>4. id \in B!RunIds /\ UNCHANGED <<week, archived, baseline, approval, sweep>>
  BY <1>1
<1>5. PICK n \in Nat : Written = 1..n
  BY DEF HistoryInv, HistoryTypeOK
<1>6. id = n + 1 /\ id \notin Written
  <2>1. Cardinality(1..n) = n
    BY FS_Interval
  <2> QED BY <1>5, <2>1 DEF id
<1>7. files[id] = None /\ \A i \in B!RunIds : files'[i] = IF i = id THEN r ELSE files[i]
  BY <1>3, <1>4, <1>6 DEF Written, HistoryInv, HistoryTypeOK
<1>8. B!Readable \subseteq B!Readable' /\ B!Readable' \subseteq B!Readable \cup {id}
  BY <1>7 DEF B!Readable
<1>9. HistoryTypeOK'
  <2>1. Written' = 1..(n+1)
    <3>1. Written' = Written \cup {id}
      BY <1>3, <1>4, <1>7 DEF Written
    <3> QED BY <1>5, <1>6, <3>1
  <2>2. \A i \in B!Readable' : IsRun(files'[i])
    BY <1>3, <1>7, <1>8 DEF HistoryInv, HistoryTypeOK, B!Readable
  <2>3. DOMAIN files' = B!RunIds
    BY <1>3 DEF HistoryInv, HistoryTypeOK
  <2>4. IsRun(r)' = IsRun(r) /\ \A x : IsRun(x)' = IsRun(x)
    BY DEF IsRun, ResultsOf, B!evaluateCase, B!Planned
  <2> QED BY <1>4, <2>1, <2>2, <2>3, <2>4 DEF HistoryInv, HistoryTypeOK
<1>10. SweepIsSafe'
  <2> SUFFICES ASSUME sweep # None PROVE SweepIsSafe'
    BY <1>4 DEF SweepIsSafe
  <2>1. ASSUME NEW i \in sweep.left
        PROVE  /\ files'[i] = files[i]
               /\ Cardinality(Kept(i)') >= sweep.policy.runs
    <3>1. i \in B!Readable
      BY <2>1 DEF HistoryInv, SweepIsSafe
    <3>2. files'[i] = files[i]
      BY <1>7, <3>1 DEF B!Readable
    <3>3. Kept(i) \subseteq Kept(i)'
      BY <1>4, <1>8 DEF Kept
    <3>4. Kept(i)' \subseteq B!RunIds
      BY <1>4 DEF Kept, B!Readable
    <3>5. /\ Cardinality(Kept(i)) <= Cardinality(Kept(i)')
          /\ Cardinality(Kept(i)) \in Nat /\ Cardinality(Kept(i)') \in Nat
      BY <3>3, <3>4, IdsAreFinite, FS_Subset, FS_CardinalityType
    <3>6. Cardinality(Kept(i)) >= sweep.policy.runs /\ sweep.policy.runs \in Nat
      BY <2>1, CasesAssumption DEF HistoryInv, SweepIsSafe
    <3> QED BY <3>2, <3>5, <3>6
  <2>2. B!collectProtectedRunIds' = B!collectProtectedRunIds
    BY <1>4 DEF B!collectProtectedRunIds
  <2> QED BY <1>4, <1>8, <2>1, <2>2 DEF HistoryInv, SweepIsSafe
<1> QED BY <1>8, <1>9, <1>10 DEF HistoryInv

\* The archive finds what it may move.
LEMMA RetentionKeeps == HistoryInv /\ B!assessBenchmarkRetention => HistoryInv'
<1> SUFFICES ASSUME HistoryInv, B!assessBenchmarkRetention PROVE HistoryInv'
  OBVIOUS
<1>1. PICK policy \in Presets :
        /\ sweep' = [policy |-> policy, left |-> {i \in B!Readable : B!Eligible(policy, i)}, disturbed |-> FALSE]
        /\ UNCHANGED <<week, files, archived, baseline, approval>>
  BY DEF B!assessBenchmarkRetention
<1>2. HistoryTypeOK' /\ B!Readable' = B!Readable /\ B!collectProtectedRunIds' = B!collectProtectedRunIds
  BY <1>1 DEF HistoryInv, HistoryTypeOK, Written, B!Readable, IsRun, ResultsOf, B!evaluateCase, B!Planned,
       B!collectProtectedRunIds
<1>3. /\ DOMAIN sweep' = {"policy", "left", "disturbed"}
      /\ sweep'.policy = policy /\ sweep'.left = {i \in B!Readable : B!Eligible(policy, i)}
  BY <1>1
<1>4. ASSUME NEW i \in B!Readable, B!Eligible(policy, i)
      PROVE  /\ week - files[i].week > policy.aging
             /\ Cardinality(Kept(i)') >= policy.runs
             /\ i \notin B!collectProtectedRunIds
  <2>1. i \notin B!collectProtectedRunIds /\ i \notin B!readBenchmarkRuns(policy.runs)
    BY <1>4 DEF B!Eligible
  <2>2. week - files[i].week > policy.aging
    <3>1. B!classifyAge(policy, files[i].week) \in {"stale", "expired"}
      BY <1>4 DEF B!Eligible
    <3>2. week \in Nat /\ files[i].week \in Nat /\ policy.fresh \in Nat /\ policy.aging \in Nat
      BY <1>4, CasesAssumption DEF HistoryInv, HistoryTypeOK, IsRun
    <3> QED BY <3>1, <3>2 DEF B!classifyAge
  <2>3. Cardinality(Kept(i)') >= policy.runs
    <3> DEFINE W1 == {j \in B!readBenchmarkRuns(policy.runs) : j > i}
    <3>1. Cardinality(W1) >= policy.runs
      BY <2>1, NewestAreEnough, CasesAssumption
    <3>2. W1 \subseteq Kept(i)'
      <4>1. \A j \in W1 : j \in B!Readable /\ j > i /\ ~B!Eligible(policy, j)
        BY DEF B!readBenchmarkRuns, B!Eligible
      <4> QED BY <1>2, <1>3, <4>1 DEF Kept
    <3>3. Kept(i)' \subseteq B!RunIds
      BY <1>2, IdsAreFinite DEF Kept
    <3> HIDE DEF W1
    <3>4. IsFiniteSet(Kept(i)') /\ W1 \subseteq B!RunIds
      BY <3>2, <3>3, IdsAreFinite
    <3>5. Cardinality(W1) <= Cardinality(Kept(i)') /\ Cardinality(W1) \in Nat /\ Cardinality(Kept(i)') \in Nat
      BY <3>2, <3>4, IdsAreFinite, FS_Subset, FS_CardinalityType
    <3>6. policy.runs \in Nat
      BY CasesAssumption
    <3> QED BY <3>1, <3>5, <3>6
  <2> QED BY <2>1, <2>2, <2>3
<1>5. SweepIsSafe'
  BY <1>1, <1>2, <1>3, <1>4 DEF SweepIsSafe
<1> QED BY <1>2, <1>5 DEF HistoryInv

\* It moves the newest of what it found first, so the older have lost none that stay.
LEMMA MoveNextKeeps == HistoryInv /\ B!MoveNext => HistoryInv' /\ B!KeepsMinimum
<1> SUFFICES ASSUME HistoryInv, B!MoveNext PROVE HistoryInv' /\ B!KeepsMinimum
  OBVIOUS
<1> DEFINE m == Max(sweep.left)
<1>1. /\ sweep # None /\ sweep.left # {}
      /\ sweep' = [sweep EXCEPT !.left = @ \ {m}]
      /\ files' = [files EXCEPT ![m] = None] /\ archived' = archived \cup {m}
      /\ UNCHANGED <<week, baseline, approval>>
  BY SameOperators DEF B!MoveNext
<1>2. sweep.left \subseteq B!Readable /\ m \in sweep.left /\ \A i \in sweep.left : i <= m
  <2>1. sweep.left \subseteq B!Readable
    BY <1>1 DEF HistoryInv, SweepIsSafe
  <2>2. sweep.left \in SUBSET Int /\ IsFiniteSet(sweep.left)
    BY <2>1, IdsAreFinite
  <2> QED BY <1>1, <2>1, <2>2, MaxIsGreatest
<1> HIDE DEF m
<1>3. m \in B!Readable /\ m \in B!RunIds /\ files[m] # None
  BY <1>2 DEF B!Readable
<1>4. /\ DOMAIN files' = B!RunIds
      /\ \A i \in B!RunIds : files'[i] = IF i = m THEN None ELSE files[i]
  BY <1>1, <1>3 DEF HistoryInv, HistoryTypeOK
<1>5. B!Readable' = B!Readable \ {m}
  BY <1>3, <1>4 DEF B!Readable
<1>6. /\ DOMAIN sweep' = {"policy", "left", "disturbed"} /\ sweep'.policy = sweep.policy
      /\ sweep'.left = sweep.left \ {m} /\ sweep'.disturbed = sweep.disturbed
  BY <1>1 DEF HistoryInv, SweepIsSafe
<1>7. \A i : Kept(i)' = Kept(i)
  BY <1>2, <1>5, <1>6 DEF Kept
<1>8. B!collectProtectedRunIds' = B!collectProtectedRunIds
  BY <1>1 DEF B!collectProtectedRunIds
<1>9. HistoryTypeOK'
  <2>1. Written' = Written
    BY <1>1, <1>3, <1>4 DEF Written
  <2>2. \A i \in B!Readable' : IsRun(files'[i])
    BY <1>3, <1>4, <1>5 DEF HistoryInv, HistoryTypeOK, B!Readable
  <2>3. \A x : IsRun(x)' = IsRun(x)
    BY DEF IsRun, ResultsOf, B!evaluateCase, B!Planned
  <2>4. archived' \subseteq B!RunIds
    BY <1>1, <1>3 DEF HistoryInv, HistoryTypeOK
  <2> QED BY <1>1, <1>4, <2>1, <2>2, <2>3, <2>4 DEF HistoryInv, HistoryTypeOK
<1>10. SweepIsSafe'
  <2>1. \A i \in sweep.left \ {m} : files'[i] = files[i]
    BY <1>2, <1>4 DEF B!Readable
  <2>2. sweep'.left \subseteq B!Readable'
    BY <1>2, <1>5, <1>6
  <2> QED BY <1>1, <1>6, <1>7, <1>8, <2>1, <2>2 DEF HistoryInv, SweepIsSafe
<1>11. B!KeepsMinimum
  <2>1. /\ week - files[m].week > sweep.policy.aging
        /\ Cardinality(Kept(m)) >= sweep.policy.runs
        /\ m \in B!collectProtectedRunIds => sweep.disturbed
        /\ sweep.policy \in Presets
    BY <1>1, <1>2 DEF HistoryInv, SweepIsSafe
  <2> DEFINE N == {j \in B!Readable' : j > m}
  <2>2. Kept(m) \subseteq N /\ N \subseteq B!RunIds
    BY <1>2, <1>5, IdsAreFinite DEF Kept
  <2> HIDE DEF N
  <2>3. Kept(m) \subseteq B!RunIds
    BY <2>2
  <2>4. Cardinality(Kept(m)) <= Cardinality(N) /\ Cardinality(Kept(m)) \in Nat /\ Cardinality(N) \in Nat
    BY <2>2, <2>3, IdsAreFinite, FS_Subset, FS_CardinalityType
  <2>5. Cardinality(N) >= sweep.policy.runs
    BY <2>1, <2>4, CasesAssumption
  <2>6. B!Cardinality(N) >= sweep.policy.runs
    BY <2>5, SameOperators
  <2>7. B!Readable \ B!Readable' = {m} /\ m \in archived'
    BY <1>1, <1>3, <1>5
  <2> QED BY <2>1, <2>6, <2>7 DEF B!KeepsMinimum, N
<1> QED BY <1>9, <1>10, <1>11 DEF HistoryInv

LEMMA HistoryStep ==
  HistoryInv /\ [B!HistoryNext]_historyVars => HistoryInv' /\ B!KeepsMinimum
<1> SUFFICES ASSUME HistoryInv, [B!HistoryNext]_historyVars PROVE HistoryInv' /\ B!KeepsMinimum
  OBVIOUS
<1>1. B!Readable \subseteq B!Readable' => B!KeepsMinimum
  BY DEF B!KeepsMinimum
<1>2. \A x : IsRun(x)' = IsRun(x)
  BY DEF IsRun, ResultsOf, B!evaluateCase, B!Planned
<1>3. ASSUME UNCHANGED <<files, archived>>
      PROVE  B!Readable' = B!Readable /\ Written' = Written
  BY <1>3 DEF B!Readable, Written
<1>4. CASE B!RunSuite
  BY <1>1, <1>4, RunSuiteKeeps
<1>5. CASE B!Age
  <2>1. /\ week' = week + 1 /\ week \in Nat /\ UNCHANGED <<files, archived, baseline, approval, sweep>>
    BY <1>5 DEF B!Age, HistoryInv, HistoryTypeOK
  <2>2. HistoryTypeOK'
    BY <1>2, <1>3, <2>1 DEF HistoryInv, HistoryTypeOK
  <2>3. /\ B!collectProtectedRunIds' = B!collectProtectedRunIds
        /\ \A i : Kept(i)' = Kept(i)
    BY <1>3, <2>1 DEF B!collectProtectedRunIds, Kept
  <2>4. \A i \in B!Readable : files[i].week \in Nat
    BY DEF HistoryInv, HistoryTypeOK, IsRun
  <2>5. \A p \in Presets : p.aging \in Nat
    BY CasesAssumption
  <2>6. SweepIsSafe'
    <3> SUFFICES ASSUME sweep # None PROVE SweepIsSafe'
      BY <2>1 DEF SweepIsSafe
    <3>1. sweep.policy.aging \in Nat /\ sweep.left \subseteq B!Readable
      BY <2>5 DEF HistoryInv, SweepIsSafe
    <3>2. \A i \in sweep.left : week' - files[i].week > sweep.policy.aging
      BY <2>1, <2>4, <3>1 DEF HistoryInv, SweepIsSafe
    <3> QED BY <1>3, <2>1, <2>3, <3>2 DEF HistoryInv, SweepIsSafe
  <2> QED BY <1>1, <1>3, <2>1, <2>2, <2>6 DEF HistoryInv
<1>6. CASE B!SaveBaseline \/ B!Approve \/ B!Revoke
  <2>1. /\ UNCHANGED <<week, files, archived>>
        /\ baseline' = baseline \/ \E i \in B!Readable : baseline'.run = files[i]
        /\ sweep' = IF sweep = None THEN None ELSE [sweep EXCEPT !.disturbed = TRUE]
    BY <1>6 DEF B!SaveBaseline, B!Approve, B!Revoke, B!Disturb
  <2>2. HistoryTypeOK'
    BY <1>2, <1>3, <2>1 DEF HistoryInv, HistoryTypeOK
  <2>3. SweepIsSafe'
    <3> SUFFICES ASSUME sweep # None PROVE SweepIsSafe'
      BY <2>1 DEF SweepIsSafe
    <3>1. /\ DOMAIN sweep' = {"policy", "left", "disturbed"} /\ sweep'.policy = sweep.policy
          /\ sweep'.left = sweep.left /\ sweep'.disturbed = TRUE
      BY <2>1 DEF HistoryInv, SweepIsSafe
    <3>2. \A i : Kept(i)' = Kept(i)
      BY <1>3, <2>1, <3>1 DEF Kept
    <3> QED BY <1>3, <2>1, <3>1, <3>2 DEF HistoryInv, SweepIsSafe
  <2> QED BY <1>1, <1>3, <2>1, <2>2, <2>3 DEF HistoryInv
<1>7. CASE B!assessBenchmarkRetention
  <2>1. B!Readable' = B!Readable
    BY <1>3, <1>7 DEF B!assessBenchmarkRetention
  <2> QED BY <1>1, <1>7, <2>1, RetentionKeeps
<1>8. CASE B!MoveNext
  BY <1>8, MoveNextKeeps
<1>9. CASE B!EndSweep
  <2>1. sweep' = None /\ UNCHANGED <<week, files, archived, baseline, approval>>
    BY <1>9 DEF B!EndSweep
  <2> QED BY <1>1, <1>2, <1>3, <2>1 DEF HistoryInv, HistoryTypeOK, SweepIsSafe
<1>10. CASE UNCHANGED historyVars
  <2>1. UNCHANGED <<week, files, archived, baseline, approval, sweep>>
    BY <1>10 DEF historyVars
  <2>2. HistoryTypeOK'
    BY <1>2, <1>3, <2>1 DEF HistoryInv, HistoryTypeOK
  <2>3. SweepIsSafe'
    BY <1>3, <2>1 DEF HistoryInv, SweepIsSafe, Kept, B!collectProtectedRunIds
  <2> QED BY <1>1, <1>3, <2>1, <2>2, <2>3 DEF HistoryInv
<1> QED BY <1>4, <1>5, <1>6, <1>7, <1>8, <1>9, <1>10 DEF B!HistoryNext

LEMMA HistoryInvariance == MCSpec => [](part = "benchmark" => HistoryInv)
<1>1. MCInit => (part = "benchmark" => HistoryInv)
  BY HistoryInit DEF MCInit
<1>2. (part = "benchmark" => HistoryInv) /\ [MCNext]_allVars => (part = "benchmark" => HistoryInv)'
  BY HistoryStep DEF MCNext, allVars
<1> QED BY <1>1, <1>2, PTL DEF MCSpec

\* archiveBenchmarkRuns takes from the history only runs that are stale, leaves the number of
\* newer ones the policy asks for, and spares what a baseline or an approval stands on.
THEOREM MinimumIsKeptHolds == MCSpec => MinimumIsKept
<1>1. (part = "benchmark" => HistoryInv) /\ [MCNext]_allVars => (part = "benchmark" => B!KeepsMinimum)
  BY HistoryStep DEF MCNext, allVars
<1> QED BY <1>1, HistoryInvariance, PTL DEF MinimumIsKept, MCSpec

------------------------------------------------------------------------------
(* What is read off a history of runs. *)

\* The mean of nothing but zeros is zero.
LEMMA MeanOfZero == \A n \in Nat : n > 0 => B!Mean(0, n) = 0
<1> SUFFICES ASSUME NEW n \in Nat, n > 0 PROVE (2 * 0 + n) \div (2 * n) = 0
  BY DEF B!Mean
<1> DEFINE k == 2 * n
<1>1. k \in Nat /\ n < k /\ 2 * 0 + n = n
  OBVIOUS
<1> HIDE DEF k
<1>2. n \div k = 0
  BY <1>1
<1> QED BY <1>1, <1>2 DEF k

\* The cases in a bucket of a run are those it tried there.
LEMMA CasesAreTried ==
  ASSUME HistoryInv, NEW i \in B!Readable, NEW d \in Scope
  PROVE  /\ B!CasesIn(i, d) = B!Tried(i, d)
         /\ \A c \in B!CasesIn(i, d) : files[i].results[c].passed => B!Succeeded(files[i].outcomes[c])
<1>1. files[i].results = ResultsOf(files[i].outcomes)
  BY DEF HistoryInv, HistoryTypeOK, IsRun
<1>2. \A c \in Cases :
        files[i].results[c] = IF files[i].outcomes[c] = None THEN None
                              ELSE B!evaluateCase(c, files[i].outcomes[c])
  BY <1>1 DEF ResultsOf
<1>3. ASSUME NEW c \in Cases, files[i].outcomes[c] # None
      PROVE  /\ files[i].results[c] # None
             /\ d \in files[i].results[c].dims <=>
                  /\ files[i].outcomes[c].error # "detection" /\ d \in Covers[c]
                  /\ files[i].outcomes[c].error = "plan" => d = "runtime_framework"
             /\ files[i].results[c].passed => B!Succeeded(files[i].outcomes[c])
  <2> DEFINE o == files[i].outcomes[c]
  <2>1. files[i].results[c] = B!evaluateCase(c, o)
    BY <1>2, <1>3
  <2> HIDE DEF o
  <2>2. /\ B!evaluateCase(c, o).dims = IF B!Planned(o) THEN Covers[c]
                                     ELSE IF o.error = "plan" THEN Covers[c] \cap {"runtime_framework"} ELSE {}
        /\ B!evaluateCase(c, o).passed = (o.error = None /\ o.met)
    BY DEF B!evaluateCase
  <2>3. files[i].results[c] # None
    <3>1. files[i].outcomes \in Suites
      BY DEF HistoryInv, HistoryTypeOK, IsRun
    <3> QED BY <1>3, <2>1, <3>1, EvaluatedIsResult, CasesAssumption DEF o
  <2>4. d \in files[i].results[c].dims <=>
          o.error # "detection" /\ d \in Covers[c] /\ (o.error = "plan" => d = "runtime_framework")
    BY <2>1, <2>2 DEF B!Planned
  <2>5. files[i].results[c].passed => B!Succeeded(o)
    BY <2>1, <2>2 DEF B!Succeeded
  <2> QED BY <2>3, <2>4, <2>5 DEF o
<1> QED BY <1>2, <1>3 DEF B!CasesIn, B!Tried

\* The newest run of a bucket is one a report sees, that tried it, with none after it.
LEMMA NewestTried ==
  ASSUME HistoryInv, NEW d \in Scope, B!Points(d) # {}
  PROVE  LET i == Max(B!Points(d))
         IN /\ i \in B!readBenchmarkRuns(Window) /\ B!Tried(i, d) # {} /\ B!CasesIn(i, d) = B!Tried(i, d)
            /\ \A j \in B!readBenchmarkRuns(Window) : j > i => B!Tried(j, d) = {}
            /\ \A c \in B!CasesIn(i, d) : files[i].results[c].passed => B!Succeeded(files[i].outcomes[c])
<1> DEFINE i == Max(B!Points(d))
<1>1. B!Points(d) \subseteq B!readBenchmarkRuns(Window) /\ B!readBenchmarkRuns(Window) \subseteq B!Readable
  BY DEF B!Points, B!readBenchmarkRuns
<1>2. i \in B!Points(d) /\ \A j \in B!Points(d) : j <= i
  <2>1. B!Points(d) \in SUBSET Int /\ IsFiniteSet(B!Points(d))
    BY <1>1, IdsAreFinite
  <2> QED BY <2>1, MaxIsGreatest
<1> HIDE DEF i
<1>3. \A j \in B!readBenchmarkRuns(Window) : B!CasesIn(j, d) = B!Tried(j, d)
  BY <1>1, CasesAreTried
<1>4. i \in B!readBenchmarkRuns(Window) /\ B!Tried(i, d) # {} /\ B!CasesIn(i, d) = B!Tried(i, d)
  BY <1>2, <1>3 DEF B!Points
<1>5. ASSUME NEW j \in B!readBenchmarkRuns(Window), j > i PROVE B!Tried(j, d) = {}
  <2>1. j \in Int /\ i \in Int
    BY <1>1, <1>4, IdsAreFinite
  <2>2. j \notin B!Points(d)
    BY <1>2, <1>5, <2>1
  <2> QED BY <1>3, <2>2 DEF B!Points
<1>6. \A c \in B!CasesIn(i, d) : files[i].results[c].passed => B!Succeeded(files[i].outcomes[c])
  BY <1>1, <1>4, CasesAreTried
<1> QED BY <1>4, <1>5, <1>6 DEF i

\* A bucket whose newest run has no case that succeeded weighs at least two.
LEMMA FailingWeighs ==
  ASSUME HistoryInv, NEW d \in Scope, B!Points(d) # {},
         \A c \in B!Tried(Max(B!Points(d)), d) : ~B!Succeeded(files[Max(B!Points(d))].outcomes[c])
  PROVE  B!evaluateBucket(d) \in Int /\ B!evaluateBucket(d) >= 2
<1> DEFINE i == Max(B!Points(d))
           cases == B!CasesIn(i, d)
           trend == B!Trend(B!computeDirection(d))
<1>1. cases = B!Tried(i, d) /\ cases # {} /\ \A c \in cases : ~files[i].results[c].passed
  BY NewestTried
<1>2. Cardinality(cases) \in Nat /\ Cardinality(cases) > 0
  <2>1. cases \subseteq Cases
    BY DEF B!CasesIn
  <2> HIDE DEF cases
  <2>2. IsFiniteSet(cases)
    BY <2>1, CasesAssumption, FS_Subset
  <2> QED BY <1>1, <2>2, FS_CardinalityType, FS_EmptySet
<1>3. B!Point(i, d).pass = 0
  <2>1. {c \in cases : files[i].results[c].passed} = {}
    BY <1>1
  <2>2. B!Point(i, d).pass = B!Mean(10000 * Cardinality({c \in cases : files[i].results[c].passed}), Cardinality(cases))
    BY SameOperators DEF B!Point
  <2> HIDE DEF cases
  <2>3. B!Point(i, d).pass = B!Mean(0, Cardinality(cases))
    BY <2>1, <2>2, FS_EmptySet
  <2> QED BY <1>2, <2>3, MeanOfZero
<1>4. trend \in {4, 2, -1, 0}
  BY DEF B!Trend
<1> HIDE DEF trend
<1>5. /\ B!Penalty(B!Point(i, d).pass) = 3
      /\ \A rate : B!Penalty(rate) \in {0, 1, 3}
      /\ \A holds : B!One(holds) \in {0, 1}
  BY <1>3 DEF B!Penalty, B!One
<1>6. B!evaluateBucket(d) = trend + B!Standing(B!Point(i, d)) + B!One(B!Volatile(d))
  BY SameOperators DEF B!evaluateBucket, trend
<1> HIDE DEF i
<1>7. B!Standing(B!Point(i, d)) \in {3, 4, 5, 6, 7}
  <2>1. B!Penalty(B!Point(i, d).success) \in {0, 1, 3} /\ B!One(B!Point(i, d).failed > 100) \in {0, 1}
    BY <1>5
  <2> QED BY <1>5, <2>1 DEF B!Standing
<1>8. B!One(B!Volatile(d)) \in {0, 1}
  BY <1>5
<1> QED BY <1>4, <1>6, <1>7, <1>8

\* Two dimensions that were tried, and failed in their newest runs, are a risk.
LEMMA FailingIsRisky ==
  ASSUME HistoryInv, NEW scope \in B!Scopes, NEW d1 \in B!Matched(scope), NEW d2 \in B!Matched(scope), d1 # d2,
         \A d \in B!Matched(scope) : \A c \in B!Tried(Max(B!Points(d)), d) :
           ~B!Succeeded(files[Max(B!Points(d))].outcomes[c])
  PROVE  B!scoreToLevel(scope) \in {"unknown", "medium", "high"}
<1>1. B!Matched(scope) \subseteq Scope /\ Scope = {"runtime_framework", "task_family", "skill"}
  BY DEF B!Matched, B!Scopes, B!Dimensions, Scope
<1>2. ASSUME NEW d \in B!Matched(scope)
      PROVE  B!evaluateBucket(d) \in Int /\ B!evaluateBucket(d) >= 2
  <2>1. d \in Scope /\ B!Points(d) # {}
    BY <1>1 DEF B!Matched
  <2> QED BY <2>1, FailingWeighs
<1> DEFINE a == B!Share(scope, "runtime_framework")
           b == B!Share(scope, "task_family")
           c == B!Share(scope, "skill")
<1>3. /\ a \in Int /\ a >= 0 /\ ("runtime_framework" \in B!Matched(scope) => a >= 8)
      /\ b \in Int /\ b >= 0 /\ ("task_family" \in B!Matched(scope) => b >= 10)
      /\ c \in Int /\ c >= 0 /\ ("skill" \in B!Matched(scope) => c >= 12)
  <2>1. /\ B!Weight["runtime_framework"] = 4 /\ B!Weight["task_family"] = 5 /\ B!Weight["skill"] = 6
    BY DEF B!Weight
  <2> QED BY <1>2, <2>1 DEF B!Share
<1> HIDE DEF a, b, c
<1>4. a + b + c >= 16
  BY <1>1, <1>3
<1>5. B!scoreToLevel(scope) = IF B!Readable = {} THEN "unknown"
                              ELSE IF a + b + c >= 28 THEN "high"
                              ELSE IF a + b + c >= 16 THEN "medium" ELSE "low"
  BY DEF B!scoreToLevel, B!Level, a, b, c
<1> QED BY <1>4, <1>5

LEMMA ReadinessIsEarnedInv == HistoryInv => B!ReadinessIsEarned
<1> SUFFICES ASSUME HistoryInv, NEW policy \in Presets, NEW scope \in B!Scopes,
                    B!buildReleaseReadiness(policy, scope) = "ready"
             PROVE  LET seen == {i \in B!RunIds : files[i] \notin {None, Torn}
                                              /\ B!Cardinality({j \in B!Readable : j > i}) < Window}
                        Latest(d) == {i \in seen : B!Tried(i, d) # {} /\ \A j \in seen : j > i => B!Tried(j, d) = {}}
                    IN /\ B!Cardinality(seen) >= policy.runs
                       /\ policy.coverage = "sufficient" => \A d \in scope : Latest(d) # {}
                       /\ \E d \in scope : \E i \in Latest(d) : week - files[i].week <= policy.fresh
                       /\ (\E d, e \in scope : d # e /\ Latest(d) # {} /\ Latest(e) # {}) =>
                            \E d \in scope : \E i \in Latest(d) : \E c \in B!Tried(i, d) :
                              B!Succeeded(files[i].outcomes[c])
  BY DEF B!ReadinessIsEarned
<1> DEFINE seen == {i \in B!RunIds : files[i] \notin {None, Torn}
                                 /\ B!Cardinality({j \in B!Readable : j > i}) < Window}
           Latest(d) == {i \in seen : B!Tried(i, d) # {} /\ \A j \in seen : j > i => B!Tried(j, d) = {}}
<1>1. seen = B!readBenchmarkRuns(Window)
  BY DEF B!readBenchmarkRuns, B!Readable
<1> HIDE DEF seen
<1>2. /\ B!scoreToLevel(scope) \notin {"high", "unknown", "medium"}
      /\ ~(B!Cardinality(seen) < policy.runs)
      /\ B!isCoverageSatisfied(policy, scope)
      /\ B!buildBenchmarkFreshness(policy, scope) = "fresh"
  BY <1>1 DEF B!buildReleaseReadiness
<1>3. scope \subseteq Scope /\ scope # {}
  BY DEF B!Scopes, B!Dimensions, Scope
<1>4. B!Matched(scope) # {} /\ (policy.coverage = "sufficient" => B!Matched(scope) = scope)
  BY <1>2, <1>3, CasesAssumption DEF B!isCoverageSatisfied
<1>5. seen \subseteq B!Readable
  BY <1>1 DEF B!readBenchmarkRuns
<1>6. ASSUME NEW d \in B!Matched(scope)
      PROVE  d \in scope /\ B!Points(d) # {} /\ Max(B!Points(d)) \in Latest(d)
  <2>1. d \in scope /\ d \in Scope /\ B!Points(d) # {}
    BY <1>3 DEF B!Matched
  <2> QED BY <1>1, <2>1, NewestTried
<1>7. B!Cardinality(seen) >= policy.runs
  <2>1. Cardinality(seen) \in Nat
    BY <1>5, IdsAreFinite, FS_CardinalityType
  <2>2. B!Cardinality(seen) \in Nat /\ policy.runs \in Nat
    BY <2>1, SameOperators, CasesAssumption
  <2> QED BY <1>2, <2>2
<1>8. policy.coverage = "sufficient" => \A d \in scope : Latest(d) # {}
  BY <1>4, <1>6
<1>9. \E d \in scope : \E i \in Latest(d) : week - files[i].week <= policy.fresh
  <2> DEFINE latest == {Max(B!Points(d)) : d \in B!Matched(scope)}
  <2>1. latest \subseteq seen /\ latest # {}
    BY <1>4, <1>6
  <2>2. Max(latest) \in latest
    <3> HIDE DEF latest
    <3>1. latest \in SUBSET Int /\ IsFiniteSet(latest)
      BY <1>5, <2>1, IdsAreFinite
    <3> QED BY <2>1, <3>1, MaxIsGreatest
  <2>3. B!buildBenchmarkFreshness(policy, scope) = B!classifyAge(policy, files[Max(latest)].week)
    <3>1. latest = {B!Max(B!Points(d)) : d \in B!Matched(scope)}
      BY SameOperators
    <3> HIDE DEF latest
    <3>2. B!Max(latest) = Max(latest)
      BY SameOperators
    <3> QED BY <1>4, <2>1, <3>1, <3>2 DEF B!buildBenchmarkFreshness
  <2>4. PICK d \in B!Matched(scope) : Max(latest) = Max(B!Points(d))
    BY <2>2
  <2> HIDE DEF latest
  <2>5. B!classifyAge(policy, files[Max(B!Points(d))].week) = "fresh"
    BY <1>2, <2>3, <2>4
  <2>6. week - files[Max(B!Points(d))].week <= policy.fresh
    BY <2>5 DEF B!classifyAge
  <2> QED BY <1>6, <2>6
<1>10. ASSUME NEW d1 \in scope, NEW d2 \in scope, d1 # d2, Latest(d1) # {}, Latest(d2) # {}
       PROVE  \E d \in scope : \E i \in Latest(d) : \E c \in B!Tried(i, d) : B!Succeeded(files[i].outcomes[c])
  <2>1. \A d \in scope : Latest(d) # {} => d \in B!Matched(scope)
    <3> SUFFICES ASSUME NEW d \in scope, NEW i \in Latest(d) PROVE B!Points(d) # {}
      BY DEF B!Matched
    <3>1. B!CasesIn(i, d) = B!Tried(i, d)
      BY <1>3, <1>5, CasesAreTried
    <3> QED BY <1>1, <3>1 DEF B!Points
  <2> SUFFICES ASSUME \A d \in scope : \A i \in Latest(d) : \A c \in B!Tried(i, d) : ~B!Succeeded(files[i].outcomes[c])
               PROVE  FALSE
    OBVIOUS
  <2>2. \A d \in B!Matched(scope) : \A c \in B!Tried(Max(B!Points(d)), d) :
          ~B!Succeeded(files[Max(B!Points(d))].outcomes[c])
    BY <1>6
  <2>3. d1 \in B!Matched(scope) /\ d2 \in B!Matched(scope)
    BY <1>10, <2>1
  <2>4. B!scoreToLevel(scope) \in {"unknown", "medium", "high"}
    BY <1>10, <2>2, <2>3, FailingIsRisky
  <2> QED BY <1>2, <2>4
<1> QED BY <1>7, <1>8, <1>9, <1>10 DEF seen

\* A case that was good in the baseline and is not in the latest run counts as regressed.
LEMMA ComparisonIsHonestInv == HistoryInv => B!ComparisonIsHonest
<1> SUFFICES ASSUME HistoryInv, baseline # None, B!Readable # {}, NEW c \in Cases,
                    B!Good(baseline.run.outcomes[c]), ~B!Good(files[Max(B!Readable)].outcomes[c])
             PROVE  c \in B!compareRuns(baseline.run, files[Max(B!Readable)])
  BY SameOperators DEF B!ComparisonIsHonest
<1> DEFINE old == baseline.run.outcomes[c]
           new == files[Max(B!Readable)].outcomes[c]
           before == baseline.run.results[c]
           after == files[Max(B!Readable)].results[c]
<1>1. Max(B!Readable) \in B!Readable
  <2>1. B!Readable \in SUBSET Int /\ IsFiniteSet(B!Readable)
    BY IdsAreFinite
  <2> QED BY <2>1, MaxIsGreatest
<1>2. IsRun(baseline.run) /\ IsRun(files[Max(B!Readable)])
  BY <1>1 DEF HistoryInv, HistoryTypeOK
<1>3. /\ before = IF old = None THEN None ELSE B!evaluateCase(c, old)
      /\ after = IF new = None THEN None ELSE B!evaluateCase(c, new)
      /\ new # None => new.failed \in Nat
  BY <1>2, CasesAssumption DEF IsRun, ResultsOf
<1>4. after # None => after \in CaseResults
  BY <1>2, <1>3, EvaluatedIsResult DEF IsRun
<1> HIDE DEF old, new, before, after
<1>5. /\ before # None /\ before.passed /\ before.success /\ before.failed = 0
  <2>1. old # None /\ old.error = None /\ old.met /\ old.failed = 0 /\ old.verdict # "BLOCK"
    BY DEF old, B!Good, B!Succeeded
  <2>2. before = B!evaluateCase(c, old)
    BY <1>3, <2>1
  <2>3. before \in CaseResults
    BY <1>2, <2>1, <2>2, EvaluatedIsResult DEF IsRun, old
  <2>4. old.error \notin {"detection", "plan", "review"}
    BY <2>1, CasesAssumption
  <2> QED BY <2>1, <2>2, <2>3, <2>4, CasesAssumption DEF B!evaluateCase, B!Planned
<1>6. after = None \/ ~after.passed \/ ~after.success \/ after.failed > 0
  <2> SUFFICES ASSUME after # None, after.passed, after.success, ~(after.failed > 0) PROVE FALSE
    OBVIOUS
  <2>1. new # None /\ after = B!evaluateCase(c, new)
    BY <1>3
  <2>2. new.error = None /\ new.met
    BY <2>1 DEF B!evaluateCase
  <2>3. new.error \notin {"detection", "plan", "review"}
    BY <2>2, CasesAssumption
  <2>4. new.failed = 0 /\ new.verdict # "BLOCK"
    BY <2>1, <2>3 DEF B!evaluateCase, B!Planned
  <2> QED BY <2>1, <2>2, <2>4 DEF B!Good, B!Succeeded, new
<1>7. B!compareCase(before, after) = "regressed"
  <2>1. after # None => after.failed \in Nat
    BY <1>4 DEF CaseResults
  <2> QED BY <1>5, <1>6, <2>1 DEF B!compareCase
<1> QED BY <1>7 DEF B!compareRuns, before, after

\* assessBenchmarkFeedback calls a release scope ready only on enough runs, of its dimensions
\* and of late, that did not all fail; and compare misses no case that was good and is not.
THEOREM BenchmarksAreHonestHolds == MCSpec => []BenchmarksAreHonest
<1>1. (part = "benchmark" => HistoryInv) => BenchmarksAreHonest
  BY ReadinessIsEarnedInv, ComparisonIsHonestInv DEF BenchmarksAreHonest
<1> QED BY <1>1, HistoryInvariance, PTL

------------------------------------------------------------------------------
(* The reports on a release. *)

Commands ==
  [todo : SUBSET DOMAIN E!Place, ask : Questions, passed : BOOLEAN,
   check : CheckReports \cup {None}, report : CheckReports \cup {None}, reused : BOOLEAN,
   conclusion : CheckReports \cup {None}, approval : BOOLEAN \cup {None}]

EvidenceTypeOK ==
  /\ source \in ReleaseProjects
  /\ DOMAIN override = {"policy", "allowed", "approved", "uses"}
  /\ override.policy \in Policies \cup {None} /\ override.uses \in Nat
  /\ override.policy = None => override.uses = 0
  /\ rehearsal \in CheckReports \cup {None}
  /\ cmd = E!Idle \/ cmd \in Commands
  /\ still \in BOOLEAN /\ same \in BOOLEAN /\ lets \in Nat

Running == cmd # E!Idle

\* What a command has learned it learned in the order of its steps.
Beyond(todo, n) == \A name \in todo : E!Place[name] > n

InOrder == Running =>
  /\ cmd.ask.kind = "rehearsal" =>
       cmd.report = None /\ cmd.approval = None /\ cmd.todo \subseteq {"rehearse", "latest", "end"}
  /\ cmd.ask.kind = "rehearsal" /\ cmd.check # None => Beyond(cmd.todo, 1)
  /\ cmd.ask.kind # "rehearsal" => Beyond(cmd.todo, 2)
  /\ cmd.ask.kind # "rehearsal" /\ cmd.check # None => Beyond(cmd.todo, 4)
  /\ cmd.report # None => Beyond(cmd.todo, 5)
  /\ cmd.conclusion # None => cmd.report # None /\ Beyond(cmd.todo, 6)
  /\ cmd.approval # None => Beyond(cmd.todo, 7)
  /\ "summary" \in cmd.todo => "evidence" \in cmd.todo \/ cmd.report # None
  /\ "bundle" \in cmd.todo => cmd.ask.kind = "audit" /\ ("check" \in cmd.todo \/ cmd.check # None)
  /\ cmd.ask.kind = "audit" => cmd.approval # None \/ "bundle" \in cmd.todo

\* Unless something moved, what is known of a baseline's approval is so.
Approved(name) == source.baselines[name] = "approved"
Current == still /\ (cmd.reused => same)

ApprovalsAreTrue == Running =>
  /\ still /\ cmd.check # None => cmd.check.approved = Approved(cmd.check.name)
  /\ still /\ cmd.approval # None => cmd.check # None /\ cmd.approval = Approved(cmd.check.name)
  /\ Current /\ cmd.report # None => cmd.report.approved = Approved(cmd.report.name)
  /\ Current /\ cmd.conclusion # None => cmd.conclusion.approved = Approved(cmd.conclusion.name)

\* A production release that is found ready has all that it is to stand on.
Anchored(r) ==
  r.policy = "production" /\ r.decision = "ready" => r.approved /\ r.fresh /\ r.rollback

ReportsAreAnchored == Running =>
  /\ cmd.check # None => cmd.check.policy = cmd.ask.policy /\ Anchored(cmd.check)
  /\ cmd.report # None => cmd.report.policy = cmd.ask.policy /\ Anchored(cmd.report)
  /\ cmd.conclusion # None => cmd.conclusion = [cmd.report EXCEPT !.approved = cmd.conclusion.approved]

\* A project has nothing open when there is nothing that a check would warn of or fail.
Checked == {"checks", "freshness", "comparison", "approval", "snapshot"}
Clean(p, policy, name) == \A c \in Checked : E!Results(p, policy, name)[c] \notin {"warn", "fail"}

\* What has nothing open in the project has nothing open in its copy, and is ready.
RehearsalIsTrue ==
  /\ rehearsal # None => Anchored(rehearsal)
  /\ same /\ rehearsal # None =>
       /\ rehearsal.approved = Approved(rehearsal.name)
       /\ ~source.depends /\ Clean(source, rehearsal.policy, rehearsal.name) => rehearsal.decision = "ready"

CheckIsTrue == Running /\ still /\ cmd.check # None =>
  /\ cmd.ask.kind = "rehearsal" /\ ~source.depends /\ Clean(E!Written(source), cmd.check.policy, cmd.check.name)
       => cmd.check.decision = "ready"
  /\ cmd.ask.kind # "rehearsal" /\ cmd.check.decision = "ready" =>
       /\ cmd.report = None => Clean(source, cmd.check.policy, cmd.check.name)
       /\ cmd.report # None /\ cmd.report.name = cmd.check.name /\ (cmd.reused => same /\ ~source.depends)
            => cmd.report.decision = "ready"

\* Uses that have been recorded of the override, and those a command has yet to speak of.
LetOut(r) == r # None /\ r.decision = "ready_with_override"
Pending ==
  IF ~Running THEN 0
  ELSE (IF LetOut(cmd.check) THEN 1 ELSE 0) + (IF LetOut(cmd.report) /\ ~cmd.reused THEN 1 ELSE 0)

UsesAreCounted ==
  /\ lets + Pending <= override.uses
  /\ override.uses = 0 \/ \E p \in Policies : override.uses <= E!MaxUses[p]
  /\ Running /\ cmd.ask.kind = "rehearsal" => ~LetOut(cmd.check)

ShownIsTrue == (Running => shown = None) /\ E!ReadyIsAnchored /\ E!ConclusionsAgree

EvidenceInv ==
  /\ EvidenceTypeOK /\ InOrder /\ ApprovalsAreTrue /\ ReportsAreAnchored
  /\ RehearsalIsTrue /\ CheckIsTrue /\ UsesAreCounted /\ ShownIsTrue

------------------------------------------------------------------------------
LEMMA PlacesAreNumbers ==
  /\ DOMAIN E!Place = {"rehearse", "latest", "scripts", "check", "evidence", "summary", "bundle", "end"}
  /\ \A name \in DOMAIN E!Place : E!Place[name] \in Nat
  /\ E!Place["rehearse"] = 1 /\ E!Place["latest"] = 2 /\ E!Place["scripts"] = 3 /\ E!Place["check"] = 4
  /\ E!Place["evidence"] = 5 /\ E!Place["summary"] = 6 /\ E!Place["bundle"] = 7 /\ E!Place["end"] = 8
BY DEF E!Place

\* The step that is up is before those that are left.
LEMMA StepsAreTaken ==
  ASSUME NEW name, E!Up(name), cmd \in Commands
  PROVE  /\ name \in DOMAIN E!Place /\ Beyond(cmd.todo \ {name}, E!Place[name])
         /\ \A n \in Nat : Beyond(cmd.todo, n) => Beyond(cmd.todo \ {name}, n)
         /\ \A n \in Nat : E!Place[name] <= n => ~Beyond(cmd.todo, n)
<1>1. name \in cmd.todo /\ cmd.todo \subseteq DOMAIN E!Place /\ \A next \in cmd.todo : E!Place[name] <= E!Place[next]
  BY DEF E!Up, Commands
<1>2. \A next \in cmd.todo : next # name => E!Place[next] # E!Place[name]
  BY <1>1, PlacesAreNumbers
<1> QED BY <1>1, <1>2, PlacesAreNumbers DEF Beyond

\* What a check finds.
LEMMA ResultsAre ==
  ASSUME NEW p \in ReleaseProjects, NEW policy, NEW name
  PROVE  /\ DOMAIN E!Results(p, policy, name) = Checked
         /\ Clean(p, policy, name) <=>
              /\ p.checks = "pass" /\ E!Freshness(policy, p.age) = "fresh"
              /\ p.baselines[name] # "missing" => ~p.worse
              /\ policy = "production" => p.baselines[name] = "approved"
              /\ E!RollbackReady(p)
<1> DEFINE r == E!Results(p, policy, name)
<1>1. DOMAIN r = Checked /\ r["checks"] = p.checks
      /\ r["snapshot"] = (IF E!RollbackReady(p) THEN "pass" ELSE "warn")
      /\ r["approval"] = (IF p.baselines[name] = "approved" THEN "pass" ELSE IF policy = "production" THEN "warn" ELSE "skip")
      /\ r["comparison"] = (IF p.baselines[name] = "missing" THEN IF policy = "production" THEN "warn" ELSE "skip"
                     ELSE IF p.worse THEN "warn" ELSE "pass")
      /\ r["freshness"] = CASE E!Freshness(policy, p.age) = "fresh" -> "pass"
                       [] E!Freshness(policy, p.age) = "expired" -> "fail"
                       [] OTHER -> "warn"
  BY DEF E!Results, Checked
<1>2. p.checks \in {"pass", "warn", "fail"}
  BY DEF ReleaseProjects
<1> HIDE DEF r
<1>3. Clean(p, policy, name) <=> \A c \in Checked : r[c] \notin {"warn", "fail"}
  BY DEF Clean, r
<1>4. r["freshness"] \in {"pass", "warn", "fail"} /\ (r["freshness"] = "pass" <=> E!Freshness(policy, p.age) = "fresh")
  BY <1>1
<1>5. Clean(p, policy, name) <=>
        /\ r["checks"] \notin {"warn", "fail"} /\ r["freshness"] \notin {"warn", "fail"} /\ r["comparison"] \notin {"warn", "fail"}
        /\ r["approval"] \notin {"warn", "fail"} /\ r["snapshot"] \notin {"warn", "fail"}
  BY <1>3 DEF Checked
<1> QED BY <1>1, <1>2, <1>4, <1>5 DEF r

LEMMA DecisionIs ==
  ASSUME NEW p \in ReleaseProjects, NEW policy, NEW name, NEW strict \in BOOLEAN
  PROVE  LET decision == E!computeDecision(E!Results(p, policy, name), strict)
             open == {c \in DOMAIN E!Results(p, policy, name) : E!Results(p, policy, name)[c] \in {"warn", "fail"}}
         IN /\ decision \in {"ready", "caution", "blocked"}
            /\ decision = "ready" <=> Clean(p, policy, name)
            /\ open = {} <=> Clean(p, policy, name)
<1> DEFINE r == E!Results(p, policy, name)
           found == {r[c] : c \in DOMAIN r}
<1>1. DOMAIN r = Checked
  BY ResultsAre
<1>2. E!computeDecision(r, strict) = IF "fail" \in found \/ ("warn" \in found /\ strict) THEN "blocked"
                        ELSE IF "warn" \in found THEN "caution" ELSE "ready"
  BY DEF E!computeDecision
<1>3. Clean(p, policy, name) <=> "fail" \notin found /\ "warn" \notin found
  BY <1>1 DEF Clean
<1>4. ({c \in DOMAIN r : r[c] \in {"warn", "fail"}} = {}) <=> Clean(p, policy, name)
  BY <1>1 DEF Clean
<1> QED BY <1>2, <1>3, <1>4

\* And a least.
LEMMA MinIsLeast ==
  ASSUME NEW S \in SUBSET Int, IsFiniteSet(S), S # {}
  PROVE  E!Min(S) \in S /\ \A y \in S : E!Min(S) <= y
<1> DEFINE T == {0 - x : x \in S}
<1>1. T \in SUBSET Int /\ T # {} /\ IsFiniteSet(T)
  <2>1. T \in SUBSET Int /\ T # {}
    <3>1. PICK x : x \in S
      OBVIOUS
    <3>2. 0 - x \in T
      BY <3>1
    <3>3. \A y \in T : y \in Int
      OBVIOUS
    <3> HIDE DEF T
    <3> QED BY <3>2, <3>3
  <2>2. IsFiniteSet(T)
    <3> DEFINE f == [x \in S |-> 0 - x]
    <3>1. f \in Surjection(S, T)
      BY DEF Surjection
    <3> QED BY <3>1, FS_Surjection
  <2> QED BY <2>1, <2>2
<1>2. Max(T) \in T /\ \A y \in T : y <= Max(T)
  <2> HIDE DEF T
  <2> QED BY <1>1, MaxIsGreatest
<1>3. PICK m \in S : Max(T) = 0 - m
  BY <1>2
<1>4. \A y \in S : 0 - y <= 0 - m
  BY <1>2, <1>3
<1>5. \A y \in S : m <= y
  BY <1>4
<1> QED BY <1>5 DEF E!Min

LEMMA SelectedIsThere ==
  ASSUME NEW p, NEW policy \in Policies, NEW name \in BaselineNames \cup {None}
  PROVE  E!Selected(p, policy, name) \in BaselineNames
<1> DEFINE names == IF name = None THEN Candidates[policy] ELSE <<name>>
           there == {i \in DOMAIN names : p.baselines[names[i]] # "missing"}
<1>1. names \in Seq(BaselineNames) /\ names # <<>>
  BY EvidenceAssumption
<1> HIDE DEF names
<1>2. DOMAIN names = 1..Len(names) /\ Len(names) \in Nat /\ Len(names) >= 1
  BY <1>1
<1>3. IsFiniteSet(1..Len(names))
  BY <1>2, FS_Interval
<1>4. there # {} => E!Min(there) \in there
  <2>1. there \in SUBSET Int /\ there \subseteq 1..Len(names)
    BY <1>2
  <2>2. IsFiniteSet(there)
    BY <1>3, <2>1, FS_Subset
  <2> QED BY <2>1, <2>2, MinIsLeast
<1>5. (IF there = {} THEN 1 ELSE E!Min(there)) \in 1..Len(names)
  BY <1>2, <1>4
<1>6. E!Selected(p, policy, name) = names[IF there = {} THEN 1 ELSE E!Min(there)]
  BY DEF E!Selected, names
<1> HIDE DEF there
<1> QED BY <1>1, <1>5, <1>6

\* A check that finds a release ready has nothing open, and with nothing open it is ready.
LEMMA CheckFinds ==
  ASSUME NEW p \in ReleaseProjects, NEW policy \in Policies, NEW strict \in BOOLEAN,
         NEW name \in BaselineNames \cup {None}, NEW use \in BOOLEAN
  PROVE  LET r == E!runReleaseCheck(p, policy, strict, name, use) IN
         /\ r \in CheckReports /\ r.policy = policy /\ Anchored(r)
         /\ r.approved = (p.baselines[r.name] = "approved")
         /\ r.decision = "ready" <=> Clean(p, policy, r.name)
         /\ LetOut(r) => use /\ override.policy = policy /\ override.uses < E!MaxUses[policy]
<1> DEFINE selected == E!Selected(p, policy, name)
           graded == E!Results(p, policy, selected)
           open == {c \in DOMAIN graded : graded[c] \in {"warn", "fail"}}
           tight == strict \/ policy = "production"
           decision == E!computeDecision(graded, tight)
           covered == use /\ E!Waives(open, policy)
           r == E!runReleaseCheck(p, policy, strict, name, use)
<1>1. selected \in BaselineNames
  BY SelectedIsThere
<1>2. r = [policy |-> policy, name |-> selected,
           decision |-> IF covered THEN "ready_with_override" ELSE decision,
           approved |-> p.baselines[selected] = "approved",
           fresh |-> E!Freshness(policy, p.age) \in {"fresh", "aging"},
           rollback |-> E!RollbackReady(p)]
  BY DEF E!runReleaseCheck
<1> HIDE DEF selected, r
<1>3. /\ decision \in {"ready", "caution", "blocked"}
      /\ decision = "ready" <=> Clean(p, policy, selected)
      /\ open = {} <=> Clean(p, policy, selected)
  <2>1. tight \in BOOLEAN
    OBVIOUS
  <2> HIDE DEF tight
  <2> QED BY <2>1, DecisionIs
<1>4. covered => open # {} /\ use /\ override.policy = policy /\ override.uses < E!MaxUses[policy]
  BY DEF E!Waives
<1> HIDE DEF decision, covered, open, graded
<1>5. E!RollbackReady(p) \in BOOLEAN
  BY DEF E!RollbackReady, ReleaseProjects
<1>6. r \in CheckReports
  BY <1>1, <1>2, <1>3, <1>5 DEF CheckReports
<1>7. /\ r.policy = policy /\ r.name = selected /\ r.approved = (p.baselines[selected] = "approved")
      /\ r.fresh = (E!Freshness(policy, p.age) \in {"fresh", "aging"}) /\ r.rollback = E!RollbackReady(p)
      /\ r.decision = IF covered THEN "ready_with_override" ELSE decision
  BY <1>2
<1>8. r.decision = "ready" <=> Clean(p, policy, selected)
  BY <1>3, <1>4, <1>7
<1>9. Anchored(r)
  <2> SUFFICES ASSUME policy = "production", Clean(p, policy, selected)
               PROVE  r.approved /\ r.fresh /\ r.rollback
    BY <1>7, <1>8 DEF Anchored
  <2>1. p.baselines[selected] = "approved" /\ E!Freshness(policy, p.age) = "fresh" /\ E!RollbackReady(p)
    BY ResultsAre
  <2> QED BY <1>7, <2>1
<1> QED BY <1>3, <1>4, <1>6, <1>7, <1>8, <1>9 DEF r, LetOut

\* Recording takes a use of what the override let out.
LEMMA RecordedTakesAUse ==
  ASSUME EvidenceTypeOK, UsesAreCounted, NEW r \in CheckReports,
         LetOut(r) => override.policy = r.policy /\ override.uses < E!MaxUses[r.policy]
  PROVE  LET o == E!Recorded(r) IN
         /\ DOMAIN o = {"policy", "allowed", "approved", "uses"}
         /\ o.policy \in Policies \cup {None} /\ o.uses \in Nat
         /\ o.policy = None => o.uses = 0
         /\ o.uses = override.uses + (IF LetOut(r) THEN 1 ELSE 0)
         /\ o.uses = 0 \/ \E p \in Policies : o.uses <= E!MaxUses[p]
<1>1. r # None /\ r.policy \in Policies /\ None \notin Policies
  BY EvidenceAssumption DEF CheckReports
<1>2. \A p \in Policies : E!MaxUses[p] \in Nat
  BY EvidenceAssumption DEF E!MaxUses
<1>3. CASE LetOut(r)
  <2>1. E!Recorded(r) = [override EXCEPT !.uses = @ + 1]
    BY <1>3 DEF E!Recorded, LetOut
  <2>2. override.policy = r.policy /\ override.uses + 1 <= E!MaxUses[r.policy]
    BY <1>1, <1>2, <1>3 DEF EvidenceTypeOK
  <2> QED BY <1>1, <1>3, <2>1, <2>2 DEF EvidenceTypeOK
<1>4. CASE ~LetOut(r)
  <2>1. E!Recorded(r) = override
    BY <1>1, <1>4 DEF E!Recorded, LetOut
  <2> QED BY <1>4, <2>1 DEF EvidenceTypeOK, UsesAreCounted
<1> QED BY <1>3, <1>4

\* Writing under .opencode makes no difference but that the tree may be dirty.
LEMMA WrittenChanges ==
  ASSUME NEW p \in ReleaseProjects
  PROVE  /\ E!Written(p) \in ReleaseProjects
         /\ E!Written(p).baselines = p.baselines /\ E!Written(p).depends = p.depends
         /\ \A policy, name : Clean(E!Written(p), policy, name) => Clean(p, policy, name)
<1> DEFINE w == E!Written(p)
<1>1. /\ w \in ReleaseProjects
      /\ w.baselines = p.baselines /\ w.depends = p.depends /\ w.checks = p.checks /\ w.age = p.age
      /\ w.worse = p.worse /\ w.git = p.git /\ w.snapshot = p.snapshot /\ (p.dirty => w.dirty)
  BY DEF E!Written, ReleaseProjects
<1> HIDE DEF w
<1>2. E!RollbackReady(w) => E!RollbackReady(p)
  BY <1>1 DEF E!RollbackReady, ReleaseProjects
<1>3. ASSUME NEW policy, NEW name, Clean(w, policy, name) PROVE Clean(p, policy, name)
  BY <1>1, <1>2, <1>3, ResultsAre
<1> QED BY <1>1, <1>3 DEF w

\* A copy of a project that has nothing open, even once the rehearsal is recorded, has nothing open.
LEMMA CopyIsClean ==
  ASSUME NEW p \in ReleaseProjects, NEW found \in {"pass", "warn", "fail"},
         ~p.dirty => found = p.checks
  PROVE  /\ E!Sandbox(p, found) \in ReleaseProjects /\ E!Sandbox(p, found).baselines = p.baselines
         /\ \A policy, name : ~p.depends /\ Clean(E!Written(p), policy, name) => Clean(E!Sandbox(p, found), policy, name)
<1> DEFINE w == E!Written(p)
           s == E!Sandbox(p, found)
<1>1. /\ w \in ReleaseProjects
      /\ w.baselines = p.baselines /\ w.depends = p.depends /\ w.checks = p.checks /\ w.age = p.age
      /\ w.worse = p.worse /\ w.git = p.git /\ w.snapshot = p.snapshot /\ w.dirty = (p.dirty \/ (p.git /\ ~p.ignored))
  BY DEF E!Written, ReleaseProjects
<1>2. /\ s \in ReleaseProjects
      /\ s.baselines = p.baselines /\ s.age = p.age
      /\ s.worse = p.worse /\ s.git = TRUE /\ s.snapshot = "current" /\ s.dirty = ~p.ignored
      /\ s.checks = IF p.depends THEN "fail" ELSE found
  BY DEF E!Sandbox, ReleaseProjects
<1> HIDE DEF w, s
<1>3. ASSUME NEW policy, NEW name, ~p.depends, Clean(w, policy, name) PROVE Clean(s, policy, name)
  <2>1. E!RollbackReady(w)
    BY <1>1, <1>3, ResultsAre
  <2>2. p.git /\ ~p.dirty /\ p.ignored
    BY <1>1, <2>1 DEF E!RollbackReady, ReleaseProjects
  <2>3. E!RollbackReady(s) /\ s.checks = w.checks
    BY <1>1, <1>2, <1>3, <2>2 DEF E!RollbackReady
  <2> QED BY <1>1, <1>2, <1>3, <2>3, ResultsAre
<1> QED BY <1>2, <1>3 DEF w, s

------------------------------------------------------------------------------
LEMMA EvidenceInit == E!Init => EvidenceInv
<1> SUFFICES ASSUME E!Init PROVE EvidenceInv
  OBVIOUS
<1>1. ~Running
  BY DEF E!Init, Running
<1>2. EvidenceTypeOK
  BY EvidenceAssumption DEF E!Init, EvidenceTypeOK
<1>3. UsesAreCounted
  BY <1>1 DEF E!Init, UsesAreCounted, Pending
<1>4. RehearsalIsTrue /\ ShownIsTrue
  BY <1>1 DEF E!Init, RehearsalIsTrue, ShownIsTrue, E!ReadyIsAnchored, E!ConclusionsAgree
<1> QED BY <1>1, <1>2, <1>3, <1>4
        DEF EvidenceInv, InOrder, ApprovalsAreTrue, ReportsAreAnchored, CheckIsTrue

\* A command begins.
LEMMA BeginKeeps == EvidenceInv /\ E!Begin => EvidenceInv'
<1> SUFFICES ASSUME EvidenceInv, E!Begin PROVE EvidenceInv'
  OBVIOUS
<1>1. PICK ask \in Questions :
        /\ cmd = E!Idle /\ shown' = None /\ still' = TRUE
        /\ cmd' = [todo |-> E!Todo(ask) \cup {"end"}, ask |-> ask, passed |-> TRUE, check |-> None,
             report |-> None, reused |-> FALSE, conclusion |-> None, approval |-> None]
        /\ UNCHANGED <<source, override, rehearsal, same, lets, shifts>>
  BY DEF E!Begin
<1>2. /\ ask.kind \in {"rehearsal", "check", "evidence", "audit", "preflight"}
      /\ ask.steps \subseteq {"scripts", "check", "evidence"}
  BY EvidenceAssumption
<1>3. /\ E!Todo(ask) \subseteq DOMAIN E!Place
      /\ ask.kind = "rehearsal" => E!Todo(ask) = {"rehearse", "latest"}
      /\ ask.kind # "rehearsal" => E!Todo(ask) \subseteq {"scripts", "check", "evidence", "summary", "bundle"}
      /\ ask.kind = "audit" => "bundle" \in E!Todo(ask)
      /\ "summary" \in E!Todo(ask) => "evidence" \in E!Todo(ask)
      /\ "bundle" \in E!Todo(ask) => ask.kind = "audit" /\ "check" \in E!Todo(ask)
  BY <1>2, PlacesAreNumbers DEF E!Todo
<1>4. cmd' \in Commands
  BY <1>1, <1>3, PlacesAreNumbers DEF Commands
<1>5. EvidenceTypeOK'
  BY <1>1, <1>4 DEF EvidenceInv, EvidenceTypeOK
<1>6. InOrder'
  BY <1>1, <1>3, PlacesAreNumbers DEF InOrder, Beyond
<1>7. ApprovalsAreTrue' /\ ReportsAreAnchored' /\ CheckIsTrue'
  BY <1>1 DEF ApprovalsAreTrue, ReportsAreAnchored, CheckIsTrue, Current
<1>8. RehearsalIsTrue'
  BY <1>1 DEF EvidenceInv, RehearsalIsTrue, Approved, Clean, E!Results, E!RollbackReady
<1>9. UsesAreCounted'
  BY <1>1 DEF EvidenceInv, UsesAreCounted, Pending, LetOut, Running
<1>10. ShownIsTrue'
  BY <1>1 DEF ShownIsTrue, E!ReadyIsAnchored, E!ConclusionsAgree
<1> QED BY <1>5, <1>6, <1>7, <1>8, <1>9, <1>10 DEF EvidenceInv

\* The project moves.
LEMMA MoveKeeps ==
  ASSUME EvidenceInv, NEW p \in ReleaseProjects, NEW o, E!Move(p, o),
         DOMAIN o = {"policy", "allowed", "approved", "uses"}, o.policy \in Policies \cup {None},
         o.policy = None => o.uses = 0, o.uses = override.uses
  PROVE  EvidenceInv'
<1>1. /\ source' = p /\ override' = o /\ shown' = None /\ still' = FALSE /\ same' = FALSE
      /\ UNCHANGED <<rehearsal, cmd, lets, commands>>
  BY DEF E!Move
<1>2. EvidenceTypeOK'
  BY <1>1 DEF EvidenceInv, EvidenceTypeOK
<1>3. InOrder' /\ ReportsAreAnchored'
  BY <1>1 DEF EvidenceInv, InOrder, ReportsAreAnchored, Running
<1>4. ApprovalsAreTrue' /\ RehearsalIsTrue' /\ CheckIsTrue' /\ ShownIsTrue'
  BY <1>1 DEF EvidenceInv, ApprovalsAreTrue, RehearsalIsTrue, CheckIsTrue, ShownIsTrue, Current,
              E!ReadyIsAnchored, E!ConclusionsAgree
<1>5. UsesAreCounted'
  BY <1>1 DEF EvidenceInv, UsesAreCounted, Pending, LetOut, Running
<1> QED BY <1>2, <1>3, <1>4, <1>5 DEF EvidenceInv

LEMMA MovesKeepEvidence ==
  EvidenceInv /\ (E!Edit \/ E!Commit \/ E!Snapshot \/ E!Measure \/ E!Anchor \/ E!Grant) => EvidenceInv'
<1> SUFFICES ASSUME EvidenceInv PROVE (E!Edit \/ E!Commit \/ E!Snapshot \/ E!Measure \/ E!Anchor \/ E!Grant) => EvidenceInv'
  OBVIOUS
<1>1. /\ source \in ReleaseProjects
      /\ DOMAIN override = {"policy", "allowed", "approved", "uses"} /\ override.policy \in Policies \cup {None}
      /\ override.policy = None => override.uses = 0
  BY DEF EvidenceInv, EvidenceTypeOK
<1>2. ASSUME NEW p \in ReleaseProjects, E!Move(p, override) PROVE EvidenceInv'
  BY <1>1, <1>2, MoveKeeps
<1>3. CASE E!Edit
  <2>1. PICK found \in {"pass", "warn", "fail"} : E!Move([source EXCEPT !.dirty = source.git, !.checks = found], override)
    BY <1>3 DEF E!Edit
  <2>2. [source EXCEPT !.dirty = source.git, !.checks = found] \in ReleaseProjects
    BY <1>1 DEF ReleaseProjects
  <2> QED BY <1>2, <2>1, <2>2
<1>4. CASE E!Commit
  <2>1. E!Move([source EXCEPT !.dirty = FALSE, !.snapshot = IF @ = "current" THEN "old" ELSE @], override)
    BY <1>4 DEF E!Commit
  <2>2. [source EXCEPT !.dirty = FALSE, !.snapshot = IF @ = "current" THEN "old" ELSE @] \in ReleaseProjects
    BY <1>1 DEF ReleaseProjects
  <2> QED BY <1>2, <2>1, <2>2
<1>5. CASE E!Snapshot
  <2>1. E!Move(E!Written([source EXCEPT !.snapshot = "current"]), override)
    BY <1>5 DEF E!Snapshot
  <2>2. [source EXCEPT !.snapshot = "current"] \in ReleaseProjects
    BY <1>1 DEF ReleaseProjects
  <2> QED BY <1>2, <2>1, <2>2, WrittenChanges
<1>6. CASE E!Measure
  <2>1. PICK age \in Ages, worse \in BOOLEAN : E!Move(E!Written([source EXCEPT !.age = age, !.worse = worse]), override)
    BY <1>6 DEF E!Measure
  <2>2. [source EXCEPT !.age = age, !.worse = worse] \in ReleaseProjects
    BY <1>1, EvidenceAssumption DEF ReleaseProjects
  <2> QED BY <1>2, <2>1, <2>2, WrittenChanges
<1>7. CASE E!Anchor
  <2>1. PICK name \in DOMAIN source.baselines, status \in {"missing", "unapproved", "approved"} :
          E!Move(E!Written([source EXCEPT !.baselines[name] = status]), override)
    BY <1>7 DEF E!Anchor
  <2>2. [source EXCEPT !.baselines[name] = status] \in ReleaseProjects
    BY <1>1 DEF ReleaseProjects
  <2> QED BY <1>2, <2>1, <2>2, WrittenChanges
<1>8. CASE E!Grant
  <2>1. PICK grant \in Grants, approved \in BOOLEAN :
          E!Move(E!Written(source), [policy |-> grant.policy, allowed |-> grant.allowed, approved |-> approved,
                         uses |-> IF override.policy = None THEN 0 ELSE override.uses])
    BY <1>8 DEF E!Grant
  <2> DEFINE o == [policy |-> grant.policy, allowed |-> grant.allowed, approved |-> approved,
                   uses |-> IF override.policy = None THEN 0 ELSE override.uses]
  <2>2. /\ DOMAIN o = {"policy", "allowed", "approved", "uses"} /\ o.policy = grant.policy
        /\ o.uses = override.uses
    BY <1>1
  <2>3. o.policy \in Policies /\ o.policy # None
    BY <2>2, EvidenceAssumption
  <2> HIDE DEF o
  <2>4. E!Move(E!Written(source), o)
    BY <2>1 DEF o
  <2> QED BY <1>1, <2>2, <2>3, <2>4, WrittenChanges, MoveKeeps
<1> QED BY <1>3, <1>4, <1>5, <1>6, <1>7, <1>8

------------------------------------------------------------------------------
\* A step of a command leaves what it does not speak of.
LEMMA StepTakes ==
  ASSUME EvidenceInv, NEW name, NEW known \in Commands, known.todo = cmd.todo, NEW writes \in BOOLEAN,
         E!Step(name, known, writes)
  PROVE  /\ cmd \in Commands /\ Running /\ cmd' \in Commands /\ Running'
         /\ cmd'.todo = cmd.todo \ {name} /\ cmd'.ask = known.ask /\ cmd'.check = known.check
         /\ cmd'.report = known.report /\ cmd'.reused = known.reused
         /\ cmd'.conclusion = known.conclusion /\ cmd'.approval = known.approval
         /\ shown = None /\ shown' = None /\ still' = still
         /\ source' = (IF writes THEN E!Written(source) ELSE source)
         /\ source \in ReleaseProjects /\ source' \in ReleaseProjects
         /\ source'.baselines = source.baselines /\ source'.depends = source.depends
         /\ \A policy, n : Clean(source', policy, n) => Clean(source, policy, n)
<1>1. /\ E!Up(name) /\ cmd' = [known EXCEPT !.todo = @ \ {name}]
      /\ source' = (IF writes THEN E!Written(source) ELSE source) /\ shown' = shown /\ still' = still
  BY DEF E!Step
<1>2. cmd # E!Idle
  BY <1>1 DEF E!Up, E!Idle
<1>3. cmd \in Commands /\ source \in ReleaseProjects /\ shown = None
  BY <1>2 DEF EvidenceInv, EvidenceTypeOK, ShownIsTrue, Running
<1>4. /\ cmd' \in Commands
      /\ cmd'.todo = cmd.todo \ {name} /\ cmd'.ask = known.ask /\ cmd'.check = known.check
      /\ cmd'.report = known.report /\ cmd'.reused = known.reused
      /\ cmd'.conclusion = known.conclusion /\ cmd'.approval = known.approval
  BY <1>1 DEF Commands
<1>5. cmd' # E!Idle
  BY <1>4 DEF Commands, E!Idle
<1>6. /\ source' \in ReleaseProjects
      /\ source'.baselines = source.baselines /\ source'.depends = source.depends
      /\ \A policy, n : Clean(source', policy, n) => Clean(source, policy, n)
  BY <1>1, <1>3, WrittenChanges
<1> QED BY <1>1, <1>2, <1>3, <1>4, <1>5, <1>6 DEF Running

\* What a command asks for.
LEMMA AskedFor ==
  ASSUME cmd \in Commands
  PROVE  /\ cmd.ask.policy \in Policies /\ cmd.ask.override \in BOOLEAN
         /\ cmd.ask.name \in BaselineNames \cup {None} /\ E!AskedName \in BaselineNames
         /\ cmd.ask.kind \in {"rehearsal", "check", "evidence", "audit", "preflight"}
BY EvidenceAssumption DEF Commands, E!AskedName

LEMMA RehearseKeeps == EvidenceInv /\ E!Rehearse => EvidenceInv'
<1> SUFFICES ASSUME EvidenceInv, E!Rehearse PROVE EvidenceInv'
  OBVIOUS
<1>1. PICK found \in (IF source.dirty THEN {"pass", "warn", "fail"} ELSE {source.checks}) :
        /\ E!Step("rehearse", [cmd EXCEPT !.check =
               E!runReleaseCheck(E!Sandbox(source, found), cmd.ask.policy, TRUE, E!AskedName, FALSE)], FALSE)
        /\ UNCHANGED <<override, rehearsal, same, lets>>
  BY DEF E!Rehearse
<1> DEFINE r == E!runReleaseCheck(E!Sandbox(source, found), cmd.ask.policy, TRUE, E!AskedName, FALSE)
           known == [cmd EXCEPT !.check = r]
<1>2. cmd \in Commands /\ source \in ReleaseProjects
  <2>1. cmd # E!Idle
    BY <1>1 DEF E!Step, E!Up, E!Idle
  <2> QED BY <2>1 DEF EvidenceInv, EvidenceTypeOK
<1>3. /\ found \in {"pass", "warn", "fail"} /\ (~source.dirty => found = source.checks)
  BY <1>1, <1>2 DEF ReleaseProjects
<1>4. /\ r \in CheckReports /\ r.policy = cmd.ask.policy /\ Anchored(r) /\ ~LetOut(r)
      /\ r.approved = Approved(r.name)
      /\ ~source.depends /\ Clean(E!Written(source), r.policy, r.name) => r.decision = "ready"
  <2> DEFINE copy == E!Sandbox(source, found)
             policy == cmd.ask.policy
             yes == TRUE
             no == FALSE
  <2>1. /\ copy \in ReleaseProjects /\ copy.baselines = source.baselines
        /\ \A p, n : ~source.depends /\ Clean(E!Written(source), p, n) => Clean(copy, p, n)
    BY <1>2, <1>3, CopyIsClean
  <2>2. policy \in Policies /\ E!AskedName \in BaselineNames \cup {None} /\ yes \in BOOLEAN /\ no \in BOOLEAN
        /\ r = E!runReleaseCheck(copy, policy, yes, E!AskedName, no)
    BY <1>2, AskedFor
  <2> HIDE DEF r, copy, policy, yes, no
  <2>5. /\ r \in CheckReports /\ r.policy = policy /\ Anchored(r) /\ (LetOut(r) => no)
        /\ r.approved = (copy.baselines[r.name] = "approved")
        /\ r.decision = "ready" <=> Clean(copy, policy, r.name)
    BY <2>1, <2>2, CheckFinds
  <2>3. /\ r \in CheckReports /\ r.policy = policy /\ Anchored(r) /\ ~LetOut(r)
        /\ r.approved = (copy.baselines[r.name] = "approved")
        /\ r.decision = "ready" <=> Clean(copy, policy, r.name)
    BY <2>5 DEF no
  <2>4. policy = cmd.ask.policy
    BY DEF policy
  <2> QED BY <2>1, <2>3, <2>4 DEF Approved
<1> HIDE DEF r
<1>5. /\ known \in Commands /\ known.todo = cmd.todo /\ known.ask = cmd.ask /\ known.check = r
      /\ known.report = cmd.report /\ known.reused = cmd.reused /\ known.conclusion = cmd.conclusion
      /\ known.approval = cmd.approval
  BY <1>2, <1>4 DEF Commands
<1>6. E!Step("rehearse", known, FALSE) /\ E!Up("rehearse")
  BY <1>1 DEF r, E!Step
<1> HIDE DEF known
<1>7. /\ cmd \in Commands /\ Running /\ cmd' \in Commands /\ Running'
      /\ cmd'.todo = cmd.todo \ {"rehearse"} /\ cmd'.ask = cmd.ask /\ cmd'.check = r
      /\ cmd'.report = cmd.report /\ cmd'.reused = cmd.reused
      /\ cmd'.conclusion = cmd.conclusion /\ cmd'.approval = cmd.approval
      /\ shown = None /\ shown' = None /\ still' = still /\ source' = source
  BY <1>5, <1>6, StepTakes
<1>8. /\ Beyond(cmd'.todo, 1) /\ ~Beyond(cmd.todo, 2) /\ ~Beyond(cmd.todo, 5) /\ ~Beyond(cmd.todo, 4)
      /\ \A n \in Nat : Beyond(cmd.todo, n) => Beyond(cmd'.todo, n)
  <2>1. /\ Beyond(cmd.todo \ {"rehearse"}, E!Place["rehearse"])
        /\ \A n \in Nat : Beyond(cmd.todo, n) => Beyond(cmd.todo \ {"rehearse"}, n)
        /\ \A n \in Nat : E!Place["rehearse"] <= n => ~Beyond(cmd.todo, n)
    BY <1>2, <1>6, StepsAreTaken
  <2> QED BY <1>7, <2>1, PlacesAreNumbers
<1>9. cmd.ask.kind = "rehearsal" /\ cmd.report = None /\ cmd.conclusion = None /\ r # None /\ cmd.approval = None
  <2>1. cmd.ask.kind = "rehearsal" /\ cmd.report = None /\ cmd.conclusion = None /\ cmd.approval = None
    BY <1>7, <1>8 DEF EvidenceInv, InOrder
  <2> QED BY <1>4, <2>1, EvidenceAssumption
<1>10. EvidenceTypeOK'
  BY <1>1, <1>7 DEF EvidenceInv, EvidenceTypeOK
<1>11. InOrder'
  BY <1>7, <1>8, <1>9 DEF EvidenceInv, InOrder
<1>12. ApprovalsAreTrue' /\ ReportsAreAnchored'
  BY <1>4, <1>7, <1>9 DEF ApprovalsAreTrue, ReportsAreAnchored, Approved
<1>13. RehearsalIsTrue'
  BY <1>1, <1>7 DEF EvidenceInv, RehearsalIsTrue, Approved, Clean, E!Results, E!RollbackReady
<1>14. CheckIsTrue'
  BY <1>4, <1>7, <1>9 DEF CheckIsTrue, Clean, E!Results, E!RollbackReady, E!Written
<1>15. UsesAreCounted'
  <2>1. lets + 0 <= override.uses
    BY <1>1, <1>7, <1>9 DEF EvidenceInv, EvidenceTypeOK, UsesAreCounted, Pending, LetOut
  <2>2. Pending' = 0
    BY <1>4, <1>7, <1>9 DEF Pending, LetOut
  <2> QED BY <1>1, <1>4, <1>7, <2>1, <2>2 DEF EvidenceInv, UsesAreCounted, LetOut
<1>16. ShownIsTrue'
  BY <1>7 DEF ShownIsTrue, E!ReadyIsAnchored, E!ConclusionsAgree
<1> QED BY <1>10, <1>11, <1>12, <1>13, <1>14, <1>15, <1>16 DEF EvidenceInv

\* What does not change when a step neither checks nor reports.
LEMMA RehearsalStays ==
  ASSUME RehearsalIsTrue, UNCHANGED <<rehearsal, same>>, source \in ReleaseProjects,
         source'.baselines = source.baselines, source'.depends = source.depends,
         \A policy, n : Clean(source', policy, n) => Clean(source, policy, n)
  PROVE  RehearsalIsTrue'
<1> DEFINE clean(policy, n) == Clean(source', policy, n)
<1>1. \A policy, n : clean(policy, n) => Clean(source, policy, n)
  OBVIOUS
<1> HIDE DEF clean
<1>2. RehearsalIsTrue' <=>
        /\ rehearsal # None => Anchored(rehearsal)
        /\ same /\ rehearsal # None =>
             /\ rehearsal.approved = (source'.baselines[rehearsal.name] = "approved")
             /\ ~source'.depends /\ clean(rehearsal.policy, rehearsal.name) => rehearsal.decision = "ready"
  BY DEF RehearsalIsTrue, Approved, clean, Anchored, Clean, E!Results, E!RollbackReady
<1> QED BY <1>1, <1>2 DEF RehearsalIsTrue, Approved

LEMMA WriteLatestKeeps == EvidenceInv /\ E!WriteLatest => EvidenceInv'
<1> SUFFICES ASSUME EvidenceInv, E!WriteLatest PROVE EvidenceInv'
  OBVIOUS
<1>1. /\ E!Step("latest", cmd, TRUE) /\ E!Up("latest") /\ rehearsal' = cmd.check /\ same' = still
      /\ UNCHANGED <<override, lets>>
  BY DEF E!WriteLatest, E!Step
<1>2. cmd \in Commands
  <2>1. cmd # E!Idle
    BY <1>1 DEF E!Up, E!Idle
  <2> QED BY <2>1 DEF EvidenceInv, EvidenceTypeOK
<1>3. /\ Running /\ cmd' \in Commands /\ Running'
      /\ cmd'.todo = cmd.todo \ {"latest"} /\ cmd'.ask = cmd.ask /\ cmd'.check = cmd.check
      /\ cmd'.report = cmd.report /\ cmd'.reused = cmd.reused
      /\ cmd'.conclusion = cmd.conclusion /\ cmd'.approval = cmd.approval
      /\ shown = None /\ shown' = None /\ still' = still /\ source' = E!Written(source)
      /\ source \in ReleaseProjects /\ source' \in ReleaseProjects
      /\ source'.baselines = source.baselines /\ source'.depends = source.depends
  BY <1>1, <1>2, StepTakes
<1>4. /\ ~Beyond(cmd.todo, 2) /\ \A n \in Nat : Beyond(cmd.todo, n) => Beyond(cmd'.todo, n)
  <2>1. /\ \A n \in Nat : Beyond(cmd.todo, n) => Beyond(cmd.todo \ {"latest"}, n)
        /\ \A n \in Nat : E!Place["latest"] <= n => ~Beyond(cmd.todo, n)
    BY <1>1, <1>2, StepsAreTaken
  <2> QED BY <1>3, <2>1, PlacesAreNumbers
<1>5. cmd.ask.kind = "rehearsal" /\ cmd.report = None /\ cmd.conclusion = None /\ cmd.approval = None
  BY <1>3, <1>4 DEF EvidenceInv, InOrder
<1>6. cmd.check \in CheckReports \cup {None}
  BY <1>2 DEF Commands
<1>7. EvidenceTypeOK'
  BY <1>1, <1>3, <1>6 DEF EvidenceInv, EvidenceTypeOK
<1>8. InOrder'
  BY <1>3, <1>4, <1>5 DEF EvidenceInv, InOrder
<1>9. ApprovalsAreTrue' /\ ReportsAreAnchored'
  BY <1>3, <1>5 DEF EvidenceInv, ApprovalsAreTrue, ReportsAreAnchored, Approved
<1> DEFINE clean(policy, n) == Clean(source', policy, n)
           again(policy, n) == Clean(E!Written(source'), policy, n)
<1>10. \A policy, n : again(policy, n) => clean(policy, n)
  BY <1>3, WrittenChanges
<1>11. still /\ cmd.check # None /\ ~source.depends /\ clean(cmd.check.policy, cmd.check.name) => cmd.check.decision = "ready"
  BY <1>3, <1>5 DEF EvidenceInv, CheckIsTrue
<1>12. CheckIsTrue'
  <2>1. CheckIsTrue' <=> (still /\ cmd.check # None =>
          (~source'.depends /\ again(cmd.check.policy, cmd.check.name) => cmd.check.decision = "ready"))
    BY <1>3, <1>5 DEF CheckIsTrue, Clean, E!Results, E!RollbackReady, E!Written
  <2> HIDE DEF clean, again
  <2> QED BY <1>3, <1>10, <1>11, <2>1
<1>13. RehearsalIsTrue'
  <2>1. RehearsalIsTrue' <=>
        /\ cmd.check # None => Anchored(cmd.check)
        /\ still /\ cmd.check # None =>
             /\ cmd.check.approved = (source'.baselines[cmd.check.name] = "approved")
             /\ ~source'.depends /\ clean(cmd.check.policy, cmd.check.name) => cmd.check.decision = "ready"
    BY <1>1 DEF RehearsalIsTrue, Approved, Anchored, Clean, E!Results, E!RollbackReady
  <2> HIDE DEF clean, again
  <2> QED BY <1>3, <1>11, <2>1 DEF EvidenceInv, ReportsAreAnchored, ApprovalsAreTrue, Approved
<1>14. UsesAreCounted'
  BY <1>1, <1>3 DEF EvidenceInv, UsesAreCounted, Pending, LetOut
<1>15. ShownIsTrue'
  BY <1>3 DEF ShownIsTrue, E!ReadyIsAnchored, E!ConclusionsAgree
<1> QED BY <1>7, <1>8, <1>9, <1>12, <1>13, <1>14, <1>15 DEF EvidenceInv

LEMMA RunScriptsKeeps == EvidenceInv /\ E!RunScripts => EvidenceInv'
<1> SUFFICES ASSUME EvidenceInv, E!RunScripts PROVE EvidenceInv'
  OBVIOUS
<1>1. PICK passes \in BOOLEAN : E!Step("scripts", [cmd EXCEPT !.passed = @ /\ passes], FALSE)
  BY DEF E!RunScripts
<1>2. E!Up("scripts") /\ UNCHANGED <<override, rehearsal, same, lets>>
  BY <1>1 DEF E!RunScripts, E!Step
<1> DEFINE known == [cmd EXCEPT !.passed = @ /\ passes]
<1>3. cmd \in Commands
  <2>1. cmd # E!Idle
    BY <1>2 DEF E!Up, E!Idle
  <2> QED BY <2>1 DEF EvidenceInv, EvidenceTypeOK
<1>4. /\ known \in Commands /\ known.todo = cmd.todo /\ known.ask = cmd.ask /\ known.check = cmd.check
      /\ known.report = cmd.report /\ known.reused = cmd.reused /\ known.conclusion = cmd.conclusion
      /\ known.approval = cmd.approval
  BY <1>3 DEF Commands
<1>5. E!Step("scripts", known, FALSE)
  BY <1>1
<1> HIDE DEF known
<1>6. /\ Running /\ cmd' \in Commands /\ Running'
      /\ cmd'.todo = cmd.todo \ {"scripts"} /\ cmd'.ask = cmd.ask /\ cmd'.check = cmd.check
      /\ cmd'.report = cmd.report /\ cmd'.reused = cmd.reused
      /\ cmd'.conclusion = cmd.conclusion /\ cmd'.approval = cmd.approval
      /\ shown = None /\ shown' = None /\ still' = still /\ source' = source
  BY <1>4, <1>5, StepTakes
<1>7. \A n \in Nat : Beyond(cmd.todo, n) => Beyond(cmd'.todo, n)
  BY <1>2, <1>3, <1>6, StepsAreTaken
<1>8. EvidenceTypeOK'
  BY <1>2, <1>6 DEF EvidenceInv, EvidenceTypeOK
<1>9. InOrder'
  BY <1>6, <1>7 DEF EvidenceInv, InOrder
<1>10. ApprovalsAreTrue' /\ ReportsAreAnchored'
  BY <1>2, <1>6 DEF EvidenceInv, ApprovalsAreTrue, ReportsAreAnchored, Approved, Current, Anchored
<1>11. CheckIsTrue' /\ RehearsalIsTrue'
  BY <1>2, <1>6 DEF EvidenceInv, CheckIsTrue, RehearsalIsTrue, Approved, Anchored, Clean, E!Results, E!RollbackReady, E!Written
<1>12. UsesAreCounted'
  BY <1>2, <1>6 DEF EvidenceInv, UsesAreCounted, Pending, LetOut
<1>13. ShownIsTrue'
  BY <1>6 DEF ShownIsTrue, E!ReadyIsAnchored, E!ConclusionsAgree
<1> QED BY <1>8, <1>9, <1>10, <1>11, <1>12, <1>13 DEF EvidenceInv

LEMMA CheckKeeps == EvidenceInv /\ E!Check => EvidenceInv'
<1> SUFFICES ASSUME EvidenceInv, E!Check PROVE EvidenceInv'
  OBVIOUS
<1> DEFINE name == IF cmd.ask.kind = "audit" THEN cmd.ask.name ELSE None
           no == FALSE
           policy == cmd.ask.policy
           use == cmd.ask.override
           r == E!runReleaseCheck(source, policy, no, name, use)
           known == [cmd EXCEPT !.check = r, !.passed = @ /\ r.decision # "blocked"]
<1>1. /\ E!Step("check", known, r.decision = "ready_with_override") /\ E!Up("check")
      /\ override' = E!Recorded(r) /\ UNCHANGED <<rehearsal, same, lets>>
  BY DEF E!Check, E!Step
<1>2. cmd \in Commands /\ source \in ReleaseProjects
  <2>1. cmd # E!Idle
    BY <1>1 DEF E!Up, E!Idle
  <2> QED BY <2>1 DEF EvidenceInv, EvidenceTypeOK
<1>3. name \in BaselineNames \cup {None} /\ policy \in Policies /\ use \in BOOLEAN /\ no \in BOOLEAN
  BY <1>2, AskedFor
<1>4. policy = cmd.ask.policy
  OBVIOUS
<1> HIDE DEF name, no, policy, use
<1>5. /\ r \in CheckReports /\ r.policy = policy /\ Anchored(r)
      /\ r.approved = (source.baselines[r.name] = "approved")
      /\ r.decision = "ready" <=> Clean(source, policy, r.name)
      /\ LetOut(r) => use /\ override.policy = policy /\ override.uses < E!MaxUses[policy]
  BY <1>2, <1>3, CheckFinds
<1> HIDE DEF r
<1>6. r # None /\ r.policy = cmd.ask.policy
  BY <1>4, <1>5, EvidenceAssumption
<1>7. /\ known \in Commands /\ known.todo = cmd.todo /\ known.ask = cmd.ask /\ known.check = r
      /\ known.report = cmd.report /\ known.reused = cmd.reused /\ known.conclusion = cmd.conclusion
      /\ known.approval = cmd.approval
  BY <1>2, <1>5 DEF Commands
<1> HIDE DEF known
<1> DEFINE writes == r.decision = "ready_with_override"
<1>8. E!Step("check", known, writes) /\ writes \in BOOLEAN /\ (writes <=> LetOut(r))
  BY <1>1, <1>6 DEF LetOut
<1> HIDE DEF writes
<1>9. /\ Running /\ cmd' \in Commands /\ Running'
      /\ cmd'.todo = cmd.todo \ {"check"} /\ cmd'.ask = cmd.ask /\ cmd'.check = r
      /\ cmd'.report = cmd.report /\ cmd'.reused = cmd.reused
      /\ cmd'.conclusion = cmd.conclusion /\ cmd'.approval = cmd.approval
      /\ shown = None /\ shown' = None /\ still' = still
      /\ source' = (IF writes THEN E!Written(source) ELSE source) /\ source' \in ReleaseProjects
      /\ source'.baselines = source.baselines /\ source'.depends = source.depends
      /\ \A p, n : Clean(source', p, n) => Clean(source, p, n)
  BY <1>7, <1>8, StepTakes
<1>10. /\ Beyond(cmd'.todo, 4) /\ Beyond(cmd'.todo, 2)
       /\ ~Beyond(cmd.todo, 4) /\ ~Beyond(cmd.todo, 5) /\ ~Beyond(cmd.todo, 6) /\ ~Beyond(cmd.todo, 7)
  <2>1. /\ Beyond(cmd.todo \ {"check"}, E!Place["check"])
        /\ \A n \in Nat : E!Place["check"] <= n => ~Beyond(cmd.todo, n)
    BY <1>1, <1>2, StepsAreTaken
  <2>2. Beyond(cmd'.todo, 4) /\ cmd'.todo \subseteq DOMAIN E!Place
    BY <1>9, <2>1, PlacesAreNumbers DEF Commands
  <2>3. Beyond(cmd'.todo, 2)
    BY <2>2, PlacesAreNumbers DEF Beyond
  <2> QED BY <2>1, <2>2, <2>3, PlacesAreNumbers
<1>11. /\ cmd.ask.kind # "rehearsal" /\ cmd.check = None /\ cmd.report = None /\ cmd.conclusion = None
       /\ cmd.approval = None
  <2>1. "check" \in cmd.todo
    BY <1>1 DEF E!Up
  <2> QED BY <1>9, <1>10, <2>1 DEF EvidenceInv, InOrder
<1>12. /\ DOMAIN override' = {"policy", "allowed", "approved", "uses"}
       /\ override'.policy \in Policies \cup {None} /\ override'.uses \in Nat
       /\ override'.policy = None => override'.uses = 0
       /\ override'.uses = override.uses + (IF LetOut(r) THEN 1 ELSE 0)
       /\ override'.uses = 0 \/ \E p \in Policies : override'.uses <= E!MaxUses[p]
  BY <1>1, <1>5, RecordedTakesAUse DEF EvidenceInv
<1>13. EvidenceTypeOK'
  BY <1>1, <1>9, <1>12 DEF EvidenceInv, EvidenceTypeOK
<1>14. InOrder'
  BY <1>6, <1>9, <1>10, <1>11 DEF EvidenceInv, InOrder
<1>15. ApprovalsAreTrue' /\ ReportsAreAnchored'
  BY <1>5, <1>6, <1>9, <1>11 DEF ApprovalsAreTrue, ReportsAreAnchored, Approved, Anchored
<1>16. CheckIsTrue'
  <2>1. r.decision = "ready" => source' = source
    BY <1>8, <1>9 DEF LetOut
  <2> DEFINE clean(p, n) == Clean(source', p, n)
  <2>2. r.decision = "ready" => clean(r.policy, r.name)
    BY <1>5, <2>1
  <2>3. CheckIsTrue' <=> (still /\ r.decision = "ready" => clean(r.policy, r.name))
    BY <1>6, <1>9, <1>11 DEF CheckIsTrue, Clean, E!Results, E!RollbackReady
  <2> HIDE DEF clean
  <2> QED BY <2>2, <2>3
<1>17. RehearsalIsTrue'
  BY <1>1, <1>2, <1>9, RehearsalStays DEF EvidenceInv
<1>18. UsesAreCounted'
  <2>1. Pending = 0 /\ Pending' = IF LetOut(r) THEN 1 ELSE 0
    BY <1>9, <1>11 DEF Pending, LetOut
  <2>2. lets' + Pending' <= override'.uses
    BY <1>1, <1>12, <2>1 DEF EvidenceInv, UsesAreCounted, EvidenceTypeOK
  <2>3. cmd'.ask.kind # "rehearsal"
    BY <1>9, <1>11
  <2> QED BY <1>12, <2>2, <2>3 DEF UsesAreCounted, E!MaxUses
<1>19. ShownIsTrue'
  BY <1>9 DEF ShownIsTrue, E!ReadyIsAnchored, E!ConclusionsAgree
<1> QED BY <1>13, <1>14, <1>15, <1>16, <1>17, <1>18, <1>19 DEF EvidenceInv

LEMMA EvidenceKeeps == EvidenceInv /\ E!generateReleaseEvidence => EvidenceInv'
<1> SUFFICES ASSUME EvidenceInv, E!generateReleaseEvidence PROVE EvidenceInv'
  OBVIOUS
<1> DEFINE name == IF cmd.ask.kind = "audit" THEN cmd.check.name ELSE E!AskedName
           no == FALSE
           policy == cmd.ask.policy
           use == cmd.ask.override
           found == E!runReleaseCheck(source, policy, no, name, use)
           reused == rehearsal # None /\ rehearsal.policy = policy
           r == IF reused THEN rehearsal ELSE found
           known == [cmd EXCEPT !.report = r, !.reused = reused]
<1>1. /\ E!Step("evidence", known, ~reused /\ r.decision = "ready_with_override") /\ E!Up("evidence")
      /\ override' = (IF reused THEN override ELSE E!Recorded(r)) /\ UNCHANGED <<rehearsal, same, lets>>
  BY DEF E!generateReleaseEvidence, E!Step
<1>2. cmd \in Commands /\ source \in ReleaseProjects /\ Running
  <2>1. cmd # E!Idle
    BY <1>1 DEF E!Up, E!Idle
  <2> QED BY <2>1 DEF EvidenceInv, EvidenceTypeOK, Running
<1>20. "evidence" \in cmd.todo /\ ~Beyond(cmd.todo, 5) /\ ~Beyond(cmd.todo, 6) /\ ~Beyond(cmd.todo, 7)
       /\ "check" \notin cmd.todo /\ Beyond(cmd.todo \ {"evidence"}, 5)
       /\ \A n \in Nat : Beyond(cmd.todo, n) => Beyond(cmd.todo \ {"evidence"}, n)
  <2>1. /\ \A n \in Nat : E!Place["evidence"] <= n => ~Beyond(cmd.todo, n)
        /\ \A n \in Nat : Beyond(cmd.todo, n) => Beyond(cmd.todo \ {"evidence"}, n)
        /\ Beyond(cmd.todo \ {"evidence"}, E!Place["evidence"])
    BY <1>1, <1>2, StepsAreTaken
  <2>2. "evidence" \in cmd.todo /\ \A next \in cmd.todo : E!Place["evidence"] <= E!Place[next]
    BY <1>1 DEF E!Up
  <2> QED BY <2>1, <2>2, PlacesAreNumbers
<1>21. /\ cmd.ask.kind # "rehearsal" /\ cmd.report = None /\ cmd.conclusion = None /\ cmd.approval = None
       /\ cmd.ask.kind = "audit" => "bundle" \in cmd.todo /\ cmd.check # None
  BY <1>2, <1>20 DEF EvidenceInv, InOrder
<1>3. name \in BaselineNames \cup {None} /\ policy \in Policies /\ use \in BOOLEAN /\ no \in BOOLEAN
  <2>1. cmd.check # None => cmd.check.name \in BaselineNames
    BY <1>2 DEF Commands, CheckReports
  <2> QED BY <1>2, <1>21, <2>1, AskedFor
<1>4. policy = cmd.ask.policy /\ reused \in BOOLEAN
  OBVIOUS
<1> HIDE DEF name, no, policy, use
<1>5. /\ found \in CheckReports /\ found.policy = policy /\ Anchored(found)
      /\ found.approved = (source.baselines[found.name] = "approved")
      /\ found.decision = "ready" <=> Clean(source, policy, found.name)
      /\ LetOut(found) => use /\ override.policy = policy /\ override.uses < E!MaxUses[policy]
  BY <1>2, <1>3, CheckFinds
<1> HIDE DEF found
<1>6. /\ r \in CheckReports /\ r # None /\ r.policy = policy /\ Anchored(r)
      /\ (reused => same) => r.approved = (source.baselines[r.name] = "approved")
      /\ (reused => same /\ ~source.depends) /\ Clean(source, policy, r.name) => r.decision = "ready"
      /\ ~reused => r = found
  <2>1. reused => /\ r = rehearsal /\ r \in CheckReports /\ r # None /\ r.policy = policy
                  /\ Anchored(r) /\ (same => r.approved = (source.baselines[r.name] = "approved"))
                  /\ same /\ ~source.depends /\ Clean(source, policy, r.name) => r.decision = "ready"
    BY DEF EvidenceInv, EvidenceTypeOK, RehearsalIsTrue, Approved
  <2> HIDE DEF reused
  <2>2. ~reused => r = found
    OBVIOUS
  <2> HIDE DEF r
  <2> QED BY <1>5, <2>1, <2>2, EvidenceAssumption
<1>7. /\ known \in Commands /\ known.todo = cmd.todo /\ known.ask = cmd.ask /\ known.check = cmd.check
      /\ known.report = r /\ (known.reused <=> reused) /\ known.conclusion = cmd.conclusion
      /\ known.approval = cmd.approval
  <2> HIDE DEF r, reused
  <2> QED BY <1>2, <1>4, <1>6 DEF Commands
<1> HIDE DEF known, r, reused
<1> DEFINE writes == ~reused /\ r.decision = "ready_with_override"
<1>8. E!Step("evidence", known, writes) /\ writes \in BOOLEAN /\ (writes <=> (LetOut(r) /\ ~reused))
  BY <1>1, <1>6 DEF LetOut
<1> HIDE DEF writes
<1>9. /\ cmd' \in Commands /\ Running'
      /\ cmd'.todo = cmd.todo \ {"evidence"} /\ cmd'.ask = cmd.ask /\ cmd'.check = cmd.check
      /\ cmd'.report = r /\ (cmd'.reused <=> reused)
      /\ cmd'.conclusion = cmd.conclusion /\ cmd'.approval = cmd.approval
      /\ shown = None /\ shown' = None /\ still' = still
      /\ source' = (IF writes THEN E!Written(source) ELSE source) /\ source' \in ReleaseProjects
      /\ source'.baselines = source.baselines /\ source'.depends = source.depends
      /\ \A p, n : Clean(source', p, n) => Clean(source, p, n)
  <2>1. /\ cmd' \in Commands /\ Running'
        /\ cmd'.todo = cmd.todo \ {"evidence"} /\ cmd'.ask = known.ask /\ cmd'.check = known.check
        /\ cmd'.report = known.report /\ cmd'.reused = known.reused
        /\ cmd'.conclusion = known.conclusion /\ cmd'.approval = known.approval
        /\ shown = None /\ shown' = None /\ still' = still
        /\ source' = (IF writes THEN E!Written(source) ELSE source) /\ source' \in ReleaseProjects
        /\ source'.baselines = source.baselines /\ source'.depends = source.depends
        /\ \A p, n : Clean(source', p, n) => Clean(source, p, n)
    <3>1. known \in Commands /\ known.todo = cmd.todo
      BY <1>7
    <3>2. E!Step("evidence", known, writes) /\ writes \in BOOLEAN
      BY <1>8
    <3> QED BY <3>1, <3>2, StepTakes
  <2> QED BY <1>7, <2>1
<1>12. /\ DOMAIN override' = {"policy", "allowed", "approved", "uses"}
       /\ override'.policy \in Policies \cup {None} /\ override'.uses \in Nat
       /\ override'.policy = None => override'.uses = 0
       /\ override'.uses = override.uses + (IF LetOut(r) /\ ~reused THEN 1 ELSE 0)
       /\ override'.uses = 0 \/ \E p \in Policies : override'.uses <= E!MaxUses[p]
  <2>1. CASE reused
    BY <1>1, <2>1 DEF EvidenceInv, EvidenceTypeOK, UsesAreCounted
  <2>2. CASE ~reused
    <3>1. r = found /\ override' = E!Recorded(found)
      BY <1>1, <1>6, <2>2
    <3> QED BY <1>5, <2>2, <3>1, RecordedTakesAUse DEF EvidenceInv
  <2> QED BY <2>1, <2>2
<1>13. EvidenceTypeOK'
  BY <1>1, <1>9, <1>12 DEF EvidenceInv, EvidenceTypeOK
<1>14. InOrder'
  BY <1>2, <1>6, <1>9, <1>20, <1>21 DEF EvidenceInv, InOrder
<1>15. ApprovalsAreTrue' /\ ReportsAreAnchored'
  <2>1. ApprovalsAreTrue'
    BY <1>1, <1>2, <1>6, <1>9, <1>21 DEF EvidenceInv, ApprovalsAreTrue, Approved, Current
  <2>2. ReportsAreAnchored'
    BY <1>2, <1>4, <1>6, <1>9, <1>21 DEF EvidenceInv, ReportsAreAnchored, Anchored
  <2> QED BY <2>1, <2>2
<1>16. CheckIsTrue'
  <2>1. still /\ cmd.check # None /\ cmd.check.decision = "ready" => Clean(source, policy, cmd.check.name)
    BY <1>2, <1>4, <1>21 DEF EvidenceInv, CheckIsTrue, ReportsAreAnchored
  <2>2. CheckIsTrue' <=> (still /\ cmd.check # None /\ cmd.check.decision = "ready" /\ r.name = cmd.check.name
                             /\ (reused => same /\ ~source.depends) => r.decision = "ready")
    BY <1>1, <1>6, <1>9, <1>21 DEF CheckIsTrue
  <2> QED BY <1>6, <2>1, <2>2
<1>17. RehearsalIsTrue'
  BY <1>1, <1>2, <1>9, RehearsalStays DEF EvidenceInv
<1>18. UsesAreCounted'
  <2>1. Pending = IF LetOut(cmd.check) THEN 1 ELSE 0
    BY <1>2, <1>21 DEF Pending, LetOut
  <2>2. Pending' = (IF LetOut(cmd.check) THEN 1 ELSE 0) + (IF LetOut(r) /\ ~reused THEN 1 ELSE 0)
    BY <1>9 DEF Pending, LetOut
  <2>3. lets' + Pending' <= override'.uses
    BY <1>1, <1>12, <2>1, <2>2 DEF EvidenceInv, UsesAreCounted, EvidenceTypeOK
  <2>4. cmd'.ask.kind # "rehearsal"
    BY <1>9, <1>21
  <2> QED BY <1>12, <2>3, <2>4 DEF UsesAreCounted, E!MaxUses
<1>19. ShownIsTrue'
  BY <1>9 DEF ShownIsTrue, E!ReadyIsAnchored, E!ConclusionsAgree
<1> QED BY <1>13, <1>14, <1>15, <1>16, <1>17, <1>18, <1>19 DEF EvidenceInv

LEMMA SummarizeKeeps == EvidenceInv /\ E!Summarize => EvidenceInv'
<1> SUFFICES ASSUME EvidenceInv, E!Summarize PROVE EvidenceInv'
  OBVIOUS
<1> DEFINE s == [cmd.report EXCEPT !.approved = source.baselines[cmd.report.name] = "approved"]
           known == [cmd EXCEPT !.conclusion = s]
<1>1. /\ E!Step("summary", known, FALSE) /\ E!Up("summary") /\ UNCHANGED <<override, rehearsal, same, lets>>
  BY DEF E!Summarize, E!buildEvidenceSummary, E!Step
<1>2. cmd \in Commands /\ Running
  <2>1. cmd # E!Idle
    BY <1>1 DEF E!Up, E!Idle
  <2> QED BY <2>1 DEF EvidenceInv, EvidenceTypeOK, Running
<1>3. /\ "summary" \in cmd.todo /\ "evidence" \notin cmd.todo /\ ~Beyond(cmd.todo, 6)
      /\ ~Beyond(cmd.todo, 7) /\ Beyond(cmd.todo \ {"summary"}, 6)
      /\ \A n \in Nat : Beyond(cmd.todo, n) => Beyond(cmd.todo \ {"summary"}, n)
  <2>1. /\ \A n \in Nat : E!Place["summary"] <= n => ~Beyond(cmd.todo, n)
        /\ \A n \in Nat : Beyond(cmd.todo, n) => Beyond(cmd.todo \ {"summary"}, n)
        /\ Beyond(cmd.todo \ {"summary"}, E!Place["summary"])
    BY <1>1, <1>2, StepsAreTaken
  <2>2. "summary" \in cmd.todo /\ \A next \in cmd.todo : E!Place["summary"] <= E!Place[next]
    BY <1>1 DEF E!Up
  <2> QED BY <2>1, <2>2, PlacesAreNumbers
<1>4. cmd.report # None /\ cmd.report \in CheckReports /\ cmd.conclusion = None /\ cmd.approval = None
  <2>1. cmd.report # None /\ cmd.conclusion = None /\ cmd.approval = None
    BY <1>2, <1>3 DEF EvidenceInv, InOrder
  <2> QED BY <1>2, <2>1 DEF Commands
<1>5. /\ s \in CheckReports /\ s # None /\ s.name = cmd.report.name
      /\ s.approved = (source.baselines[cmd.report.name] = "approved")
      /\ s = [cmd.report EXCEPT !.approved = s.approved]
  <2>1. s \in CheckReports /\ s.name = cmd.report.name /\ s.approved = (source.baselines[cmd.report.name] = "approved")
    BY <1>4 DEF CheckReports
  <2> QED BY <1>4, <2>1, EvidenceAssumption
<1> HIDE DEF s
<1>6. /\ known \in Commands /\ known.todo = cmd.todo /\ known.ask = cmd.ask /\ known.check = cmd.check
      /\ known.report = cmd.report /\ known.reused = cmd.reused /\ known.conclusion = s
      /\ known.approval = cmd.approval
  BY <1>2, <1>5 DEF Commands
<1> HIDE DEF known
<1>7. /\ cmd' \in Commands /\ Running'
      /\ cmd'.todo = cmd.todo \ {"summary"} /\ cmd'.ask = cmd.ask /\ cmd'.check = cmd.check
      /\ cmd'.report = cmd.report /\ cmd'.reused = cmd.reused
      /\ cmd'.conclusion = s /\ cmd'.approval = cmd.approval
      /\ shown = None /\ shown' = None /\ still' = still /\ source' = source
  BY <1>1, <1>6, StepTakes
<1>8. EvidenceTypeOK'
  BY <1>1, <1>7 DEF EvidenceInv, EvidenceTypeOK
<1>9. InOrder'
  BY <1>2, <1>3, <1>4, <1>7 DEF EvidenceInv, InOrder
<1>10. ApprovalsAreTrue'
  BY <1>1, <1>2, <1>4, <1>5, <1>7 DEF EvidenceInv, ApprovalsAreTrue, Approved, Current
<1>11. ReportsAreAnchored'
  BY <1>2, <1>5, <1>7 DEF EvidenceInv, ReportsAreAnchored, Anchored
<1>12. CheckIsTrue' /\ RehearsalIsTrue'
  BY <1>1, <1>2, <1>7 DEF EvidenceInv, CheckIsTrue, RehearsalIsTrue, Approved, Anchored, Clean, E!Results, E!RollbackReady, E!Written
<1>13. UsesAreCounted'
  BY <1>1, <1>2, <1>7 DEF EvidenceInv, UsesAreCounted, Pending, LetOut
<1>14. ShownIsTrue'
  BY <1>7 DEF ShownIsTrue, E!ReadyIsAnchored, E!ConclusionsAgree
<1> QED BY <1>8, <1>9, <1>10, <1>11, <1>12, <1>13, <1>14 DEF EvidenceInv

LEMMA BundleKeeps == EvidenceInv /\ E!buildBundle => EvidenceInv'
<1> SUFFICES ASSUME EvidenceInv, E!buildBundle PROVE EvidenceInv'
  OBVIOUS
<1> DEFINE a == source.baselines[cmd.check.name] = "approved"
           known == [cmd EXCEPT !.approval = a]
<1>1. /\ E!Step("bundle", known, FALSE) /\ E!Up("bundle") /\ UNCHANGED <<override, rehearsal, same, lets>>
  BY DEF E!buildBundle, E!Step
<1>2. cmd \in Commands /\ Running
  <2>1. cmd # E!Idle
    BY <1>1 DEF E!Up, E!Idle
  <2> QED BY <2>1 DEF EvidenceInv, EvidenceTypeOK, Running
<1>3. /\ "bundle" \in cmd.todo /\ "check" \notin cmd.todo /\ Beyond(cmd.todo \ {"bundle"}, 7)
      /\ \A n \in Nat : Beyond(cmd.todo, n) => Beyond(cmd.todo \ {"bundle"}, n)
  <2>1. /\ \A n \in Nat : Beyond(cmd.todo, n) => Beyond(cmd.todo \ {"bundle"}, n)
        /\ Beyond(cmd.todo \ {"bundle"}, E!Place["bundle"])
    BY <1>1, <1>2, StepsAreTaken
  <2>2. "bundle" \in cmd.todo /\ \A next \in cmd.todo : E!Place["bundle"] <= E!Place[next]
    BY <1>1 DEF E!Up
  <2> QED BY <2>1, <2>2, PlacesAreNumbers
<1>4. cmd.ask.kind = "audit" /\ cmd.check # None
  BY <1>2, <1>3 DEF EvidenceInv, InOrder
<1>5. a \in BOOLEAN
  OBVIOUS
<1>6. /\ known \in Commands /\ known.todo = cmd.todo /\ known.ask = cmd.ask /\ known.check = cmd.check
      /\ known.report = cmd.report /\ known.reused = cmd.reused /\ known.conclusion = cmd.conclusion
      /\ known.approval = (source.baselines[cmd.check.name] = "approved")
  BY <1>2, <1>5 DEF Commands
<1> HIDE DEF known
<1>7. /\ cmd' \in Commands /\ Running'
      /\ cmd'.todo = cmd.todo \ {"bundle"} /\ cmd'.ask = cmd.ask /\ cmd'.check = cmd.check
      /\ cmd'.report = cmd.report /\ cmd'.reused = cmd.reused
      /\ cmd'.conclusion = cmd.conclusion /\ cmd'.approval = (source.baselines[cmd.check.name] = "approved")
      /\ shown = None /\ shown' = None /\ still' = still /\ source' = source
  BY <1>1, <1>6, StepTakes
<1>8. EvidenceTypeOK'
  BY <1>1, <1>7 DEF EvidenceInv, EvidenceTypeOK
<1>9. InOrder'
  <2>1. cmd'.approval # None
    BY <1>5, <1>7, EvidenceAssumption
  <2> QED BY <1>2, <1>3, <1>4, <1>7, <2>1 DEF EvidenceInv, InOrder
<1>10. ApprovalsAreTrue'
  BY <1>1, <1>2, <1>4, <1>7 DEF EvidenceInv, ApprovalsAreTrue, Approved, Current
<1>11. ReportsAreAnchored'
  BY <1>2, <1>7 DEF EvidenceInv, ReportsAreAnchored, Anchored
<1>12. CheckIsTrue' /\ RehearsalIsTrue'
  BY <1>1, <1>2, <1>7 DEF EvidenceInv, CheckIsTrue, RehearsalIsTrue, Approved, Anchored, Clean, E!Results, E!RollbackReady, E!Written
<1>13. UsesAreCounted'
  BY <1>1, <1>2, <1>7 DEF EvidenceInv, UsesAreCounted, Pending, LetOut
<1>14. ShownIsTrue'
  BY <1>7 DEF ShownIsTrue, E!ReadyIsAnchored, E!ConclusionsAgree
<1> QED BY <1>8, <1>9, <1>10, <1>11, <1>12, <1>13, <1>14 DEF EvidenceInv

LEMMA TimeOutKeeps == EvidenceInv /\ E!TimeOut => EvidenceInv'
<1> SUFFICES ASSUME EvidenceInv, E!TimeOut PROVE EvidenceInv'
  OBVIOUS
<1>1. PICK next \in {"scripts", "check", "evidence"} :
        /\ E!Up(next) /\ cmd.ask.kind = "preflight"
        /\ cmd' = [cmd EXCEPT !.passed = FALSE,
                        !.todo = @ \ {next, IF next = "evidence" THEN "summary" ELSE next}]
  BY DEF E!TimeOut, E!Steps
<1>2. UNCHANGED <<source, override, rehearsal, shown, still, same, lets>>
  BY DEF E!TimeOut
<1>3. cmd \in Commands /\ Running /\ shown = None
  <2>1. cmd # E!Idle
    BY <1>1 DEF E!Up, E!Idle
  <2> QED BY <2>1 DEF EvidenceInv, EvidenceTypeOK, Running, ShownIsTrue
<1> DEFINE left == cmd.todo \ {next, IF next = "evidence" THEN "summary" ELSE next}
<1>4. /\ cmd' \in Commands /\ cmd'.todo = left /\ cmd'.ask = cmd.ask /\ cmd'.check = cmd.check
      /\ cmd'.report = cmd.report /\ cmd'.reused = cmd.reused
      /\ cmd'.conclusion = cmd.conclusion /\ cmd'.approval = cmd.approval
  BY <1>1, <1>3 DEF Commands
<1>5. Running'
  BY <1>4 DEF Running, Commands, E!Idle
<1>6. /\ left \subseteq cmd.todo /\ ("summary" \in left => "evidence" \in left \/ "evidence" \notin cmd.todo)
      /\ ("bundle" \in cmd.todo => "bundle" \in left)
  BY DEF left
<1>7. \A n : Beyond(cmd.todo, n) => Beyond(left, n)
  BY <1>6 DEF Beyond
<1> HIDE DEF left
<1>8. EvidenceTypeOK'
  BY <1>2, <1>4 DEF EvidenceInv, EvidenceTypeOK
<1>9. InOrder'
  BY <1>1, <1>3, <1>4, <1>6, <1>7 DEF EvidenceInv, InOrder
<1>10. ApprovalsAreTrue' /\ ReportsAreAnchored'
  BY <1>2, <1>3, <1>4 DEF EvidenceInv, ApprovalsAreTrue, ReportsAreAnchored, Approved, Current, Anchored
<1>12. CheckIsTrue' /\ RehearsalIsTrue'
  BY <1>2, <1>3, <1>4 DEF EvidenceInv, CheckIsTrue, RehearsalIsTrue, Approved, Anchored, Clean, E!Results, E!RollbackReady, E!Written
<1>13. UsesAreCounted'
  BY <1>2, <1>3, <1>4, <1>5 DEF EvidenceInv, UsesAreCounted, Pending, LetOut
<1>14. ShownIsTrue'
  BY <1>2, <1>3 DEF ShownIsTrue, E!ReadyIsAnchored, E!ConclusionsAgree
<1> QED BY <1>8, <1>9, <1>10, <1>12, <1>13, <1>14 DEF EvidenceInv

\* A command that ends or is killed has nothing more to speak of.
LEMMA KillKeeps == EvidenceInv /\ E!Kill => EvidenceInv'
<1> SUFFICES ASSUME EvidenceInv, E!Kill PROVE EvidenceInv'
  OBVIOUS
<1>1. /\ Running /\ cmd' = E!Idle /\ rehearsal' \in {rehearsal, None}
      /\ UNCHANGED <<source, override, shown, still, same, lets>>
  BY DEF E!Kill, Running
<1>2. ~Running' /\ shown = None
  BY <1>1 DEF Running, EvidenceInv, ShownIsTrue
<1>3. EvidenceTypeOK'
  BY <1>1 DEF EvidenceInv, EvidenceTypeOK
<1>4. InOrder' /\ ApprovalsAreTrue' /\ ReportsAreAnchored' /\ CheckIsTrue'
  BY <1>2 DEF InOrder, ApprovalsAreTrue, ReportsAreAnchored, CheckIsTrue
<1>5. RehearsalIsTrue'
  BY <1>1 DEF EvidenceInv, RehearsalIsTrue, Approved, Anchored, Clean, E!Results, E!RollbackReady
<1>6. UsesAreCounted'
  <2>1. Pending \in Nat /\ Pending' = 0
    BY <1>2 DEF Pending
  <2> QED BY <1>1, <1>2, <2>1 DEF EvidenceInv, EvidenceTypeOK, UsesAreCounted
<1>7. ShownIsTrue'
  BY <1>1, <1>2 DEF ShownIsTrue, E!ReadyIsAnchored, E!ConclusionsAgree
<1> QED BY <1>3, <1>4, <1>5, <1>6, <1>7 DEF EvidenceInv

LEMMA EndKeeps == EvidenceInv /\ E!End => EvidenceInv'
<1> SUFFICES ASSUME EvidenceInv, E!End PROVE EvidenceInv'
  OBVIOUS
<1> DEFINE said == IF cmd.ask.kind = "preflight" THEN E!buildTopline
                   ELSE IF cmd.conclusion # None THEN cmd.conclusion ELSE cmd.check
           told == {x \in {"check", "report"} :
                         cmd[x] # None /\ (x = "report" => ~cmd.reused)
                           /\ cmd[x].decision = "ready_with_override"}
<1>1. /\ E!Up("end") /\ cmd' = E!Idle
      /\ shown' = [kind |-> cmd.ask.kind, policy |-> cmd.ask.policy,
                   ready |-> cmd.passed, check |-> cmd.check, said |-> said,
                   summed |-> cmd.conclusion # None, reused |-> cmd.reused,
                   approval |-> cmd.approval,
                   current |-> still /\ (cmd.reused => same)]
      /\ lets' = lets + E!Cardinality(told)
      /\ UNCHANGED <<source, override, rehearsal, still, same>>
  BY DEF E!End
<1>2. cmd \in Commands /\ Running /\ ~Running'
  <2>1. cmd # E!Idle
    BY <1>1 DEF E!Up, E!Idle
  <2> QED BY <1>1, <2>1 DEF EvidenceInv, EvidenceTypeOK, Running
<1>3. E!Cardinality(told) = Pending /\ Pending \in Nat
  <2>1. told = (IF LetOut(cmd.check) THEN {"check"} ELSE {}) \cup (IF LetOut(cmd.report) /\ ~cmd.reused THEN {"report"} ELSE {})
    BY <1>2 DEF LetOut, Commands
  <2>2. \A S : E!Cardinality(S) = Cardinality(S)
    BY DEF E!Cardinality, Cardinality
  <2>3. Cardinality({}) = 0 /\ Cardinality({"check"}) = 1 /\ Cardinality({"report"}) = 1
    BY FS_EmptySet, FS_Singleton
  <2>4. Cardinality({"check"} \cup {"report"}) = 2
    <3>1. IsFiniteSet({"report"}) /\ "check" \notin {"report"}
      BY FS_Singleton
    <3>2. Cardinality({"report"} \cup {"check"}) = Cardinality({"report"}) + 1
      BY <3>1, FS_AddElement
    <3>3. {"check"} \cup {"report"} = {"report"} \cup {"check"}
      OBVIOUS
    <3> QED BY <2>3, <3>2, <3>3
  <2> HIDE DEF told
  <2>5. Pending = (IF LetOut(cmd.check) THEN 1 ELSE 0) + (IF LetOut(cmd.report) /\ ~cmd.reused THEN 1 ELSE 0)
    BY <1>2 DEF Pending
  <2>6. {"check"} \cup {} = {"check"} /\ {} \cup {"report"} = {"report"} /\ {} \cup {} = {}
    OBVIOUS
  <2>7. Cardinality(told) = Pending
    BY <2>1, <2>3, <2>4, <2>5, <2>6
  <2> QED BY <2>2, <2>5, <2>7
<1> HIDE DEF told
<1>4. EvidenceTypeOK'
  BY <1>1, <1>3 DEF EvidenceInv, EvidenceTypeOK
<1>5. InOrder' /\ ApprovalsAreTrue' /\ ReportsAreAnchored' /\ CheckIsTrue'
  BY <1>2 DEF InOrder, ApprovalsAreTrue, ReportsAreAnchored, CheckIsTrue
<1>6. RehearsalIsTrue'
  BY <1>1 DEF EvidenceInv, RehearsalIsTrue, Approved, Anchored, Clean, E!Results, E!RollbackReady
<1>7. UsesAreCounted'
  <2>1. Pending' = 0
    BY <1>2 DEF Pending
  <2> QED BY <1>1, <1>2, <1>3, <2>1 DEF EvidenceInv, EvidenceTypeOK, UsesAreCounted
<1>8. cmd.conclusion # None =>
        /\ said = cmd.conclusion /\ cmd.report # None /\ cmd.ask.kind # "rehearsal"
        /\ cmd.conclusion.name = cmd.report.name /\ cmd.conclusion.decision = cmd.report.decision
        /\ cmd.conclusion.fresh = cmd.report.fresh /\ cmd.conclusion.rollback = cmd.report.rollback
        /\ cmd.report.policy = cmd.ask.policy
        /\ Current => cmd.conclusion.approved = cmd.report.approved
  <2> SUFFICES ASSUME cmd.conclusion # None
               PROVE  /\ said = cmd.conclusion /\ cmd.report # None /\ cmd.ask.kind # "rehearsal"
                      /\ cmd.conclusion.name = cmd.report.name /\ cmd.conclusion.decision = cmd.report.decision
                      /\ cmd.conclusion.fresh = cmd.report.fresh /\ cmd.conclusion.rollback = cmd.report.rollback
                      /\ cmd.report.policy = cmd.ask.policy
                      /\ Current => cmd.conclusion.approved = cmd.report.approved
    OBVIOUS
  <2>1. cmd.report # None /\ cmd.ask.kind # "rehearsal"
    BY <1>2 DEF EvidenceInv, InOrder
  <2>2. cmd.report \in CheckReports
    BY <1>2, <2>1 DEF Commands
  <2>3. cmd.conclusion = [cmd.report EXCEPT !.approved = cmd.conclusion.approved] /\ cmd.report.policy = cmd.ask.policy
    BY <1>2, <2>1 DEF EvidenceInv, ReportsAreAnchored
  <2> DEFINE a == cmd.conclusion.approved
             c == cmd.conclusion
  <2> HIDE DEF a
  <2>4. c = [cmd.report EXCEPT !.approved = a]
    BY <2>3 DEF a
  <2> HIDE DEF c
  <2>5. c.name = cmd.report.name /\ c.decision = cmd.report.decision /\ c.fresh = cmd.report.fresh /\ c.rollback = cmd.report.rollback
    BY <2>2, <2>4 DEF CheckReports
  <2>6. Current => cmd.conclusion.approved = cmd.report.approved
    BY <1>2, <2>1, <2>5 DEF EvidenceInv, ApprovalsAreTrue, c
  <2>7. said = cmd.conclusion
    BY DEF E!buildTopline
  <2> QED BY <2>1, <2>3, <2>5, <2>6, <2>7 DEF c
<1>9. E!ReadyIsAnchored'
  <2> SUFFICES ASSUME Current, cmd.conclusion # None, cmd.ask.policy = "production", said.decision = "ready"
               PROVE  said.approved /\ said.fresh /\ said.rollback
    BY <1>1 DEF E!ReadyIsAnchored, Current
  <2> HIDE DEF said
  <2>1. Anchored(cmd.report)
    BY <1>2, <1>8 DEF EvidenceInv, ReportsAreAnchored
  <2> QED BY <1>8, <2>1 DEF Anchored
<1>10. E!ConclusionsAgree'
  <2> SUFFICES ASSUME Current, cmd.conclusion # None, cmd.check # None, cmd.check.decision = "ready",
                      cmd.check.name = said.name, cmd.reused => ~source.depends
               PROVE  said.decision = "ready" /\ (cmd.ask.kind = "audit" => cmd.approval = said.approved)
    BY <1>1 DEF E!ConclusionsAgree, Current
  <2> HIDE DEF said
  <2>1. cmd.report.name = cmd.check.name /\ cmd.report # None /\ cmd.ask.kind # "rehearsal"
    BY <1>8
  <2>2. cmd.report.decision = "ready"
    BY <1>2, <2>1 DEF EvidenceInv, CheckIsTrue, Current
  <2>3. cmd.ask.kind = "audit" => cmd.approval # None
    <3>1. "bundle" \notin cmd.todo
      BY <1>1, PlacesAreNumbers DEF E!Up
    <3> QED BY <1>2, <3>1 DEF EvidenceInv, InOrder
  <2>4. cmd.approval # None => cmd.approval = Approved(cmd.check.name)
    BY <1>2 DEF EvidenceInv, ApprovalsAreTrue, Current
  <2>5. cmd.report.approved = Approved(cmd.report.name)
    BY <1>2, <2>1 DEF EvidenceInv, ApprovalsAreTrue
  <2> QED BY <1>8, <2>1, <2>2, <2>3, <2>4, <2>5
<1>11. ShownIsTrue'
  BY <1>2, <1>9, <1>10 DEF ShownIsTrue
<1> QED BY <1>4, <1>5, <1>6, <1>7, <1>11 DEF EvidenceInv

LEMMA EvidenceStep == EvidenceInv /\ [E!ReportsNext]_evidenceVars => EvidenceInv'
<1> SUFFICES ASSUME EvidenceInv, [E!ReportsNext]_evidenceVars PROVE EvidenceInv'
  OBVIOUS
<1>1. CASE UNCHANGED evidenceVars
  <2>1. EvidenceTypeOK'
    BY <1>1 DEF EvidenceInv, EvidenceTypeOK, evidenceVars
  <2>2. InOrder' /\ ApprovalsAreTrue' /\ ReportsAreAnchored'
    BY <1>1 DEF EvidenceInv, InOrder, ApprovalsAreTrue, ReportsAreAnchored, evidenceVars, Running, Approved, Current, Anchored
  <2>3. CheckIsTrue' /\ RehearsalIsTrue'
    BY <1>1 DEF EvidenceInv, CheckIsTrue, RehearsalIsTrue, evidenceVars, Running, Approved, Anchored, Clean, E!Results,
                E!RollbackReady, E!Written
  <2>4. UsesAreCounted' /\ ShownIsTrue'
    BY <1>1 DEF EvidenceInv, UsesAreCounted, ShownIsTrue, Pending, LetOut, Running, evidenceVars,
                E!ReadyIsAnchored, E!ConclusionsAgree
  <2> QED BY <2>1, <2>2, <2>3, <2>4 DEF EvidenceInv
<1>2. CASE E!ReportsNext
  BY <1>2, BeginKeeps, RehearseKeeps, WriteLatestKeeps, RunScriptsKeeps, CheckKeeps, EvidenceKeeps,
     SummarizeKeeps, BundleKeeps, TimeOutKeeps, EndKeeps, KillKeeps, MovesKeepEvidence DEF E!ReportsNext
<1> QED BY <1>1, <1>2

LEMMA EvidenceInvariance == MCSpec => [](part = "evidence" => EvidenceInv)
<1>1. MCInit => (part = "evidence" => EvidenceInv)
  BY EvidenceInit DEF MCInit
<1>2. (part = "evidence" => EvidenceInv) /\ [MCNext]_allVars => (part = "evidence" => EvidenceInv)'
  <2> SUFFICES ASSUME part = "evidence" => EvidenceInv, [MCNext]_allVars, part' = "evidence" PROVE EvidenceInv'
    OBVIOUS
  <2>1. part = "evidence" /\ [E!ReportsNext]_evidenceVars
    BY DEF MCNext, allVars
  <2> QED BY <2>1, EvidenceStep
<1> QED BY <1>1, <1>2, PTL DEF MCSpec

\* What an override lets out stays within the uses that some policy allows.
LEMMA UsesAreTakenInv == EvidenceInv => E!UsesAreTaken
<1> SUFFICES ASSUME EvidenceInv PROVE E!UsesAreTaken
  OBVIOUS
<1> DEFINE uses == {E!MaxUses[p] : p \in Policies}
<1>1. uses \subseteq {5, 2, 1} /\ uses # {} /\ \A p \in Policies : E!MaxUses[p] \in uses
  <2>1. \A p \in Policies : E!MaxUses[p] \in {5, 2, 1}
    BY EvidenceAssumption DEF E!MaxUses
  <2>2. \A p \in Policies : E!MaxUses[p] \in uses
    OBVIOUS
  <2>3. \A x \in uses : x \in {5, 2, 1}
    BY <2>1
  <2>4. Policies # {}
    BY EvidenceAssumption
  <2> HIDE DEF uses
  <2> QED BY <2>2, <2>3, <2>4
<1>2. IsFiniteSet({5, 2, 1})
  <2>1. IsFiniteSet({5} \cup {2} \cup {1})
    BY FS_Singleton, FS_Union
  <2>2. {5} \cup {2} \cup {1} = {5, 2, 1}
    OBVIOUS
  <2> QED BY <2>1, <2>2
<1>3. Max(uses) \in uses /\ \A y \in uses : y <= Max(uses)
  <2> HIDE DEF uses
  <2>1. uses \in SUBSET Int
    BY <1>1
  <2>2. uses \in SUBSET {5, 2, 1}
    BY <1>1
  <2>3. IsFiniteSet(uses)
    BY <1>2, <2>2, FS_Subset
  <2> QED BY <1>1, <2>1, <2>3, MaxIsGreatest
<1>4. E!Max(uses) = Max(uses)
  BY DEF E!Max, Max
<1>5. override.uses \in Nat /\ lets \in Nat /\ Pending \in Nat /\ lets + Pending <= override.uses
  BY DEF EvidenceInv, EvidenceTypeOK, UsesAreCounted, Pending
<1> HIDE DEF uses
<1>6. Max(uses) \in {5, 2, 1}
  BY <1>1, <1>3
<1>7. override.uses <= Max(uses)
  <2>1. CASE override.uses = 0
    BY <1>6, <2>1
  <2>2. ASSUME NEW p \in Policies, override.uses <= E!MaxUses[p] PROVE override.uses <= Max(uses)
    <3>1. E!MaxUses[p] \in Nat /\ E!MaxUses[p] <= Max(uses)
      <4>1. E!MaxUses[p] \in uses
        BY <1>1
      <4> DEFINE m == E!MaxUses[p]
      <4> HIDE DEF m
      <4>2. m \in uses
        BY <4>1 DEF m
      <4>3. m \in Nat /\ m <= Max(uses)
        BY <1>1, <1>3, <4>2
      <4> QED BY <4>3 DEF m
    <3> QED BY <1>5, <1>6, <2>2, <3>1
  <2> QED BY <2>1, <2>2 DEF EvidenceInv, UsesAreCounted
<1> QED BY <1>4, <1>5, <1>7 DEF E!UsesAreTaken, uses

LEMMA MergeInvariance == MCSpec => [](part = "merge" => ReviewInv)
<1>1. MCInit => (part = "merge" => ReviewInv)
  BY ReviewInvInit DEF MCInit
<1>2. (part = "merge" => ReviewInv) /\ [MCNext]_allVars => (part = "merge" => ReviewInv)'
  <2> SUFFICES ASSUME part = "merge" => ReviewInv, [MCNext]_allVars, part' = "merge" PROVE ReviewInv'
    OBVIOUS
  <2>1. part = "merge" /\ [Next]_reviewVars
    BY DEF MCNext, allVars
  <2> QED BY <2>1, ReviewStep
<1> QED BY <1>1, <1>2, PTL DEF MCSpec

\* What says that a change or a release is ready says so truly: the delivery advice, the
\* evidence, preflight and audit of a release, and the count of an override's uses.
THEOREM ReadyIsTrueHolds == MCSpec => []ReadyIsTrue
<1>1. EvidenceInv => E!ReadyIsAnchored /\ E!ConclusionsAgree /\ E!UsesAreTaken
  BY UsesAreTakenInv DEF EvidenceInv, ShownIsTrue
<1>2. (part = "merge" => ReviewInv) /\ (part = "evidence" => EvidenceInv) => ReadyIsTrue
  BY <1>1, ReadyIsEarnedInv DEF ReadyIsTrue
<1> QED BY <1>2, MergeInvariance, EvidenceInvariance, PTL

------------------------------------------------------------------------------
(* The commands that verify a feature. *)

\* A finite set of numbers has an element of each rank.
LEMMA RanksAreTaken ==
  ASSUME NEW S \in SUBSET Int, IsFiniteSet(S), NEW k \in 1..Cardinality(S)
  PROVE  \E i \in S : Cardinality({j \in S : j <= i}) = k
<1> DEFINE Up(i) == {j \in S : j <= i}
           T == {i \in S : Cardinality(Up(i)) >= k}
<1>1. \A i \in S : Up(i) \in SUBSET S /\ IsFiniteSet(Up(i)) /\ Cardinality(Up(i)) \in Nat
  BY FS_Subset, FS_CardinalityType
<1>2. Cardinality(S) \in Nat /\ S # {}
  BY FS_CardinalityType, FS_EmptySet
<1>3. Max(S) \in T
  <2>1. Max(S) \in S /\ Up(Max(S)) = S
    BY <1>2, MaxIsGreatest
  <2> QED BY <1>2, <2>1
<1>4. T \in SUBSET Int /\ IsFiniteSet(T) /\ T # {}
  BY <1>3, FS_Subset
<1>5. E!Min(T) \in T /\ \A y \in T : E!Min(T) <= y
  <2> HIDE DEF T
  <2> QED BY <1>4, MinIsLeast
<1> DEFINE m == E!Min(T)
<1> HIDE DEF m
<1>6. m \in S /\ Cardinality(Up(m)) >= k /\ m \in Up(m) /\ \A y \in T : m <= y
  BY <1>5 DEF m
<1>7. Cardinality(Up(m)) = k
  <2> SUFFICES ASSUME Cardinality(Up(m)) > k PROVE FALSE
    BY <1>1, <1>6
  <2> DEFINE Rest == Up(m) \ {m}
  <2>1. IsFiniteSet(Rest) /\ Cardinality(Rest) = Cardinality(Up(m)) - 1
    BY <1>1, <1>6, FS_RemoveElement
  <2>2. Rest \in SUBSET Int /\ Rest # {} /\ Cardinality(Rest) >= k
    <3>1. Rest \in SUBSET Int
      OBVIOUS
    <3>2. Cardinality(Up(m)) \in Nat /\ k \in Nat /\ k >= 1
      BY <1>1, <1>2, <1>6
    <3> HIDE DEF Rest, Up
    <3> QED BY <2>1, <3>1, <3>2, FS_EmptySet
  <2>3. Max(Rest) \in Rest /\ \A y \in Rest : y <= Max(Rest)
    <3> HIDE DEF Rest
    <3> QED BY <2>1, <2>2, MaxIsGreatest
  <2>4. Up(Max(Rest)) = Rest
    <3>1. \A x : x \in Rest <=> x \in S /\ x <= m /\ x # m
      OBVIOUS
    <3> DEFINE l == Max(Rest)
    <3> HIDE DEF Rest, l
    <3>2. l \in Rest /\ \A y \in Rest : y <= l
      BY <2>3 DEF l
    <3>3. m \in Int /\ l \in S /\ l \in Int /\ l < m
      <4>1. m \in Int
        BY <1>6
      <4>2. l \in S /\ l <= m /\ l # m
        BY <3>1, <3>2
      <4> QED BY <4>1, <4>2
    <3>4. \A y \in S : y <= l <=> y \in Rest
      BY <3>1, <3>2, <3>3
    <3>5. Up(l) = Rest
      BY <3>1, <3>4
    <3> QED BY <3>5 DEF l
  <2>5. Max(Rest) \in T
    BY <2>2, <2>3, <2>4
  <2> QED BY <1>6, <2>2, <2>3, <2>5
<1> QED BY <1>6, <1>7

\* What is said once was said.
LEMMA OnceIsSaid ==
  ASSUME NEW list, NEW n \in Nat, DOMAIN list = 1..n
  PROVE  /\ \E k \in Nat : DOMAIN C!Once(list) = 1..k
         /\ \A i \in DOMAIN C!Once(list) :
              /\ C!Once(list)[i] # None
              /\ \E j \in 1..n : C!Once(list)[i] = list[j]
<1> DEFINE first == {i \in DOMAIN list :
                       list[i] # None /\ \A j \in 1..(i - 1) : list[j] # list[i]}
           rank(i) == Cardinality({j \in first : j <= i})
           at(k) == CHOOSE i \in first : rank(i) = k
<1>1. first \in SUBSET Int /\ first \subseteq 1..n
  OBVIOUS
<1>2. IsFiniteSet(first) /\ Cardinality(first) \in Nat
  <2> HIDE DEF first
  <2>1. IsFiniteSet(1..n)
    BY FS_Interval
  <2> QED BY <1>1, <2>1, FS_Subset, FS_CardinalityType
<1>3. C!Once(list) = [k \in 1..Cardinality(first) |-> list[at(k)]]
  BY DEF C!Once, C!Cardinality, Cardinality
<1>4. ASSUME NEW k \in 1..Cardinality(first)
      PROVE  at(k) \in first
  <2>1. \E i \in first : rank(i) = k
    <3> HIDE DEF first
    <3> QED BY <1>1, <1>2, RanksAreTaken
  <2> HIDE DEF first, rank
  <2> QED BY <2>1
<1>5. \A k \in 1..Cardinality(first) : list[at(k)] # None /\ at(k) \in 1..n
  BY <1>4
<1> HIDE DEF first, at
<1> QED BY <1>2, <1>3, <1>5

\* The first script of a list that a project has is one it has.
LEMMA FirstScriptIsThere ==
  ASSUME NEW p, NEW names, Len(names) \in Nat
  PROVE  \/ C!FirstScript(p, names) = None
         \/ \E i \in 1..Len(names) : C!FirstScript(p, names) = names[i] /\ C!Has(p, names[i])
<1> DEFINE there == {i \in 1..Len(names) : C!Has(p, names[i])}
           found == IF there # {} THEN C!Min(there) ELSE 0
<1>1. C!FirstScript(p, names) = IF found = 0 THEN None ELSE names[found]
  BY DEF C!FirstScript, C!FirstOf, C!At, C!SelectInSeq
<1>2. there # {} => C!Min(there) \in there
  <2>1. there \in SUBSET Int /\ there \subseteq 1..Len(names)
    OBVIOUS
  <2>2. C!Min(there) = E!Min(there)
    BY DEF C!Min, E!Min
  <2> HIDE DEF there
  <2>3. IsFiniteSet(1..Len(names))
    BY FS_Interval
  <2>4. IsFiniteSet(there)
    BY <2>1, <2>3, FS_Subset
  <2> QED BY <2>1, <2>2, <2>4, MinIsLeast
<1> QED BY <1>1, <1>2

\* What the package manager, the tool or node can run in the project, but for the one script
\* the code gets wrong; None is no command.
Runnable(c) == c = None \/ C!CanRun(project, c) \/ C!Misnamed(c)

LEMMA ScriptRuns ==
  ASSUME NEW names, Len(names) \in Nat, project \in Packages
  PROVE  Runnable(C!ScriptCommand(project, names))
<1>1. CASE C!FirstScript(project, names) = None
  BY <1>1 DEF C!ScriptCommand, C!Named, Runnable
<1>2. CASE C!FirstScript(project, names) # None
  <2>1. C!Has(project, C!FirstScript(project, names))
    BY <1>2, FirstScriptIsThere
  <2>2. project.pm \in {"npm", "pnpm"}
    BY PackagesAssumption
  <2> QED BY <1>2, <2>1, <2>2 DEF C!ScriptCommand, C!Named, C!Script, C!CanRun, Runnable
<1> QED BY <1>1, <1>2

\* A tool that is installed runs in every mode.
LEMMA ToolRuns ==
  ASSUME NEW do, do \notin C!OtherKinds, project.tool
  PROVE  Runnable(C!Tool(do))
<1>1. C!OtherKinds \subseteq {"typecheck", "lint", "build"}
  BY DEF C!OtherKinds, C!Kinds, C!Range
<1>2. C!Tool(do).by = "npx" /\ C!Tool(do).do \notin C!OtherKinds
  BY <1>1 DEF C!Tool
<1> QED BY <1>2 DEF Runnable, C!CanRun, C!StartsTool

LEMMA ResolvedRuns ==
  ASSUME NEW c, project \in Packages
  PROVE  Runnable(C!resolveNamedCommand(c, project))
<1> DEFINE r == C!resolveNamedCommand(c, project)
<1>1. CASE r = C!Script(project.pm, c.do) /\ C!Has(project, c.do)
  <2>1. project.pm \in {"npm", "pnpm"}
    BY PackagesAssumption
  <2> QED BY <1>1, <2>1 DEF C!Script, C!CanRun, Runnable
<1>2. CASE r = c /\ c.by = "node"
  BY <1>2 DEF C!CanRun, Runnable
<1>3. CASE r = C!Tool(c.do) /\ C!StartsTool(c) /\ project.tool
  BY <1>3, ToolRuns DEF C!StartsTool
<1>4. CASE r = None
  BY <1>4 DEF Runnable
<1> QED BY <1>1, <1>2, <1>3, <1>4 DEF C!resolveNamedCommand

LEMMA EitherRuns ==
  ASSUME NEW x, NEW y, Runnable(x), Runnable(y)
  PROVE  Runnable(C!Either(x, y))
BY DEF C!Either

\* A script that starts the framework is one the project has.
LEMMA FrameworkRuns ==
  ASSUME NEW m, NEW mode \in C!Modes, project \in Packages
  PROVE  Runnable(C!preferredFrameworkTestCommand(m, project, mode))
<1> DEFINE names == <<C!ModeScript(project, mode), "test:unit", "test">>
           there == {i \in 1..Len(names) : names[i] # None /\ project.body[names[i]] = "tool"}
           found == IF there # {} THEN C!Min(there) ELSE 0
           running == IF found = 0 THEN None ELSE names[found]
           r == C!preferredFrameworkTestCommand(m, project, mode)
<1> SUFFICES Runnable(r)
  OBVIOUS
<1>1. \/ r = None
      \/ running # None /\ r = C!Script(project.pm, C!SpokenName(running))
      \/ project.tool /\ r = C!Tool(mode)
  <2>1. C!FrameworkScript(project, mode) = running
    BY DEF C!FrameworkScript, C!FirstOf, C!At, C!SelectInSeq
  <2> HIDE DEF running
  <2>2. running = None => C!SpokenName(running) = None
    BY PackagesAssumption DEF C!SpokenName
  <2> QED BY <2>1, <2>2 DEF C!preferredFrameworkTestCommand, C!Named, C!Either
<1>2. ASSUME running # None
      PROVE  /\ running \in {C!ModeScript(project, mode), "test:unit", "test"}
             /\ C!Has(project, running)
  <2>1. there \in SUBSET Int /\ there \subseteq 1..3
    OBVIOUS
  <2>2. there # {} /\ C!Min(there) = E!Min(there)
    BY <1>2 DEF C!Min, E!Min
  <2>3. C!Min(there) \in there
    <3> HIDE DEF there
    <3>1. \A n \in Nat : IsFiniteSet(1..n)
      BY FS_Interval
    <3>2. IsFiniteSet(there)
      BY <2>1, <3>1, FS_Subset
    <3> QED BY <2>1, <2>2, <3>2, MinIsLeast
  <2> DEFINE k == C!Min(there)
  <2>4. running = names[k] /\ k \in 1..3 /\ project.body[names[k]] = "tool"
    BY <1>2, <2>1, <2>3
  <2>5. k = 1 \/ k = 2 \/ k = 3
    BY <2>4
  <2>6. names[k] \in {C!ModeScript(project, mode), "test:unit", "test"}
    <3> HIDE DEF k
    <3> QED BY <2>5
  <2> HIDE DEF running, k, names
  <2> QED BY <2>4, <2>6, PackagesAssumption DEF C!Has
<1>3. CASE running # None /\ r = C!Script(project.pm, C!SpokenName(running))
  <2>1. CASE running # "ci:test"
    <3>1. project.pm \in {"npm", "pnpm"}
      BY PackagesAssumption
    <3> HIDE DEF running, r
    <3> QED BY <1>2, <1>3, <2>1, <3>1 DEF C!SpokenName, C!Script, C!CanRun, Runnable
  <2>2. CASE running = "ci:test"
    <3>1. C!ModeScript(project, mode) = "ci:test"
      BY <1>2, <1>3, <2>2
    <3>2. mode = "ci"
      <4> SUFFICES ASSUME mode \in {"watch", "coverage"} PROVE FALSE
        BY <3>1 DEF C!Modes, C!ModeScript
      <4>1. C!ModeScript(project, mode) = C!FirstScript(project, C!ModeScripts[mode])
        BY DEF C!ModeScript
      <4>2. Len(C!ModeScripts[mode]) = 3 /\ \A i \in 1..3 : C!ModeScripts[mode][i] # "ci:test"
        BY DEF C!ModeScripts
      <4>3. C!FirstScript(project, C!ModeScripts[mode]) # None
        BY <1>3, <2>2, <3>1, <4>1
      <4> QED BY <3>1, <4>1, <4>2, <4>3, FirstScriptIsThere
    <3> HIDE DEF running, r
    <3> QED BY <1>3, <2>2, <3>1, <3>2 DEF C!SpokenName, C!Misnamed, Runnable
  <2> QED BY <2>1, <2>2
<1>4. CASE project.tool /\ r = C!Tool(mode)
  <2>1. mode \notin C!OtherKinds
    BY DEF C!Modes, C!OtherKinds, C!Kinds, C!Range
  <2> QED BY <1>4, <2>1, ToolRuns
<1>5. CASE r = None
  BY <1>5 DEF Runnable
<1> QED BY <1>1, <1>3, <1>4, <1>5

LEMMA PreferredRuns ==
  ASSUME NEW m, NEW mode \in C!Modes, project \in Packages
  PROVE  Runnable(C!Preferred(m, project, mode))
<1>1. Runnable(C!preferredMemoryTestCommand(m, project, mode))
  BY ResolvedRuns DEF C!preferredMemoryTestCommand
<1>2. Runnable(C!inferNodeTestFallback(m, project))
  BY DEF C!inferNodeTestFallback, C!NodeTest, C!CanRun, Runnable
<1> QED BY <1>1, <1>2, FrameworkRuns, EitherRuns DEF C!Preferred

\* What the recovery asks for becomes something that runs, or is skipped.
LEMMA AdjustedRuns ==
  ASSUME NEW m, NEW mode \in C!Modes, NEW ci, NEW c, project \in Packages,
         \/ c \in {C!Script("npm", "build"), C!Script("npm", "test")}
         \/ mode = "coverage" /\ c = C!Script("npm", "test:coverage")
  PROVE  Runnable(C!Adjusted(m, project, c, ci, mode))
<1>1. Runnable(C!Preferred(m, project, mode)) /\ Runnable(C!Preferred(m, project, "default"))
  BY PreferredRuns DEF C!Modes
<1>2. Runnable(C!ScriptCommand(project, <<"build">>)) /\ Runnable(C!ScriptCommand(project, <<"test">>))
  <2>1. Len(<<"build">>) = 1 /\ Len(<<"test">>) = 1
    OBVIOUS
  <2> QED BY <2>1, ScriptRuns
<1>3. ~C!Watches(c)
  BY DEF C!Watches, C!Script
<1>4. CASE mode = "coverage" /\ C!AsksCoverage(c)
  BY <1>1, <1>3, <1>4, EitherRuns DEF C!Adjusted
<1>5. CASE c = C!Script("npm", "build") /\ ~(mode = "coverage" /\ C!AsksCoverage(c))
  BY <1>2, <1>3, <1>5 DEF C!Adjusted
<1>6. CASE c = C!Script("npm", "test") /\ ~(mode = "coverage" /\ C!AsksCoverage(c))
  <2>1. c # C!Script("npm", "build")
    BY <1>6 DEF C!Script
  <2> QED BY <1>1, <1>2, <1>3, <1>6, <2>1, EitherRuns DEF C!Adjusted
<1>7. c = C!Script("npm", "test:coverage") => C!AsksCoverage(c)
  BY DEF C!Script, C!AsksCoverage
<1> QED BY <1>4, <1>5, <1>6, <1>7

\* A list of commands that run.
AllRun(list) ==
  /\ \E n \in Nat : DOMAIN list = 1..n
  /\ \A i \in DOMAIN list : Runnable(list[i]) /\ list[i] # None

LEMMA OnceRuns ==
  ASSUME NEW list, NEW n \in Nat, DOMAIN list = 1..n,
         \A i \in 1..n : Runnable(list[i])
  PROVE  AllRun(C!Once(list))
BY OnceIsSaid DEF AllRun

LEMMA InferredRuns ==
  ASSUME project \in Packages
  PROVE  AllRun(C!Inferred)
<1> DEFINE mode == C!RecoveryMode
           seed == C!RecoverySeed
           m == job.mem
           kept == C!Once([i \in DOMAIN seed |-> C!Adjusted(m, project, seed[i], C!InCI, mode)])
           rest == <<C!ScriptCommand(project, <<"build">>),
                     C!Either(C!Preferred(m, project, mode), C!ScriptCommand(project, <<"test">>))>>
<1>1. mode \in C!Modes
  BY DEF C!RecoveryMode, C!Modes
<1>2. /\ DOMAIN seed = 1..2 /\ seed[1] = C!Script("npm", "build")
      /\ seed[2] = C!Script("npm", IF mode = "coverage" THEN "test:coverage" ELSE "test")
  BY DEF C!RecoverySeed
<1>3. AllRun(kept)
  <2> DEFINE all == [i \in DOMAIN seed |-> C!Adjusted(m, project, seed[i], C!InCI, mode)]
  <2> HIDE DEF seed, mode
  <2>1. DOMAIN all = 1..2
    BY <1>2
  <2>2. ASSUME NEW i \in 1..2 PROVE Runnable(all[i])
    <3>1. all[i] = C!Adjusted(m, project, seed[i], C!InCI, mode)
      BY <1>2
    <3>2. i = 1 \/ i = 2
      OBVIOUS
    <3>3. \/ seed[i] \in {C!Script("npm", "build"), C!Script("npm", "test")}
          \/ mode = "coverage" /\ seed[i] = C!Script("npm", "test:coverage")
      BY <1>2, <3>2
    <3> HIDE DEF all
    <3> QED BY <1>1, <3>1, <3>3, AdjustedRuns
  <2> HIDE DEF all
  <2>3. AllRun(C!Once(all))
    BY <2>1, <2>2, OnceRuns
  <2> QED BY <2>3 DEF all
<1>4. AllRun(C!Once(rest))
  <2>1. Runnable(C!ScriptCommand(project, <<"build">>)) /\ Runnable(C!ScriptCommand(project, <<"test">>))
    <3>1. Len(<<"build">>) = 1 /\ Len(<<"test">>) = 1
      OBVIOUS
    <3> QED BY <3>1, ScriptRuns
  <2>2. Runnable(C!Either(C!Preferred(m, project, mode), C!ScriptCommand(project, <<"test">>)))
    BY <1>1, <2>1, PreferredRuns, EitherRuns
  <2>3. DOMAIN rest = 1..2 /\ \A i \in 1..2 : Runnable(rest[i])
    BY <2>1, <2>2
  <2> HIDE DEF rest
  <2> QED BY <2>3, OnceRuns
<1>5. C!Inferred = IF kept # <<>> THEN kept ELSE C!Once(rest)
  BY DEF C!Inferred, C!inferVerifyCommands, C!UnlessEmpty
<1> HIDE DEF kept, rest
<1> QED BY <1>3, <1>4, <1>5

LEMMA OthersRun ==
  ASSUME project \in Packages
  PROVE  AllRun(C!Others)
<1> DEFINE preferred == C!PreferredCommands(job.mem, project)
           wanted == IF C!RecoveryMode = "ci" THEN C!Either(preferred["ci"], preferred["default"])
                     ELSE preferred[C!RecoveryMode]
           replaced(c) ==
             \/ C!RecoveryMode = "coverage" /\ C!TestLike(c)
             \/ C!RecoveryMode = "ci" /\ (C!Watches(c) \/ (C!TestLike(c) /\ ~C!Watches(wanted)))
             \/ c \in C!Range(job.verify) /\ c.by = "npm" /\ C!TestLike(c)
           new == [i \in DOMAIN C!Inferred |-> IF replaced(C!Inferred[i]) THEN wanted ELSE C!Inferred[i]]
<1>1. \A mode \in C!Modes : Runnable(preferred[mode])
  BY PreferredRuns, EitherRuns DEF C!PreferredCommands, C!Modes
<1>2. Runnable(wanted)
  BY <1>1, EitherRuns DEF C!RecoveryMode, C!Modes
<1>3. C!Others = IF wanted = None THEN C!Inferred ELSE C!Once(new)
  BY DEF C!Others, C!normalizeRecoveryCommands
<1> HIDE DEF wanted, replaced
<1>4. PICK n \in Nat : DOMAIN C!Inferred = 1..n
  BY InferredRuns DEF AllRun
<1>5. DOMAIN new = 1..n /\ \A i \in 1..n : Runnable(new[i])
  BY <1>2, <1>4, InferredRuns DEF AllRun
<1> HIDE DEF new
<1>6. AllRun(C!Once(new))
  BY <1>5, OnceRuns
<1> QED BY <1>3, <1>6, InferredRuns

\* The project changes only while no repair is under way: what one has set out to try instead
\* can be run as long as it does.
JobFields == {"at", "verify", "ci", "parent", "mem", "others"}
CommandsInv ==
  /\ project \in Packages
  /\ job = C!Idle \/ DOMAIN job = JobFields
  /\ job.at \in {"recover", "recover-late"} => job.others # <<>> /\ AllRun(job.others)

LEMMA CommandsInit == C!Init => CommandsInv
BY DEF C!Init, C!Idle, CommandsInv

LEMMA CommandsStep == CommandsInv /\ [C!CommandsNext]_verifyVars => CommandsInv'
<1> SUFFICES ASSUME CommandsInv, [C!CommandsNext]_verifyVars PROVE CommandsInv'
  OBVIOUS
<1> DEFINE Resting(j) == (j = C!Idle \/ DOMAIN j = JobFields) /\ j.at \notin {"recover", "recover-late"}
<1>1. ASSUME project' \in Packages, Resting(job') PROVE CommandsInv'
  BY <1>1 DEF CommandsInv
<1>2. Resting(C!Idle) /\ (job # C!Idle => Resting(C!Done))
  <2>1. Resting(C!Idle)
    BY DEF C!Idle
  <2>2. job # C!Idle /\ job.parent # None => Resting(C!Done)
    BY DEF C!Done, CommandsInv, JobFields
  <2> QED BY <2>1, <2>2 DEF C!Done
<1>3. ASSUME NEW kinds \in Skills, NEW inCI \in BOOLEAN, NEW verify \in BOOLEAN,
             C!Generate(kinds, inCI, verify)
      PROVE  CommandsInv'
  <2>1. Resting(job')
    BY <1>2, <1>3 DEF C!Generate, JobFields
  <2> QED BY <1>1, <1>3, <2>1 DEF C!Generate, CommandsInv
<1>4. ASSUME NEW list \in Lists, NEW inCI \in BOOLEAN, C!Repair(list, inCI) PROVE CommandsInv'
  <2>1. Resting(job')
    BY <1>4 DEF C!Repair, JobFields
  <2> QED BY <1>1, <1>4, <2>1 DEF C!Repair, CommandsInv
<1>5. ASSUME NEW at, at \notin {"recover", "recover-late"}, job # C!Idle, UNCHANGED project,
             job' = [job EXCEPT !.at = at]
      PROVE  CommandsInv'
  <2>1. DOMAIN job' = JobFields /\ job'.at = at
    BY <1>5 DEF CommandsInv, JobFields
  <2> QED BY <1>1, <1>5, <2>1 DEF CommandsInv
<1>6. CASE C!Start
  <2>1. DOMAIN job' = JobFields /\ job'.at = "verify"
    BY <1>6 DEF C!Start, C!Idle, CommandsInv, JobFields
  <2> QED BY <1>1, <1>6, <2>1 DEF C!Start, CommandsInv
<1>7. ASSUME NEW at \in {"verify", "again"}, NEW failed \in {"again", "failed"}, C!Verify(at, failed)
      PROVE  CommandsInv'
  <2>1. job # C!Idle /\ UNCHANGED project
    <3>1. job.at = at /\ UNCHANGED project
      BY <1>7 DEF C!Verify
    <3> QED BY <3>1, <1>7 DEF C!Idle
  <2>2. CASE job' = [job EXCEPT !.at = "passed"] \/ job' = [job EXCEPT !.at = failed]
    BY <1>5, <2>1, <2>2
  <2>3. CASE /\ C!Others # <<>>
             /\ job' = [job EXCEPT !.at = IF at = "verify" THEN "recover" ELSE "recover-late",
                                   !.others = C!Others]
    <3>1. DOMAIN job' = JobFields /\ job'.others = C!Others
      BY <2>1, <2>3 DEF CommandsInv, JobFields
    <3>2. AllRun(C!Others)
      BY OthersRun DEF CommandsInv
    <3>3. AllRun(job.others)'
      BY <2>1, <3>1, <3>2 DEF AllRun, Runnable, C!CanRun, C!Misnamed, C!Has, C!ModeScript
    <3> QED BY <2>1, <2>3, <3>1, <3>3 DEF CommandsInv
  <2> QED BY <1>7, <2>2, <2>3 DEF C!Verify
<1>8. ASSUME NEW at \in {"recover", "recover-late"}, NEW failed \in {"again", "failed"}, C!Recover(at, failed)
      PROVE  CommandsInv'
  <2>1. job # C!Idle /\ UNCHANGED project
    BY <1>8 DEF C!Recover, C!Idle
  <2> QED BY <1>5, <1>8, <2>1 DEF C!Recover
<1>9. CASE C!Remember \/ C!persistFeatureMemoryUpdate \/ C!Fail
  <2>1. job # C!Idle
    BY <1>9 DEF C!Remember, C!persistFeatureMemoryUpdate, C!Fail, C!Idle
  <2> HIDE DEF Resting
  <2> QED BY <1>1, <1>2, <1>9, <2>1 DEF C!Remember, C!persistFeatureMemoryUpdate, C!Fail, CommandsInv
<1>10. CASE C!Develop
  BY <1>1, <1>2, <1>10 DEF C!Develop, C!Begin, CommandsInv
<1>11. CASE UNCHANGED verifyVars
  BY <1>11 DEF verifyVars, CommandsInv, AllRun, Runnable, C!CanRun, C!Misnamed, C!Has, C!ModeScript
<1> HIDE DEF Resting
<1> QED BY <1>3, <1>4, <1>6, <1>7, <1>8, <1>9, <1>10, <1>11 DEF C!CommandsNext

LEMMA RecoveryCanRunInv == CommandsInv => C!RecoveryCanRun
BY DEF CommandsInv, AllRun, Runnable, C!RecoveryCanRun, C!Range

LEMMA CommandsInvariance == MCSpec => [](part = "commands" => CommandsInv)
<1>1. MCInit => (part = "commands" => CommandsInv)
  BY CommandsInit DEF MCInit
<1>2. (part = "commands" => CommandsInv) /\ [MCNext]_allVars => (part = "commands" => CommandsInv)'
  <2> SUFFICES ASSUME part = "commands" => CommandsInv, [MCNext]_allVars, part' = "commands" PROVE CommandsInv'
    OBVIOUS
  <2>1. part = "commands" /\ [C!CommandsNext]_verifyVars
    BY DEF MCNext, allVars
  <2> QED BY <2>1, CommandsStep
<1> QED BY <1>1, <1>2, PTL DEF MCSpec

------------------------------------------------------------------------------
(* The advice to a coder run. *)

FailureNames == UNION {A!ToSet(x.failures) : x \in Endings}

\* The failures of a round, and of the round before it, are lists.
LEMMA FailuresAreLists ==
  ASSUME NEW rounds \in Seq(Endings)
  PROVE  /\ A!Failures(rounds) \in Seq(FailureNames)
         /\ A!Failures(A!Front(rounds)) \in Seq(FailureNames)
         /\ A!Previous(rounds) = A!Failures(A!Front(rounds))
<1>1. \A some \in Seq(Endings) : A!Failures(some) \in Seq(FailureNames)
  <2> SUFFICES ASSUME NEW some \in Seq(Endings), some # <<>> PROVE A!Failures(some) \in Seq(FailureNames)
    BY DEF A!Failures
  <2>1. A!Last(some) \in Endings
    BY DEF A!Last
  <2> QED BY <2>1, AdviceAssumption DEF A!Failures, FailureNames
<1>2. A!Front(rounds) \in Seq(Endings)
  BY DEF A!Front
<1>3. Len(rounds) <= 1 => A!Front(rounds) = <<>>
  BY DEF A!Front
<1>4. A!Failures(<<>>) = <<>>
  BY DEF A!Failures
<1> QED BY <1>1, <1>2, <1>3, <1>4 DEF A!Previous

\* Lists whose first twelve failures are the same are as long as each other up to twelve.
LEMMA AlikeIsAsLong ==
  ASSUME NEW now \in Seq(FailureNames), NEW before \in Seq(FailureNames), before # <<>>,
         \/ A!buildFailureFingerprint(before) = A!buildFailureFingerprint(now)
         \/ Len(now) >= Len(before) + 3
  PROVE  Len(now) >= A!Min({12, Len(before)})
<1> DEFINE m == A!Min({12, Len(before)})
<1> SUFFICES Len(now) >= m
  OBVIOUS
<1>1. m \in Int /\ m <= 12 /\ m <= Len(before)
  <2>1. {12, Len(before)} = {12} \cup {Len(before)}
    OBVIOUS
  <2>2. IsFiniteSet({12}) /\ IsFiniteSet({Len(before)})
    BY FS_Singleton
  <2>3. IsFiniteSet({12, Len(before)})
    BY <2>1, <2>2, FS_Union
  <2>4. {12, Len(before)} \in SUBSET Int /\ {12, Len(before)} # {}
    OBVIOUS
  <2>5. E!Min({12, Len(before)}) = m
    BY DEF E!Min, A!Min
  <2> QED BY <2>3, <2>4, <2>5, MinIsLeast
<1> HIDE DEF m
<1>2. \A seq \in Seq(FailureNames) :
        Len(A!FirstOf(seq, 12)) = IF Len(seq) <= 12 THEN Len(seq) ELSE 12
  BY DEF A!FirstOf
<1>3. Len(now) \in Nat /\ Len(before) \in Nat
  OBVIOUS
<1>4. CASE A!buildFailureFingerprint(before) = A!buildFailureFingerprint(now)
  <2>1. Len(A!FirstOf(now, 12)) = Len(A!FirstOf(before, 12))
    BY <1>4 DEF A!buildFailureFingerprint
  <2>2. (IF Len(now) <= 12 THEN Len(now) ELSE 12) = (IF Len(before) <= 12 THEN Len(before) ELSE 12)
    BY <1>2, <2>1
  <2> QED BY <1>1, <1>3, <2>2
<1>5. CASE Len(now) >= Len(before) + 3
  BY <1>1, <1>3, <1>5
<1> QED BY <1>4, <1>5

\* What a strategy stands on, whatever was said and however many files failed.
LEMMA StrategyStandsOn ==
  ASSUME NEW rounds \in Seq(Endings), NEW snapshot, NEW h
  PROVE  LET action == A!determineStrategy(rounds, snapshot, h)
             now == A!Failures(rounds)
             before == A!Failures(A!Front(rounds))
         IN /\ action \in A!Actions
            /\ action = "continue_fix" => now # before /\ A!Level(h) # "high"
            /\ action = "review_gate" <=> now = <<>>
            /\ action = "rollback_to_snapshot" =>
                 snapshot # None /\ before # <<>> /\ Len(now) >= A!Min({12, Len(before)})
<1> DEFINE action == A!determineStrategy(rounds, snapshot, h)
           now == A!Failures(rounds)
           before == A!Failures(A!Front(rounds))
           s == A!classifySignals(rounds)
<1>1. now \in Seq(FailureNames) /\ before \in Seq(FailureNames) /\ A!Previous(rounds) = before
  BY FailuresAreLists
<1>2. s.repeated <=> /\ before # <<>>
                     /\ A!buildFailureFingerprint(before) = A!buildFailureFingerprint(now)
  BY <1>1 DEF A!classifySignals
<1>3. s.spike => before # <<>> /\ Len(now) >= Len(before) + 3
  BY <1>1 DEF A!classifySignals
<1>4. s.spike \/ s.repeated => before # <<>> /\ Len(now) >= A!Min({12, Len(before)})
  <2> HIDE DEF s, now, before
  <2> QED BY <1>1, <1>2, <1>3, AlikeIsAsLong
<1>5. A!Level(h) = "high" => A!Bias(h) = "conservative"
  BY DEF A!Level, A!Bias
<1> HIDE DEF s
<1>6. action \in A!Actions /\ (action = "review_gate" <=> now = <<>>)
  BY DEF A!determineStrategy, A!Actions, s
<1>7. action = "continue_fix" => now # <<>> /\ ~s.repeated /\ A!Level(h) # "high"
  BY <1>5 DEF A!determineStrategy, s
<1>8. action = "rollback_to_snapshot" => snapshot # None /\ (s.spike \/ s.repeated)
  BY DEF A!determineStrategy, s
<1> HIDE DEF action, now, before
<1>9. action = "continue_fix" => now # before
  BY <1>2, <1>7
<1> USE DEF action, now, before
<1> QED BY <1>4, <1>6, <1>7, <1>8, <1>9

LEMMA JoinedEndsAlike ==
  ASSUME NEW S, NEW a \in Seq(S), NEW b \in Seq(S), b # <<>>
  PROVE  /\ a \o b \in Seq(S) /\ a \o b # <<>>
         /\ Len(a \o b) = Len(a) + Len(b) /\ (a \o b)[Len(a \o b)] = b[Len(b)]
<1>1. Len(a) \in Nat /\ Len(b) \in Nat /\ Len(b) > 0
  OBVIOUS
<1>2. a \o b \in Seq(S) /\ Len(a \o b) = Len(a) + Len(b)
  OBVIOUS
<1>3. (a \o b)[Len(a) + Len(b)] = b[Len(b)]
  BY <1>1
<1> QED BY <1>1, <1>2, <1>3

\* The four commands a prompt has room for include the full review, if it is asked for.
LEMMA FullReviewIsAmong ==
  ASSUME NEW h, A!ReviewRequired(h), NEW action \in {"continue_fix", "rebuild_context", "review_gate"}
  PROVE  "review-gate-full" \in A!ToSet(A!FirstOf(A!buildSuggestedCommands(action, h), 4))
<1> DEFINE said == A!buildSuggestedCommands(action, h)
           full == <<"review-gate-full">>
           Said == {"benchmark-feedback", "review-gate", "next-prompt", "coder-loop", "coder-context",
                    "implement-task", "review-gate-full"}
<1>1. A!FullReview(h) = full
  BY DEF A!FullReview
<1>2. full \in Seq(Said) /\ full # <<>> /\ Len(full) = 1 /\ full[Len(full)] = "review-gate-full"
  OBVIOUS
<1>3. <<"benchmark-feedback">> \in Seq(Said) /\ Len(<<"benchmark-feedback">>) = 1
  OBVIOUS
<1> HIDE DEF full
<1>4. ASSUME NEW some \in Seq(Said), Len(some) <= 2, said = <<"benchmark-feedback">> \o (some \o full)
      PROVE  "review-gate-full" \in A!ToSet(A!FirstOf(said, 4))
  <2>1. /\ some \o full \in Seq(Said) /\ some \o full # <<>> /\ Len(some \o full) <= 3
        /\ (some \o full)[Len(some \o full)] = "review-gate-full"
    BY <1>2, <1>4, JoinedEndsAlike
  <2>2. said \in Seq(Said) /\ said # <<>> /\ Len(said) <= 4 /\ said[Len(said)] = "review-gate-full"
    BY <1>3, <1>4, <2>1, JoinedEndsAlike
  <2> HIDE DEF said, Said
  <2>3. A!FirstOf(said, 4) = said /\ Len(said) \in DOMAIN said
    BY <2>2 DEF A!FirstOf
  <2> QED BY <2>2, <2>3 DEF A!ToSet
<1>5. CASE action = "review_gate"
  <2>1. <<"review-gate">> \in Seq(Said) /\ Len(<<"review-gate">>) <= 2
    OBVIOUS
  <2> QED BY <1>1, <1>4, <1>5, <2>1 DEF A!buildSuggestedCommands
<1>6. CASE action = "continue_fix"
  <2>1. <<"next-prompt", "coder-loop">> \in Seq(Said) /\ Len(<<"next-prompt", "coder-loop">>) <= 2
    OBVIOUS
  <2> QED BY <1>1, <1>4, <1>6, <2>1 DEF A!buildSuggestedCommands
<1>7. CASE action = "rebuild_context"
  <2>1. <<"coder-context", "implement-task">> \in Seq(Said) /\ Len(<<"coder-context", "implement-task">>) <= 2
    OBVIOUS
  <2> QED BY <1>1, <1>4, <1>7, <2>1 DEF A!buildSuggestedCommands
<1> QED BY <1>5, <1>6, <1>7

\* The history weighs on a strategy only by being of high risk, and then against going on.
LEMMA HighRiskIsNotBold ==
  ASSUME NEW rounds, NEW snapshot, NEW i \in 1..Len(A!Risks) - 1
  PROVE  A!Boldness(A!determineStrategy(rounds, snapshot, A!Risks[i + 1]))
           <= A!Boldness(A!determineStrategy(rounds, snapshot, A!Risks[i]))
<1> DEFINE s == A!classifySignals(rounds)
           told(h) == A!determineStrategy(rounds, snapshot, h)
           turned(h) == (s.local /\ A!Level(h) = "high") \/ (~s.local /\ A!Bias(h) = "conservative")
           better == A!Risks[i]
           worse == A!Risks[i + 1]
<1>1. i \in 1..4
  BY DEF A!Risks
<1>2. ~turned(better)
  <2>1. better \in {"improving", "low", "unknown", "medium"}
    BY <1>1 DEF A!Risks
  <2> HIDE DEF s, better
  <2> QED BY <2>1 DEF A!Level, A!Bias
<1> HIDE DEF s, better, worse
<1>3. told(worse) = told(better) \/ (told(worse) = "rebuild_context" /\ told(better) = "continue_fix")
  <2>1. CASE turned(worse)
    BY <1>2, <2>1 DEF A!determineStrategy, s
  <2>2. CASE ~turned(worse)
    BY <1>2, <2>2 DEF A!determineStrategy, s
  <2> QED BY <2>1, <2>2
<1> HIDE DEF told
<1>4. A!Boldness(told(better)) \in Int
  BY DEF A!Boldness
<1>5. A!Boldness("rebuild_context") = 1 /\ A!Boldness("continue_fix") = 2
  BY DEF A!Boldness
<1>6. A!Boldness(told(worse)) <= A!Boldness(told(better))
  BY <1>3, <1>4, <1>5
<1> QED BY <1>6 DEF told, better, worse

\* A history of high risk narrows what the policy of a run gives, and every other gives the same.
LEMMA HighRiskIsNotWider ==
  ASSUME NEW objective, objective.impact \in Nat, NEW i \in 1..Len(A!Risks) - 1
  PROVE  LET better == A!deriveCoderPolicy(objective, A!Unasked, A!Risks[i])
             worse == A!deriveCoderPolicy(objective, A!Unasked, A!Risks[i + 1])
         IN /\ ~(worse.targets > better.targets) /\ ~(worse.tests > better.tests)
            /\ ~(worse.failures > better.failures) /\ ~(worse.files > better.files)
            /\ ~(A!AllowedFiles(worse, objective.impact) > A!AllowedFiles(better, objective.impact))
<1> DEFINE kind == A!classifyTask(objective.says, 0)
           policy(h) == A!deriveCoderPolicy(objective, A!Unasked, h)
<1>1. /\ A!Unasked.bias = None /\ A!Unasked.scope = None /\ A!Unasked.mode = None
      /\ \A default : A!Else(None, default) = default
  BY DEF A!Unasked, A!Else
<1>2. A!Risks[i] # "high"
  <2>1. i \in 1..4
    BY DEF A!Risks
  <2> QED BY <2>1 DEF A!Risks
<1> HIDE DEF kind
<1>3. ASSUME NEW h, h = "high"
      PROVE  /\ policy(h).targets = 2 /\ policy(h).tests = 4 /\ policy(h).failures = 8 /\ policy(h).files = 4
             /\ policy(h).mode = CASE kind = "cross_file_refactor" -> "broad"
                                  [] kind \in {"multi_file_feature", "test_repair"} -> "balanced"
                                  [] OTHER -> "surgical"
  BY <1>1, <1>3 DEF A!deriveCoderPolicy, A!recommendTaskRoute, A!defaultsForBias, kind
<1>4. ASSUME NEW h, h # "high"
      PROVE  /\ policy(h).targets = 4 /\ policy(h).tests = 8 /\ policy(h).failures = 12 /\ policy(h).files = 10
             /\ policy(h).mode = IF kind = "cross_file_refactor" THEN "broad" ELSE "balanced"
  BY <1>1, <1>4 DEF A!deriveCoderPolicy, A!recommendTaskRoute, A!defaultsForBias, kind
<1> HIDE DEF policy
<1>5. \A h : A!AllowedFiles(policy(h), objective.impact) \in {4, 10, 24}
  BY DEF A!AllowedFiles
<1>6. \A h : h # "high" => A!AllowedFiles(policy(h), objective.impact) = 24
  BY <1>4 DEF A!AllowedFiles
<1>7. ASSUME NEW h
      PROVE  /\ ~(policy(h).targets > policy(A!Risks[i]).targets)
             /\ ~(policy(h).tests > policy(A!Risks[i]).tests)
             /\ ~(policy(h).failures > policy(A!Risks[i]).failures)
             /\ ~(policy(h).files > policy(A!Risks[i]).files)
             /\ ~(A!AllowedFiles(policy(h), objective.impact) > A!AllowedFiles(policy(A!Risks[i]), objective.impact))
  BY <1>2, <1>3, <1>4, <1>5, <1>6
<1> QED BY <1>7 DEF policy

\* Advice that was worked out of the rounds of a run, with some history and with what its
\* plan links, if it links anything.
Fits(a, r, rounds, link) ==
  LET now == A!Failures(rounds)
      before == A!Failures(A!Front(rounds))
  IN /\ a \in A!Advices(Runs)
     /\ a.action = "continue_fix" => now # before /\ a.level # "high"
     /\ a.action = "review_gate" <=> now = <<>>
     /\ a.action = "rollback_to_snapshot" =>
          /\ a.snapshot = r /\ link # None /\ link
          /\ before # <<>> /\ Len(now) >= A!Min({12, Len(before)})
     /\ \E h \in Histories : a.review = A!ReviewRequired(h)
                           /\ a.commands = A!buildSuggestedCommands(a.action, h)

RepairTypeOK ==
  /\ loops \in [Runs -> A!RunRecords(Runs) \cup {None}]
  /\ links \in [Runs -> BOOLEAN \cup {None}]
  /\ lastPlan \in Runs \cup {None} /\ (lastPlan # None => links[lastPlan] \in BOOLEAN)
  /\ risk \in Histories

RepairInv ==
  /\ RepairTypeOK
  /\ \A r \in Runs : loops[r] # None /\ loops[r].rounds # <<>> =>
       Fits(loops[r].advice, r, loops[r].rounds, links[r])
  /\ \A r \in Runs : justRun = r =>
       /\ loops[r] # None
       /\ loops[r].advice = A!analyzeCoderRun(r, loops[r].rounds)
       /\ loops[r].patch = A!buildCurrentPatchEvaluation(loops[r])

\* What each field of a run's file may hold.
LEMMA RunFieldsAre ==
  ASSUME NEW x \in A!RunRecords(Runs)
  PROVE  /\ DOMAIN x = {"objective", "policy", "flow", "rounds", "allowed", "advice", "patch"}
         /\ x.rounds \in Seq(Endings) /\ x.objective.impact \in Nat
         /\ x.advice \in A!Advices(Runs) \cup {None}
BY AdviceAssumption DEF A!RunRecords

\* What a round makes of the advice, for whatever rounds there were before it.
LEMMA AnalysisIsAdvice ==
  ASSUME RepairTypeOK, NEW r \in Runs, NEW rounds \in Seq(Endings)
  PROVE  Fits(A!analyzeCoderRun(r, rounds), r, rounds, links[r])
<1> DEFINE a == A!analyzeCoderRun(r, rounds)
           snapshot == A!LinkedSnapshot(A!readLinkedPlan(r))
           action == A!determineStrategy(rounds, snapshot, risk)
           now == A!Failures(rounds)
           before == A!Failures(A!Front(rounds))
<1>1. snapshot \in Runs \cup {None} /\ (snapshot # None => snapshot = r /\ links[r] # None /\ links[r])
  BY AdviceAssumption, EvidenceAssumption DEF RepairTypeOK, A!LinkedSnapshot, A!readLinkedPlan
<1> HIDE DEF snapshot
<1>2. /\ action \in A!Actions
      /\ action = "continue_fix" => now # before /\ A!Level(risk) # "high"
      /\ action = "review_gate" <=> now = <<>>
      /\ action = "rollback_to_snapshot" =>
           snapshot # None /\ before # <<>> /\ Len(now) >= A!Min({12, Len(before)})
  BY StrategyStandsOn
<1>3. a = [action |-> action, snapshot |-> snapshot, level |-> A!Level(risk),
           review |-> A!ReviewRequired(risk), commands |-> A!buildSuggestedCommands(action, risk)]
  BY DEF A!analyzeCoderRun, snapshot
<1> HIDE DEF a, action, now, before
<1>4. A!ReviewRequired(risk) \in BOOLEAN /\ risk \in Histories
  BY DEF RepairTypeOK, A!ReviewRequired
<1>5. a \in A!Advices(Runs)
  BY <1>1, <1>2, <1>3, <1>4 DEF A!Advices
<1>6. /\ a.action = action /\ a.snapshot = snapshot /\ a.level = A!Level(risk)
      /\ a.review = A!ReviewRequired(risk) /\ a.commands = A!buildSuggestedCommands(action, risk)
  BY <1>3
<1> HIDE DEF a, action, now, before
<1>7. a.action = "rollback_to_snapshot" =>
        /\ a.snapshot = r /\ links[r] # None /\ links[r]
        /\ before # <<>> /\ Len(now) >= A!Min({12, Len(before)})
  BY <1>1, <1>2, <1>6
<1>8. \E h \in Histories : a.review = A!ReviewRequired(h) /\ a.commands = A!buildSuggestedCommands(a.action, h)
  BY <1>4, <1>6
<1> SUFFICES Fits(a, r, rounds, links[r])
  BY DEF a
<1> QED BY <1>2, <1>5, <1>6, <1>7, <1>8 DEF Fits, now, before

LEMMA RepairInit == A!Init => RepairInv
<1> SUFFICES ASSUME A!Init PROVE RepairInv
  OBVIOUS
<1>1. RepairTypeOK
  BY DEF A!Init, RepairTypeOK
<1>2. \A r \in Runs : loops[r] = None
  BY DEF A!Init
<1>3. justRun \notin Runs
  BY AdviceAssumption DEF A!Init
<1> QED BY <1>1, <1>2, <1>3 DEF RepairInv

\* A run with a new policy has no round, and is not the one that had the last.
LEMMA CreateKeepsAdvice ==
  ASSUME RepairInv, NEW r \in Runs, NEW asked, NEW flow \in {"loop", "plan"},
         asked \in Biases \cup {A!RouteAsk(Objective[q], k) : q \in Runs, k \in Histories},
         A!createRun(r, asked, flow)
  PROVE  RepairInv'
<1> DEFINE new == [objective |-> Objective[r], policy |-> A!deriveCoderPolicy(Objective[r], asked, risk),
                   flow |-> flow, rounds |-> <<>>,
                   allowed |-> A!AllowedFiles(A!deriveCoderPolicy(Objective[r], asked, risk), Objective[r].impact),
                   advice |-> None, patch |-> None]
<1>1. /\ loops[r] = None /\ loops' = [loops EXCEPT ![r] = new]
      /\ UNCHANGED <<links, lastPlan, touched, risk, justRun>>
  BY DEF A!createRun
<1>2. new.rounds = <<>>
  OBVIOUS
<1>3. new \in A!RunRecords(Runs)
  <2>1. A!AllowedFiles(A!deriveCoderPolicy(Objective[r], asked, risk), Objective[r].impact) \in {4, 10, 24}
    <3> HIDE DEF new
    <3> QED BY AdviceAssumption DEF A!AllowedFiles
  <2>2. risk \in Histories /\ Objective[r] \in {Objective[q] : q \in Runs}
    BY DEF RepairInv, RepairTypeOK
  <2> QED BY <2>1, <2>2 DEF A!RunRecords
<1> HIDE DEF new
<1>4. RepairTypeOK'
  BY <1>1, <1>3 DEF RepairInv, RepairTypeOK
<1>5. loops'[r] = new /\ \A q \in Runs \ {r} : loops'[q] = loops[q]
  BY <1>1 DEF RepairInv, RepairTypeOK
<1>6. ASSUME NEW q \in Runs, loops'[q] # None, loops'[q].rounds # <<>>
      PROVE  Fits(loops'[q].advice, q, loops'[q].rounds, links'[q])
  <2>1. q # r
    BY <1>2, <1>5, <1>6
  <2> QED BY <1>1, <1>5, <1>6, <2>1 DEF RepairInv
<1>7. ASSUME NEW q \in Runs, justRun' = q
      PROVE  /\ loops'[q] # None
             /\ loops'[q].advice = A!analyzeCoderRun(q, loops[q].rounds)'
             /\ loops'[q].patch = A!buildCurrentPatchEvaluation(loops[q])'
  <2>1. justRun = q /\ loops[q] # None
    BY <1>1, <1>7 DEF RepairInv
  <2>2. q # r /\ loops'[q] = loops[q]
    BY <1>1, <1>5, <2>1
  <2>3. /\ A!analyzeCoderRun(q, loops[q].rounds)' = A!analyzeCoderRun(q, loops[q].rounds)
        /\ A!buildCurrentPatchEvaluation(loops[q])' = A!buildCurrentPatchEvaluation(loops[q])
    BY <1>1, <2>2 DEF A!analyzeCoderRun, A!readLinkedPlan, A!LinkedSnapshot, A!buildCurrentPatchEvaluation
  <2> QED BY <2>1, <2>2, <2>3 DEF RepairInv
<1> QED BY <1>4, <1>6, <1>7 DEF RepairInv

LEMMA RoundKeepsAdvice == RepairInv /\ A!executeRound => RepairInv'
<1> SUFFICES ASSUME RepairInv, NEW r \in Runs, NEW how \in Endings,
                    loops[r] # None,
                    loops' = [loops EXCEPT ![r].rounds = Append(loops[r].rounds, how),
                                           ![r].advice = A!analyzeCoderRun(r, Append(loops[r].rounds, how)),
                                           ![r].patch = A!buildCurrentPatchEvaluation(loops[r])],
                    justRun' = r, UNCHANGED <<links, lastPlan, touched, risk>>
             PROVE  RepairInv'
  BY DEF A!executeRound
<1> DEFINE old == loops[r]
           rounds == Append(loops[r].rounds, how)
           advice == A!analyzeCoderRun(r, rounds)
           patch == A!buildCurrentPatchEvaluation(old)
           new == [old EXCEPT !.rounds = rounds, !.advice = advice, !.patch = patch]
<1>1. old \in A!RunRecords(Runs)
  BY DEF RepairInv, RepairTypeOK
<1>2. rounds \in Seq(Endings)
  BY <1>1, RunFieldsAre
<1>3. /\ loops' = [loops EXCEPT ![r] = new]
      /\ loops'[r] = new /\ \A q \in Runs \ {r} : loops'[q] = loops[q]
  BY DEF RepairInv, RepairTypeOK
<1>4. advice \in A!Advices(Runs)
  <2>1. Fits(advice, r, rounds, links[r])
    BY <1>2, AnalysisIsAdvice DEF RepairInv
  <2> HIDE DEF advice
  <2> QED BY <2>1 DEF Fits
<1>5. patch \in {"split_or_rollback", "narrow_patch", "apply"}
  BY DEF A!buildCurrentPatchEvaluation
<1> HIDE DEF old, rounds, advice, patch
<1>6. new \in A!RunRecords(Runs)
  <2> DEFINE Policy == {A!deriveCoderPolicy(Objective[q], asked, h) :
                          q \in Runs, asked \in Biases \cup {A!RouteAsk(Objective[p], k) : p \in Runs, k \in Histories},
                          h \in Histories}
             Goals == {Objective[q] : q \in Runs}
             Advice == A!Advices(Runs) \cup {None}
             Allowed == {4, 10, 24}
             Patches == {"split_or_rollback", "narrow_patch", "apply", None}
             Flows == {"loop", "plan"}
             Rounds == Seq(Endings)
             Records == A!RunRecords(Runs)
  <2>1. Records = [objective : Goals, policy : Policy, flow : Flows, rounds : Rounds,
                   allowed : Allowed, advice : Advice, patch : Patches]
    BY DEF A!RunRecords
  <2>2. old \in Records /\ rounds \in Rounds /\ advice \in Advice /\ patch \in Patches
    BY <1>1, <1>2, <1>4, <1>5
  <2> HIDE DEF Policy, Goals, Advice, Allowed, Patches, Flows, Rounds, Records
  <2>3. new \in Records
    BY <2>1, <2>2
  <2> QED BY <2>3 DEF Records
<1>7. /\ new.rounds = rounds /\ new.advice = advice /\ new.patch = patch
      /\ new.objective = old.objective /\ new.allowed = old.allowed
  BY <1>1, RunFieldsAre
<1> HIDE DEF new
<1>8. RepairTypeOK'
  BY <1>3, <1>6 DEF RepairInv, RepairTypeOK
<1>9. UNCHANGED <<links, lastPlan, touched, risk>>
  OBVIOUS
<1>10. Fits(loops'[r].advice, r, loops'[r].rounds, links'[r])
  BY <1>2, <1>3, <1>7, <1>9, AnalysisIsAdvice DEF RepairInv, advice
<1>11. ASSUME NEW q \in Runs \ {r}, loops'[q] # None, loops'[q].rounds # <<>>
       PROVE  Fits(loops'[q].advice, q, loops'[q].rounds, links'[q])
  BY <1>3, <1>9, <1>11 DEF RepairInv
<1>12. loops'[r] # None
  BY <1>3, <1>6, AdviceAssumption
<1>13. A!analyzeCoderRun(r, loops[r].rounds)' = advice
  BY <1>3, <1>7, <1>9 DEF A!analyzeCoderRun, A!readLinkedPlan, A!LinkedSnapshot, advice
<1>14. A!buildCurrentPatchEvaluation(loops[r])' = patch
  BY <1>3, <1>7, <1>9 DEF A!buildCurrentPatchEvaluation, patch
<1> QED BY <1>3, <1>7, <1>8, <1>10, <1>11, <1>12, <1>13, <1>14 DEF RepairInv

LEMMA PlanKeepsAdvice == RepairInv /\ A!WritePlan => RepairInv'
<1> SUFFICES ASSUME RepairInv, NEW r \in Runs, NEW snapshot \in BOOLEAN, NEW dies \in BOOLEAN,
                    links[r] = None, justRun' = None, links' = [links EXCEPT ![r] = snapshot],
                    lastPlan' = IF dies THEN lastPlan ELSE r, UNCHANGED <<loops, touched, risk>>
             PROVE  RepairInv'
  BY DEF A!WritePlan, A!Move
<1>1. links'[r] = snapshot /\ \A q \in Runs \ {r} : links'[q] = links[q]
  BY DEF RepairInv, RepairTypeOK
<1>2. RepairTypeOK'
  BY <1>1 DEF RepairInv, RepairTypeOK
<1>3. ASSUME NEW q \in Runs, NEW a, NEW rounds, Fits(a, q, rounds, links[q])
      PROVE  Fits(a, q, rounds, links'[q])
  <2>1. links[q] # None => links'[q] = links[q]
    BY <1>1
  <2> QED BY <1>3, <2>1 DEF Fits
<1>4. justRun' \notin Runs
  BY AdviceAssumption
<1> QED BY <1>2, <1>3, <1>4 DEF RepairInv

LEMMA RestKeepsAdvice == RepairInv /\ (A!Edit \/ A!Measure) => RepairInv'
<1> SUFFICES ASSUME RepairInv, justRun' = None, risk' \in Histories, UNCHANGED <<loops, links, lastPlan>>
             PROVE  RepairInv'
  BY DEF RepairInv, RepairTypeOK, A!Edit, A!Measure, A!Move
<1>1. justRun' \notin Runs
  BY AdviceAssumption
<1> QED BY <1>1 DEF RepairInv, RepairTypeOK

LEMMA RepairStep == RepairInv /\ [A!AdviceNext]_repairVars => RepairInv'
<1> SUFFICES ASSUME RepairInv, [A!AdviceNext]_repairVars PROVE RepairInv'
  OBVIOUS
<1>1. CASE A!Create
  BY <1>1, CreateKeepsAdvice DEF A!Create
<1>2. CASE A!Implement
  BY <1>2, CreateKeepsAdvice DEF A!Implement, RepairInv, RepairTypeOK
<1>3. CASE UNCHANGED repairVars
  BY <1>3 DEF repairVars, RepairInv, RepairTypeOK, A!analyzeCoderRun, A!readLinkedPlan,
              A!LinkedSnapshot, A!buildCurrentPatchEvaluation
<1> QED BY <1>1, <1>2, <1>3, RoundKeepsAdvice, PlanKeepsAdvice, RestKeepsAdvice DEF A!AdviceNext

LEMMA RepairInvariance == MCSpec => [](part = "repair" => RepairInv)
<1>1. MCInit => (part = "repair" => RepairInv)
  BY RepairInit DEF MCInit
<1>2. (part = "repair" => RepairInv) /\ [MCNext]_allVars => (part = "repair" => RepairInv)'
  <2> SUFFICES ASSUME part = "repair" => RepairInv, [MCNext]_allVars, part' = "repair" PROVE RepairInv'
    OBVIOUS
  <2>1. part = "repair" /\ [A!AdviceNext]_repairVars
    BY DEF MCNext, allVars
  <2> QED BY <2>1, RepairStep
<1> QED BY <1>1, <1>2, PTL DEF MCSpec

LEMMA AdviceIsEarnedInv == RepairInv => A!AdviceIsEarned
<1> SUFFICES ASSUME RepairInv, NEW r \in Runs, A!Rounds(r) # <<>>
             PROVE  LET a == loops[r].advice
                        now == A!Failures(A!Rounds(r))
                        before == A!Failures(A!Front(A!Rounds(r)))
                    IN /\ a.action = "continue_fix" => now # before /\ a.level # "high"
                       /\ (a.action = "review_gate") <=> (now = <<>>)
                       /\ a.action = "rollback_to_snapshot" =>
                            /\ a.snapshot = r /\ links[r] # None /\ links[r]
                            /\ before # <<>> /\ Len(now) >= A!Min({12, Len(before)})
  BY DEF A!AdviceIsEarned
<1>1. loops[r] # None /\ A!Rounds(r) = loops[r].rounds
  BY DEF A!Rounds
<1>2. Fits(loops[r].advice, r, loops[r].rounds, links[r])
  BY <1>1 DEF RepairInv
<1> QED BY <1>1, <1>2 DEF Fits

LEMMA AdviceAgreesInv == RepairInv => A!AdviceAgrees
<1> SUFFICES ASSUME RepairInv, NEW r \in Runs, justRun = r
             PROVE  LET prompt == A!buildNextPromptText(r) IN
                    /\ prompt.advice = A!analyzeCoderRun(r, loops[r].rounds)
                    /\ [patch |-> prompt.patch, repair |-> prompt.repair] = A!buildPatchAssessment(r)
  BY DEF A!AdviceAgrees
<1> DEFINE patch == A!buildCurrentPatchEvaluation(loops[r])
<1>1. loops[r].advice = A!analyzeCoderRun(r, loops[r].rounds) /\ loops[r].patch = patch
  BY DEF RepairInv
<1> HIDE DEF patch
<1>2. A!Else(loops[r].patch, patch) = patch
  BY <1>1 DEF A!Else
<1>3. /\ A!buildNextPromptText(r).advice = loops[r].advice
      /\ A!buildNextPromptText(r).patch = patch
      /\ A!buildNextPromptText(r).repair = A!buildAutomaticRepairPlan(patch)
  BY <1>2 DEF A!buildNextPromptText, patch
<1>4. A!buildPatchAssessment(r) = [patch |-> patch, repair |-> A!buildAutomaticRepairPlan(patch)]
  BY DEF A!buildPatchAssessment, patch
<1> QED BY <1>1, <1>3, <1>4

LEMMA ReviewIsShownInv == RepairInv => A!ReviewIsShown
<1> SUFFICES ASSUME RepairInv, NEW r \in Runs, A!Rounds(r) # <<>>, loops[r].advice.review,
                    loops[r].advice.action \in {"continue_fix", "rebuild_context", "review_gate"}
             PROVE  "review-gate-full" \in A!ToSet(A!buildNextPromptText(r).commands)
  BY DEF A!ReviewIsShown
<1>1. loops[r] # None /\ loops[r].rounds # <<>>
  BY DEF A!Rounds
<1>2. Fits(loops[r].advice, r, loops[r].rounds, links[r])
  BY <1>1 DEF RepairInv
<1>3. loops[r].advice # None
  BY <1>2, AdviceAssumption DEF Fits
<1>4. PICK h \in Histories : /\ loops[r].advice.review = A!ReviewRequired(h)
                            /\ loops[r].advice.commands = A!buildSuggestedCommands(loops[r].advice.action, h)
  BY <1>2 DEF Fits
<1>5. A!buildNextPromptText(r).commands = A!FirstOf(loops[r].advice.commands, 4)
  BY <1>3 DEF A!buildNextPromptText
<1>6. A!ReviewRequired(h)
  BY <1>4
<1> QED BY <1>4, <1>5, <1>6, FullReviewIsAmong

LEMMA RiskNeverEmboldensInv == RepairInv => A!RiskNeverEmboldens
<1> SUFFICES ASSUME RepairInv, NEW r \in Runs, NEW i \in 1..Len(A!Risks) - 1 PROVE A!RiskNeverEmboldens!(r, i)
  BY DEF A!RiskNeverEmboldens
<1>1. ASSUME loops[r] # None PROVE loops[r].objective.impact \in Nat
  BY <1>1, RunFieldsAre DEF RepairInv, RepairTypeOK
<1> QED BY <1>1, HighRiskIsNotBold, HighRiskIsNotWider

\* What a coder run is told to do next stands on the rounds in its file, whatever rounds there
\* were, the same is said of it by every command until something happens, and every candidate
\* that is tried instead of commands that failed can be run: for every set of runs, of
\* outcomes, of histories and of packages.
THEOREM AdviceIsSoundHolds == MCSpec => []AdviceIsSound
<1>1. (part = "repair" => RepairInv) /\ (part = "commands" => CommandsInv) => AdviceIsSound
  BY AdviceIsEarnedInv, AdviceAgreesInv, ReviewIsShownInv, RiskNeverEmboldensInv, RecoveryCanRunInv
     DEF AdviceIsSound
<1> QED BY <1>1, RepairInvariance, CommandsInvariance, PTL

==============================================================================
