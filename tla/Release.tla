------------------------------ MODULE Release ------------------------------
(***************************************************************************)
(* Release governance: the check that decides whether a release may go out *)
(* (core/release/check.js), the overrides that let one out in spite of     *)
(* some of its checks (core/release/policy-overrides.js), and the approved *)
(* benchmark baseline that a production release is compared with           *)
(* (core/benchmark/baselines.js, core/benchmark/baseline-approvals.js).    *)
(*                                                                         *)
(* An override, a baseline and an approval are a file each, read and later *)
(* rewritten whole by the commands, which are processes that share nothing *)
(* else and may be killed between two of their reads and writes.           *)
(***************************************************************************)
EXTENDS Integers, Sequences, FiniteSets, SequencesExt

CONSTANTS
  Procs, Overrides, BenchRuns,
  Names,        \* names of baselines
  Policies,     \* and, for each, what policy.js sets:
  Candidates,   \*   the baselines to compare with, the best first
  Anchored,     \*   the policies that require an approved baseline
  BlockOnWarn,  \*   the policies for which a warning blocks
  Disallowed,   \*   the checks no override may cover
  MaxUses,      \*   max_usage_count
  MaxDuration,  \*   max_duration_hours
  Others,       \* the checks that depend on no file modelled here
  Findings,     \* what they may find
  Coverages,    \* the sets of checks overrides are asked for
  MaxTime, MaxCommands, MaxKills   \* bounds

ASSUME ReleaseAssumption ==
  /\ Anchored \subseteq Policies /\ BlockOnWarn \subseteq Policies
  /\ Candidates \in [Policies -> Seq(Names)]
  /\ MaxUses \in [Policies -> Nat \ {0}] /\ MaxDuration \in [Policies -> Nat \ {0}]
  /\ Findings \subseteq [Others -> {"pass", "warn", "fail"}]
  /\ {} \notin Coverages
  /\ Disallowed \in [Policies -> SUBSET (Others \cup {"comparison", "approval"})]
  /\ \A policy \in Anchored : "approval" \in Disallowed[policy]
  /\ "none" \notin Overrides

VARIABLES
  overrides, baselines, approvals,  \* the files
  log,       \* the release.override events
  now,
  pc, job,   \* where a process is, and what it works on
  releases,  \* the releases reported as ready or ready_with_override
  agreed,    \* history: the terms of overrides, and the runs, ever approved
  alone, begun, kills   \* history: no two commands overlapped; commands begun, killed

files == <<overrides, baselines, approvals>>
history == <<releases, agreed>>
counts == <<alone, begun, kills>>
vars == <<files, log, now, pc, job, history, counts>>

NoFile == [status |-> "none"]
NoJob == [command |-> "none"]

\* Earlier releases may have left approved baselines.
Init ==
  /\ overrides = [o \in Overrides |-> NoFile]
  /\ \E given \in SUBSET Names, r \in BenchRuns :
       /\ baselines = [n \in Names |->
            IF n \in given THEN [status |-> "set", run |-> r] ELSE NoFile]
       /\ approvals = [n \in Names |->
            IF n \in given THEN [status |-> "approved", run |-> r] ELSE NoFile]
       /\ agreed = {[name |-> n, run |-> r] : n \in given}
  /\ log = <<>> /\ now = 0
  /\ pc = [p \in Procs |-> "idle"]
  /\ job = [p \in Procs |-> NoJob]
  /\ releases = <<>>
  /\ alone = TRUE /\ begun = 0 /\ kills = 0

Exists(f) == f.status # "none"

At(p, here, next) == pc[p] = here /\ pc' = [pc EXCEPT ![p] = next]

\* A command that begins at an idle process.
Begin(p, next, work) ==
  /\ At(p, "idle", next) /\ begun < MaxCommands
  /\ job' = [job EXCEPT ![p] = work]
  /\ begun' = begun + 1
  /\ alone' = (alone /\ \A q \in Procs : pc[q] = "idle")
  /\ UNCHANGED <<now, kills>>

Exit(p) ==
  /\ pc' = [pc EXCEPT ![p] = "idle"]
  /\ job' = [job EXCEPT ![p] = NoJob]

------------------------------------------------------------------------------
(* Overrides: request, approve, revoke.                                    *)

\* validateOverrideRequest; a request with the id of an override replaces it.
\* The serial, which only the properties read, tells the two apart.
Request(p) == \E o \in Overrides, policy \in Policies, allowed \in Coverages :
  \E duration \in 1..MaxDuration[policy] :
    /\ Begin(p, "log", [command |-> "requested", override |-> o])
    /\ overrides' = [overrides EXCEPT ![o] =
         [status |-> "pending", policy |-> policy, allowed |-> allowed,
          created |-> now, expires |-> now + duration, uses |-> 0,
          serial |-> begun]]
    /\ UNCHANGED <<baselines, approvals, log, history>>

LoadOverride(p) == \E o \in Overrides, verdict \in {"approved", "revoked"} :
  /\ Exists(overrides[o])
  /\ Begin(p, "decide", [command |-> verdict, override |-> o, held |-> overrides[o]])
  /\ UNCHANGED <<files, log, history>>

Terms(rec) == [policy |-> rec.policy, allowed |-> rec.allowed, created |-> rec.created,
               expires |-> rec.expires, serial |-> rec.serial]

\* approvePolicyOverride and revokePolicyOverride ask nothing of the status.
Decide(p) ==
  /\ At(p, "decide", "log")
  /\ LET held == [job[p].held EXCEPT !.status = job[p].command] IN
       /\ overrides' = [overrides EXCEPT ![job[p].override] = held]
       /\ agreed' = IF job[p].command = "approved" THEN agreed \cup {Terms(held)} ELSE agreed
  /\ UNCHANGED <<baselines, approvals, log, now, job, releases, counts>>

Log(p) ==
  /\ pc[p] = "log"
  /\ log' = Append(log, [kind |-> job[p].command, override |-> job[p].override])
  /\ IF job[p].command = "used" THEN At(p, "log", "report") /\ UNCHANGED job ELSE Exit(p)
  /\ UNCHANGED <<files, now, history, counts>>

------------------------------------------------------------------------------
(* Baselines and their approval.                                           *)

\* writeBenchmarkBaseline of the run asked for: one write.
SetBaseline(p) == \E n \in Names, r \in BenchRuns :
  /\ Begin(p, "idle", NoJob)
  /\ baselines' = [baselines EXCEPT ![n] = [status |-> "set", run |-> r]]
  /\ UNCHANGED <<overrides, approvals, log, history>>

LoadBaseline(p) == \E n \in Names :
  /\ Exists(baselines[n])
  /\ Begin(p, "approve", [command |-> "approve", name |-> n, run |-> baselines[n].run])
  /\ UNCHANGED <<files, log, history>>

ApproveBaseline(p) ==
  /\ pc[p] = "approve" /\ Exit(p)
  /\ approvals' = [approvals EXCEPT ![job[p].name] = [status |-> "approved", run |-> job[p].run]]
  /\ agreed' = agreed \cup {[name |-> job[p].name, run |-> job[p].run]}
  /\ UNCHANGED <<overrides, baselines, log, now, releases, counts>>

\* What the revocation keeps of the files it read is for the record only.
RevokeApproval(p) == \E n \in Names :
  /\ Begin(p, "idle", NoJob)
  /\ approvals' = [approvals EXCEPT ![n] = [status |-> "revoked"]]
  /\ UNCHANGED <<overrides, baselines, log, history>>

------------------------------------------------------------------------------
(* The release check.                                                      *)

\* The first baseline there is of the policy's candidates.  Without one the
\* comparison and the approval are skipped or, when required, warned of.
Check(p) == \E policy \in Policies :
  LET names  == Candidates[policy]
      there  == {i \in 1..Len(names) : Exists(baselines[names[i]])}
      absent == IF policy \in Anchored THEN "warn" ELSE "skip"
  IN  /\ \/ /\ there = {}
            /\ Begin(p, "resolve", [policy |-> policy, compared |-> "none",
                                    comparison |-> absent, approval |-> absent])
         \/ \E i \in there :
              /\ \A j \in there : i <= j
              /\ Begin(p, "compare", [policy |-> policy, name |-> names[i]])
      /\ UNCHANGED <<files, log, history>>

\* compareBaselineToRun: whether the latest run is worse than the baseline's.
Compare(p) ==
  /\ At(p, "compare", "approval")
  /\ \E comparison \in {"pass", "warn"} :
       job' = [job EXCEPT ![p] =
         [policy |-> @.policy, name |-> @.name,
          compared |-> baselines[@.name].run, comparison |-> comparison]]
  /\ UNCHANGED <<files, log, now, history, counts>>

\* resolveApprovalStatus reads the approval, then the baseline once more.
ReadApproval(p) ==
  /\ At(p, "approval", "match")
  /\ job' = [job EXCEPT ![p] =
       [policy |-> @.policy, name |-> @.name, compared |-> @.compared,
        comparison |-> @.comparison, held |-> approvals[@.name]]]
  /\ UNCHANGED <<files, log, now, history, counts>>

\* Mutant: an approval stands for whatever the baseline has become.
StandingApproval(approval, baseline) == approval.status = "approved"

resolveApprovalStatus(approval, baseline) ==
  approval.status = "approved" /\ approval.run = baseline.run

MatchApproval(p) ==
  /\ At(p, "match", "resolve")
  /\ job' = [job EXCEPT ![p] =
       [policy |-> @.policy, compared |-> @.compared, comparison |-> @.comparison,
        approval |-> IF resolveApprovalStatus(@.held, baselines[@.name]) THEN "pass"
                     ELSE IF @.policy \in Anchored THEN "warn" ELSE "skip"]]
  /\ UNCHANGED <<files, log, now, history, counts>>

Results(p, found) ==
  [c \in Others \cup {"comparison", "approval"} |->
     CASE c = "comparison" -> job[p].comparison
       [] c = "approval" -> job[p].approval
       [] OTHER -> found[c]]

NonPass(results) == {c \in DOMAIN results : results[c] \in {"warn", "fail"}}

computeDecision(results, strict) ==
  IF NonPass(results) = {} THEN "ready"
  ELSE IF strict \/ \E c \in NonPass(results) : results[c] = "fail" THEN "blocked"
  ELSE "caution"

resolvePolicyOverride(rec, policy, at) ==
  /\ rec.status = "approved" /\ rec.policy = policy
  /\ at <= rec.expires
  /\ rec.uses < MaxUses[rec.policy]

\* Mutant: it is enough to cover one of them.
MatchSome(rec, results) ==
  /\ NonPass(results) \cap rec.allowed # {}
  /\ NonPass(results) \cap Disallowed[rec.policy] = {}

matchOverrideToChecks(rec, results) ==
  /\ NonPass(results) # {}
  /\ NonPass(results) \subseteq rec.allowed
  /\ NonPass(results) \cap Disallowed[rec.policy] = {}

Released(p, results, override, terms) ==
  [policy |-> job[p].policy, results |-> results, compared |-> job[p].compared,
   override |-> override, terms |-> terms, at |-> now]

\* Without --now the expiry is compared with approved_at, which `approve' takes
\* from created_at.  A check that applies no override has nothing left to write.
Resolve(p) ==
 \E found \in Findings, strict, timed \in BOOLEAN, o \in Overrides, asked \in BOOLEAN :
  LET results  == Results(p, found)
      decision == computeDecision(results, strict \/ job[p].policy \in BlockOnWarn)
      rec      == overrides[o]
      applied  == /\ asked /\ decision # "ready"
                  /\ resolvePolicyOverride(rec, job[p].policy,
                                           IF timed THEN now ELSE rec.created)
                  /\ matchOverrideToChecks(rec, results)
  IN  /\ pc[p] = "resolve"
      /\ IF applied
         THEN /\ At(p, "resolve", "use")
              /\ job' = [job EXCEPT ![p] = [command |-> "used", override |-> o,
                   report |-> Released(p, results, o, Terms(rec))]]
              /\ UNCHANGED releases
         ELSE /\ Exit(p)
              /\ releases' = IF decision = "ready"
                             THEN Append(releases, Released(p, results, "none", NoFile))
                             ELSE releases
      /\ UNCHANGED <<files, log, now, agreed, counts>>

\* recordOverrideUsage reads the override again and writes it back whole.
ReadUse(p) ==
  /\ At(p, "use", "record")
  /\ job' = [job EXCEPT ![p] = [command |-> "used", override |-> @.override,
                                report |-> @.report, held |-> overrides[@.override]]]
  /\ UNCHANGED <<files, log, now, history, counts>>

\* Mutant: a use is not counted.
RecordNothing(p) ==
  /\ At(p, "record", "log")
  /\ overrides' = [overrides EXCEPT ![job[p].override] = job[p].held]
  /\ UNCHANGED <<baselines, approvals, log, now, job, history, counts>>

RecordUse(p) ==
  /\ At(p, "record", "log")
  /\ overrides' = [overrides EXCEPT ![job[p].override] =
                     [job[p].held EXCEPT !.uses = @ + 1]]
  /\ UNCHANGED <<baselines, approvals, log, now, job, history, counts>>

Report(p) ==
  /\ pc[p] = "report" /\ Exit(p)
  /\ releases' = Append(releases, job[p].report)
  /\ UNCHANGED <<files, log, now, agreed, counts>>

------------------------------------------------------------------------------
Tick ==
  /\ now < MaxTime /\ now' = now + 1
  /\ UNCHANGED <<files, log, pc, job, history, counts>>

Kill(p) ==
  /\ kills < MaxKills /\ pc[p] # "idle"
  /\ Exit(p)
  /\ kills' = kills + 1
  /\ UNCHANGED <<files, log, now, history, alone, begun>>

OverrideStep(p) == Request(p) \/ LoadOverride(p) \/ Decide(p) \/ Log(p)

BaselineStep(p) ==
  SetBaseline(p) \/ LoadBaseline(p) \/ ApproveBaseline(p) \/ RevokeApproval(p)

CheckStep(p) ==
  \/ Check(p) \/ Compare(p) \/ ReadApproval(p) \/ MatchApproval(p) \/ Resolve(p)
  \/ ReadUse(p) \/ RecordUse(p) \/ Report(p)

Next ==
  \/ Tick
  \/ \E p \in Procs : OverrideStep(p) \/ BaselineStep(p) \/ CheckStep(p) \/ Kill(p)

Spec == Init /\ [][Next]_vars

------------------------------------------------------------------------------
ByOverride == {i \in DOMAIN releases : releases[i].override # "none"}

\* A production release is compared with a baseline that someone approved, with
\* the very run approved unless commands overlapped, and no override stands in
\* for that approval: docs/release-policy.md, "A production release is not
\* considered ready unless all three are in acceptable state".
ProductionAnchored ==
  \A i \in DOMAIN releases : releases[i].policy \in Anchored =>
    /\ releases[i].results["approval"] = "pass"
    /\ \E term \in agreed : "name" \in DOMAIN term /\
         (alone => releases[i].compared = term.run)

\* A release by override was let out on terms someone approved; they cover every
\* check that did not pass, none of them one that the policy of the release keeps
\* from overrides, and the use is in the event log, for the auditor.
OverridesAreAgreed ==
  \A i \in ByOverride :
    LET terms == releases[i].terms
        open  == NonPass(releases[i].results)
    IN  /\ terms \in agreed
        /\ open # {} /\ open \subseteq terms.allowed \ Disallowed[releases[i].policy]
        /\ [kind |-> "used", override |-> releases[i].override] \in ToSet(log)

\* Where the events of an override since its last request are, the uses among them
\* and the verdicts; and a file that is what replaying them gives.
SinceRequest(events, o) ==
  {i \in DOMAIN events :
     /\ events[i].override = o
     /\ \A j \in DOMAIN events : events[j] = [kind |-> "requested", override |-> o] => j < i}

UsesIn(events, o) == {i \in SinceRequest(events, o) : events[i].kind = "used"}
VerdictsIn(events, o) == SinceRequest(events, o) \ UsesIn(events, o)

Replays(events, o, rec) ==
  /\ rec.uses = Cardinality(UsesIn(events, o))
  /\ \/ VerdictsIn(events, o) = {} /\ rec.status = "pending"
     \/ \E last \in VerdictsIn(events, o) :
          /\ \A i \in VerdictsIn(events, o) : i <= last
          /\ rec.status = events[last].kind

\* Unless commands overlapped an override lets out no more releases than it has
\* uses, however many commands were killed; and when none was, the file of an
\* idle system is what replaying the events of the override gives.
UsesAreCounted ==
  alone =>
    \A o \in Overrides : Exists(overrides[o]) =>
      LET rec == overrides[o]
          out == {i \in ByOverride : releases[i].override = o /\ releases[i].terms = Terms(rec)}
      IN  /\ Cardinality(out) <= rec.uses /\ rec.uses <= MaxUses[rec.policy]
          /\ (kills = 0 /\ \A p \in Procs : pc[p] = "idle") => Replays(log, o, rec)

\* A release by override happens before the override expires: docs/
\* release-policy.md:51 and :58, "a valid approved override", "Treat overrides as
\* short-lived exceptions".  The code violates it.
OverridesExpire ==
  \A i \in ByOverride : releases[i].at <= releases[i].terms.expires
=============================================================================
