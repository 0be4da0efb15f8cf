--------------------------- MODULE ReleaseReports ---------------------------
(***************************************************************************)
(* The commands that report on a release: the rehearsal in a copy of the   *)
(* project (core/release/rehearsal.js), the evidence that stands on a      *)
(* rehearsal or on a check of its own (core/release/evidence.js), the      *)
(* preflight that runs checks and evidence in turn, and the audit bundle   *)
(* (scripts/preflight-production.js, scripts/release-audit-export.js).     *)
(*                                                                         *)
(* Release has the reads and writes of the check itself and the life of    *)
(* overrides and approvals; a check is one step here.  No two commands     *)
(* overlap, but the project changes between their steps.                   *)
(***************************************************************************)
EXTENDS Integers, FiniteSets, FiniteSetsExt

CONSTANTS
  Policies,
  Candidates,    \* for each policy the names of baselines to look for, the best first
  Sources,       \* the projects to start from
  Grants,        \* what the override may be approved for, [policy, allowed]
  Ages,          \* in days, that the benchmark history may have
  Asks,          \* what commands are run with, [kind, policy, name, override, steps]
  MaxMoves, MaxCommands,   \* bounds
  None

VARIABLES
  source,     \* the project
  override,   \* the one override there is, [policy, allowed, approved, uses]
  rehearsal,  \* release-rehearsals/latest.json, None if missing or torn
  cmd,        \* the command under way
  shown,      \* what the last command said
  still,      \* history: nothing has changed since the command began
  same,       \* history: nor since the rehearsal in latest.json
  lets,       \* history: how often a command has said that the override lets a release out
  moves, commands

reportVars == <<source, override, rehearsal, cmd, shown, still, same, lets, moves, commands>>

------------------------------------------------------------------------------
(* The release check. *)

Days == [internal   |-> [fresh |-> 21, aging |-> 35, stale |-> 49],
         standard   |-> [fresh |-> 14, aging |-> 21, stale |-> 35],
         production |-> [fresh |-> 7, aging |-> 14, stale |-> 21]]
MaxUses == [internal |-> 5, standard |-> 2, production |-> 1]
Disallowed == [internal   |-> {"snapshot"},
               standard   |-> {"snapshot", "freshness"},
               production |-> {"snapshot", "freshness", "approval"}]

Freshness(policy, age) ==
  CASE age <= Days[policy].fresh -> "fresh"
    [] age > Days[policy].fresh /\ age <= Days[policy].aging -> "aging"
    [] age > Days[policy].aging /\ age <= Days[policy].stale -> "stale"
    [] OTHER -> "expired"

\* assessSnapshotReadiness.
RollbackReady(project) == project.git /\ ~project.dirty /\ project.snapshot = "current"

\* Of the checks, what depends on nothing else here is one.
Results(project, policy, name) ==
  LET anchored == policy = "production"
      baseline == project.baselines[name]
      fresh == Freshness(policy, project.age)
  IN [checks     |-> project.checks,
      freshness  |-> CASE fresh = "fresh" -> "pass"
                       [] fresh = "expired" -> "fail"
                       [] OTHER -> "warn",
      comparison |-> IF baseline = "missing" THEN IF anchored THEN "warn" ELSE "skip"
                     ELSE IF project.worse THEN "warn" ELSE "pass",
      approval   |-> IF baseline = "approved" THEN "pass" ELSE IF anchored THEN "warn" ELSE "skip",
      snapshot   |-> IF RollbackReady(project) THEN "pass" ELSE "warn"]

computeDecision(results, strict) ==
  LET found == {results[c] : c \in DOMAIN results} IN
  IF "fail" \in found \/ ("warn" \in found /\ strict) THEN "blocked"
  ELSE IF "warn" \in found THEN "caution" ELSE "ready"

\* The first baseline there is; the best name when there is none.
Selected(project, policy, name) ==
  LET names == IF name = None THEN Candidates[policy] ELSE <<name>>
      there == {i \in DOMAIN names : project.baselines[names[i]] # "missing"}
  IN names[IF there = {} THEN 1 ELSE Min(there)]

Waives(open, policy) ==
  /\ override.approved /\ override.policy = policy /\ override.uses < MaxUses[policy]
  /\ open # {} /\ open \subseteq override.allowed \ Disallowed[policy]

runReleaseCheck(project, policy, strict, name, useOverride) ==
  LET selected == Selected(project, policy, name)
      results == Results(project, policy, selected)
      open == {c \in DOMAIN results : results[c] \in {"warn", "fail"}}
      decision == computeDecision(results, strict \/ policy = "production")
  IN [policy |-> policy, name |-> selected,
      decision |-> IF useOverride /\ Waives(open, policy) THEN "ready_with_override" ELSE decision,
      approved |-> project.baselines[selected] = "approved",
      fresh |-> Freshness(policy, project.age) \in {"fresh", "aging"},
      rollback |-> RollbackReady(project)]

\* recordOverrideUsage.
Recorded(report) ==
  IF report.decision = "ready_with_override" THEN [override EXCEPT !.uses = @ + 1] ELSE override

------------------------------------------------------------------------------
(* Commands: what they do, in order, and what they know so far. *)

Idle == [todo |-> {}]

\* The order in which whatever there is to do is done.
Place == [rehearse |-> 1, latest |-> 2, scripts |-> 3, check |-> 4, evidence |-> 5, summary |-> 6,
          bundle |-> 7, end |-> 8]
Up(name) == name \in cmd.todo /\ \A step \in cmd.todo : Place[name] <= Place[step]

Init ==
  /\ source \in Sources /\ rehearsal = None
  /\ override = [policy |-> None, allowed |-> {}, approved |-> FALSE, uses |-> 0]
  /\ cmd = Idle /\ shown = None
  /\ still = TRUE /\ same = FALSE /\ lets = 0 /\ moves = 0 /\ commands = 0

\* The preflight's steps; the others of it are scripts of the project.
Steps == {"scripts", "check", "evidence"}

Todo(ask) ==
  CASE ask.kind = "rehearsal" -> {"rehearse", "latest"}
    [] ask.kind = "check"     -> {"check"}
    [] ask.kind = "evidence"  -> {"evidence", "summary"}
    [] ask.kind = "audit"     -> {"check", "evidence", "summary", "bundle"}
    [] ask.kind = "preflight" ->
         ask.steps \cup (IF "evidence" \in ask.steps THEN {"summary"} ELSE {})

Begin == \E ask \in Asks :
  /\ cmd = Idle /\ commands < MaxCommands /\ commands' = commands + 1
  /\ cmd' = [todo |-> Todo(ask) \cup {"end"}, ask |-> ask, passed |-> TRUE, check |-> None,
             report |-> None, reused |-> FALSE, conclusion |-> None, approval |-> None]
  /\ shown' = None /\ still' = TRUE
  /\ UNCHANGED <<source, override, rehearsal, same, lets, moves>>

\* What is recorded under .opencode is an untracked change where git does not ignore it.
Written(project) == [project EXCEPT !.dirty = @ \/ (project.git /\ ~project.ignored)]

\* A step takes the command on, with what it learned and whether it wrote that down.
Step(name, known, writes) ==
  /\ Up(name)
  /\ cmd' = [known EXCEPT !.todo = @ \ {name}]
  /\ source' = IF writes THEN Written(source) ELSE source
  /\ UNCHANGED <<shown, still, moves, commands>>

\* Rehearsals and evidence look for one baseline only.
AskedName == IF cmd.ask.name = None THEN "release" ELSE cmd.ask.name

\* Everything but .git and node_modules is copied, committed, and a snapshot taken, which
\* is a file of the copy.  What a review makes of a dirty tree it may not of a clean one.
Sandbox(project, found) ==
  [project EXCEPT !.git = TRUE, !.dirty = ~project.ignored, !.snapshot = "current",
                  !.checks = IF project.depends THEN "fail" ELSE found]

Rehearse == \E found \in (IF source.dirty THEN {"pass", "warn", "fail"} ELSE {source.checks}) :
  LET report == runReleaseCheck(Sandbox(source, found), cmd.ask.policy, TRUE, AskedName, FALSE)
  IN /\ Step("rehearse", [cmd EXCEPT !.check = report], FALSE)
     /\ UNCHANGED <<override, rehearsal, same, lets>>

WriteLatest ==
  /\ Step("latest", cmd, TRUE)
  /\ rehearsal' = cmd.check /\ same' = still
  /\ UNCHANGED <<override, lets>>

\* A script of the project passes or fails.
RunScripts == \E passes \in BOOLEAN :
  /\ Step("scripts", [cmd EXCEPT !.passed = @ /\ passes], FALSE)
  /\ UNCHANGED <<override, rehearsal, same, lets>>

\* The check takes no name on its command line.
Check ==
  LET name == IF cmd.ask.kind = "audit" THEN cmd.ask.name ELSE None
      report == runReleaseCheck(source, cmd.ask.policy, FALSE, name, cmd.ask.override)
  IN /\ Step("check", [cmd EXCEPT !.check = report,
                                  !.passed = @ /\ report.decision # "blocked"],
             report.decision = "ready_with_override")
     /\ override' = Recorded(report)
     /\ UNCHANGED <<rehearsal, same, lets>>

\* The evidence of an audit is given the name that its check selected.
generateReleaseEvidence ==
  LET name == IF cmd.ask.kind = "audit" THEN cmd.check.name ELSE AskedName
      reused == rehearsal # None /\ rehearsal.policy = cmd.ask.policy
      report == IF reused THEN rehearsal
                ELSE runReleaseCheck(source, cmd.ask.policy, FALSE, name, cmd.ask.override)
  IN /\ Step("evidence", [cmd EXCEPT !.report = report, !.reused = reused],
             ~reused /\ report.decision = "ready_with_override")
     /\ override' = IF reused THEN override ELSE Recorded(report)
     /\ UNCHANGED <<rehearsal, same, lets>>

\* The approval is read anew; the rest is the report's.
buildEvidenceSummary(report) ==
  [report EXCEPT !.approved = source.baselines[report.name] = "approved"]

Summarize ==
  /\ Step("summary", [cmd EXCEPT !.conclusion = buildEvidenceSummary(cmd.report)], FALSE)
  /\ UNCHANGED <<override, rehearsal, same, lets>>

\* What else the bundle has is read last.
buildBundle ==
  /\ Step("bundle", [cmd EXCEPT !.approval = source.baselines[cmd.check.name] = "approved"], FALSE)
  /\ UNCHANGED <<override, rehearsal, same, lets>>

\* The conclusion of the evidence, or the decision of the check, and nothing more.
buildTopline ==
  CASE cmd.conclusion # None -> cmd.conclusion
    [] cmd.conclusion = None /\ cmd.check # None ->
         [cmd.check EXCEPT !.approved = FALSE, !.fresh = FALSE, !.rollback = FALSE]
    [] OTHER -> [decision |-> "unknown"]

\* A command reports; evidence --json never fails, however the release stands.
End ==
  LET said == IF cmd.ask.kind = "preflight" THEN buildTopline
              ELSE IF cmd.conclusion # None THEN cmd.conclusion ELSE cmd.check
  IN /\ Up("end") /\ cmd' = Idle
     /\ shown' = [kind |-> cmd.ask.kind, policy |-> cmd.ask.policy,
                  ready |-> cmd.passed, check |-> cmd.check, said |-> said,
                  summed |-> cmd.conclusion # None, reused |-> cmd.reused,
                  approval |-> cmd.approval,
                  current |-> still /\ (cmd.reused => same)]
     /\ lets' = lets + Cardinality({x \in {"check", "report"} :
                         cmd[x] # None /\ (x = "report" => ~cmd.reused)
                           /\ cmd[x].decision = "ready_with_override"})
     /\ UNCHANGED <<source, override, rehearsal, still, same, moves, commands>>

\* A step of a preflight is timed out: it failed and said nothing.
TimeOut == \E step \in Steps :
  /\ Up(step) /\ cmd.ask.kind = "preflight"
  /\ cmd' = [cmd EXCEPT !.passed = FALSE,
                        !.todo = @ \ {step, IF step = "evidence" THEN "summary" ELSE step}]
  /\ UNCHANGED <<source, override, rehearsal, shown, still, same, lets, moves, commands>>

\* Killed inside the write of latest.json a rehearsal leaves it torn.
Kill ==
  /\ cmd # Idle /\ cmd' = Idle
  /\ rehearsal' \in (IF Up("latest") THEN {rehearsal, None} ELSE {rehearsal})
  /\ UNCHANGED <<source, override, shown, still, same, lets, moves, commands>>

------------------------------------------------------------------------------
(* The project meanwhile. *)

Move(project, granted) ==
  /\ moves < MaxMoves /\ moves' = moves + 1
  /\ <<project, granted>> # <<source, override>>
  /\ source' = project /\ override' = granted
  /\ shown' = None /\ still' = FALSE /\ same' = FALSE
  /\ UNCHANGED <<rehearsal, cmd, lets, commands>>

Edit == \E found \in {"pass", "warn", "fail"} :
  Move([source EXCEPT !.dirty = source.git, !.checks = found], override)

Commit ==
  /\ source.git /\ source.dirty
  /\ Move([source EXCEPT !.dirty = FALSE,
                         !.snapshot = IF @ = "current" THEN "old" ELSE @], override)

Snapshot ==
  /\ source.git /\ ~source.dirty
  /\ Move(Written([source EXCEPT !.snapshot = "current"]), override)

Measure == \E age \in Ages, worse \in BOOLEAN :
  Move(Written([source EXCEPT !.age = age, !.worse = worse]), override)

\* A baseline is set, approved, revoked or removed.
Anchor == \E name \in DOMAIN source.baselines, status \in {"missing", "unapproved", "approved"} :
  Move(Written([source EXCEPT !.baselines[name] = status]), override)

Grant == \E grant \in Grants, approved \in BOOLEAN :
  Move(Written(source), [policy |-> grant.policy, allowed |-> grant.allowed, approved |-> approved,
                         uses |-> IF override.policy = None THEN 0 ELSE override.uses])

ReportsNext ==
  \/ Begin \/ Rehearse \/ WriteLatest \/ RunScripts \/ Check \/ generateReleaseEvidence
  \/ Summarize \/ buildBundle \/ TimeOut \/ End \/ Kill
  \/ Edit \/ Commit \/ Snapshot \/ Measure \/ Anchor \/ Grant

------------------------------------------------------------------------------
(* Properties. *)

\* A production release that evidence, a preflight or an audit shows as ready, while nothing
\* has changed since the check behind it was made, is shown with an approved baseline, a
\* benchmark that is fresh enough and a rollback at hand, although the approval is read
\* apart from the check.
ReadyIsAnchored ==
  /\ shown # None /\ shown.current /\ shown.summed
  /\ shown.policy = "production" /\ shown.said.decision = "ready"
  => shown.said.approved /\ shown.said.fresh /\ shown.said.rollback

\* A preflight or an audit whose own check finds the release ready concludes the same from
\* its evidence: also from a rehearsal that is still current, if the rehearsal was of the
\* same baseline and the project's scripts need nothing that the copy lacks.
ConclusionsAgree ==
  /\ shown # None /\ shown.current /\ shown.summed /\ shown.check # None
  /\ shown.check.decision = "ready" /\ shown.check.name = shown.said.name
  /\ shown.reused => ~source.depends
  => /\ shown.said.decision = "ready"
     /\ shown.kind = "audit" => shown.approval = shown.said.approved

\* Whatever reports on a release the override lets out has taken a use of it, or a killed
\* command has, and no more releases were let out than the policies allow uses.
UsesAreTaken == lets <= override.uses /\ override.uses <= Max({MaxUses[p] : p \in Policies})
==============================================================================
