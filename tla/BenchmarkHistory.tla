-------------------------- MODULE BenchmarkHistory --------------------------
(***************************************************************************)
(* The benchmark history of a project (core/benchmark, the run files of    *)
(* control-plane/observability) and what is read off it: the readiness of  *)
(* a release scope, the comparison with a baseline, and the archive that   *)
(* moves old runs out of the directory the others read.                    *)
(*                                                                         *)
(* Runs are numbered in the order they are written, which is the order of  *)
(* their times of modification and of completion.  Time passes in weeks:   *)
(* every threshold of a policy is a whole number of them.  Rates are in    *)
(* hundredths of a per cent, as the code rounds them.                      *)
(***************************************************************************)
EXTENDS Integers, FiniteSets, FiniteSetsExt

CONSTANTS
  Cases,     \* cases of the suites
  Covers,    \* the dimensions of the release scope that a case is planned in
  Suites,    \* what a run of a suite does: case -> None, or what befell it: [error, failed,
             \* verdict, met], failed and verdict being those of its plan and its review
  Policies,  \* [runs, confidence, coverage, fresh, aging, stale] of release/policy.js
  Window,    \* how many runs a report looks at
  MaxRuns, MaxWeek,  \* bounds on the runs and on the weeks that pass
  None, Torn

VARIABLES
  week,
  files,     \* observability/benchmarks: number -> None, Torn or [week, outcomes,
             \* results]; a run's file has its results, outcomes is history
  archived,  \* benchmarks-archive
  baseline,  \* the saved baseline: None or [id, run]
  approval,  \* the run whose approval as the baseline stands, or None
  sweep      \* an archive --apply under way: None or [policy, left, disturbed]

historyVars == <<week, files, archived, baseline, approval, sweep>>

RunIds == 1..MaxRuns
Dimensions == {"runtime_framework", "task_family", "skill"}

\* With and without a skill; its task family is a named one.
Scopes == {Dimensions \ {"skill"}, Dimensions}

HistoryInit ==
  /\ week = 0 /\ files = [i \in RunIds |-> None] /\ archived = {}
  /\ baseline = None /\ approval = None /\ sweep = None

------------------------------------------------------------------------------
(* A run of a suite. *)

\* A case that fails before its plan has no skill and no family, and one that fails
\* before its detection no runtime; either has no failed check and no verdict.
Planned(o) == o.error \notin {"detection", "plan"}

evaluateCase(c, o) ==
  LET failed == IF Planned(o) THEN o.failed ELSE 0
      verdict == IF Planned(o) /\ o.error # "review" THEN o.verdict ELSE None
  IN [dims |-> IF Planned(o) THEN Covers[c]
               ELSE IF o.error = "plan" THEN Covers[c] \cap {"runtime_framework"} ELSE {},
      failed |-> failed,
      success |-> failed = 0 /\ verdict # "BLOCK",
      passed |-> o.error = None /\ o.met]

\* What a suite does before it writes its run is its own; a kill tears the file.
RunSuite == \E outcomes \in Suites :
  LET id == Cardinality({i \in RunIds : files[i] # None} \cup archived) + 1
      run == [week |-> week,
              outcomes |-> outcomes,
              results |-> [c \in Cases |-> IF outcomes[c] = None THEN None
                                           ELSE evaluateCase(c, outcomes[c])]]
  IN /\ id \in RunIds
     /\ \E written \in {run, Torn} : files' = [files EXCEPT ![id] = written]
     /\ UNCHANGED <<week, archived, baseline, approval, sweep>>

Age == /\ week < MaxWeek /\ week' = week + 1
       /\ UNCHANGED <<files, archived, baseline, approval, sweep>>

------------------------------------------------------------------------------
(* Baselines and their approval. *)

Readable == {i \in RunIds : files[i] \notin {None, Torn}}
readBenchmarkRuns(limit) == {i \in Readable : Cardinality({j \in Readable : j > i}) < limit}

Disturb == sweep' = IF sweep = None THEN None ELSE [sweep EXCEPT !.disturbed = TRUE]

\* The latest run or a run by its name.
SaveBaseline == \E i \in Readable :
  /\ baseline' = [id |-> i, run |-> files[i]]
  /\ Disturb /\ UNCHANGED <<week, files, archived, approval>>

Approve ==
  /\ baseline # None /\ approval' = baseline.id
  /\ Disturb /\ UNCHANGED <<week, files, archived, baseline>>

\* A revocation is written with the baseline's run; it stands for nothing.
Revoke ==
  /\ approval # None /\ approval' = None
  /\ Disturb /\ UNCHANGED <<week, files, archived, baseline>>

------------------------------------------------------------------------------
(* archive --apply reads the history, and moves the candidates one by one.  *)

classifyAge(policy, since) ==
  LET age == week - since
  IN IF age <= policy.fresh THEN "fresh"
     ELSE IF age <= policy.aging THEN "aging"
     ELSE IF age <= policy.stale THEN "stale" ELSE "expired"

collectProtectedRunIds ==
  (IF baseline = None THEN {} ELSE {baseline.id}) \cup ({approval} \ {None})

\* Mutant: the newest runs are not kept.
MutNoWindow(policy, i) ==
  i \notin collectProtectedRunIds /\ classifyAge(policy, files[i].week) \in {"stale", "expired"}

Eligible(policy, i) ==
  /\ i \notin collectProtectedRunIds
  /\ i \notin readBenchmarkRuns(policy.runs)
  /\ classifyAge(policy, files[i].week) \in {"stale", "expired"}

assessBenchmarkRetention == \E policy \in Policies :
  /\ sweep = None
  /\ sweep' = [policy |-> policy, left |-> {i \in Readable : Eligible(policy, i)},
               disturbed |-> FALSE]
  /\ UNCHANGED <<week, files, archived, baseline, approval>>

MoveNext ==
  /\ sweep # None /\ sweep.left # {}
  /\ LET i == Max(sweep.left)
     IN /\ sweep' = [sweep EXCEPT !.left = @ \ {i}]
        /\ files' = [files EXCEPT ![i] = None] /\ archived' = archived \cup {i}
  /\ UNCHANGED <<week, baseline, approval>>

\* The command has moved all it found, or is killed.
EndSweep == sweep # None /\ sweep' = None /\ UNCHANGED <<week, files, archived, baseline, approval>>

HistoryNext == \/ RunSuite \/ Age \/ SaveBaseline \/ Approve \/ Revoke
               \/ assessBenchmarkRetention \/ MoveNext \/ EndSweep

------------------------------------------------------------------------------
(* benchmark-feedback report: what a history says of a release scope.       *)

Mean(sum, n) == (2 * sum + n) \div (2 * n)

CasesIn(i, d) == {c \in Cases : files[i].results[c] # None /\ d \in files[i].results[c].dims}

\* The point of a run in a bucket's series.
Point(i, d) ==
  LET cases == CasesIn(i, d)
      results == files[i].results
      n == Cardinality(cases)
  IN [pass |-> Mean(10000 * Cardinality({c \in cases : results[c].passed}), n),
      success |-> Mean(10000 * Cardinality({c \in cases : results[c].success}), n),
      failed |-> Mean(100 * MapThenSumSet(LAMBDA c : results[c].failed, cases), n)]

Points(d) == {i \in readBenchmarkRuns(Window) : CasesIn(i, d) # {}}

Direction(first, last) ==
  IF (last.pass > first.pass \/ last.success > first.success) /\ last.failed <= first.failed THEN "improving"
  ELSE IF (last.pass < first.pass \/ last.success < first.success) /\ last.failed >= first.failed
    THEN "regressing"
  ELSE IF last = first THEN "stable" ELSE "mixed"

computeDirection(d) ==
  IF Cardinality(Points(d)) < 2 THEN "insufficient_data"
  ELSE Direction(Point(Min(Points(d)), d), Point(Max(Points(d)), d))

Spread(values) == Max(values) - Min(values)
Volatile(d) == \/ Spread({Point(i, d).pass : i \in Points(d)}) > 2500
               \/ Spread({Point(i, d).failed : i \in Points(d)}) > 150

Penalty(rate) == IF rate < 7000 THEN 3 ELSE IF rate < 8500 THEN 1 ELSE 0
One(holds) == IF holds THEN 1 ELSE 0

Trend(direction) == CASE direction = "regressing" -> 4 [] direction = "mixed" -> 2
                      [] direction = "improving" -> -1 [] OTHER -> 0
Standing(latest) == Penalty(latest.pass) + Penalty(latest.success) + One(latest.failed > 100)

evaluateBucket(d) ==
  Trend(computeDirection(d)) + Standing(Point(Max(Points(d)), d)) + One(Volatile(d))

Weight == [runtime_framework |-> 4, task_family |-> 5, skill |-> 6]

Confidence(d) == LET n == Cardinality(Points(d))
                 IN CASE n = 0 -> 0 [] n = 1 -> 10 [] OTHER -> IF n < 5 THEN 10 * n ELSE 45

Matched(scope) == {d \in scope : Points(d) # {}}

\* Scores and weights are four times the code's: 7 and 4 are 28 and 16.
Share(scope, d) == IF d \in Matched(scope) THEN Weight[d] * evaluateBucket(d) ELSE 0

Level(score) == IF score >= 28 THEN "high" ELSE IF score >= 16 THEN "medium" ELSE "low"
scoreToLevel(scope) ==
  IF Readable = {} THEN "unknown"
  ELSE Level(Share(scope, "runtime_framework") + Share(scope, "task_family") + Share(scope, "skill"))

isCoverageSatisfied(policy, scope) ==
  IF policy.coverage = "partial" THEN Matched(scope) # {} ELSE Matched(scope) = scope

\* Mutant: the age of the history is that of its latest run.
MutAnyRun(policy, scope) ==
  IF Readable = {} THEN "missing" ELSE classifyAge(policy, files[Max(Readable)].week)

buildBenchmarkFreshness(policy, scope) ==
  LET latest == IF Matched(scope) = {} THEN readBenchmarkRuns(1)
                ELSE {Max(Points(d)) : d \in Matched(scope)}
  IN IF latest = {} THEN "missing" ELSE classifyAge(policy, files[Max(latest)].week)

\* regressing, or mixed when the buckets are not all of one mind
Worrying(scope) ==
  LET directions == {computeDirection(d) : d \in Matched(scope)}
  IN directions \cap {"regressing", "mixed"} # {} \/ ("improving" \in directions /\ directions # {"improving"})

buildReleaseReadiness(policy, scope) ==
  IF scoreToLevel(scope) = "high" \/ buildBenchmarkFreshness(policy, scope) = "expired" THEN "blocked"
  ELSE IF \/ scoreToLevel(scope) \in {"unknown", "medium"}
          \/ Cardinality(readBenchmarkRuns(Window)) < policy.runs
          \/ MapThenSumSet(Confidence, Matched(scope)) < policy.confidence * Cardinality(scope)
          \/ ~isCoverageSatisfied(policy, scope)
          \/ buildBenchmarkFreshness(policy, scope) # "fresh"
          \/ Worrying(scope) THEN "caution"
  ELSE "ready"

------------------------------------------------------------------------------
(* compare --baseline-name --latest *)

compareCase(before, after) ==
  LET Passed(r) == r # None /\ r.passed
      Success(r) == r # None /\ r.success
      Failures(r) == IF r = None THEN 0 ELSE r.failed
  IN IF \/ ~Passed(before) /\ Passed(after)
        \/ ~Success(before) /\ Success(after)
        \/ Failures(after) < Failures(before) THEN "improved"
     ELSE IF \/ Passed(before) /\ ~Passed(after)
             \/ Success(before) /\ ~Success(after)
             \/ Failures(after) > Failures(before) THEN "regressed"
     ELSE "unchanged"

compareRuns(before, after) ==
  {c \in Cases : compareCase(before.results[c], after.results[c]) = "regressed"}

------------------------------------------------------------------------------
\* What was tried, what succeeded and what was good, by what befell the cases.  A case
\* that fails at its plan has been tried on its runtime, not for its family or skill.
Tried(i, d) == {c \in Cases : LET o == files[i].outcomes[c]
                              IN /\ o # None /\ o.error # "detection" /\ d \in Covers[c]
                                 /\ o.error = "plan" => d = "runtime_framework"}
Succeeded(o) == o.error = None /\ o.met
Good(o) == o # None /\ Succeeded(o) /\ o.failed = 0 /\ o.verdict # "BLOCK"

\* A scope is called ready on enough readable runs, with a case tried in each of the
\* dimensions its policy asks for, one of them lately; and if two of its dimensions or
\* more were tried, a case of the latest runs that tried them succeeded.  Where one was,
\* as a policy content with partial coverage allows, all of its cases may have failed
\* (feedback.js:104-130, trends.js:140-151, freshness.js:46-72).
ReadinessIsEarned ==
  \A policy \in Policies, scope \in Scopes :
    buildReleaseReadiness(policy, scope) = "ready" =>
      LET seen == {i \in RunIds : files[i] \notin {None, Torn}
                               /\ Cardinality({j \in Readable : j > i}) < Window}
          Latest(d) == {i \in seen : Tried(i, d) # {} /\ \A j \in seen : j > i => Tried(j, d) = {}}
      IN /\ Cardinality(seen) >= policy.runs
         /\ policy.coverage = "sufficient" => \A d \in scope : Latest(d) # {}
         /\ \E d \in scope : \E i \in Latest(d) : week - files[i].week <= policy.fresh
         /\ (\E d, e \in scope : d # e /\ Latest(d) # {} /\ Latest(e) # {}) =>
              \E d \in scope : \E i \in Latest(d) : \E c \in Tried(i, d) : Succeeded(files[i].outcomes[c])

\* A comparison that finds no regression has found every case that was good in the
\* baseline to pass, and those that threw or are gone count as regressed
\* (analysis.js:115-187).
ComparisonIsHonest ==
  baseline # None /\ Readable # {} =>
    \A c \in Cases : Good(baseline.run.outcomes[c]) /\ ~Good(files[Max(Readable)].outcomes[c])
                       => c \in compareRuns(baseline.run, files[Max(Readable)])

\* A run leaves the history only for the archive, stale, with the number of newer
\* readable runs its policy asks for left behind, and not while it is what a
\* baseline or an approval stands on, unless that was saved meanwhile
\* (retention.js:44-51, :84-93).
KeepsMinimum ==
  \A i \in Readable \ Readable' :
    /\ i \in archived' /\ week - files[i].week > sweep.policy.aging
    /\ Cardinality({j \in Readable' : j > i}) >= sweep.policy.runs
    /\ i \in collectProtectedRunIds => sweep.disturbed
MinimumIsKept == [][KeepsMinimum]_historyVars
==============================================================================
