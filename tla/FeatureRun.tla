------------------------------ MODULE FeatureRun ------------------------------
(* generate-feature and debug-fix-loop.  generate-feature reads the project    
   memory, has one child process scaffold the feature and another verify and   
   repair it, and finally writes the memory it read at its start, brought up   
   to date.  The children read and write the same memory file.  A command may  
   be killed between any two of its writes, or inside one to the memory.       
                                                                               
   Of a feature's outputs two are told apart: the code, which stands for the   
   modules that are always generated and for the integration note, and the     
   test, which is optional.  What the commands put into the project's own      
   files, by the integration mode, nothing here reads again: see Scaffold.     
   Overlapping commands are not modelled.                                      
                                                                               
   A feature goes by two names: the one the user gives, which the parent and   
   debug-fix-loop use for what they write, and its slug, which the scaffold    
   uses.  Acceptance looks everything up by the name it is asked about.        *)
EXTENDS Naturals, Sequences

CONSTANTS
  Names,          \* names of features, none of a family with defaults of its own
  Slug,           \* name -> the name in kebab case
  HistoryWindow,  \* entries generation_history keeps (12)
  PatternWindow,  \* entries failure_patterns keeps (10)
  MaxActs,        \* bound: commands begun and edits of the user
  None

VARIABLES
  files,    \* the outputs <<slug, module>> that exist, generated or the user's
  arts,     \* name -> plan and integration JSON under .opencode
  memory,   \* project-memory.json, None when missing or unreadable
  job,      \* the command in progress
  fate,     \* slug -> how the feature's last verification ended, "unseen" if it
            \* failed for the feature under another name than its slug
  acts

vars == <<files, arts, memory, job, fate, acts>>

Modules == {"code", "test"}
Slugs == {Slug[n] : n \in Names}
Idle == [at |-> "idle"]

\* A command that begins at a step; generate-feature has a parent, the memory it read,
\* and debug-fix-loop the subject it plans for, its own reading, mem, and what its
\* verification found.
Begun(n, subject, at) ==
  [at |-> at, name |-> n, subject |-> subject, force |-> FALSE, verify |-> FALSE, test |-> FALSE,
   parent |-> None, mem |-> None, failures |-> None]

-------------------------------------------------------------------------------
(* The project memory. *)

Patterns == {"cannot-find-module", "missing-script", "verify-failed"}
HistoryEntry == [name : Names, status : {"success", "failure"}]
Memories == [history : Seq(HistoryEntry), patterns : Seq(Patterns),
             test : [success : Nat, failure : Nat, disabled : Nat]]

EmptyMemory == [history |-> <<>>, patterns |-> <<>>,
                test |-> [success |-> 0, failure |-> 0, disabled |-> 0]]

readOrInfer == IF memory = None THEN EmptyMemory ELSE memory

trimHistory(s, n) == IF Len(s) <= n THEN s ELSE SubSeq(s, Len(s) - n + 1, Len(s))
Capped(n) == IF n > 2 THEN 2 ELSE n   \* the hints ask for at most two

updateModulePreferenceStats(t, enabled, status) ==
  IF enabled THEN [t EXCEPT ![status] = Capped(@ + 1)] ELSE [t EXCEPT !.disabled = 1]

updateMemory(m, name, status, withTest) ==
  [m EXCEPT !.history = trimHistory(Append(@, [name |-> name, status |-> status]), HistoryWindow),
            !.test = updateModulePreferenceStats(@, withTest, status)]

appendFailurePattern(m, pattern) ==
  [m EXCEPT !.patterns = Append(trimHistory(@, PatternWindow - 1), pattern)]

Failures(m, kinds) == Len(SelectSeq(m.patterns, LAMBDA p : p \in kinds))

\* Past failures to find a module or a script make generation conservative.
SafeMode(m) == Failures(m, {"cannot-find-module", "missing-script"}) > 0

testSuppressed(m) == m.test.failure >= 2 /\ m.test.success = 0 /\ m.test.disabled > 0

\* with_test, as asked for or by default.
PlanTest(m, asked) ==
  IF asked # None THEN asked
  ELSE /\ ~testSuppressed(m)
       /\ ~(Failures(m, {"missing-script", "verify-failed"}) >= 2 /\ SafeMode(m))

-------------------------------------------------------------------------------
(* generate-feature: the parent, up to the scaffold of its first child. *)

Init ==
  /\ files = {} /\ memory = None /\ job = Idle /\ acts = 0
  /\ arts = [n \in Names |-> [plan |-> None, json |-> FALSE]]
  /\ fate = [n \in Slugs |-> "none"]

Goto(at) == job' = [job EXCEPT !.at = at]

Generate(n, subject, force, askedTest, verify) ==
  LET m == readOrInfer
  IN /\ job = Idle /\ acts < MaxActs
     /\ acts' = acts + 1 /\ memory' = m
     /\ job' = [Begun(n, subject, "scaffold") EXCEPT
                  !.force = force, !.verify = verify, !.parent = m,
                  !.test = PlanTest(m, askedTest)]
     /\ UNCHANGED <<files, arts, fate>>

Outputs(test) == IF test THEN Modules ELSE {"code"}
Exists(slug, m) == <<slug, m>> \in files

\* The child refuses to overwrite, and the parent fails with it.
Refused == ~job.force /\ \E m \in Outputs(job.test) : Exists(Slug[job.name], m)

scaffoldSkill ==
  /\ job.at = "scaffold"
  /\ IF Refused THEN job' = Idle /\ UNCHANGED fate
     ELSE /\ job' = [job EXCEPT !.at = "code", !.force = FALSE]
          /\ fate' = [fate EXCEPT ![Slug[job.name]] = "none"]
  /\ UNCHANGED <<files, arts, memory, acts>>

WriteOutput ==
  /\ job.at \in Modules
  /\ files' = files \cup {<<Slug[job.name], job.at>>}
  /\ Goto(IF job.at = "code" /\ job.test THEN "test" ELSE "json")
  /\ UNCHANGED <<arts, memory, fate, acts>>

writeFeatureIntegrationJson ==
  /\ job.at = "json"
  /\ arts' = [arts EXCEPT ![Slug[job.name]].json = TRUE]
  /\ Goto("plan") /\ UNCHANGED <<files, memory, fate, acts>>

\* The child writes the plan under the slug, and the parent then under the name it has.
writeFeaturePlan(at, name, next) ==
  /\ job.at = at
  /\ arts' = [arts EXCEPT ![name].plan = [test |-> job.test]]
  /\ Goto(next) /\ UNCHANGED <<files, memory, fate, acts>>

\* The scaffold counts as a success before anything has been verified.
RememberScaffold ==
  /\ job.at = "remember"
  /\ memory' = updateMemory(readOrInfer, Slug[job.name], "success", job.test)
  /\ Goto("parentPlan")
  /\ UNCHANGED <<files, arts, fate, acts>>

WritePlans ==
  \/ writeFeaturePlan("plan", Slug[job.name], "remember")
  \/ writeFeaturePlan("parentPlan", job.name, IF job.verify THEN "read" ELSE "persist")

-------------------------------------------------------------------------------
(* debug-fix-loop, as the second child or as a command of its own. *)

Repair(n, subject) ==
  /\ job = Idle /\ acts < MaxActs
  /\ acts' = acts + 1
  /\ job' = Begun(n, subject, "read")
  /\ UNCHANGED <<files, arts, memory, fate>>

ReadMemory ==
  /\ job.at = "read"
  /\ memory' = readOrInfer
  /\ job' = [job EXCEPT !.at = "verify", !.mem = readOrInfer]
  /\ UNCHANGED <<files, arts, fate, acts>>

\* What parseVerifyFailures can find in the output of a failed verification.
ParsedFailures == {f \in [import : BOOLEAN, script : BOOLEAN, files : SUBSET Modules] :
                     f.import => f.files # {}}

FirstVerify ==
  /\ job.at = "verify"
  /\ \/ Goto("passed")
     \/ \E f \in ParsedFailures :
          job' = [job EXCEPT !.at = IF f.script THEN "recover" ELSE "rerender", !.failures = f]
  /\ UNCHANGED <<files, arts, memory, fate, acts>>

\* A missing script: other commands, when there are any, are tried instead.
Recover(at, otherwise) ==
  /\ job.at = at
  /\ Goto("passed") \/ Goto(otherwise)
  /\ UNCHANGED <<files, arts, memory, fate, acts>>

\* The plan is made anew, of the subject, with every module and by the node skill: what
\* it does not know is how the feature was generated.
RepairOutputs == Modules

rerenderModule ==
  /\ job.at = "rerender"
  /\ files' = files \cup ({Slug[job.subject]} \X (job.failures.files \cap RepairOutputs))
  /\ job' = [job EXCEPT !.at = "again", !.failures.files = {}]
  /\ UNCHANGED <<arts, memory, fate, acts>>

SecondVerify ==
  /\ job.at = "again"
  /\ Goto("passed") \/ Goto(IF job.failures.script THEN "recoverLate" ELSE "failed")
  /\ UNCHANGED <<files, arts, memory, fate, acts>>

RememberRepair ==
  /\ job.at = "passed"
  /\ memory' = updateMemory(job.mem, job.name, "success", TRUE)
  /\ IF job.parent = None
     THEN job' = Idle /\ fate' = [fate EXCEPT ![Slug[job.name]] = "passed"]
     ELSE Goto("persist") /\ UNCHANGED fate
  /\ UNCHANGED <<files, arts, acts>>

FailurePattern(f) == IF f.import THEN "cannot-find-module"
                     ELSE IF f.script THEN "missing-script" ELSE "verify-failed"

\* Mutant: the failure is remembered as a pattern only.
MutPatternOnly ==
  /\ job.at = "failed"
  /\ memory' = appendFailurePattern(job.mem, FailurePattern(job.failures))
  /\ fate' = [fate EXCEPT ![Slug[job.name]] = IF job.name \in Slugs THEN "failed" ELSE "unseen"]
  /\ job' = Idle /\ UNCHANGED <<files, arts, acts>>

\* The command exits with 1, and a parent throws before it persists anything.
RememberFailure ==
  /\ job.at = "failed"
  /\ memory' = updateMemory(appendFailurePattern(job.mem, FailurePattern(job.failures)),
                            job.name, "failure", TRUE)
  /\ fate' = [fate EXCEPT ![Slug[job.name]] = IF job.name \in Slugs THEN "failed" ELSE "unseen"]
  /\ job' = Idle /\ UNCHANGED <<files, arts, acts>>

\* The parent's update starts from the memory it read before its children wrote.
persistFeatureMemoryUpdate ==
  /\ job.at = "persist"
  /\ memory' = updateMemory(job.parent, job.name, "success", job.test)
  /\ fate' = [fate EXCEPT ![Slug[job.name]] = IF job.verify THEN "passed" ELSE "skipped"]
  /\ job' = Idle /\ UNCHANGED <<files, arts, acts>>

-------------------------------------------------------------------------------

\* A kill inside a write to the memory leaves a file that cannot be read.
Kill ==
  /\ job # Idle /\ job' = Idle
  /\ \/ UNCHANGED memory
     \/ job.at \in {"read", "remember", "passed", "failed", "persist"} /\ memory' = None
  /\ UNCHANGED <<files, arts, fate, acts>>

\* sync-project-memory, which reads with refresh: nothing learned is kept.
Refresh ==
  /\ job = Idle /\ memory' = EmptyMemory
  /\ UNCHANGED <<files, arts, job, fate, acts>>

\* The user adds an output's file or removes it.
UserEdit ==
  /\ job = Idle /\ acts < MaxActs /\ acts' = acts + 1
  /\ \E x \in Slugs \X Modules : files' = IF x \in files THEN files \ {x} ELSE files \cup {x}
  /\ UNCHANGED <<arts, memory, job, fate>>

Next ==
  \/ \E n, subject \in Names, force, verify \in BOOLEAN, test \in BOOLEAN \cup {None} :
       (verify \/ subject = n) /\ Generate(n, subject, force, test, verify)
  \/ \E n, subject \in Names : Repair(n, subject)
  \/ scaffoldSkill \/ WriteOutput \/ writeFeatureIntegrationJson
  \/ WritePlans \/ RememberScaffold
  \/ ReadMemory \/ FirstVerify \/ rerenderModule \/ SecondVerify
  \/ Recover("recover", "rerender") \/ Recover("recoverLate", "failed")
  \/ RememberRepair \/ RememberFailure \/ persistFeatureMemoryUpdate
  \/ Kill \/ Refresh \/ UserEdit

Spec == Init /\ [][Next]_vars

-------------------------------------------------------------------------------
(* What feature-acceptance says, and properties. *)

\* The entries of a feature, by their places in the history, and its last one.
Entries(n) == LET h == readOrInfer.history IN {i \in DOMAIN h : h[i].name = n}
LastFailed(n) ==
  \E i \in Entries(n) : /\ readOrInfer.history[i].status = "failure"
                       /\ \A j \in Entries(n) : j <= i

validateFeatureBundle(n) ==
  arts[n].plan # None /\ arts[n].json /\ Exists(n, "code") /\ arts[n].plan.test

summarizeFeature(n) ==
  validateFeatureBundle(n) /\ ~LastFailed(n)

\* A feature generated and verified under its slug is not accepted while the history
\* holds the failure of its last verification: no success written before or around the
\* verification, by the scaffold or by the parent, hides it.  (It is accepted again when
\* later features have pushed it out of the history, or the memory was refreshed or torn.
\* A failure under another name is not seen by acceptance: the success of the scaffold,
\* which is under the slug, is the last there.)
FailureIsNotAccepted ==
  \A n \in Slugs : job = Idle /\ fate[n] = "failed" /\ Entries(n) # {} => ~summarizeFeature(n)

\* A failure pattern stays known until PatternWindow newer ones or a refresh: no
\* command forgets it by writing back a memory read too early.
KeepsPatterns ==
  memory # None /\ memory' # None /\ ~Refresh =>
    \/ memory'.patterns = memory.patterns
    \/ \E kind \in Patterns :
         memory' = [memory' EXCEPT !.patterns = appendFailurePattern(memory, kind).patterns]
PatternsAreKept == [][KeepsPatterns]_vars
===============================================================================
