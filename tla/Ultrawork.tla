----------------------------- MODULE Ultrawork -----------------------------
(***************************************************************************)
(* eoc-ultrawork (scripts/eoc-ultrawork.js, the workflow of                *)
(* control-plane/workflows/eoc-ultrawork.js): a packet is imported as a    *)
(* new gated run, its tasks are run, and the run is led from its first     *)
(* gate to its last, each after its checks.  A check that fails throws,    *)
(* and the command ends there.  Reviewers and the user go on writing       *)
(* evidence meanwhile, and other commands may mark the run.                *)
(*                                                                         *)
(* The evidence of its reviews (core/gates/review-helpers.js) is what      *)
(* reviewers outside the program say of a run, in two files they sign with *)
(* a shared key.  Whoever handles the files may copy and edit them.        *)
(***************************************************************************)
EXTENDS FiniteSets, Naturals, Sequences

CONSTANTS
  Ids,         \* runs
  Trusted,     \* the reviewers review-trust.json trusts
  Reviewers,   \* Trusted and others who hold the key
  HasKey,      \* whether the key is configured
  Mine,        \* the id the import gives the run
  Outcomes,    \* how the run's tasks and checks turn out: [tasks, quality, coverage], with
               \* "enough" or "low" for each metric the coverage summary has
  Supplies,    \* the evidence files the command may be given, as `given' has them
  MaxChanges,  \* bound on what reviewers, the user and other commands do
  None

VARIABLES
  paper,     \* the file of each kind of review: [id, reviewer, verdict, findings, signature]
  signed,    \* history: the payloads reviewers have signed
  outcome,   \* the member of Outcomes
  given,     \* the other evidence files: "plain", "own" or "foreign" JSON, "empty" or None
  run,       \* the run's file: [gate, state, scheduler]
  step,      \* how far the command is
  ending,    \* "none", "completed", "failed"
  changes, meddled   \* history: how much others have done; whether to the run

evidenceVars == <<paper, signed>>
ultraVars == <<evidenceVars, outcome, given, run, step, ending, changes, meddled>>

Papers == {"code-review", "security-review"}
ALLOWED_EXTERNAL_VERDICTS == {"APPROVE", "APPROVE_WITH_WARNINGS", "REJECT"}

\* What a signature covers, the findings by their digest.
\* Mutant: a signature does not say which review it is of.
MutAnyKind(doc, kind) == <<doc.id, doc.verdict, doc.reviewer, doc.findings>>

signaturePayload(doc, kind) == <<kind, doc.id, doc.verdict, doc.reviewer, doc.findings>>

EvidenceInit == paper = [k \in Papers |-> None] /\ signed = {}

\* A reviewer writes and signs a review.
Review == \E k \in Papers, id \in Ids, who \in Reviewers, verdict \in ALLOWED_EXTERNAL_VERDICTS :
  LET doc == [id |-> id, verdict |-> verdict, reviewer |-> who, findings |-> "list"] IN
  /\ paper' = [paper EXCEPT ![k] = [id |-> id, verdict |-> verdict, reviewer |-> who, findings |-> "list",
                                     signature |-> signaturePayload(doc, k)]]
  /\ signed' = signed \cup {<<k, id, verdict, who>>}

\* A file is copied over the other, or edited, or lost.
Copy == \E k, l \in Papers : paper[k] # None /\ paper' = [paper EXCEPT ![l] = paper[k]] /\ UNCHANGED signed

Alter == \E k \in Papers :
  /\ paper[k] # None
  /\ \/ \E id \in Ids : paper' = [paper EXCEPT ![k].id = id]
     \/ \E verdict \in ALLOWED_EXTERNAL_VERDICTS : paper' = [paper EXCEPT ![k].verdict = verdict]
     \/ \E findings \in {"list", "none", None} : paper' = [paper EXCEPT ![k].findings = findings]
     \/ paper' = [paper EXCEPT ![k].signature = <<>>]
     \/ paper' = [paper EXCEPT ![k] = None]
  /\ UNCHANGED signed

\* The verdict a file gives of a run, or None: it throws.
readVerdict(k, id) ==
  LET doc == paper[k] IN
  IF /\ HasKey /\ doc # None
     /\ doc.id = id /\ doc.reviewer \in Trusted
     /\ doc.findings = "list"
     /\ doc.signature = signaturePayload(doc, k)
  THEN doc.verdict ELSE None

runReviewEvidenceGate(id) == \A k \in Papers : readVerdict(k, id) \notin {None, "REJECT"}

------------------------------------------------------------------------------
Evidence == {"scope", "implementation", "docs", "archive"}

Required == <<{"plan_confirmed"}, {"scope_locked", "acceptance_criteria_locked"},
              {"implementation_completed"},
              {"build_passed", "test_passed", "lint_passed", "coverage_passed"},
              {"code_review_verdict", "security_review_verdict"},
              {"docs_updated", "archive_completed"}, {}>>

LastGate == Len(Required)

Do(op, on) == [op |-> op, on |-> on]
Marks(fields) == [i \in 1..Len(fields) |-> Do("mark", fields[i])]

\* The steps of the workflow, in all they do.
Steps ==
  <<Do("schedule", None), Do("advance", None)>>
  \o <<Do("assert", "scope")>> \o Marks(<<"scope_locked", "acceptance_criteria_locked">>)
  \o <<Do("advance", None), Do("completed", None)>>
  \o <<Do("assert", "implementation")>> \o Marks(<<"implementation_completed">>) \o <<Do("advance", None)>>
  \o <<Do("quality", None)>> \o Marks(<<"build_passed", "test_passed", "lint_passed">>)
  \o <<Do("coverage", None)>> \o Marks(<<"coverage_passed">>) \o <<Do("advance", None)>>
  \o <<Do("review", None)>> \o Marks(<<"code_review_verdict", "security_review_verdict">>)
  \o <<Do("advance", None)>>
  \o <<Do("assert", "docs"), Do("assert", "archive")>> \o Marks(<<"docs_updated", "archive_completed">>)
  \o <<Do("advance", None)>>

\* What review-gate.js hands on; the command calls runReviewGate of it.
ReviewGateExports ==
  {"main", "runMergeGate", "runReviewEvidenceGate", "verdictFromQuality", "createEvidenceSignature"}

\* bridgeFromOptions: the id is new, so no evidence names the run yet.
Init ==
  /\ EvidenceInit
  /\ outcome \in Outcomes
  /\ given \in Supplies
  /\ run = [gate |-> 1, state |-> {"plan_confirmed"}, scheduler |-> "idle"]
  /\ step = 1 /\ ending = "none"
  /\ changes = 0 /\ meddled = FALSE

------------------------------------------------------------------------------
Unmet == Required[run.gate] \ run.state

assertEvidenceFile(kind) == given[kind] \in {"plain", "own"}

\* A summary that is not there, or has no known metric, is not enough.
runCoverageCheck == outcome.coverage = {"enough"}

\* Whether an operation goes through.
Passes(d) ==
  CASE d.op = "assert" -> assertEvidenceFile(d.on)
    [] d.op = "mark" -> d.on \in Required[run.gate]
    [] d.op = "advance" -> Unmet = {}
    [] d.op = "completed" -> run.scheduler = "completed"
    [] d.op = "quality" -> outcome.quality
    [] d.op = "coverage" -> runCoverageCheck
    [] d.op = "review" -> "runReviewGate" \in ReviewGateExports /\ runReviewEvidenceGate(Mine)
    [] OTHER -> TRUE

\* What it makes of the run's file.
Effect(d) ==
  CASE d.op = "schedule" -> [run EXCEPT !.scheduler = outcome.tasks]
    [] d.op = "mark" -> [run EXCEPT !.state = @ \cup {d.on}]
    [] d.op = "advance" /\ run.gate < LastGate -> [run EXCEPT !.gate = @ + 1]
    [] OTHER -> run

Proceed ==
  /\ ending = "none" /\ step <= Len(Steps) /\ Passes(Steps[step])
  /\ run' = Effect(Steps[step]) /\ step' = step + 1
  /\ ending' = IF step = Len(Steps) THEN "completed" ELSE "none"
  /\ UNCHANGED <<evidenceVars, outcome, given, changes, meddled>>

Stop ==
  /\ ending = "none" /\ ~Passes(Steps[step])
  /\ ending' = "failed"
  /\ UNCHANGED <<evidenceVars, outcome, given, run, step, changes, meddled>>

------------------------------------------------------------------------------
Change == changes < MaxChanges /\ changes' = changes + 1

Reviewed == (Review \/ Copy \/ Alter) /\ Change /\ UNCHANGED <<outcome, given, run, step, ending, meddled>>

\* The user writes the evidence of this run, or empties a file.
Supply == \E kind \in Evidence, text \in {"own", "empty"} :
  /\ Change /\ given[kind] # text /\ given' = [given EXCEPT ![kind] = text]
  /\ UNCHANGED <<evidenceVars, outcome, run, step, ending, meddled>>

\* eoc-start mark or advance, by another command.
Meddle ==
  /\ Change /\ meddled' = TRUE
  /\ \/ \E f \in Required[run.gate] : run' \in {[run EXCEPT !.state = @ \cup {f}], [run EXCEPT !.state = @ \ {f}]}
     \/ Unmet = {} /\ run.gate < LastGate /\ run' = [run EXCEPT !.gate = @ + 1]
  /\ UNCHANGED <<evidenceVars, outcome, given, step, ending>>

Next == Proceed \/ Stop \/ Reviewed \/ Supply \/ Meddle

Spec == Init /\ [][Next]_ultraVars

------------------------------------------------------------------------------
\* A run passes its review only on verdicts that reviewers it trusts have signed, each
\* for this review of this run, and that do not reject it, however their files were
\* copied and edited since.
ReviewsAreSigned == \A id \in Ids :
  runReviewEvidenceGate(id) =>
    \A k \in Papers : \E who \in Trusted, v \in {"APPROVE", "APPROVE_WITH_WARNINGS"} :
      <<k, id, v, who>> \in signed

\* The command stops only at a stage that failed: a file of evidence that is not there or
\* is of another run, tasks that did not complete, a gate, the coverage, or verdicts that
\* do not pass; or because someone else changed the run.
StopsAtFailedStage == ending = "failed" =>
  \/ meddled \/ ~outcome.quality \/ ~runCoverageCheck \/ outcome.tasks # "completed"
  \/ \E kind \in Evidence : ~assertEvidenceFile(kind)
  \/ ~runReviewEvidenceGate(Mine)
==============================================================================
