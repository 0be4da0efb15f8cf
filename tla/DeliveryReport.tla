--------------------------- MODULE DeliveryReport ---------------------------
(***************************************************************************)
(* delivery-report (cli/delivery-report-cli.js, core/delivery/advice.js):  *)
(* what to do with a change, from the plan and the latest review.  The     *)
(* review may be of another plan, and of a tree that has changed since.    *)
(* No command reads what it writes, so a report is a function of the files *)
(* it is made from.                                                        *)
(***************************************************************************)
EXTENDS ReviewGate

\* The validation that goes with a plan's benchmark feedback.
ValidationMode(b) ==
  CASE b = "high" -> "full" [] b = "improving" -> "fast" [] OTHER -> "standard"

\* What keeps a change with followups from being merged.
Guarded(b) == RiskLevel(b) = "high" \/ StrategyBias(b) = "conservative" \/ review.posture = "strict"

Underproved(b) ==
  RiskLevel(b) = "high" /\ StrategyBias(b) = "conservative" /\ ValidationMode(b) # "full"

deriveDeliveryAdvice(status, b) ==
  LET verdict == IF review = None THEN "none" ELSE review.verdict IN
  CASE status # "green" \/ verdict = "BLOCK" -> "blocked"
    [] status = "green" /\ verdict = "none" -> "internal_handoff_only"
    [] status = "green" /\ verdict = "ACCEPT_WITH_FOLLOWUPS" ->
         IF Guarded(b) THEN "internal_handoff_only" ELSE "merge_with_followups"
    [] OTHER -> IF Underproved(b) THEN "internal_handoff_only" ELSE "ready_to_merge"

\* Of the plan named or the latest; without a plan the coder loop's status is unknown.
Report(status, b) == [status |-> status, level |-> deriveDeliveryAdvice(status, b)]
buildReport(t) ==
  IF t = None THEN Report("unknown", "unknown") ELSE Report(plans[t].status, plans[t].bucket)

Next == Moves \/ Reviews

Spec == Init /\ [][Next]_reviewVars

------------------------------------------------------------------------------
\* A change that a report calls ready to merge has earned it, if the last review was of
\* its plan and run, in the project's own directory and git repository, with the quality
\* gate, and nothing it read has changed since it began: the run's checks are green, the
\* quality gate finds nothing, no source is changed without a test changed or planned,
\* nothing sensitive and no debug mark is in the diff, the snapshot stands, the history
\* does not ask for more, and the patch keeps to the number of files allowed it.
ReadyIsEarned == \A t \in Tasks :
  (/\ plans[t] # None /\ buildReport(t).level = "ready_to_merge"
   /\ ~stale /\ review.task = t /\ review.run = t
   /\ review.ask.quality # "none" /\ ~review.ask.elsewhere /\ setup.git)
  => LET diff == tree.staged \cup tree.unstaged
         touched == diff \cup plans[t].targets
     IN /\ runs[t].status = "green"
        /\ Failed(review.ask.quality = "full") = {} /\ setup.manifest = "valid"
        /\ touched \cap Sources # {} => touched \cap Tests # {}
        /\ touched \cap Sensitive = {} /\ diff \cap Marked = {}
        /\ plans[t].snapshot = "ready" /\ ~ReviewRequired(bucket)
        /\ runs[t].surface # None => Cardinality(touched) <= runs[t].surface.allowed
==============================================================================
