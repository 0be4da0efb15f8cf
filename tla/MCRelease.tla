----------------------------- MODULE MCRelease -----------------------------
(* Two processes, one override, one baseline, two benchmark runs.          *)
EXTENDS Release, TLC

CONSTANTS p1, p2, o1, n1, r1, r2

TwoProcs == {p1, p2}
OneProc == {p1}
OneOverride == {o1}
OneName == {n1}
TwoRuns == {r1, r2}
OneRun == {r1}

TwoPolicies == {"standard", "production"}
OneCandidate == [policy \in TwoPolicies |-> <<n1>>]
Production == {"production"}
NeverOverridden == [policy \in TwoPolicies |->
  IF policy = "production" THEN {"approval"} ELSE {}]
Uses == [policy \in TwoPolicies |-> IF policy = "production" THEN 1 ELSE 2]
Hours == [policy \in TwoPolicies |-> 1]

\* The quality gate stands for the checks that commands decide.  An override asks
\* for it and for the approval, and leaves the comparison out.
Quality == {"quality"}
SomeFindings == [Quality -> {"pass", "fail"}]
AskedFor == {{"quality", "approval"}}

Symmetry == Permutations(TwoProcs) \cup Permutations(TwoRuns)
=============================================================================
