-------------------------- MODULE MCImplementTask --------------------------
(* Two processes, one plan, two coder runs, one check.                     *)
EXTENDS ImplementTask, TLC

CONSTANTS p1, p2, r1, r2, w1, c1

TwoProcs == {p1, p2}
OneProc == {p1}
TwoRuns == {r1, r2}
OneRun == {r1}
OnePlan == {w1}
OneReport == <<"create-snapshot">>
Selected == {{c1}}
AnySelection == {{}, {c1}}
OneCheck == {c1}
Symmetry == Permutations(TwoProcs) \cup Permutations(TwoRuns)
==============================================================================
