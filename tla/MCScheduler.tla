---------------------------- MODULE MCScheduler ----------------------------
(* Instances of Scheduler for TLC: three tasks, a handful of graphs.       *)
EXTENDS Scheduler

MCTaskIds == 1..3

Independent == [t \in MCTaskIds |-> {}]
Chain       == [t \in MCTaskIds |-> IF t = 3 THEN {} ELSE {t + 1}]
FanOut      == [t \in MCTaskIds |-> IF t = 2 THEN {} ELSE {2}]
FanIn       == [t \in MCTaskIds |-> IF t = 1 THEN {2, 3} ELSE {}]
Cycle       == [t \in MCTaskIds |-> IF t = 3 THEN {1} ELSE {t + 1}]
SelfLoop    == [t \in MCTaskIds |-> IF t = 2 THEN {2} ELSE {}]

AllGraphs   == {Independent, Chain, FanOut, FanIn, Cycle, SelfLoop}
ValidGraphs == {Independent, Chain, FanOut, FanIn}

Full      == {MCTaskIds}
SomeTasks == {MCTaskIds, {1, 2}, {}}

Uniform    == {[t \in MCTaskIds |-> 100]}
Prioritised == {[t \in MCTaskIds |-> IF t = 3 THEN 0 ELSE 50]}

NoRetry   == {[t \in MCTaskIds |-> 0]}
OneRetry  == {[t \in MCTaskIds |-> IF t = 2 THEN 1 ELSE 0]}

NoneRefused == {{}}
SomeRefused == {{}, {<<1, "validation">>, <<3, "command">>}}
==============================================================================
