--------------------------- MODULE ProcessesProofs ---------------------------
(***************************************************************************)
(* Proofs about three of the components a caller waits for; the fourth is  *)
(* in ExecutorProofs.  Of the scheduler's passes over a run's graph:       *)
(* detectCycles, for every finite or infinite set of tasks and every graph *)
(* over it, and propagateDependencySkips, which marks the least set Doomed *)
(* names whatever the order of the task map.  Of the process runner: what  *)
(* it keeps of an output.  Of a rename session: what the command says of   *)
(* the tree after a server that only answers.                              *)
(***************************************************************************)
EXTENDS MCProcesses, SequenceTheorems, FiniteSetTheorems, TLAPS

------------------------------------------------------------------------------
(* detectCycles *)

(* The stack is a path of distinct grey tasks, and every grey task is on it.
   Parents follow it while the search goes on.                             *)
Path ==
  /\ \A i \in 1..Len(stack) : color[stack[i]] = "grey"
  /\ \A i, j \in 1..Len(stack) : stack[i] = stack[j] => i = j
  /\ \A t \in tasks : color[t] = "grey" => \E i \in 1..Len(stack) : t = stack[i]
  /\ \A i \in 2..Len(stack) : /\ stack[i] \in deps[stack[i - 1]]
                              /\ parent[stack[i]] = stack[i - 1]
  /\ pc = "scan" => stack = <<>>
  /\ pc \in {"visit", "walk"} => stack # <<>>

(* What has been looked at: a dependency taken off left is black, or is the
   task visited next on the stack.                                         *)
Looked ==
  /\ \A t \in tasks : left[t] \subseteq deps[t]
  /\ \A t \in tasks : color[t] = "white" => left[t] = deps[t]
  /\ \A i \in 1..Len(stack) : \A d \in (deps[stack[i]] \ left[stack[i]]) \cap tasks :
       color[d] = "black" \/ (i < Len(stack) /\ d = stack[i + 1])

(* The black tasks are closed under dependencies and hold no cycle.        *)
BlackIsClosed ==
  \A t \in tasks : color[t] = "black" => \A d \in deps[t] \cap tasks : color[d] = "black"

BlackIsAcyclic ==
  \A S \in SUBSET tasks :
    S # {} /\ (\A t \in S : color[t] = "black") => \E t \in S : deps[t] \cap S = {}

(* The walk back: nodes is a chain of dependencies that reaches cur, which is
   on the stack no lower than the task the walk looks for.                 *)
Walking ==
  /\ pc = "walk" =>
       /\ Len(nodes) > 0
       /\ \A i \in 1..(Len(nodes) - 1) : nodes[i] \in deps[nodes[i + 1]]
       /\ \E j, k \in 1..Len(stack) : /\ j <= k
                                      /\ nodes[1] = stack[j]
                                      /\ cur = stack[k]
                                      /\ nodes[Len(nodes)] \in deps[cur]
  /\ ReportIsCycle

SearchInv ==
  /\ SearchTypeOK /\ Path /\ Looked /\ BlackIsClosed /\ BlackIsAcyclic /\ Walking
  /\ pc \in {"walk", "found"} => HasCycle(tasks, deps)
  /\ pc = "clear" => \A t \in tasks : color[t] = "black"

LEMMA SearchInvInit == SearchInit => SearchInv
<1> SUFFICES ASSUME SearchInit PROVE SearchInv
  OBVIOUS
<1>1. SearchTypeOK
  BY GraphsAssumption DEF SearchInit, GraphInit, SearchTypeOK
<1>2. Path /\ Looked /\ BlackIsClosed /\ BlackIsAcyclic /\ Walking
  BY <1>1 DEF SearchInit, GraphInit, SearchTypeOK, Path, Looked, BlackIsClosed, BlackIsAcyclic, Walking, ReportIsCycle
<1> QED
  BY <1>1, <1>2 DEF SearchInv, SearchInit

(* A grey dependency of the task on top of the stack closes a cycle: the part
   of the stack from that dependency up.                                   *)
LEMMA GreyClosesCycle ==
  ASSUME SearchTypeOK, Path, Looked, stack # <<>>,
         NEW d \in left[Top] \cap tasks, color[d] = "grey"
  PROVE  /\ HasCycle(tasks, deps)
         /\ d \in deps[Top]
         /\ \E j \in 1..Len(stack) : d = stack[j]
<1>1. PICK j \in 1..Len(stack) : d = stack[j]
  BY DEF Path
<1>t. Len(stack) \in Nat \ {0} /\ \A i \in 1..Len(stack) : stack[i] \in tasks
  BY DEF SearchTypeOK
<1>2. d \in deps[Top]
  BY <1>t DEF Looked, Top
<1> DEFINE S == {stack[i] : i \in j..Len(stack)}
<1>3. S \subseteq tasks /\ S # {}
  BY <1>t, <1>1
<1>4. ASSUME NEW i \in j..Len(stack) PROVE deps[stack[i]] \cap S # {}
  <2>1. CASE i = Len(stack)
    BY <2>1, <1>1, <1>2, <1>t DEF Top
  <2>2. CASE i # Len(stack)
    <3>1. i + 1 \in 2..Len(stack) /\ i + 1 \in j..Len(stack) /\ (i + 1) - 1 = i
      BY <2>2, <1>t, <1>1
    <3>2. stack[i + 1] \in deps[stack[i]]
      BY <3>1 DEF Path
    <3> QED
      BY <3>1, <3>2
  <2> QED
    BY <2>1, <2>2
<1>5. \A t \in S : deps[t] \cap S # {}
  BY <1>4
<1>6. HasCycle(tasks, deps)
  BY <1>3, <1>5 DEF HasCycle
<1> QED
  BY <1>1, <1>2, <1>6

LEMMA TypeStep == SearchTypeOK /\ Path /\ [SearchNext]_<<graph, searchVars>> => SearchTypeOK'
<1> SUFFICES ASSUME SearchTypeOK, Path, [SearchNext]_<<graph, searchVars>> PROVE SearchTypeOK'
  OBVIOUS
<1> USE DEF SearchTypeOK, graph
<1>t. stack # <<>> => Top \in tasks /\ Len(stack) \in Nat \ {0}
  BY DEF Top
<1>1. ASSUME NEW t \in TaskIds, Scan(t) PROVE SearchTypeOK'
  BY <1>1 DEF Scan, Enter
<1>2. ASSUME NEW t \in TaskIds, Descend(t) PROVE SearchTypeOK'
  BY <1>2, <1>t DEF Descend, Enter, Path
<1>3. ASSUME NEW t \in TaskIds, Skip(t) PROVE SearchTypeOK'
  BY <1>3, <1>t DEF Skip, Path
<1>4. ASSUME NEW t \in TaskIds, Close(t) PROVE SearchTypeOK'
  <2>1. nodes' \in Seq(TaskIds)
    BY <1>4 DEF Close
  <2>2. cur' \in TaskIds
    BY <1>4, <1>t DEF Close, Path
  <2> QED
    BY <2>1, <2>2, <1>4 DEF Close
<1>5. CASE Clear
  BY <1>5 DEF Clear
<1>6. CASE Return
  <2>1. stack' \in Seq(tasks)
    BY <1>6, <1>t DEF Return, Path
  <2> QED
    BY <2>1, <1>6, <1>t DEF Return, Path
<1>7. CASE Walk
  <2>1. cur \in TaskIds
    BY <1>7 DEF Walk
  <2> QED
    BY <2>1, <1>7 DEF Walk
<1>8. CASE Report
  BY <1>8 DEF Report
<1>9. CASE UNCHANGED <<graph, searchVars>>
  BY <1>9 DEF searchVars, graph
<1> QED
  BY <1>1, <1>2, <1>3, <1>4, <1>5, <1>6, <1>7, <1>8, <1>9 DEF SearchNext

LEMMA SearchInvStep == SearchInv /\ [SearchNext]_<<graph, searchVars>> => SearchInv'
<1> SUFFICES ASSUME SearchInv, [SearchNext]_<<graph, searchVars>> PROVE SearchInv'
  OBVIOUS
<1>0. SearchTypeOK /\ SearchTypeOK'
  BY TypeStep DEF SearchInv
<1>a. Path /\ Looked /\ BlackIsClosed /\ BlackIsAcyclic /\ Walking
  BY DEF SearchInv
<1>t. stack # <<>> => Top \in tasks /\ Len(stack) \in Nat \ {0} /\ Top = stack[Len(stack)]
  BY <1>0 DEF Top, SearchTypeOK
<1> USE DEF graph
<1>1. ASSUME NEW t \in TaskIds, Scan(t) PROVE SearchInv'
  <2>1. /\ stack = <<>> /\ stack' = <<t>> /\ pc' = "visit" /\ color[t] = "white"
        /\ color' = [color EXCEPT ![t] = "grey"] /\ t \in tasks
        /\ UNCHANGED <<tasks, deps, parent, left, nodes, cur>>
    BY <1>1, <1>a DEF Scan, Enter, Path
  <2>2. Path'
    BY <2>1, <1>0, <1>a DEF Path, SearchTypeOK
  <2>3. Looked'
    BY <2>1, <1>0, <1>a DEF Looked, SearchTypeOK
  <2>4. BlackIsClosed' /\ BlackIsAcyclic'
    BY <2>1, <1>0, <1>a DEF BlackIsClosed, BlackIsAcyclic, SearchTypeOK
  <2>5. Walking'
    BY <2>1 DEF Walking, ReportIsCycle
  <2> QED
    BY <2>1, <2>2, <2>3, <2>4, <2>5, <1>0 DEF SearchInv
<1>2. ASSUME NEW d \in TaskIds, Descend(d) PROVE SearchInv'
  <2> DEFINE n == Len(stack)
  <2>1. /\ stack # <<>> /\ stack' = Append(stack, d) /\ pc' = "visit" /\ color[d] = "white"
        /\ color' = [color EXCEPT ![d] = "grey"] /\ d \in tasks /\ d \in left[Top]
        /\ parent' = [parent EXCEPT ![d] = Top]
        /\ left' = [left EXCEPT ![Top] = @ \ {d}]
        /\ UNCHANGED <<tasks, deps, nodes, cur>>
    BY <1>2, <1>a DEF Descend, Enter, Path
  <2>n. /\ n \in Nat \ {0} /\ Len(stack') = n + 1 /\ stack'[n + 1] = d
        /\ \A i \in 1..n : stack'[i] = stack[i] /\ stack[i] \in tasks /\ stack[i] # d
    BY <2>1, <1>0, <1>a DEF SearchTypeOK, Path
  <2>d. d \in deps[Top] /\ Top \in tasks /\ Top = stack[n]
    BY <2>1, <1>a, <1>t DEF Looked
  <2>2. Path'
    <3>1. \A i \in 1..(n + 1) : color'[stack'[i]] = "grey"
      BY <2>1, <2>n, <1>0, <1>a DEF Path, SearchTypeOK
    <3>2. \A i, j \in 1..(n + 1) : stack'[i] = stack'[j] => i = j
      BY <2>n, <1>a DEF Path
    <3>3. \A t \in tasks : color'[t] = "grey" => \E i \in 1..(n + 1) : t = stack'[i]
      BY <2>1, <2>n, <1>0, <1>a DEF Path, SearchTypeOK
    <3>4. \A i \in 2..(n + 1) : /\ stack'[i] \in deps[stack'[i - 1]]
                                /\ parent'[stack'[i]] = stack'[i - 1]
      <4> SUFFICES ASSUME NEW i \in 2..(n + 1)
                   PROVE  /\ stack'[i] \in deps[stack'[i - 1]]
                          /\ parent'[stack'[i]] = stack'[i - 1]
        OBVIOUS
      <4>1. CASE i = n + 1
        BY <4>1, <2>1, <2>n, <2>d, <1>0 DEF SearchTypeOK
      <4>2. CASE i # n + 1
        <5>1. i \in 2..n /\ i \in 1..n /\ i - 1 \in 1..n
          BY <4>2, <2>n
        <5>2. parent'[stack[i]] = parent[stack[i]]
          BY <5>1, <2>1, <2>n, <1>0 DEF SearchTypeOK
        <5> QED
          BY <5>1, <5>2, <2>n, <1>a DEF Path
      <4> QED
        BY <4>1, <4>2
    <3> QED
      BY <3>1, <3>2, <3>3, <3>4, <2>1, <2>n DEF Path
  <2>3. Looked'
    <3>1. \A t \in tasks : left'[t] \subseteq deps[t] /\ (t # Top => left'[t] = left[t])
      BY <2>1, <1>0, <1>a DEF Looked, SearchTypeOK
    <3>2. color[Top] = "grey"
      BY <2>d, <2>n, <1>a DEF Path
    <3>3. \A t \in tasks : color'[t] = "white" => left'[t] = deps[t]
      BY <2>1, <3>1, <3>2, <1>0, <1>a DEF Looked, SearchTypeOK
    <3>4. ASSUME NEW i \in 1..(n + 1),
                 NEW e \in (deps[stack'[i]] \ left'[stack'[i]]) \cap tasks
          PROVE  color'[e] = "black" \/ (i < n + 1 /\ e = stack'[i + 1])
      <4>1. CASE i = n + 1
        BY <4>1, <3>4, <2>1, <2>n, <2>d, <3>1, <3>2, <1>a DEF Looked
      <4>2. CASE i = n
        BY <4>2, <3>4, <2>1, <2>n, <2>d, <1>0, <1>a DEF Looked, SearchTypeOK
      <4>3. CASE i \in 1..(n - 1)
        <5>1. stack[i] # Top /\ i \in 1..n /\ i + 1 \in 1..n
          BY <4>3, <2>d, <2>n, <1>a DEF Path
        <5> QED
          BY <5>1, <3>4, <2>1, <2>n, <3>1, <1>0, <1>a DEF Looked, SearchTypeOK
      <4> QED
        BY <4>1, <4>2, <4>3, <2>n
    <3>5. \A i \in 1..Len(stack') : \A e \in (deps'[stack'[i]] \ left'[stack'[i]]) \cap tasks' :
            color'[e] = "black" \/ (i < Len(stack') /\ e = stack'[i + 1])
      BY <3>4, <2>1, <2>n
    <3> QED
      BY <3>1, <3>3, <3>5, <2>1 DEF Looked
  <2>4. BlackIsClosed' /\ BlackIsAcyclic'
    <3>1. \A t \in tasks : color'[t] = "black" <=> color[t] = "black"
      BY <2>1, <1>0 DEF SearchTypeOK
    <3>2. BlackIsClosed'
      BY <3>1, <2>1, <1>a DEF BlackIsClosed
    <3>3. BlackIsAcyclic'
      BY <3>1, <2>1, <1>a DEF BlackIsAcyclic
    <3> QED
      BY <3>2, <3>3
  <2>5. Walking'
    BY <2>1 DEF Walking, ReportIsCycle
  <2> QED
    BY <2>1, <2>2, <2>3, <2>4, <2>5, <1>0 DEF SearchInv
<1>3. ASSUME NEW d \in TaskIds, Skip(d) PROVE SearchInv'
  <2>1. /\ stack # <<>> /\ d \in left[Top] /\ (d \notin tasks \/ color[d] = "black")
        /\ left' = [left EXCEPT ![Top] = @ \ {d}] /\ pc' = "visit"
        /\ UNCHANGED <<tasks, deps, color, parent, stack, nodes, cur>>
    BY <1>3, <1>a DEF Skip, Path
  <2>2. Path'
    BY <2>1, <1>a DEF Path
  <2>3. color[Top] = "grey"
    BY <2>1, <1>t, <1>a DEF Path
  <2>4. Looked'
    BY <2>1, <2>3, <1>t, <1>0, <1>a DEF Looked, SearchTypeOK
  <2>5. BlackIsClosed' /\ BlackIsAcyclic'
    BY <2>1, <1>a DEF BlackIsClosed, BlackIsAcyclic
  <2>6. Walking'
    BY <2>1 DEF Walking, ReportIsCycle
  <2> QED
    BY <2>1, <2>2, <2>4, <2>5, <2>6, <1>0 DEF SearchInv
<1>4. ASSUME NEW d \in TaskIds, Close(d) PROVE SearchInv'
  <2>1. /\ stack # <<>> /\ d \in left[Top] \cap tasks /\ color[d] = "grey"
        /\ nodes' = <<d>> /\ cur' = Top /\ pc' = "walk"
        /\ UNCHANGED <<tasks, deps, color, parent, stack, left>>
    BY <1>4, <1>a DEF Close, Path
  <2>2. Path' /\ Looked' /\ BlackIsClosed' /\ BlackIsAcyclic'
    BY <2>1, <1>a DEF Path, Looked, BlackIsClosed, BlackIsAcyclic
  <2>3. /\ HasCycle(tasks, deps) /\ d \in deps[Top]
        /\ \E j \in 1..Len(stack) : d = stack[j]
    BY <2>1, <1>0, <1>a, GreyClosesCycle
  <2>4. HasCycle(tasks, deps)'
    BY <2>1, <2>3 DEF HasCycle
  <2>5. Walking'
    BY <2>1, <2>3, <1>t DEF Walking, ReportIsCycle
  <2> QED
    BY <2>1, <2>2, <2>4, <2>5, <1>0 DEF SearchInv
<1>5. CASE Clear
  <2>1. /\ stack = <<>> /\ \A t \in tasks : color[t] = "black"
        /\ pc' = "clear" /\ UNCHANGED <<tasks, deps, color, parent, stack, left, nodes, cur>>
    BY <1>5, <1>0, <1>a DEF Clear, Path, SearchTypeOK
  <2>2. Path' /\ Looked' /\ BlackIsClosed' /\ BlackIsAcyclic' /\ Walking'
    BY <2>1, <1>a DEF Path, Looked, BlackIsClosed, BlackIsAcyclic, Walking, ReportIsCycle
  <2> QED
    BY <2>1, <2>2, <1>0 DEF SearchInv
<1>6. CASE Return
  <2> DEFINE n == Len(stack)
  <2>1. /\ stack # <<>> /\ left[Top] = {} /\ color' = [color EXCEPT ![Top] = "black"]
        /\ stack' = SubSeq(stack, 1, n - 1)
        /\ pc' = IF n = 1 THEN "scan" ELSE "visit"
        /\ UNCHANGED <<tasks, deps, parent, left, nodes, cur>>
    BY <1>6, <1>a DEF Return, Path
  <2>n. /\ n \in Nat \ {0} /\ Len(stack') = n - 1 /\ Top = stack[n] /\ Top \in tasks
        /\ \A i \in 1..(n - 1) : stack'[i] = stack[i] /\ stack[i] \in tasks /\ stack[i] # Top
    <3>1. n \in Nat \ {0} /\ Top = stack[n] /\ Top \in tasks /\ stack \in Seq(tasks)
      BY <2>1, <1>t, <1>0 DEF SearchTypeOK
    <3>2. Len(stack') = n - 1 /\ \A i \in 1..(n - 1) : stack'[i] = stack[i]
      <4>1. \A i \in 1..(n - 1) : stack[i] \in tasks
        BY <3>1
      <4> HIDE DEF n
      <4>2. /\ Len(SubSeq(stack, 1, n - 1)) = IF 1 <= n - 1 THEN (n - 1) - 1 + 1 ELSE 0
            /\ \A i \in 1..((n - 1) - 1 + 1) : SubSeq(stack, 1, n - 1)[i] = stack[1 + i - 1]
        BY <3>1, <4>1, SubSeqProperties
      <4> QED
        BY <3>1, <4>2, <2>1
    <3>3. \A i \in 1..(n - 1) : i \in 1..n /\ n \in 1..n /\ i # n /\ stack[i] \in tasks
      BY <3>1
    <3> QED
      BY <3>1, <3>2, <3>3, <1>a DEF Path
  <2>2. Path'
    <3>1. \A i \in 1..(n - 1) : color'[stack'[i]] = "grey"
      BY <2>1, <2>n, <1>0, <1>a DEF Path, SearchTypeOK
    <3>2. ASSUME NEW i \in 1..(n - 1), NEW j \in 1..(n - 1), stack'[i] = stack'[j] PROVE i = j
      <4>1. i \in 1..n /\ j \in 1..n /\ stack[i] = stack[j]
        BY <3>2, <2>n
      <4> QED
        BY <4>1, <1>a DEF Path
    <3>3. \A t \in tasks : color'[t] = "grey" => \E i \in 1..(n - 1) : t = stack'[i]
      BY <2>1, <2>n, <1>0, <1>a DEF Path, SearchTypeOK
    <3>4. \A i \in 2..(n - 1) : /\ stack'[i] \in deps[stack'[i - 1]]
                                /\ parent'[stack'[i]] = stack'[i - 1]
      BY <2>1, <2>n, <1>a DEF Path
    <3>5. n = 1 => stack' = <<>>
      BY <2>1
    <3>6. n # 1 => stack' # <<>>
      BY <2>n
    <3>7. /\ tasks' = tasks /\ deps' = deps /\ pc' = IF n = 1 THEN "scan" ELSE "visit"
          /\ Len(stack') = n - 1
      BY <2>1, <2>n
    <3>8. pc' \in {"visit", "walk"} => stack' # <<>>
      BY <3>6, <3>7
    <3>9. pc' = "scan" => stack' = <<>>
      BY <3>5, <3>7
    <3> HIDE DEF n
    <3> QED
      BY <3>1, <3>2, <3>3, <3>4, <3>7, <3>8, <3>9 DEF Path
  <2>3. \A e \in deps[Top] \cap tasks : color[e] = "black"
    BY <2>1, <2>n, <1>a DEF Looked
  <2>4. Looked'
    <3>1. ASSUME NEW i \in 1..(n - 1), NEW e \in (deps[stack[i]] \ left[stack[i]]) \cap tasks
          PROVE  color'[e] = "black" \/ (i < n - 1 /\ e = stack'[i + 1])
      <4>1. color[e] = "black" \/ (i < n /\ e = stack[i + 1])
        BY <3>1, <2>n, <1>a DEF Looked
      <4>2. CASE i = n - 1
        BY <4>1, <4>2, <2>1, <2>n, <1>0 DEF SearchTypeOK
      <4>3. CASE i # n - 1
        <5>1. i + 1 \in 1..(n - 1) /\ i < n - 1
          BY <4>3, <2>n
        <5>2. stack'[i + 1] = stack[i + 1]
          BY <5>1, <2>n
        <5> QED
          BY <5>1, <5>2, <4>1, <2>1, <1>0 DEF SearchTypeOK
      <4> QED
        BY <4>2, <4>3
    <3>2. \A t \in tasks : color'[t] = "white" => left'[t] = deps[t]
      BY <2>1, <1>0, <1>a DEF Looked, SearchTypeOK
    <3> QED
      BY <3>1, <3>2, <2>1, <2>n, <1>a DEF Looked
  <2>5. BlackIsClosed'
    BY <2>1, <2>3, <2>n, <1>0, <1>a DEF BlackIsClosed, SearchTypeOK
  <2>6. BlackIsAcyclic'
    <3> SUFFICES ASSUME NEW S \in SUBSET tasks, S # {}, \A t \in S : color'[t] = "black"
                 PROVE  \E t \in S : deps[t] \cap S = {}
      BY <2>1 DEF BlackIsAcyclic
    <3>1. \A t \in S \ {Top} : color[t] = "black"
      BY <2>1, <1>0 DEF SearchTypeOK
    <3>2. color[Top] = "grey"
      BY <2>n, <1>a DEF Path
    <3>3. CASE S \ {Top} = {}
      BY <3>2, <3>3, <2>3, <2>n
    <3>4. CASE S \ {Top} # {}
      <4>1. PICK t \in S \ {Top} : deps[t] \cap (S \ {Top}) = {}
        BY <3>1, <3>4, <1>a DEF BlackIsAcyclic
      <4>2. Top \notin deps[t]
        BY <4>1, <3>1, <3>2, <2>n, <1>a DEF BlackIsClosed
      <4> QED
        BY <4>1, <4>2
    <3> QED
      BY <3>3, <3>4
  <2>7. Walking'
    BY <2>1 DEF Walking, ReportIsCycle
  <2> QED
    BY <2>1, <2>2, <2>4, <2>5, <2>6, <2>7, <1>0 DEF SearchInv
<1>7. CASE Walk
  <2>1. /\ pc = "walk" /\ cur # nodes[1] /\ nodes' = Append(nodes, cur) /\ cur' = parent[cur]
        /\ pc' = "walk" /\ UNCHANGED <<tasks, deps, color, parent, stack, left>>
    BY <1>7 DEF Walk
  <2>2. Path' /\ Looked' /\ BlackIsClosed' /\ BlackIsAcyclic' /\ HasCycle(tasks, deps)'
    BY <2>1, <1>a DEF SearchInv, HasCycle, Path, Looked, BlackIsClosed, BlackIsAcyclic
  <2>3. PICK j, k \in 1..Len(stack) : j <= k /\ nodes[1] = stack[j] /\ cur = stack[k]
                                     /\ nodes[Len(nodes)] \in deps[cur]
    BY <2>1, <1>a DEF Walking
  <2>4. j \in 1..Len(stack) /\ k \in 2..Len(stack) /\ k - 1 \in 1..Len(stack) /\ j <= k - 1
    BY <2>1, <2>3, <1>0 DEF SearchTypeOK
  <2>5. cur' = stack[k - 1] /\ cur \in deps[cur']
    BY <2>1, <2>3, <2>4, <1>a DEF Path
  <2>6. /\ Len(nodes) \in Nat \ {0} /\ Len(nodes') = Len(nodes) + 1
        /\ nodes'[Len(nodes')] = cur
        /\ \A i \in 1..Len(nodes) : nodes'[i] = nodes[i]
    BY <2>1, <2>3, <1>0, <1>a DEF SearchTypeOK, Walking
  <2>7. \A i \in 1..(Len(nodes') - 1) : nodes'[i] \in deps[nodes'[i + 1]]
    BY <2>1, <2>3, <2>6, <1>a DEF Walking
  <2>8. Walking'
    <3>0. 1 \in 1..Len(nodes)
      BY <2>6
    <3>1. nodes'[1] = stack[j] /\ nodes'[Len(nodes')] \in deps[cur']
      BY <3>0, <2>3, <2>5, <2>6
    <3> QED
      BY <3>1, <2>1, <2>4, <2>5, <2>6, <2>7 DEF Walking, ReportIsCycle
  <2> QED
    BY <2>1, <2>2, <2>8, <1>0 DEF SearchInv
<1>8. CASE Report
  <2>1. /\ pc = "walk" /\ pc' = "found" /\ (cur = NoTask \/ cur = nodes[1])
        /\ UNCHANGED <<tasks, deps, color, parent, stack, left, nodes, cur>>
    BY <1>8 DEF Report
  <2>2. Path' /\ Looked' /\ BlackIsClosed' /\ BlackIsAcyclic' /\ HasCycle(tasks, deps)'
    BY <2>1, <1>a DEF SearchInv, HasCycle, Path, Looked, BlackIsClosed, BlackIsAcyclic
  <2>3. cur # NoTask
    BY <2>1, <1>0, <1>a, NoTaskAssumption DEF Walking, SearchTypeOK
  <2>4. Walking'
    BY <2>1, <2>3, <1>a DEF Walking, ReportIsCycle
  <2> QED
    BY <2>1, <2>2, <2>4, <1>0 DEF SearchInv
<1>9. CASE UNCHANGED <<graph, searchVars>>
  <2>1. Path' /\ Looked' /\ BlackIsClosed' /\ BlackIsAcyclic' /\ Walking'
    BY <1>9, <1>a DEF searchVars, graph, Path, Looked, BlackIsClosed, BlackIsAcyclic, Walking, ReportIsCycle
  <2>2. HasCycle(tasks, deps)' = HasCycle(tasks, deps)
    BY <1>9 DEF searchVars, graph, HasCycle
  <2> QED
    BY <1>9, <1>0, <2>1, <2>2 DEF searchVars, graph, SearchInv
<1> QED
  BY <1>1, <1>2, <1>3, <1>4, <1>5, <1>6, <1>7, <1>8, <1>9 DEF SearchNext

THEOREM Invariance == SearchSpec => []SearchInv
BY SearchInvInit, SearchInvStep, PTL DEF SearchSpec

(* detectCycles reports a cycle exactly when the graph has one.            *)
THEOREM DetectsExactlyCycles == SearchSpec => []Correct
<1>1. SearchInv => Correct
  BY DEF SearchInv, BlackIsAcyclic, HasCycle, Correct
<1> QED
  BY <1>1, Invariance, PTL

(* The cycle written to the run's errors is a cycle of the graph.          *)
THEOREM ReportsRealCycle == SearchSpec => []ReportIsCycle
<1>1. SearchInv => ReportIsCycle
  BY DEF SearchInv, Walking
<1> QED
  BY <1>1, Invariance, PTL

------------------------------------------------------------------------------
(* propagateDependencySkips *)

(* The loop only turns queued tasks of the run into skipped ones, and only
   those that every closed set holds.                                      *)
OnlyMarks ==
  \A t \in TaskIds :
    \/ status[t] = before[t]
    \/ t \in tasks /\ before[t] = "queued" /\ status[t] = "skipped"

MarksForced ==
  \A S \in SUBSET tasks : SkipClosed(tasks, deps, before, S) =>
    \A t \in tasks : status[t] # before[t] => t \in S

(* As long as a pass has marked nothing, the tasks it looked at need nothing. *)
LookedAt == ~marked => \A t \in tasks \ unseen : ~ToSkip(t)

SkipInv ==
  /\ SkipTypeOK /\ OnlyMarks /\ MarksForced /\ LookedAt
  /\ loop = "done" => unseen = {} /\ ~marked

LEMMA SkipInvInit == SkipInit => SkipInv
BY GraphsAssumption DEF SkipInit, GraphInit, TaskStatus, SkipInv, SkipTypeOK, OnlyMarks, MarksForced, LookedAt, ToSkip

LEMMA SkipInvStep == SkipInv /\ [SkipNext]_<<graph, skipVars>> => SkipInv'
<1> SUFFICES ASSUME SkipInv, [SkipNext]_<<graph, skipVars>> PROVE SkipInv'
  OBVIOUS
<1> USE DEF SkipInv, SkipTypeOK, graph
<1>1. ASSUME NEW t \in TaskIds, Visit(t) PROVE SkipInv'
  <2>1. SkipTypeOK'
    BY <1>1 DEF Visit, TaskStatus
  <2>2. CASE ToSkip(t)
    <3>1. /\ t \in tasks /\ status[t] = "queued" /\ marked'
          /\ status' = [status EXCEPT ![t] = "skipped"]
          /\ UNCHANGED <<tasks, deps, before, loop>>
      BY <1>1, <2>2 DEF Visit, ToSkip
    <3>2. OnlyMarks'
      BY <3>1 DEF OnlyMarks
    <3>3. before[t] = "queued"
      BY <3>1 DEF OnlyMarks
    <3>4. MarksForced'
      <4> SUFFICES ASSUME NEW S \in SUBSET tasks, SkipClosed(tasks, deps, before, S),
                          NEW u \in tasks, status'[u] # before[u]
                   PROVE  u \in S
        BY <3>1 DEF MarksForced
      <4>1. CASE u # t
        BY <4>1, <3>1 DEF MarksForced
      <4>2. CASE u = t
        <5>1. PICK d \in deps[t] \cap tasks : status[d] \in {"failed", "skipped"}
          BY <2>2 DEF ToSkip
        <5>2. before[d] \in {"failed", "skipped"} \/ d \in S
          BY <5>1 DEF MarksForced
        <5> QED
          BY <4>2, <3>1, <3>3, <5>1, <5>2 DEF SkipClosed
      <4> QED
        BY <4>1, <4>2
    <3> QED
      BY <2>1, <3>1, <3>2, <3>4, <1>1 DEF LookedAt, Visit
  <2>3. CASE ~ToSkip(t)
    BY <1>1, <2>1, <2>3 DEF Visit, OnlyMarks, MarksForced, LookedAt, ToSkip
  <2> QED
    BY <2>2, <2>3
<1>2. CASE EndPass
  BY <1>2 DEF EndPass, OnlyMarks, MarksForced, LookedAt, ToSkip
<1>4. CASE Call
  BY <1>4, StatusesAssumption DEF Call, OnlyMarks, MarksForced, LookedAt
<1>3. CASE UNCHANGED <<graph, skipVars>>
  BY <1>3 DEF skipVars, OnlyMarks, MarksForced, LookedAt, ToSkip
<1> QED
  BY <1>1, <1>2, <1>3, <1>4 DEF SkipNext

(* propagateDependencySkips ends with exactly the doomed tasks skipped, so
   Scheduler may take the whole call as one step.                          *)
THEOREM MarksExactlyDoomed == SkipSpec => []MarksDoomed
<1>1. SkipInv => MarksDoomed
  <2> SUFFICES ASSUME SkipInv, loop = "done", NEW t \in TaskIds
               PROVE  status[t] = IF t \in Doomed(tasks, deps, before) THEN "skipped" ELSE before[t]
    BY DEF MarksDoomed, SkipInv, SkipTypeOK
  <2> DEFINE M == {u \in tasks : status[u] # before[u]}
  <2>1. SkipClosed(tasks, deps, before, M)
    <3> SUFFICES ASSUME NEW u \in tasks, before[u] = "queued",
                        NEW d \in deps[u] \cap tasks,
                        before[d] \in {"failed", "skipped"} \/ d \in M
                 PROVE  u \in M
      BY DEF SkipClosed
    <3>1. status[d] \in {"failed", "skipped"}
      BY DEF SkipInv, SkipTypeOK, OnlyMarks
    <3>2. ~ToSkip(u)
      BY DEF SkipInv, LookedAt
    <3> QED
      BY <3>1, <3>2 DEF ToSkip
  <2>2. CASE t \in Doomed(tasks, deps, before)
    <3>1. t \in M
      BY <2>1, <2>2 DEF Doomed
    <3> QED
      BY <2>2, <3>1 DEF SkipInv, SkipTypeOK, OnlyMarks
  <2>3. CASE t \notin Doomed(tasks, deps, before)
    <3>1. CASE status[t] = before[t]
      BY <2>3, <3>1
    <3>2. CASE status[t] # before[t]
      <4>1. t \in tasks /\ before[t] = "queued"
        BY <3>2 DEF SkipInv, OnlyMarks
      <4>2. \A S \in SUBSET tasks : SkipClosed(tasks, deps, before, S) => t \in S
        BY <4>1, <3>2 DEF SkipInv, MarksForced
      <4> QED
        BY <2>3, <4>1, <4>2 DEF Doomed
    <3> QED
      BY <3>1, <3>2
  <2> QED
    BY <2>2, <2>3
<1> QED
  BY <1>1, SkipInvInit, SkipInvStep, PTL DEF SkipSpec
------------------------------------------------------------------------------
(* The rename session. *)

Phases == L!Waiting \cup {"reported", "ended", "failed"}
Said == {"nothing", "rename", "prepare", "error", "yes", "small", "bad"}
Messages == [kind : {"answer", "request"}, id : Nat, body : Said]
Kinds == {"timeout", "request_failed", "capability_missing", "prepare_rename_rejected",
          "edit_budget_exceeded"}

SessionTypeOK ==
  /\ runner \in [at : Phases, waits : Nat \cup {None}, next : Nat,
                 stdin : {"open", "ended", "destroyed"}, broken : BOOLEAN, counted : Nat,
                 kind : Kinds \cup {None}]
  /\ server \in [alive : BOOLEAN, told : BOOLEAN, nextId : Nat, asks : Nat,
                 owes : SUBSET [id : Nat, method : L!Waiting]]
  /\ inbox \in Seq(Messages) /\ edits \in Seq({"rename", "applyEdit"})
  /\ command \in [strict : BOOLEAN, result : {"running", "lsp", "error", "fallback"}]

\* A server that has not been told to stop lives, and nothing is written to a dead one:
\* a session fails before its one edit or reports it.
Orderly ==
  /\ \A i \in 1..Len(inbox) : inbox[i].kind = "answer"
  /\ runner.at \in L!Waiting => server.alive /\ ~server.told /\ runner.stdin = "open"
  /\ ~runner.broken
  /\ runner.waits = None <=> runner.at \notin L!Waiting
  /\ Len(edits) <= 1
  /\ runner.at \in {"initialize", "prepareRename", "rename", "failed"} => edits = <<>>
  /\ runner.at \in {"reported", "ended"} => runner.counted = Len(edits)
  /\ command.result = "lsp" => runner.at = "ended"
  /\ command.result \in {"error", "fallback"} => runner.at = "failed"

SessionInv == ~loud => SessionTypeOK /\ Orderly

LEMMA SessionInit == MCInit => SessionInv
<1>1. <<>> \in Seq(Messages) /\ <<>> \in Seq({"rename", "applyEdit"}) /\ Len(<<>>) = 0
  OBVIOUS
<1>2. ASSUME L!Init PROVE SessionTypeOK /\ Orderly
  <2>1. SessionTypeOK
    BY <1>1, <1>2, SessionAssumption DEF L!Init, SessionTypeOK, Phases, L!Waiting
  <2>2. Orderly
    BY <1>1, <1>2, SessionAssumption DEF L!Init, Orderly, L!Waiting
  <2> QED BY <2>1, <2>2
<1>3. ASSUME SessionRest PROVE SessionTypeOK /\ Orderly
  <2>1. SessionTypeOK
    BY <1>1, <1>3, SessionAssumption DEF SessionRest, SessionTypeOK, Phases, L!Waiting
  <2>2. Orderly
    BY <1>1, <1>3, SessionAssumption DEF SessionRest, Orderly, L!Waiting
  <2> QED BY <2>1, <2>2
<1> QED
  BY <1>2, <1>3 DEF MCInit, SessionInv

\* A session whose messages are answers is where it was, a step on, or at its end.
Read == /\ inbox' \in Seq(Messages) /\ \A i \in 1..Len(inbox') : inbox'[i].kind = "answer"
        /\ command' = command

LEMMA FailsKeeps ==
  ASSUME SessionTypeOK, Orderly, Read, NEW kind \in Kinds, L!Fails(kind),
         runner.at \in L!Waiting \ {"shutdown"}
  PROVE  SessionTypeOK' /\ Orderly'
<1>1. /\ runner' = [runner EXCEPT !.at = "failed", !.waits = None, !.kind = kind]
      /\ server' = [server EXCEPT !.told = TRUE] /\ edits' = edits
  BY DEF L!Fails, L!Told
<1>2. edits = <<>>
  BY DEF Orderly, L!Waiting
<1>3. SessionTypeOK'
  BY <1>1 DEF SessionTypeOK, Read, Phases, L!Waiting
<1>4. Orderly'
  BY <1>1, <1>2 DEF SessionTypeOK, Orderly, Read, L!Waiting
<1> QED BY <1>3, <1>4

LEMMA ReportKeeps ==
  ASSUME SessionTypeOK, Orderly, Read, L!Report, runner.at = "shutdown"
  PROVE  SessionTypeOK' /\ Orderly'
<1>1. /\ runner' = [runner EXCEPT !.broken = FALSE, !.at = "reported", !.waits = None,
                                 !.stdin = "ended", !.counted = Len(edits)]
      /\ server' = [server EXCEPT !.told = TRUE] /\ edits' = edits
  BY DEF L!Report, L!Told, L!Writes, Orderly, L!Waiting, SessionTypeOK
<1>2. Len(edits) \in Nat
  BY DEF SessionTypeOK
<1>3. SessionTypeOK'
  BY <1>1, <1>2 DEF SessionTypeOK, Read, Phases, L!Waiting
<1>4. Orderly'
  BY <1>1 DEF SessionTypeOK, Orderly, Read, L!Waiting
<1> QED BY <1>3, <1>4

LEMMA RequestKeeps ==
  ASSUME SessionTypeOK, Orderly, Read, NEW method \in L!Waiting, L!request(method),
         runner.at \in L!Waiting, edits' \in Seq({"rename", "applyEdit"}),
         IF method = "shutdown" THEN Len(edits') <= 1 ELSE edits' = <<>>
  PROVE  SessionTypeOK' /\ Orderly'
<1> DEFINE id == runner.next + 1
<1>1. /\ runner' = [runner EXCEPT !.broken = FALSE, !.at = method, !.waits = id, !.next = id]
      /\ server' = [server EXCEPT !.owes = @ \cup {[id |-> id, method |-> method]}]
  BY DEF L!request, L!Writes, Orderly, SessionTypeOK
<1>2. id \in Nat /\ id # None /\ Len(<<>>) = 0
  BY SessionAssumption DEF SessionTypeOK
<1> HIDE DEF id
<1>3. SessionTypeOK'
  <2>1. method \in Phases
    BY DEF Phases
  <2>2. [id |-> id, method |-> method] \in [id : Nat, method : L!Waiting]
    BY <1>2
  <2> QED BY <1>1, <1>2, <2>1, <2>2 DEF SessionTypeOK, Read
<1>4. Orderly'
  BY <1>1, <1>2, SessionAssumption DEF SessionTypeOK, Orderly, Read, L!Waiting
<1> QED BY <1>3, <1>4

LEMMA SettleKeeps ==
  ASSUME SessionTypeOK, Orderly, Read, NEW body \in Said, L!Settle(body), runner.at \in L!Waiting
  PROVE  SessionTypeOK' /\ Orderly'
<1>0. runner.at \in {"initialize", "prepareRename", "rename"} => edits = <<>>
  BY DEF Orderly
<1>1. CASE runner.at = "shutdown"
  BY <1>1, ReportKeeps DEF L!Settle
<1>2. CASE runner.at # "shutdown" /\ \E kind \in Kinds : L!Fails(kind)
  BY <1>2, FailsKeeps
<1>3. CASE \E method \in {"prepareRename", "rename"} : L!request(method) /\ edits' = edits
                                                  /\ runner.at \in {"initialize", "prepareRename"}
  BY <1>0, <1>3, RequestKeeps DEF L!Waiting, SessionTypeOK
<1>4. CASE /\ runner.at = "rename" /\ L!request("shutdown")
           /\ edits' = IF body = "small" THEN Append(edits, "rename") ELSE edits
  <2>1. edits' \in Seq({"rename", "applyEdit"}) /\ Len(edits') <= 1
    <3>1. edits' = <<>> \/ edits' = <<"rename">>
      BY <1>0, <1>4
    <3>2. CASE edits' = <<>>
      BY <3>2
    <3>3. CASE edits' = <<"rename">>
      BY <3>3
    <3> QED BY <3>1, <3>2, <3>3
  <2> QED BY <1>4, <2>1, RequestKeeps DEF L!Waiting
<1> QED
  BY <1>1, <1>2, <1>3, <1>4, Zenon DEF L!Settle, Kinds

LEMMA SessionStep ==
  ASSUME ~loud', SessionInv, L!Next
  PROVE  SessionInv'
<1>0. ~loud
  <2>1. L!onData \/ L!TimesOut \/ L!ServerExits \/ L!Crashes \/ L!Ends \/ L!runLspRenameSync
          \/ L!Answers => loud' = loud
    BY DEF L!onData, L!TimesOut, L!ServerExits, L!Crashes, L!Ends, L!runLspRenameSync, L!Answers
  <2>2. L!Asks \/ L!Dies => ~loud
    BY DEF L!Asks, L!Dies
  <2> QED BY <2>1, <2>2 DEF L!Next
<1> SUFFICES SessionTypeOK' /\ Orderly'
  BY DEF SessionInv
<1>a. SessionTypeOK /\ Orderly
  BY <1>0 DEF SessionInv
<1>b. inbox' = inbox /\ command' = command => Read
  BY <1>a DEF Read, SessionTypeOK, Orderly
<1>1. CASE L!onData
  <2> DEFINE message == inbox[1]
  <2>1. inbox # <<>> /\ inbox' = Tail(inbox) /\ command' = command
    BY <1>1 DEF L!onData
  <2>2. message \in Messages /\ message.kind = "answer" /\ message.body \in Said
    <3>1. 1 \in 1..Len(inbox) /\ inbox[1] \in Messages
      BY <1>a, <2>1 DEF SessionTypeOK
    <3> QED BY <1>a, <3>1 DEF Orderly, Messages
  <2>3. Read
    <3>1. \A i \in 1..Len(Tail(inbox)) : i + 1 \in 1..Len(inbox) /\ Tail(inbox)[i] = inbox[i + 1]
      BY <1>a, <2>1 DEF SessionTypeOK
    <3> QED BY <1>a, <2>1, <3>1 DEF Read, SessionTypeOK, Orderly
  <2>4. CASE message.id = runner.waits
    <3>1. runner.at \in L!Waiting
      BY <1>a, <2>2, <2>4, SessionAssumption DEF Orderly, Messages
    <3>2. L!Settle(message.body)
      BY <1>1, <2>2, <2>4 DEF L!onData
    <3> QED BY <1>a, <2>2, <2>3, <3>1, <3>2, SettleKeeps
  <2>5. CASE message.id # runner.waits
    <3>1. UNCHANGED <<runner, server, edits>>
      BY <1>1, <2>2, <2>5 DEF L!onData
    <3> QED BY <1>a, <2>3, <3>1 DEF Read, SessionTypeOK, Orderly
  <2> QED BY <2>4, <2>5
<1>2. CASE L!TimesOut
  <2>0. runner.at \in L!Waiting /\ inbox' = inbox /\ command' = command
    BY <1>2 DEF L!TimesOut
  <2>1. Read /\ runner.at \in L!Waiting
    BY <2>0, <1>b
  <2>2. CASE runner.at = "shutdown"
    BY <1>2, <1>a, <2>1, <2>2, ReportKeeps DEF L!TimesOut
  <2>3. CASE runner.at # "shutdown"
    <3>1. L!Fails("timeout") /\ "timeout" \in Kinds
      BY <1>2, <2>3 DEF L!TimesOut, Kinds
    <3> QED BY <1>a, <2>1, <2>3, <3>1, FailsKeeps
  <2> QED BY <2>2, <2>3
<1>3. CASE L!ServerExits
  <2>1. runner.at = "reported"
    BY <1>3, <1>a DEF L!ServerExits, L!Live, Orderly
  <2>2. /\ runner' = [runner EXCEPT !.at = "reported", !.waits = None, !.stdin = "destroyed"]
        /\ server' = [server EXCEPT !.told = TRUE] /\ UNCHANGED <<edits, inbox, command>>
    <3>1. /\ runner' = [runner EXCEPT !.at = "reported", !.waits = None, !.stdin = "destroyed",
                                      !.counted = runner.counted]
          /\ L!Told /\ UNCHANGED <<edits, inbox, command>>
      BY <1>3, <2>1 DEF L!ServerExits, L!Waiting
    <3>2. runner' = [runner EXCEPT !.at = "reported", !.waits = None, !.stdin = "destroyed"]
      BY <3>1, <1>a DEF SessionTypeOK
    <3> QED BY <3>1, <3>2 DEF L!Told
  <2> QED BY <1>a, <2>1, <2>2 DEF SessionTypeOK, Orderly, Phases, L!Waiting
<1>4. CASE L!Crashes
  BY <1>4, <1>a DEF L!Crashes, Orderly
<1>5. CASE L!Ends
  BY <1>5, <1>a DEF L!Ends, SessionTypeOK, Orderly, Phases, L!Waiting
<1>6. CASE L!runLspRenameSync
  BY <1>6, <1>a DEF L!runLspRenameSync, SessionTypeOK, Orderly, L!Waiting
<1>7. CASE L!Answers
  <2>0. PICK owed \in server.owes : \E body \in L!Bodies[owed.method] :
          /\ inbox' = Append(inbox, [kind |-> "answer", id |-> owed.id, body |-> body])
          /\ server' = [server EXCEPT !.owes = @ \ {owed}]
          /\ UNCHANGED <<runner, edits, command>>
    BY <1>7 DEF L!Answers
  <2>1. PICK body \in L!Bodies[owed.method] :
          /\ inbox' = Append(inbox, [kind |-> "answer", id |-> owed.id, body |-> body])
          /\ server' = [server EXCEPT !.owes = @ \ {owed}]
          /\ UNCHANGED <<runner, edits, command>>
    BY <2>0
  <2>2. body \in Said
    <3>1. \A method \in L!Waiting : L!Bodies[method] \subseteq Said
      BY DEF L!Bodies, L!Waiting, Said
    <3> QED BY <1>a, <3>1 DEF SessionTypeOK
  <2> QED BY <1>a, <2>1, <2>2 DEF SessionTypeOK, Orderly, Messages, L!Waiting
<1>8. CASE L!Asks
  BY <1>8 DEF L!Asks
<1>9. CASE L!Dies
  BY <1>9, <1>0, <1>a DEF L!Dies, SessionTypeOK, Orderly, L!Waiting
<1> QED
  BY <1>1, <1>2, <1>3, <1>4, <1>5, <1>6, <1>7, <1>8, <1>9 DEF L!Next

\* With a server that only answers, the command's word for the tree is exact.
THEOREM QuietServerIsExactHolds == MCSpec => []QuietServerIsExact
<1>1. SessionInv /\ [MCNext]_allVars => SessionInv'
  <2> SUFFICES ASSUME SessionInv, [MCNext]_allVars PROVE SessionInv'
    OBVIOUS
  <2>1. CASE L!Next
    BY <2>1, SessionStep DEF SessionInv
  <2>2. CASE UNCHANGED renameVars
    BY <2>2 DEF renameVars, SessionInv, SessionTypeOK, Orderly
  <2> QED BY <2>1, <2>2 DEF MCNext, allVars
<1>2. SessionInv => QuietServerIsExact
  BY DEF SessionInv, SessionTypeOK, Orderly, QuietServerIsExact, L!QuietServerIsExact
<1> QED BY <1>1, <1>2, SessionInit, PTL DEF MCSpec
------------------------------------------------------------------------------
(* The process runner: texts. *)

IsText(t) == t \subseteq Nat \ {0} /\ IsFiniteSet(t)

\* A set of numbers that is finite and not empty has a greatest.
LEMMA MaxIsGreatest ==
  ASSUME NEW S \in SUBSET Nat, IsFiniteSet(S), S # {}
  PROVE  R!Max(S) \in S /\ \A y \in S : y <= R!Max(S)
<1> DEFINE Above(m) == {y \in S : y > m}
           F == {Above(m) : m \in S}
           Smaller == StrictSubsetOrdering(S)
<1>1. IsWellFoundedOn(Smaller, FiniteSubsetsOf(S))
  BY FS_StrictSubsetOrderingWellFounded
<1>2. F \subseteq FiniteSubsetsOf(S) /\ F # {}
  <2>1. \A m \in S : Above(m) \in SUBSET S /\ IsFiniteSet(Above(m))
    BY FS_Subset
  <2> QED BY <2>1 DEF FiniteSubsetsOf
<1> HIDE DEF Smaller, F
<1>3. PICK T \in F : \A V \in F : ~(<<V, T>> \in Smaller)
  BY <1>1, <1>2, WFMin
<1>4. PICK m \in S : T = Above(m)
  BY DEF F
<1>5. ASSUME NEW y \in S PROVE y <= m
  <2> SUFFICES ASSUME y > m PROVE FALSE
    OBVIOUS
  <2>1. Above(y) \subseteq T /\ y \in T /\ y \notin Above(y)
    <3>1. y \in T /\ y \notin Above(y)
      BY <1>4
    <3>2. \A z \in Above(y) : z \in S /\ z > m
      OBVIOUS
    <3> QED BY <1>4, <3>1, <3>2
  <2>2. Above(y) \in F
    BY DEF F
  <2>3. <<Above(y), T>> \in Smaller
    <3>1. Above(y) \in SUBSET S /\ T \in SUBSET S
      BY <1>4
    <3> HIDE DEF Above
    <3>2. Above(y) # T
      BY <2>1
    <3> QED BY <2>1, <3>1, <3>2 DEF Smaller, StrictSubsetOrdering
  <2> QED BY <1>3, <2>2, <2>3
<1> QED BY <1>5 DEF R!Max

\* A text ends with its last character.
LEMMA TextHasEnd ==
  ASSUME NEW t, IsText(t)
  PROVE  /\ R!Bytes(t) \in Nat /\ \A n \in t : n <= R!Bytes(t)
         /\ t = {} => R!Bytes(t) = 0
         /\ t # {} => R!Bytes(t) \in t
<1> DEFINE S == t \cup {0}
<1>1. S \in SUBSET Nat /\ IsFiniteSet(S) /\ S # {}
  BY FS_AddElement DEF IsText
<1> HIDE DEF S
<1>2. R!Max(S) \in S /\ \A y \in S : y <= R!Max(S)
  BY <1>1, MaxIsGreatest
<1>3. R!Bytes(t) = R!Max(S)
  BY DEF R!Bytes, S
<1>4. \A n \in t : n > 0 /\ n \in Nat
  BY DEF IsText
<1> USE DEF S
<1>5. t = {} => R!Bytes(t) = 0
  BY <1>2, <1>3
<1>6. t # {} => R!Bytes(t) \in t
  <2> SUFFICES ASSUME NEW n \in t PROVE R!Bytes(t) \in t
    OBVIOUS
  <2>1. R!Bytes(t) # 0
    BY <1>2, <1>3, <1>4
  <2> QED BY <1>2, <1>3, <2>1
<1> QED BY <1>1, <1>2, <1>3, <1>5, <1>6

\* A text is known by its last place.
LEMMA EndIsUnique ==
  ASSUME NEW t, IsText(t), NEW n \in Nat, \A m \in t : m <= n, n \in t \/ (t = {} /\ n = 0)
  PROVE  R!Bytes(t) = n
<1>1. /\ R!Bytes(t) \in Nat /\ \A m \in t : m <= R!Bytes(t)
      /\ t = {} => R!Bytes(t) = 0
      /\ t # {} => R!Bytes(t) \in t
  BY TextHasEnd
<1>2. CASE t = {}
  BY <1>1, <1>2
<1>3. CASE n \in t
  BY <1>1, <1>3
<1> QED BY <1>2, <1>3

LEMMA PartIsText ==
  ASSUME NEW t, IsText(t), NEW room
  PROVE  IsText(R!Fitting(t, room))
<1>1. R!Fitting(t, room) \subseteq t
  BY DEF R!Fitting
<1> HIDE DEF R!Fitting
<1> QED BY <1>1, FS_Subset DEF IsText

\* Texts one after the other have their places one after the other, and their bytes.
LEMMA JoinIsText ==
  ASSUME NEW t, NEW c, IsText(t), IsText(c)
  PROVE  IsText(R!Join(t, c)) /\ R!Bytes(R!Join(t, c)) = R!Bytes(t) + R!Bytes(c)
<1> DEFINE b == R!Bytes(t)
           e == R!Bytes(c)
           moved == {b + n : n \in c}
           joined == R!Join(t, c)
<1>0. (\A n \in t : n \in Nat /\ n > 0) /\ (\A n \in c : n \in Nat /\ n > 0)
  BY DEF IsText
<1>1. /\ b \in Nat /\ \A n \in t : n <= b /\ n \in Nat
      /\ t = {} => b = 0
      /\ t # {} => b \in t
  BY <1>0, TextHasEnd
<1>2. /\ e \in Nat /\ \A n \in c : n <= e /\ n \in Nat /\ n > 0
      /\ c = {} => e = 0
      /\ c # {} => e \in c
  BY <1>0, TextHasEnd
<1> HIDE DEF b, e
<1>3. joined = t \cup moved
  BY DEF R!Join, b
<1>5. \A m \in moved : m \in Nat \ {0} /\ m <= b + e
  BY <1>1, <1>2
<1>6. IsText(joined)
  <2>1. IsFiniteSet(0..(b + e))
    BY <1>1, <1>2, FS_Interval
  <2> HIDE DEF joined, moved
  <2>2. joined \subseteq 0..(b + e) /\ 0 \notin joined
    <3>1. \A n \in joined : n \in t \/ n \in moved
      BY <1>3
    <3> QED BY <1>0, <1>1, <1>2, <3>1, <1>5
  <2>3. IsFiniteSet(joined)
    BY <2>1, <2>2, FS_Subset
  <2>4. 0..(b + e) \subseteq Nat
    BY <1>1, <1>2
  <2> QED BY <2>2, <2>3, <2>4 DEF IsText
<1>7. b + e \in Nat /\ \A m \in joined : m <= b + e
  BY <1>1, <1>2, <1>3, <1>5
<1>8. b + e \in joined \/ (joined = {} /\ b + e = 0)
  BY <1>1, <1>2, <1>3
<1> HIDE DEF joined
<1>9. R!Bytes(joined) = b + e
  BY <1>6, <1>7, <1>8, EndIsUnique
<1> QED BY <1>6, <1>9 DEF joined, b, e

\* What a stream keeps is its text up to used, and marked when that is not all.
Keeps(k, u, cut, w) ==
  /\ IsText(k) /\ IsText(w)
  /\ u = R!Bytes(k) /\ u \in Nat /\ u <= MaxBytes
  /\ k = {n \in w : n <= u}
  /\ cut \in BOOLEAN /\ (cut <=> k # w)

LEMMA MarksAreText ==
  ASSUME NEW n \in Nat
  PROVE  IsText(R!Marks(n)) /\ R!Bytes(R!Marks(n)) = 3 * n
<1> DEFINE t == R!Marks(n)
<1>1. t = {3 * i : i \in 1..n}
  BY DEF R!Marks
<1> HIDE DEF t
<1>2. \A m \in t : m \in Nat \ {0} /\ m <= 3 * n
  BY <1>1
<1>3. IsText(t)
  <2>1. t \subseteq 0..(3 * n) /\ IsFiniteSet(0..(3 * n))
    BY <1>2, FS_Interval
  <2> QED BY <1>2, <2>1, FS_Subset DEF IsText
<1>4. 3 * n \in t \/ (t = {} /\ 3 * n = 0)
  BY <1>1
<1> QED BY <1>2, <1>3, <1>4, EndIsUnique DEF t

\* A chunk as decoded takes as many bytes as it has, or more, and is what was written when
\* no character of it is cut.
LEMMA DecodedIsText ==
  ASSUME NEW c \in Chunks
  PROVE  /\ IsText(R!ToString(c)) /\ R!ToString(c) # {}
         /\ IsText(c.whole) /\ c.lead \in Nat /\ c.tail \in 0..3 /\ c.due \in 0..3
         /\ R!Bytes(c.whole) \in Nat
         /\ c.lead <= 3 => R!Bytes(R!ToString(c)) >= c.lead + R!Bytes(c.whole) + c.tail
         /\ c.lead = 0 /\ c.tail = 0 => R!ToString(c) = c.whole
<1> DEFINE head == R!Marks(c.lead)
           body == R!Join(head, c.whole)
           after == R!Marks(IF c.tail > 0 THEN 1 ELSE 0)
           b == R!Bytes(c.whole)
<1>1. /\ c.lead \in Nat /\ c.tail \in 0..3 /\ c.due \in 0..3 /\ IsText(c.whole)
      /\ c.lead > 0 \/ c.whole # {} \/ c.tail > 0
  BY OutputAssumption DEF IsText
<1>2. IsText(head) /\ R!Bytes(head) = 3 * c.lead
  BY <1>1, MarksAreText
<1>3. IsText(after) /\ R!Bytes(after) = IF c.tail > 0 THEN 3 ELSE 0
  <2>1. CASE c.tail > 0
    BY <2>1, MarksAreText
  <2>2. CASE ~(c.tail > 0)
    BY <2>2, MarksAreText
  <2> QED BY <2>1, <2>2
<1>4. /\ b \in Nat /\ (c.whole = {} => b = 0) /\ (c.whole # {} => b \in c.whole)
  BY <1>1, TextHasEnd
<1> HIDE DEF head, after, b
<1>5. IsText(body) /\ R!Bytes(body) = 3 * c.lead + b
  BY <1>1, <1>2, JoinIsText DEF b
<1> HIDE DEF body
<1>6. IsText(R!Join(body, after)) /\ R!Bytes(R!Join(body, after)) = R!Bytes(body) + R!Bytes(after)
  BY <1>3, <1>5, JoinIsText
<1>7. R!ToString(c) = R!Join(body, after)
  BY DEF R!ToString, body, head, after
<1>8. c.whole # {} => b > 0
  BY <1>1, <1>4 DEF IsText
<1>9. R!Bytes(R!ToString(c)) > 0
  BY <1>1, <1>3, <1>4, <1>5, <1>6, <1>7, <1>8
<1>10. R!ToString(c) # {}
  BY <1>6, <1>7, <1>9, TextHasEnd
<1>11. c.lead = 0 /\ c.tail = 0 => R!ToString(c) = c.whole
  <2> SUFFICES ASSUME c.lead = 0, c.tail = 0 PROVE R!ToString(c) = c.whole
    OBVIOUS
  <2>1. head = {} /\ after = {}
    BY DEF head, after, R!Marks
  <2>2. \A t : R!Join(t, {}) = t
    BY DEF R!Join
  <2>3. R!Join({}, c.whole) = c.whole
    <3>1. R!Bytes({}) = 0
      BY <1>2, <2>1
    <3>2. \A n \in c.whole : n \in Nat
      BY <1>1 DEF IsText
    <3> QED BY <3>1, <3>2 DEF R!Join
  <2> QED BY <1>7, <2>1, <2>2, <2>3 DEF body
<1> QED BY <1>1, <1>3, <1>4, <1>5, <1>6, <1>7, <1>10, <1>11 DEF b

LEMMA WholeKeeps ==
  ASSUME NEW k, NEW u, NEW chunk, IsText(chunk), chunk # {}, Keeps(k, u, FALSE, k)
  PROVE  LET fitting == R!Fitting(chunk, MaxBytes - u)
         IN  Keeps(R!Join(k, fitting), u + R!Bytes(fitting), u + R!Bytes(chunk) > MaxBytes,
                   R!Join(k, chunk))
<1> DEFINE room == MaxBytes - u
           f == R!Fitting(chunk, room)
           b == R!Bytes(f)
           e == R!Bytes(chunk)
           kf == R!Join(k, f)
           kc == R!Join(k, chunk)
<1>1. /\ IsText(k) /\ u = R!Bytes(k) /\ u \in Nat /\ u <= MaxBytes /\ MaxBytes \in Nat
      /\ IsText(chunk) /\ chunk # {}
  BY OutputAssumption DEF Keeps
<1>2. IsText(f)
  BY <1>1, PartIsText
<1>3. /\ \A n \in k : n \in Nat /\ n > 0
      /\ \A n \in chunk : n \in Nat /\ n > 0
  BY <1>1 DEF IsText
<1>4. \A n : n \in f <=> n \in chunk /\ n <= room
  BY DEF R!Fitting
<1>5. kf = k \cup {u + n : n \in f} /\ kc = k \cup {u + n : n \in chunk}
  BY <1>1 DEF R!Join
<1>6. IsText(kf) /\ R!Bytes(kf) = u + b /\ IsText(kc)
  BY <1>1, <1>2, JoinIsText
<1> HIDE DEF f, kf, kc, room
<1>7. b \in Nat /\ (\A n \in f : n <= b) /\ (f = {} => b = 0) /\ (f # {} => b \in f)
  BY <1>2, TextHasEnd
<1>8. e \in Nat /\ (\A n \in chunk : n <= e) /\ e \in chunk
  BY <1>1, TextHasEnd
<1>9. \A n \in k : n <= u
  BY <1>1, TextHasEnd
<1> HIDE DEF b, e
<1>10. room \in Nat /\ room = MaxBytes - u
  BY <1>1 DEF room
<1>11. b <= room
  BY <1>3, <1>4, <1>7, <1>10
<1>12. \A n \in chunk : n \in f <=> n <= b
  BY <1>3, <1>4, <1>7, <1>10, <1>11
<1>13. kf = {n \in kc : n <= u + b}
  <2>1. ASSUME NEW n \in kf PROVE n \in kc /\ n <= u + b
    BY <1>1, <1>3, <1>4, <1>5, <1>7, <1>9, <2>1
  <2>2. ASSUME NEW n \in kc, n <= u + b PROVE n \in kf
    <3>1. CASE n \in k
      BY <1>5, <3>1
    <3>2. CASE \E m \in chunk : n = u + m
      <4>1. PICK m \in chunk : n = u + m
        BY <3>2
      <4>2. m <= b
        BY <1>1, <1>3, <1>7, <2>2, <4>1
      <4> QED BY <1>5, <1>12, <4>1, <4>2
    <3> QED BY <1>5, <2>2, <3>1, <3>2
  <2> QED BY <2>1, <2>2
<1>14. (u + e > MaxBytes) <=> kf # kc
  <2>1. ASSUME u + e > MaxBytes PROVE kf # kc
    <3>1. u + e \in kc /\ u + e > u + b
      BY <1>1, <1>5, <1>7, <1>8, <1>10, <1>11, <2>1
    <3> QED BY <1>1, <1>7, <1>8, <1>13, <3>1
  <2>2. ASSUME ~(u + e > MaxBytes) PROVE kf = kc
    <3>1. \A n \in chunk : n \in f
      BY <1>1, <1>3, <1>4, <1>8, <1>10, <2>2
    <3> QED BY <1>4, <1>5, <3>1
  <2> QED BY <2>1, <2>2
<1>15. u + b \in Nat /\ u + b <= MaxBytes
  BY <1>1, <1>7, <1>10, <1>11
<1>16. Keeps(kf, u + b, u + e > MaxBytes, kc)
  BY <1>6, <1>13, <1>14, <1>15 DEF Keeps
<1> QED BY <1>16 DEF kf, kc, b, e, f, room

LEMMA CutKeeps ==
  ASSUME NEW k, NEW u, NEW w, NEW chunk, IsText(chunk), chunk # {}, Keeps(k, u, TRUE, w)
  PROVE  Keeps(k, u, TRUE, R!Join(w, chunk))
<1> DEFINE b == R!Bytes(w)
           wc == R!Join(w, chunk)
<1>1. /\ IsText(k) /\ IsText(w) /\ u = R!Bytes(k) /\ u \in Nat /\ u <= MaxBytes
      /\ k = {n \in w : n <= u} /\ k # w
      /\ IsText(chunk) /\ chunk # {}
  BY DEF Keeps
<1>2. IsText(wc)
  BY <1>1, JoinIsText
<1>3. \A n \in chunk : n \in Nat /\ n > 0
  BY <1>1 DEF IsText
<1>4. wc = w \cup {b + n : n \in chunk}
  BY DEF R!Join
<1> HIDE DEF wc
<1>5. b \in Nat /\ \A n \in w : n <= b
  BY <1>1, TextHasEnd
<1>6. (k = {} => u = 0) /\ (k # {} => u \in k)
  BY <1>1, TextHasEnd
<1> HIDE DEF b
<1>7. u <= b
  BY <1>1, <1>5, <1>6
<1>8. \A n \in wc : n <= u => n \in w
  BY <1>1, <1>3, <1>4, <1>5, <1>7
<1>9. k = {n \in wc : n <= u} /\ k # wc
  BY <1>1, <1>4, <1>8
<1>10. Keeps(k, u, TRUE, wc)
  BY <1>1, <1>2, <1>9 DEF Keeps
<1> QED BY <1>10 DEF wc

\* What is decoded of a stream takes as many bytes as were written, or more, and is what
\* was written when no chunk ended inside a character.
Decodes(w, t) ==
  /\ w = [ends |-> w.ends, bytes |-> w.bytes, due |-> w.due, split |-> w.split]
  /\ IsText(t) /\ w.bytes \in Nat /\ w.due \in 0..3 /\ w.split \in BOOLEAN
  /\ w.bytes <= R!Bytes(t)
  /\ ~w.split => w.due = 0 /\ w.ends = t /\ w.bytes = R!Bytes(t)

LEMMA WroteDecodes ==
  ASSUME NEW w, NEW t, NEW c \in Chunks, Decodes(w, t), R!Follows(w, c)
  PROVE  Decodes(R!Wrote(w, c), R!Join(t, R!ToString(c)))
<1> DEFINE b == R!Bytes(c.whole)
           d == R!ToString(c)
           wc == R!Wrote(w, c)
           td == R!Join(t, d)
<1>1. /\ IsText(d) /\ IsText(c.whole) /\ c.lead \in Nat /\ c.tail \in 0..3 /\ c.due \in 0..3
      /\ b \in Nat /\ (c.lead <= 3 => R!Bytes(d) >= c.lead + b + c.tail)
      /\ (c.lead = 0 /\ c.tail = 0 => d = c.whole)
  BY DecodedIsText
<1>2. /\ IsText(t) /\ w.bytes \in Nat /\ w.due \in 0..3 /\ w.split \in BOOLEAN
      /\ w.bytes <= R!Bytes(t)
      /\ ~w.split => w.due = 0 /\ w.ends = t /\ w.bytes = R!Bytes(t)
  BY DEF Decodes
<1>3. IsText(td) /\ R!Bytes(td) = R!Bytes(t) + R!Bytes(d) /\ R!Bytes(d) \in Nat
      /\ R!Bytes(t) \in Nat
  BY <1>1, <1>2, JoinIsText, TextHasEnd
<1>4. c.lead <= w.due
  BY DEF R!Follows
<1>5. /\ wc.bytes = w.bytes + c.lead + b + c.tail
      /\ wc.due = IF c.tail > 0 THEN c.due ELSE w.due - c.lead
      /\ wc.split = (w.split \/ c.tail > 0)
      /\ wc.ends = w.ends \cup (IF c.lead > 0 /\ c.lead = w.due THEN {w.bytes + c.lead} ELSE {})
                          \cup {w.bytes + c.lead + n : n \in c.whole}
      /\ wc = [ends |-> wc.ends, bytes |-> wc.bytes, due |-> wc.due, split |-> wc.split]
  BY DEF R!Wrote
<1>6. d = R!ToString(c) /\ td = R!Join(t, d)
  OBVIOUS
<1> HIDE DEF b, wc, d, td
<1>7. wc.bytes \in Nat /\ wc.due \in 0..3 /\ wc.split \in BOOLEAN /\ wc.bytes <= R!Bytes(td)
  BY <1>1, <1>2, <1>3, <1>4, <1>5
<1>8. ASSUME ~wc.split PROVE wc.due = 0 /\ wc.ends = td /\ wc.bytes = R!Bytes(td)
  <2>0. ~w.split /\ ~(c.tail > 0)
    BY <1>5, <1>8, Zenon
  <2>1. ~w.split /\ c.tail = 0 /\ w.due = 0 /\ c.lead = 0
    BY <1>1, <1>2, <1>4, <2>0
  <2>2. d = c.whole /\ R!Bytes(d) = b
    BY <1>1, <2>1 DEF b
  <2>3. td = t \cup {R!Bytes(t) + n : n \in c.whole}
    BY <1>6, <2>2 DEF R!Join
  <2>4. wc.ends = t \cup {R!Bytes(t) + n : n \in c.whole}
    BY <1>2, <1>3, <1>5, <2>1
  <2> QED BY <1>2, <1>3, <1>5, <2>1, <2>2, <2>3, <2>4
<1>9. Decodes(wc, td)
  BY <1>3, <1>5, <1>7, <1>8 DEF Decodes
<1> QED BY <1>9 DEF wc, td, d

\* The process runner: what it keeps, and that nothing is written or answered anew once
\* the call of a child that ended is.
BuffersOK ==
  /\ kept = [x \in R!Streams |-> kept[x]]
  /\ used = [x \in R!Streams |-> used[x]] /\ truncated = [x \in R!Streams |-> truncated[x]]
  /\ written = [x \in R!Streams |-> written[x]] /\ decoded = [x \in R!Streams |-> decoded[x]]
  /\ \A x \in R!Streams :
       Keeps(kept[x], used[x], truncated[x], decoded[x]) /\ Decodes(written[x], decoded[x])

CallOK ==
  /\ rStage \in {"idle", "pending", "resolved"} /\ rChild \in {"none", "running", "gone"}
  /\ rStage = "idle" => rChild = "none" /\ rEvents = {}
  /\ rChild = "running" => rStage = "pending" /\ rEvents = {}
  /\ "error" \in rEvents => rChild = "none"
  /\ rStage = "resolved" /\ rChild = "gone" => (rResult.truncated <=> R!Lost)

RunnerInv == BuffersOK /\ CallOK

LEMMA RunnerInit == R!Init => RunnerInv
<1> SUFFICES ASSUME R!Init PROVE RunnerInv
  OBVIOUS
<1>1. Keeps({}, 0, FALSE, {})
  <2>1. IsText({})
    BY FS_EmptySet DEF IsText
  <2> QED BY <2>1, TextHasEnd, OutputAssumption DEF Keeps
<1>d. Decodes(R!NoOutput, {})
  <2>1. IsText({})
    BY FS_EmptySet DEF IsText
  <2> QED BY <2>1, TextHasEnd DEF Decodes, R!NoOutput
<1>2. BuffersOK
  BY <1>1, <1>d DEF R!Init, BuffersOK
<1>3. CallOK
  BY DEF R!Init, CallOK
<1> QED BY <1>2, <1>3 DEF RunnerInv

LEMMA DataStep ==
  ASSUME RunnerInv, NEW s \in R!Streams, R!OnData(s)
  PROVE  RunnerInv'
<1>1. PICK data \in Chunks :
        /\ R!Follows(written[s], data)
        /\ R!appendChunk(s, data)
        /\ written' = [written EXCEPT ![s] = R!Wrote(@, data)]
        /\ decoded' = [decoded EXCEPT ![s] = R!Join(@, R!ToString(data))]
  BY DEF R!OnData
<1>2. /\ rChild = "running"
      /\ UNCHANGED <<rStage, rChild, rCode, rTimer, rTimedOut, rEvents, rResult>>
  BY DEF R!OnData
<1>3. CallOK'
  BY <1>2 DEF RunnerInv, CallOK
<1> DEFINE chunk == R!ToString(data)
<1>k. /\ Keeps(kept[s], used[s], truncated[s], decoded[s])
      /\ Decodes(written[s], decoded[s])
  BY DEF RunnerInv, BuffersOK
<1>t. IsText(chunk) /\ chunk # {}
  BY DecodedIsText
<1>w. Decodes(R!Wrote(written[s], data), R!Join(decoded[s], chunk))
  BY <1>1, <1>k, WroteDecodes
<1>4. CASE truncated[s]
  <2>1. UNCHANGED <<kept, used, truncated>>
    BY <1>1, <1>4 DEF R!appendChunk
  <2>2. truncated[s] = TRUE
    BY <1>4, <1>k DEF Keeps
  <2> HIDE DEF chunk
  <2>3. Keeps(kept[s], used[s], TRUE, R!Join(decoded[s], chunk))
    BY <1>k, <1>t, <2>2, CutKeeps
  <2> QED BY <1>1, <1>3, <1>w, <2>1, <2>2, <2>3 DEF RunnerInv, BuffersOK, chunk
<1>5. CASE ~truncated[s]
  <2> DEFINE f == R!Fitting(chunk, MaxBytes - used[s])
             more == used[s] + R!Bytes(chunk) > MaxBytes
  <2>1. /\ kept' = [kept EXCEPT ![s] = R!Join(@, f)]
        /\ used' = [used EXCEPT ![s] = @ + R!Bytes(f)]
        /\ truncated' = [truncated EXCEPT ![s] = more]
    BY <1>1, <1>5 DEF R!appendChunk
  <2>2. truncated[s] = FALSE /\ kept[s] = decoded[s]
    BY <1>5, <1>k DEF Keeps
  <2>3. Keeps(R!Join(kept[s], f), used[s] + R!Bytes(f), more, R!Join(decoded[s], chunk))
    <3> HIDE DEF chunk
    <3> QED BY <1>k, <1>t, <2>2, WholeKeeps
  <2>d. decoded' = [decoded EXCEPT ![s] = R!Join(@, chunk)]
    BY <1>1
  <2> HIDE DEF f, more, chunk
  <2>4. BuffersOK'
    BY <1>1, <1>w, <2>1, <2>3, <2>d DEF RunnerInv, BuffersOK
  <2> QED BY <1>3, <2>4 DEF RunnerInv
<1> QED BY <1>4, <1>5

LEMMA RunnerStep ==
  ASSUME RunnerInv, R!Next \/ UNCHANGED runnerVars
  PROVE  RunnerInv'
<1>1. CASE \E s \in R!Streams : R!OnData(s)
  BY <1>1, DataStep
<1>2. CASE /\ UNCHANGED <<kept, used, truncated, written, decoded>>
           /\ \/ R!Spawn \/ R!SpawnFails \/ R!SpawnThrows \/ R!TimerFires \/ R!ChildExits
              \/ R!OnError \/ R!OnClose \/ UNCHANGED runnerVars
  <2>1. BuffersOK' /\ (R!Lost' <=> R!Lost)
    BY <1>2 DEF RunnerInv, BuffersOK, R!Lost
  <2>2. CallOK'
    <3>1. CASE R!Spawn \/ R!SpawnFails \/ R!SpawnThrows \/ R!TimerFires \/ UNCHANGED runnerVars
      BY <3>1, <2>1 DEF RunnerInv, CallOK, R!Spawn, R!SpawnFails, R!SpawnThrows, R!TimerFires,
                        R!finalize, runnerVars
    <3>2. CASE R!ChildExits
      BY <3>2, <2>1 DEF RunnerInv, CallOK, R!ChildExits
    <3>3. CASE R!OnError
      BY <3>3, <2>1 DEF RunnerInv, CallOK, R!OnError, R!finalize
    <3>4. CASE R!OnClose
      BY <3>4, <2>1 DEF RunnerInv, CallOK, R!OnClose, R!finalize
    <3> QED BY <1>2, <3>1, <3>2, <3>3, <3>4
  <2> QED BY <2>1, <2>2 DEF RunnerInv
<1> QED
  BY <1>1, <1>2 DEF R!Next, R!Spawn, R!SpawnFails, R!SpawnThrows, R!TimerFires, R!ChildExits,
                    R!OnError, R!OnClose, R!buffers, runnerVars

\* What the process runner keeps of an output is a start of it as decoded chunk by chunk,
\* within the cap, whatever the chunks and their order, and both it and the answer say when
\* that is not all; the decoding changes nothing unless a chunk ends inside a character, and
\* then it never hides that more than the cap was written.
THEOREM OutputIsCappedHolds == MCSpec => []OutputIsCapped
<1>1. RunnerInv => OutputIsCapped
  <2> SUFFICES ASSUME RunnerInv PROVE R!OutputIsCapped /\ R!TruncationIsReported
    BY DEF OutputIsCapped
  <2>1. R!OutputIsCapped
    <3> SUFFICES ASSUME NEW x \in R!Streams
                 PROVE  /\ kept[x] = {n \in decoded[x] : n <= R!Bytes(kept[x])}
                        /\ R!Bytes(kept[x]) <= MaxBytes
                        /\ truncated[x] <=> kept[x] # decoded[x]
                        /\ ~written[x].split => decoded[x] = written[x].ends
                        /\ ~truncated[x] => written[x].bytes <= MaxBytes
      BY DEF R!OutputIsCapped
    <3>1. Keeps(kept[x], used[x], truncated[x], decoded[x]) /\ Decodes(written[x], decoded[x])
      BY DEF RunnerInv, BuffersOK
    <3>2. /\ kept[x] = {n \in decoded[x] : n <= R!Bytes(kept[x])}
          /\ R!Bytes(kept[x]) <= MaxBytes /\ R!Bytes(kept[x]) \in Nat
          /\ truncated[x] <=> kept[x] # decoded[x]
      BY <3>1 DEF Keeps
    <3>3. /\ ~written[x].split => decoded[x] = written[x].ends
          /\ written[x].bytes \in Nat /\ written[x].bytes <= R!Bytes(decoded[x])
      BY <3>1, Zenon DEF Decodes
    <3>4. ~truncated[x] => kept[x] = decoded[x]
      BY <3>2, Zenon
    <3>5. ASSUME ~truncated[x] PROVE written[x].bytes <= MaxBytes
      <4>1. decoded[x] = kept[x]
        BY <3>4, <3>5
      <4>2. R!Bytes(kept[x]) <= MaxBytes /\ R!Bytes(kept[x]) \in Nat
        BY <3>2
      <4> QED BY <3>3, <4>1, <4>2, OutputAssumption
    <3> QED BY <3>2, <3>3, <3>5
  <2>2. R!Lost <=> \E x \in R!Streams : kept[x] # decoded[x]
    BY DEF RunnerInv, BuffersOK, Keeps, R!Lost, R!Streams
  <2>3. R!TruncationIsReported
    BY <2>2 DEF RunnerInv, CallOK, R!TruncationIsReported
  <2> QED BY <2>1, <2>3
<1>2. MCInit => RunnerInv
  BY RunnerInit DEF MCInit
<1>3. RunnerInv /\ [MCNext]_allVars => RunnerInv'
  BY RunnerStep DEF MCNext, allVars, runnerVars
<1> QED BY <1>1, <1>2, <1>3, PTL DEF MCSpec
==============================================================================
