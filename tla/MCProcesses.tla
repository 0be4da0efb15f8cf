----------------------------- MODULE MCProcesses -----------------------------
(* Four small components, one of which is chosen at the start and runs while    
   the others stay where they are at the end of a run: the kernel's executor,   
   the adapters' process runner, the passes over the task graph, and a rename   
   session with a language server.  What they share is that a caller waits for  
   them, so each has a property that says the wait ends.                        *)
EXTENDS Executor, CycleSearch, SkipPropagation, TLC

CONSTANTS
  Parts,                                 \* the components considered
  e1, e2,
  MaxBytes, Chunks, MaxWritten,          \* of ProcessRunner
  FirstIds, MaxAsks, None                \* of RenameSession

\* Every character of a chunk takes a byte or more, and one cut off is short of a byte
\* of the four it has at most.
ASSUME OutputAssumption ==
  /\ MaxBytes \in Nat
  /\ \A c \in Chunks :
       /\ c \in [lead : Nat, whole : SUBSET (Nat \ {0}), tail : 0..3, due : 0..3]
       /\ IsFiniteSet(c.whole) /\ (c.tail > 0 <=> c.due > 0)
       /\ c.lead > 0 \/ c.whole # {} \/ c.tail > 0

ASSUME SessionAssumption == None \notin Nat /\ FirstIds \subseteq Nat

VARIABLES
  part,
  rStage, rChild, rCode, rTimer, rTimedOut, rEvents, kept, used, truncated, written,
  decoded, rResult,
  runner, server, inbox, edits, command, loud

R == INSTANCE ProcessRunner WITH stage <- rStage, child <- rChild, code <- rCode,
       timer <- rTimer, timedOut <- rTimedOut, events <- rEvents, result <- rResult
L == INSTANCE RenameSession

passVars == <<tasks, deps, color, parent, stack, left, nodes, cur, pc,
              before, status, unseen, marked, loop>>
runnerVars == <<rStage, rChild, rCode, rTimer, rTimedOut, rEvents, kept, used, truncated,
                written, decoded, rResult>>
renameVars == <<runner, server, inbox, edits, command, loud>>

allVars == <<part, vars, passVars, runnerVars, renameVars>>

------------------------------------------------------------------------------
(* The two passes of task-graph.js where runScheduler makes them: the search for
   a cycle when a run starts, and, on a graph it accepted, the propagation of
   skips at the top of the loop, from any statuses the loop may have come to.   *)

PassesInit == SearchInit /\ SkipInit

\* A graph with an error ends the run before the loop.
Accepted == pc = "clear" /\ \A t \in tasks : deps[t] \subseteq tasks \ {t}

PassesNext ==
  \/ SearchNext /\ UNCHANGED skipVars
  \/ Accepted /\ SkipNext /\ UNCHANGED searchVars

\* runScheduler is not left waiting for its passes: the search ends on every
\* graph, and a call that starts to carry skips ends.
PassesEnd ==
  /\ <>(pc \in {"found", "clear"})
  /\ (loop = "pass") ~> (loop = "done")

------------------------------------------------------------------------------

\* The instances.
MCExecs == {e1, e2}
OnlyFirst == {e1}
Chunk(lead, whole, tail, due) == [lead |-> lead, whole |-> whole, tail |-> tail, due |-> due]
MCChunks == {Chunk(0, {1}, 0, 0), Chunk(0, {3, 5}, 0, 0), Chunk(0, {1}, 1, 2),
             Chunk(1, {}, 0, 0), Chunk(2, {}, 0, 0), Chunk(1, {1}, 1, 1)}
Nobody == {}
MCTaskIds == 1..3
EveryGraph == [MCTaskIds -> SUBSET MCTaskIds]
WithAndWithout == {{1, 2, 3}, {1, 2}}
SomeStatuses == [MCTaskIds -> {"queued", "failed", "success"}]

\* Where the passes and a session are when they are over.
PassesRest ==
  /\ tasks = {} /\ deps = [t \in TaskIds |-> {}] /\ pc = "clear" /\ loop = "done"
  /\ color = [t \in TaskIds |-> "black"] /\ parent = [t \in TaskIds |-> NoTask]
  /\ stack = <<>> /\ left = deps /\ nodes = <<>> /\ cur = NoTask
  /\ before = [t \in TaskIds |-> "queued"] /\ status = before
  /\ unseen = {} /\ marked = FALSE

SessionRest ==
  /\ runner = [at |-> "failed", waits |-> None, next |-> 2, stdin |-> "destroyed",
               broken |-> FALSE, counted |-> 0, kind |-> None]
  /\ server = [alive |-> FALSE, told |-> TRUE, nextId |-> 1, asks |-> 0, owes |-> {}]
  /\ command = [strict |-> TRUE, result |-> "error"]
  /\ inbox = <<>> /\ edits = <<>> /\ loud = FALSE

\* The executor and the runner at rest have not been called.
MCInit ==
  /\ part \in Parts
  /\ Init /\ (part # "executor" => mode = [e \in Execs |-> "async"])
  /\ R!Init
  /\ IF part = "passes" THEN PassesInit ELSE PassesRest
  /\ IF part = "rename" THEN L!Init ELSE SessionRest

MCNext ==
  \/ part = "executor" /\ Next /\ UNCHANGED <<passVars, runnerVars, renameVars>> /\ part' = part
  \/ part = "passes" /\ PassesNext /\ UNCHANGED <<vars, runnerVars, renameVars>> /\ part' = part
  \/ part = "runner" /\ R!Next /\ UNCHANGED <<vars, passVars, renameVars>> /\ part' = part
  \/ part = "rename" /\ L!Next /\ UNCHANGED <<vars, passVars, runnerVars>> /\ part' = part

\* At rest none of the actions with a fairness condition is enabled, except a call.
MCSpec ==
  /\ MCInit /\ [][MCNext]_allVars
  /\ Fairness /\ R!Fairness /\ WF_passVars(PassesNext) /\ L!Fairness
------------------------------------------------------------------------------
\* What ProcessRunner keeps of an output is a capped start of it, and says so.
OutputIsCapped == R!OutputIsCapped /\ R!TruncationIsReported

\* Every call of the executor and of the process runner is answered, and once: the
\* first callback's result is the one the caller has.
CallersAreAnswered == CallsEnd /\ R!CallEnds /\ R!ResultIsFinal

\* With a server that only answers, the command's word for the tree is exact.
QuietServerIsExact == L!QuietServerIsExact

\* The search and the propagation end, and so does a rename through a language server.
WorkEnds == (part = "passes" => PassesEnd) /\ L!RenameReturns
==============================================================================
