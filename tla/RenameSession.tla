----------------------------- MODULE RenameSession -----------------------------
(* A rename through a language server.  The command (a go or java provider)      
   runs lsp-rename-runner.js and waits for it; the runner starts the server and  
   exchanges JSON-RPC messages with it, with one request of its own pending at a 
   time; the server answers, makes requests of its own and may die.  When the    
   runner fails, the provider falls back on its own indexed rename.              
                                                                                 
   An edit is "small", which the budget and the other checks of WorkspaceEdit    
   allow, or "bad".  The server is external; what it does is what the runner's   
   handlers and the servers of tests/lsp-refactor-round*.test.js allow.          *)
EXTENDS Naturals, Sequences, FiniteSets

CONSTANTS
  FirstIds,  \* the ids a server may start its own requests at (LSP fixes none)
  MaxAsks,   \* bound: requests a server makes
  None

VARIABLES
  runner,  \* [at, waits, next, stdin, broken, counted, kind]: the phase, the
           \* pending id, the last id given, "open", "ended" or "destroyed", a
           \* write to a dead server is on its way, edits reported, error_kind
  server,  \* [alive, told, owes, nextId, asks]
  inbox,   \* what the server has written and the runner has not read
  edits,   \* edits applied to the tree, one after the other: who asked
  command, \* [strict, result]: backend lsp-required; "running" or how it ended
  loud     \* the server made a request, or died before it was told to

vars == <<runner, server, inbox, edits, command, loud>>

Waiting == {"initialize", "prepareRename", "rename", "shutdown"}
Live == runner.at \in Waiting \cup {"reported"}

Init ==
  /\ \E first \in FirstIds :
       server = [alive |-> TRUE, told |-> FALSE, nextId |-> first, asks |-> 0,
                 owes |-> {[id |-> 2, method |-> "initialize"]}]
  /\ runner = [at |-> "initialize", waits |-> 2, next |-> 2, stdin |-> "open",
               broken |-> FALSE, counted |-> 0, kind |-> None]
  /\ inbox = <<>> /\ edits = <<>> /\ loud = FALSE
  /\ \E strict \in BOOLEAN : command = [strict |-> strict, result |-> "running"]

-------------------------------------------------------------------------------
(* The runner. *)

\* A write the server will not read: fatal, in its own time, unless the exit of the
\* server has been seen.
Writes(r) == [r EXCEPT !.broken = @ \/ (r.stdin = "ended" \/ (r.stdin = "open" /\ ~server.alive))]

\* client.request: the next id; the server owes an answer.
request(method) ==
  LET id == runner.next + 1
  IN /\ runner' = [Writes(runner) EXCEPT !.at = method, !.waits = id, !.next = id]
     /\ server' = [server EXCEPT !.owes = @ \cup {[id |-> id, method |-> method]}]

\* terminateServer: stdin is ended and SIGTERM sent.
Told == server' = [server EXCEPT !.told = TRUE]

\* The handler of a failure ends with process.exit(1).
Fails(kind) ==
  /\ runner' = [runner EXCEPT !.at = "failed", !.waits = None, !.kind = kind]
  /\ Told /\ UNCHANGED edits

\* shutdown answered, timed out or refused: exit, terminateServer, the report.
Report ==
  /\ runner' = [Writes(runner) EXCEPT !.at = "reported", !.waits = None,
                  !.stdin = IF @ = "open" THEN "ended" ELSE @, !.counted = Len(edits)]
  /\ Told /\ UNCHANGED edits

\* The pending request is answered; a request of the server with the pending id is
\* taken for the answer, and its body is nothing.
Settle(body) ==
  \/ runner.at = "shutdown" /\ Report
  \/ runner.at # "shutdown" /\ body = "error" /\ Fails("request_failed")
  \/ runner.at = "initialize" /\ body = "nothing" /\ Fails("capability_missing")
  \/ /\ runner.at = "initialize" /\ body \notin {"error", "nothing"} /\ UNCHANGED edits
     /\ request(IF body = "prepare" THEN "prepareRename" ELSE "rename")
  \/ runner.at = "prepareRename" /\ body = "nothing" /\ Fails("prepare_rename_rejected")
  \/ /\ runner.at = "prepareRename" /\ body \notin {"error", "nothing"} /\ UNCHANGED edits
     /\ request("rename")
  \/ runner.at = "rename" /\ body = "bad" /\ Fails("edit_budget_exceeded")
  \/ /\ runner.at = "rename" /\ body \notin {"error", "bad"} /\ request("shutdown")
     /\ edits' = IF body = "small" THEN Append(edits, "rename") ELSE edits

\* handleServerRequest: the edit is applied or refused, and the answer written.
handleServerRequest(message) ==
  /\ runner' = Writes(runner)
  /\ edits' = IF message.body = "small" THEN Append(edits, "applyEdit") ELSE edits
  /\ UNCHANGED server

\* onData: an answer nobody waits for is dropped.
onData ==
  /\ Live /\ inbox # <<>>
  /\ LET message == inbox[1]
     IN /\ inbox' = Tail(inbox)
        /\ \/ /\ message.id = runner.waits
              /\ Settle(IF message.kind = "answer" THEN message.body ELSE "nothing")
           \/ /\ message.id # runner.waits /\ message.kind = "request"
              /\ handleServerRequest(message)
           \/ /\ message.id # runner.waits /\ message.kind = "answer"
              /\ UNCHANGED <<runner, server, edits>>
  /\ UNCHANGED <<command, loud>>

\* Mutant: a shutdown that is not answered is a failure like another.
MutShutdownFails ==
  /\ runner.at \in Waiting
  /\ Fails("timeout")
  /\ UNCHANGED <<inbox, command, loud>>

TimesOut ==
  /\ runner.at \in Waiting
  /\ IF runner.at = "shutdown" THEN Report ELSE Fails("timeout")
  /\ UNCHANGED <<inbox, command, loud>>

\* The exit event: what is pending is rejected, later writes are dropped.  The
\* output of the server may still have to be read.
ServerExits ==
  /\ Live /\ ~server.alive /\ runner.stdin # "destroyed"
  /\ IF runner.at \in Waiting /\ runner.at # "shutdown" THEN Fails("request_failed")
     ELSE /\ runner' = [runner EXCEPT !.at = "reported", !.waits = None, !.stdin = "destroyed",
                          !.counted = IF runner.at = "shutdown" THEN Len(edits) ELSE @]
          /\ Told /\ UNCHANGED edits
  /\ UNCHANGED <<inbox, command, loud>>

\* The error event of stdin has no listener.
Crashes ==
  /\ Live /\ runner.broken
  /\ runner' = [runner EXCEPT !.at = "failed", !.waits = None, !.kind = "lsp_error"]
  /\ UNCHANGED <<server, inbox, edits, command, loud>>

\* The runner waits for the server: nothing else keeps it alive, and no SIGKILL is
\* sent (server.killed is true once SIGTERM was sent).
Ends ==
  /\ runner.at = "reported" /\ runner.stdin = "destroyed" /\ inbox = <<>>
  /\ runner' = [runner EXCEPT !.at = "ended"]
  /\ UNCHANGED <<server, inbox, edits, command, loud>>

-------------------------------------------------------------------------------
(* The command. *)

runLspRenameSync ==
  /\ command.result = "running" /\ runner.at \in {"failed", "ended"}
  /\ command' = [command EXCEPT !.result = IF runner.at = "ended" THEN "lsp"
                                           ELSE IF command.strict THEN "error" ELSE "fallback"]
  /\ UNCHANGED <<runner, server, inbox, edits, loud>>

-------------------------------------------------------------------------------
(* The server. *)

Bodies == [initialize    |-> {"nothing", "rename", "prepare", "error"},
           prepareRename |-> {"nothing", "yes", "error"},
           rename        |-> {"nothing", "small", "bad", "error"},
           shutdown      |-> {"nothing"}]

Answers ==
  /\ server.alive
  /\ \E owed \in server.owes : \E body \in Bodies[owed.method] :
       /\ inbox' = Append(inbox, [kind |-> "answer", id |-> owed.id, body |-> body])
       /\ server' = [server EXCEPT !.owes = @ \ {owed}]
  /\ UNCHANGED <<runner, edits, command, loud>>

\* workspace/applyEdit with a small or a bad edit, or a request without effect.
Asks ==
  /\ server.alive /\ server.asks < MaxAsks
  /\ \E body \in {"small", "bad", "nothing"} :
       inbox' = Append(inbox, [kind |-> "request", id |-> server.nextId, body |-> body])
  /\ server' = [server EXCEPT !.nextId = @ + 1, !.asks = @ + 1]
  /\ loud' = TRUE
  /\ UNCHANGED <<runner, edits, command>>

Dies ==
  /\ server.alive
  /\ server' = [server EXCEPT !.alive = FALSE]
  /\ loud' = (loud \/ ~server.told)
  /\ UNCHANGED <<runner, inbox, edits, command>>

Next == \/ onData \/ TimesOut \/ ServerExits \/ Crashes \/ Ends
        \/ runLspRenameSync \/ Answers \/ Asks \/ Dies

\* The runtime delivers what has been written, timers and exits; a server that has
\* been told to stop and sent SIGTERM stops.
Fairness ==
  /\ WF_vars(onData) /\ WF_vars(TimesOut) /\ WF_vars(ServerExits) /\ WF_vars(Ends)
  /\ WF_vars(runLspRenameSync) /\ WF_vars(server.told /\ Dies)

Spec == Init /\ [][Next]_vars /\ Fairness

-------------------------------------------------------------------------------
\* With a server that only answers, and dies only when told, the command's word for
\* the tree is exact: a rename reported through the server counts the edits made,
\* and one that failed or fell back on the indexed rename has made none, whichever
\* request timed out or was refused.
QuietServerIsExact ==
  ~loud => CASE command.result = "lsp" -> runner.counted = Len(edits)
             [] command.result \in {"error", "fallback"} -> edits = <<>>
             [] command.result = "running" -> Len(edits) <= 1

\* The command comes to an end, whatever the server does, dies without a word or
\* says nothing at all, as long as it stops when it is told to.
RenameReturns == <>(command.result # "running")
===============================================================================
