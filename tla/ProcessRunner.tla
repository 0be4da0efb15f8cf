---------------------------- MODULE ProcessRunner ----------------------------
(***************************************************************************)
(* runCommand of src/adapters/process-runner.js, which the quality gate    *)
(* and the test runner start their commands with: the child's callbacks    *)
(* against the kill timer, and the cap on the output kept.                 *)
(*                                                                         *)
(* A text is the set of the places, counted in bytes from its start, where *)
(* a character of it ends in UTF-8.                                        *)
(*                                                                         *)
(* A chunk is what one read of the pipe returns, and may begin and end     *)
(* inside a character: lead bytes that go on with one begun before it, the *)
(* whole characters after them, and tail bytes of one that is due more.    *)
(* An empty chunk is never delivered.                                      *)
(***************************************************************************)
EXTENDS Integers, FiniteSetsExt

CONSTANTS
  MaxBytes,   \* maxOutputBytes
  Chunks,     \* the chunks a child may write
  MaxWritten  \* bound on the bytes written to a stream

Streams == {"out", "err"}

Signalled == -1
NotStarted == -2

VARIABLES
  stage,     \* "idle", "pending" or "resolved"
  child,     \* "none", "running" or "gone"
  code,      \* how the child ended
  timer, timedOut,
  events,    \* the callbacks not yet run
  kept,      \* the text kept of each stream, bytesUsed, and whether some was dropped
  used, truncated,
  written,   \* history: what the child wrote
  decoded,   \* history: its chunks as they are decoded
  result

buffers == <<kept, used, truncated, written, decoded>>
vars == <<stage, child, code, timer, timedOut, events, buffers, result>>

NoResult == [code |-> 0, timedOut |-> FALSE, truncated |-> FALSE, output |-> {}]

Bytes(text) == Max(text \cup {0})
Join(text, chunk) == text \cup {Bytes(text) + n : n \in chunk}

(* Decoding a chunk alone: U+FFFD, of three bytes, stands for every byte of *)
(* lead, which continues nothing, and for tail.                             *)
Marks(n) == {3 * i : i \in 1..n}
ToString(c) ==
  Join(Join(Marks(c.lead), c.whole), Marks(IF c.tail > 0 THEN 1 ELSE 0))

\* What a child wrote: where its characters end, its bytes, the bytes due of a
\* character begun, and whether a chunk ended inside one.
NoOutput == [ends |-> {}, bytes |-> 0, due |-> 0, split |-> FALSE]

Follows(w, c) ==
  /\ c.lead <= w.due
  /\ c.lead < w.due => c.lead > 0 /\ c.whole = {} /\ c.tail = 0

Wrote(w, c) ==
  LET start == w.bytes + c.lead
      closed == IF c.lead > 0 /\ c.lead = w.due THEN {start} ELSE {}
  IN  [ends |-> w.ends \cup closed \cup {start + n : n \in c.whole},
       bytes |-> start + Bytes(c.whole) + c.tail,
       due |-> IF c.tail > 0 THEN c.due ELSE w.due - c.lead,
       split |-> w.split \/ c.tail > 0]

\* The longest part of a chunk, by whole characters, that fits.
Fitting(chunk, room) == {n \in chunk : n <= room}

Init ==
  /\ stage = "idle" /\ child = "none" /\ code = Signalled
  /\ timer = FALSE /\ timedOut = FALSE /\ events = {}
  /\ kept = [s \in Streams |-> {}] /\ used = [s \in Streams |-> 0]
  /\ truncated = [s \in Streams |-> FALSE]
  /\ written = [s \in Streams |-> NoOutput] /\ decoded = [s \in Streams |-> {}]
  /\ result = NoResult

Lost == truncated["out"] \/ truncated["err"]

\* Mutant: a second callback is not ignored.
FinalizeAgain(c, late, output) ==
  /\ stage' = "resolved" /\ timer' = FALSE
  /\ result' = [code |-> c, timedOut |-> late, truncated |-> Lost, output |-> output]

finalize(c, late, output) ==
  IF stage = "resolved" THEN UNCHANGED <<stage, timer, result>>
  ELSE /\ stage' = "resolved" /\ timer' = FALSE
       /\ result' = [code |-> c, timedOut |-> late, truncated |-> Lost, output |-> output]

Spawn ==
  /\ stage = "idle"
  /\ stage' = "pending" /\ child' = "running" /\ timer' = TRUE
  /\ UNCHANGED <<code, timedOut, events, buffers, result>>

\* Node reports it by an error callback and a close with a negative code.
SpawnFails ==
  /\ stage = "idle"
  /\ stage' = "pending" /\ timer' = TRUE /\ events' = {"error", "close"}
  /\ code' = NotStarted
  /\ UNCHANGED <<child, timedOut, buffers, result>>

SpawnThrows ==
  /\ stage = "idle"
  /\ finalize(1, FALSE, {})
  /\ UNCHANGED <<child, code, timedOut, events, buffers>>

\* Mutant: text goes on after some was dropped.
AppendMore(s, data) ==
  LET chunk == ToString(data)
      fitting == Fitting(chunk, MaxBytes - used[s])
  IN  /\ kept' = [kept EXCEPT ![s] = Join(@, fitting)]
      /\ used' = [used EXCEPT ![s] = @ + Bytes(fitting)]
      /\ truncated' = [truncated EXCEPT ![s] = @ \/ fitting # chunk]

appendChunk(s, data) ==
  LET chunk == ToString(data)
      fitting == Fitting(chunk, MaxBytes - used[s])
  IN  IF truncated[s] THEN UNCHANGED <<kept, used, truncated>>
      ELSE /\ kept' = [kept EXCEPT ![s] = Join(@, fitting)]
           /\ used' = [used EXCEPT ![s] = @ + Bytes(fitting)]
           /\ truncated' = [truncated EXCEPT ![s] = used[s] + Bytes(chunk) > MaxBytes]

OnData(s) ==
  /\ child = "running"
  /\ \E data \in Chunks :
       /\ Follows(written[s], data)
       /\ written' = [written EXCEPT ![s] = Wrote(@, data)]
       /\ written'[s].bytes <= MaxWritten
       /\ appendChunk(s, data)
       /\ decoded' = [decoded EXCEPT ![s] = Join(@, ToString(data))]
  /\ UNCHANGED <<stage, child, code, timer, timedOut, events, result>>

TimerFires ==
  /\ timer /\ "error" \notin events
  /\ timer' = FALSE /\ timedOut' = TRUE
  /\ UNCHANGED <<stage, child, code, events, buffers, result>>

\* The child ends: by itself, by the timer's signal or by one from elsewhere.
\* A child that handles SIGTERM may still exit with 0.
ChildExits ==
  /\ child = "running"
  /\ child' = "gone"
  /\ code' \in {0, 1, Signalled}
  /\ events' = events \cup {"close"}
  /\ UNCHANGED <<stage, timer, timedOut, buffers, result>>

OnError ==
  /\ "error" \in events
  /\ events' = events \ {"error"}
  /\ finalize(1, FALSE, {})
  /\ UNCHANGED <<child, code, timedOut, buffers>>

\* Mutant: the close of a child that timed out is ignored.
OnCloseIgnored ==
  /\ "close" \in events /\ "error" \notin events
  /\ events' = events \ {"close"}
  /\ IF timedOut THEN UNCHANGED <<stage, timer, result>>
     ELSE finalize(IF code = Signalled THEN 1 ELSE code, code = Signalled,
                   Join(kept["out"], kept["err"]))
  /\ UNCHANGED <<child, code, timedOut, buffers>>

\* A null code counts as 1, SIGTERM as a timeout whoever sent it.
OnClose ==
  /\ "close" \in events /\ "error" \notin events
  /\ events' = events \ {"close"}
  /\ finalize(IF code = Signalled THEN 1 ELSE code,
              timedOut \/ code = Signalled,
              Join(kept["out"], kept["err"]))
  /\ UNCHANGED <<child, code, timedOut, buffers>>

Next == \/ Spawn \/ SpawnFails \/ SpawnThrows
        \/ \E s \in Streams : OnData(s)
        \/ TimerFires \/ ChildExits \/ OnError \/ OnClose

Spec == Init /\ [][Next]_vars

(* The event loop runs, and a child dies once signalled.                   *)
Fairness == /\ WF_vars(TimerFires) /\ WF_vars(OnError) /\ WF_vars(OnClose)
            /\ WF_vars(ChildExits /\ timedOut)
------------------------------------------------------------------------------
\* The output kept of a stream is a start of its chunks as decoded, by whole
\* characters and within the cap, and is marked truncated exactly when some of that was
\* dropped.  That is what the child wrote as long as no chunk ended inside a
\* character; one that did has U+FFFD for it, in as many bytes or more, so an output
\* that is not marked is never that of a child that wrote more than the cap.
OutputIsCapped ==
  \A s \in Streams :
    /\ kept[s] = {n \in decoded[s] : n <= Bytes(kept[s])}
    /\ Bytes(kept[s]) <= MaxBytes
    /\ truncated[s] <=> kept[s] # decoded[s]
    /\ ~written[s].split => decoded[s] = written[s].ends
    /\ ~truncated[s] => written[s].bytes <= MaxBytes

\* A call that resolves with a child's output says that some was dropped.
TruncationIsReported ==
  stage = "resolved" /\ child = "gone" =>
    (result.truncated <=> \E s \in Streams : kept[s] # decoded[s])

\* The first callback's result is the one the caller has: a failed spawn stays
\* one though its close follows.
ResultIsFinal == [][stage = "resolved" => result' = result]_vars

\* Every call resolves.
CallEnds == (stage = "pending") ~> (stage = "resolved")
==============================================================================
