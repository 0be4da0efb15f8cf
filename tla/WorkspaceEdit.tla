----------------------------- MODULE WorkspaceEdit -----------------------------
(* applyWorkspaceEdit of the LSP rename runner: a list of text edits and file    
   operations is checked, played on an overlay of the files it names, and then   
   written out.  The overlay follows the edit; whether a file exists is asked    
   of the disk.                                                                  
                                                                                 
   A text is a sequence of characters; a missing file is None.  An item has      
   kind, path, target (of a rename), force (overwrite), lenient (ignoreIfExists  
   or ignoreIfNotExists) and spans.  A span replaces the characters after from   
   up to to with new.                                                            *)
EXTENDS Naturals, Sequences, SequencesExt, FiniteSetsExt, Functions

CONSTANTS
  Files,     \* the paths an edit may name
  Scope,     \* those inside the workspace folders
  MaxFiles,  \* the budgets, 0 for none: paths an edit may name,
  MaxNodes,  \* text edits and file operations it may hold
  Asked(_),  \* the edits a server may send, by their length
  Disks,     \* the contents the disk may have
  MaxItems,  \* bound: the length of an edit
  None

VARIABLES edit, disk, dryRun, result

vars == <<edit, disk, dryRun, result>>

-------------------------------------------------------------------------------
(* Text edits. *)

\* positionToOffset: a position past the end is the end.
Clamped(text, spans) ==
  [i \in DOMAIN spans |-> [spans[i] EXCEPT !.from = Min({@, Len(text)}), !.to = Min({@, Len(text)})]]

\* The order in which the replacements are made: from the end of the text, and
\* of the insertions at one place the last one first.
AppliedBefore(spans, i, j) ==
  LET a == spans[i]
      b == spans[j]
  IN \/ a.from > b.from
     \/ a.from = b.from /\ a.to > b.to
     \/ a.from = b.from /\ a.to = b.to /\ i > j

Replace(text, span) == SubSeq(text, 1, span.from) \o span.new \o SubSeq(text, span.to + 1, Len(text))

applyTextEdits(text, given) ==
  LET spans == Clamped(text, given)
      order == SetToSortSeq(DOMAIN spans, LAMBDA i, j : AppliedBefore(spans, i, j))
  IN FoldLeft(LAMBDA t, i : Replace(t, spans[i]), text, order)

-------------------------------------------------------------------------------
(* Validation. *)

PathsOf(item) == IF item.kind = "rename" THEN {item.path, item.target} ELSE {item.path}
Named(items) == UNION {PathsOf(items[i]) : i \in DOMAIN items}

\* All the text edits of a path, taken together.
SpansOf(items, p) ==
  FlattenSeq([i \in DOMAIN items |->
                IF items[i].kind = "text" /\ items[i].path = p THEN items[i].spans ELSE <<>>])

SpanBefore(a, b) == a.from < b.from \/ (a.from = b.from /\ a.to < b.to)

Overlap(items, p) ==
  LET sorted == SortSeq(SpansOf(items, p), SpanBefore)
  IN \E i \in 2..Len(sorted) : sorted[i].from < sorted[i - 1].to

NodeCount(items) ==
  FoldLeft(LAMBDA n, item : n + IF item.kind = "text" THEN Len(item.spans) ELSE 1, 0, items)

validateWorkspaceEdit(items) ==
  CASE ~(Named(items) \subseteq Scope) -> "workspace_scope_violation"
    [] Named(items) \subseteq Scope /\ (\E p \in Files : Overlap(items, p)) -> "edit_conflict"
    [] OTHER -> IF \/ MaxFiles > 0 /\ Cardinality(Named(items)) > MaxFiles
                   \/ MaxNodes > 0 /\ NodeCount(items) > MaxNodes
                THEN "edit_budget_exceeded" ELSE "valid"

-------------------------------------------------------------------------------
(* The overlay. *)

loadFileState(acc, p) ==
  IF p \in DOMAIN acc.states THEN acc.states[p]
  ELSE [text |-> IF disk[p] = None THEN <<>> ELSE disk[p],
        existed |-> disk[p] # None, touched |-> FALSE, deleted |-> FALSE]

With(acc, changes, paths, nodes) ==
  [acc EXCEPT !.states = changes @@ @, !.paths = @ \cup paths, !.nodes = @ + nodes]

Conflict(acc) == [acc EXCEPT !.status = "edit_conflict"]

\* An existing target: skipped, a conflict, or overwritten.
OnTarget(acc, item, target, applied) ==
  CASE disk[target] # None /\ ~item.force /\ item.lenient -> acc
    [] disk[target] # None /\ ~item.force /\ ~item.lenient -> Conflict(acc)
    [] OTHER -> applied

Create(acc, item) ==
  LET fresh == [text |-> <<>>, existed |-> disk[item.path] # None,
                touched |-> TRUE, deleted |-> FALSE]
  IN OnTarget(acc, item, item.path, With(acc, item.path :> fresh, {item.path}, 1))

Rename(acc, item) ==
  LET old == loadFileState(acc, item.path)
      new == [text |-> old.text, existed |-> disk[item.target] # None,
              touched |-> TRUE, deleted |-> FALSE]
      gone == [old EXCEPT !.deleted = TRUE, !.touched = TRUE]
  IN OnTarget(acc, item, item.target,
       With(acc, (item.target :> new) @@ (item.path :> gone), {item.path, item.target}, 1))

Delete(acc, item) ==
  LET old == loadFileState(acc, item.path)
  IN IF ~old.existed /\ item.lenient THEN acc
     ELSE With(acc, item.path :> [old EXCEPT !.deleted = TRUE, !.touched = TRUE], {item.path}, 1)

Text(acc, item) ==
  LET old == loadFileState(acc, item.path)
      edits == Len(item.spans)
  IN With(acc, item.path :> [old EXCEPT !.text = applyTextEdits(@, item.spans),
                                        !.touched = @ \/ edits > 0],
          IF edits > 0 THEN {item.path} ELSE {}, edits)

ApplyItem(acc, item) ==
  CASE acc.status # "ok" -> acc
    [] acc.status = "ok" /\ item.kind = "create" -> Create(acc, item)
    [] acc.status = "ok" /\ item.kind = "rename" -> Rename(acc, item)
    [] acc.status = "ok" /\ item.kind = "delete" -> Delete(acc, item)
    [] acc.status = "ok" /\ item.kind = "text" -> Text(acc, item)

\* The files once the overlay is written.
Written(states) ==
  [p \in Files |->
     IF p \in DOMAIN states /\ states[p].touched
     THEN IF states[p].deleted THEN None ELSE states[p].text
     ELSE disk[p]]

applyWorkspaceEdit(items) ==
  LET check == validateWorkspaceEdit(items)
      empty == [states |-> <<>>, paths |-> {}, nodes |-> 0, status |-> "ok"]
      played == FoldLeft(ApplyItem, empty, items)
      status == IF check = "valid" THEN played.status ELSE check
  IN [status |-> status, paths |-> played.paths, nodes |-> played.nodes,
      disk |-> IF status = "ok" /\ ~dryRun THEN Written(played.states) ELSE disk]

-------------------------------------------------------------------------------
Init ==
  /\ \E n \in 0..MaxItems : edit \in Asked(n)
  /\ disk \in Disks /\ dryRun \in BOOLEAN
  /\ result = None

Apply ==
  /\ result = None
  /\ result' = applyWorkspaceEdit(edit)
  /\ UNCHANGED <<edit, disk, dryRun>>

Next == Apply
Spec == Init /\ [][Next]_vars

-------------------------------------------------------------------------------
(* What an edit means: its items one after the other on the files themselves,
   the text edits of one item all against the text before it.                 *)

Inserted(spans, at) ==
  FlattenSeq([i \in DOMAIN spans |->
                IF spans[i].from = at /\ spans[i].to = at THEN spans[i].new ELSE <<>>])

\* What the edits put at a place: the insertions, then a replacement, then the
\* character that follows unless a replacement covers it.
Meaning(text, given) ==
  LET spans == Clamped(text, given)
      here(at) ==
        Inserted(spans, at)
        \o FlattenSeq([i \in DOMAIN spans |->
                         IF spans[i].from = at /\ spans[i].to > at THEN spans[i].new ELSE <<>>])
        \o (IF at < Len(text) /\ \A i \in DOMAIN spans : ~(spans[i].from <= at /\ at < spans[i].to)
            THEN <<text[at + 1]>> ELSE <<>>)
  IN FlattenSeq([k \in 1..(Len(text) + 1) |-> here(k - 1)])

Subject(item) == IF item.kind = "rename" THEN item.target ELSE item.path

\* One item on the files; None when it may not be played on them.
Play(files, item) ==
  LET there == files[Subject(item)] # None
      missing == files[item.path] = None
  IN CASE item.kind = "create" ->
            IF there /\ ~item.force THEN (IF item.lenient THEN files ELSE None)
            ELSE [files EXCEPT ![item.path] = <<>>]
       [] item.kind = "rename" ->
            IF missing THEN None
            ELSE IF there /\ ~item.force THEN (IF item.lenient THEN files ELSE None)
            ELSE [files EXCEPT ![item.target] = files[item.path], ![item.path] = None]
       [] item.kind = "delete" ->
            IF missing THEN (IF item.lenient THEN files ELSE None)
            ELSE [files EXCEPT ![item.path] = None]
       [] item.kind = "text" ->
            IF missing THEN None ELSE [files EXCEPT ![item.path] = Meaning(@, item.spans)]

After(n) ==
  FoldLeft(LAMBDA files, item : IF files = None THEN files ELSE Play(files, item),
           disk, SubSeq(edit, 1, n))

\* Each file operation asks about a file whose existence the items before it have
\* not changed, the one case in which the disk and the overlay agree about it.
Unmoved ==
  \A i \in DOMAIN edit :
    /\ edit[i].kind # "text" /\ After(i - 1) # None
    => (After(i - 1)[Subject(edit[i])] = None) = (disk[Subject(edit[i])] = None)

\* Deleting a missing file, renaming one or editing one is an error to the protocol
\* and none to the runner.
Lax(item, files) == item.kind # "create" /\ files[item.path] = None

\* An edit is applied to the letter or not at all: what a valid edit leaves on disk is
\* what its items mean, one after the other; an edit with a target in the way is
\* refused; and whatever happens no file outside the workspace folders changes, nor
\* more files than the budget allows.  The overlay gets this right for chains (a file
\* edited, renamed and edited again) as long as no item asks about the existence of a
\* file that an earlier item created or removed.
EditIsExact ==
  result # None =>
    LET changed == {p \in Files : result.disk[p] # disk[p]}
        meant == After(Len(edit))
        valid == validateWorkspaceEdit(edit) = "valid"
    IN /\ changed \subseteq Scope /\ (MaxFiles > 0 => Cardinality(changed) <= MaxFiles)
       /\ result.status # "ok" => changed = {}
       /\ dryRun => changed = {}
       /\ (valid /\ Unmoved /\ meant # None) =>
            result.status = "ok" /\ (dryRun \/ result.disk = meant)
       /\ (valid /\ Unmoved /\ meant = None
           /\ ~\E i \in DOMAIN edit : After(i - 1) # None /\ Lax(edit[i], After(i - 1)))
          => result.status = "edit_conflict"
===============================================================================
