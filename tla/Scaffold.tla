------------------------------- MODULE Scaffold -------------------------------
(* skill-runner scaffold: the files of a feature are rendered from templates,    
   then the updates of the skill put the feature into files that are there: an   
   import, a registration behind an anchor, an export, a line of an index.  Each 
   update reads its file when its turn comes and writes it whole.  The command   
   may be killed between two writes, and the user edits between two commands.    
                                                                                 
   A file is its lines, blank ones left out.  A line is a text, what it is and   
   which feature it is of (None: the user wrote it), with its indentation, or    
   the list __all__ with its names.                                              *)
EXTENDS Naturals, Sequences, SequencesExt

CONSTANTS
  Features,       \* names, as slugs: what they derive (class, path) differs with them
  Skills,
  Updates(_, _),  \* of a skill for a feature: a sequence of records, see Segment
  Disks(_),       \* the trees a skill may find
  Inside,         \* <<a, b>>: a's line is the end of b's (PORT=, HTTP_PORT=)
  Commands,       \* [bias, bundle, mode, dry, force, complete]
  MaxMoves,       \* bound: edits by the user
  None

VARIABLES
  skill, tree,
  made,    \* <<feature, role>>: outputs on disk
  step,    \* what runs: [at, name, todo, k, mode, dry, told]
  said,    \* what the last scaffold of a feature that wrote said of its updates
  theirs,  \* the user's lines of each file
  moves

vars == <<skill, tree, made, step, said, theirs, moves>>

Idle == [at |-> "idle", name |-> None, todo |-> <<>>, k |-> 1, mode |-> None, dry |-> FALSE,
         told |-> <<>>]
Text(kind, of) == [kind |-> kind, of |-> of]
Line(text, indent) == [text |-> text, indent |-> indent, names |-> <<>>]
AllList(names) == [Line(Text("all", None), 0) EXCEPT !.names = names]
Body(t, f) == IF t[f] = None THEN <<>> ELSE t[f]
UsersLines(body) == SelectSeq(body, LAMBDA l : l.text.of = None /\ l.text.kind # "all")

-------------------------------------------------------------------------------
(* One patch of a text. *)

Outcome(body) == [body |-> body, changed |-> FALSE, found |-> FALSE, missing |-> {}]
Changed(body) == [Outcome(body) EXCEPT !.changed = TRUE]
Found(body) == [Outcome(body) EXCEPT !.found = TRUE]

\* includes(): a text counts as present inside a longer line; with an indentation only
\* at the start of one.  The file is compared trimmed.
Includes(body, text, indent) ==
  \E i \in DOMAIN body :
    \/ body[i].text = text /\ (IF i = 1 THEN 0 ELSE body[i].indent) >= indent
    \/ indent = 0 /\ body[i].text.kind = text.kind /\ <<text.of, body[i].text.of>> \in Inside

appendBlockToText(body, text) ==
  IF Includes(body, text, 0) THEN Found(body) ELSE Changed(Append(body, Line(text, 0)))
prependBlockToText(body, text) ==
  IF Includes(body, text, 0) THEN Found(body) ELSE Changed(<<Line(text, 0)>> \o body)

\* The first match of an anchor, a kind of line: 0 when there is none.
findAnchorRange(body, anchor) == SelectInSeq(body, LAMBDA l : l.text.kind = anchor)

\* "def": the line ends in a colon.
resolveAnchorIndentation(line, mode) ==
  line.indent * (IF mode \in {"anchor", "anchor_block", "auto"} THEN 1 ELSE 0)
  + (IF mode = "anchor_block" \/ (mode = "auto" /\ line.text.kind = "def") THEN 1 ELSE 0)

\* Mutant: the block is put in without a look for it.
MutNoLook(body, patch, position) ==
  LET at == findAnchorRange(body, patch.anchor) IN
  IF at = 0 THEN [Outcome(body) EXCEPT !.missing = {patch.kind}]
  ELSE Changed(InsertAt(body, at + (IF position = "before_line" THEN 0 ELSE 1),
                        Line(patch.text, resolveAnchorIndentation(body[at], patch.indent))))

insertRelativeToAnchor(body, patch, position) ==
  LET at == findAnchorRange(body, patch.anchor)
      indent == resolveAnchorIndentation(body[at], patch.indent)
  IN IF at = 0 THEN [Outcome(body) EXCEPT !.missing = {patch.kind}]
     ELSE IF Includes(body, patch.text, indent) THEN Found(body)
     ELSE Changed(InsertAt(body, at + (IF position = "before_line" THEN 0 ELSE 1),
                           Line(patch.text, indent)))

\* An import is looked for as a whole line and goes before the anchor's line, or after
\* the last import, or after the package.
insertImportStatement(body, text, anchor) ==
  LET last == SelectLastInSeq(body, LAMBDA l : l.text.kind = "import")
      package == SelectLastInSeq(body, LAMBDA l : l.text.kind = "package")
      at == findAnchorRange(body, anchor)
      after == IF at # 0 THEN at - 1 ELSE IF last # 0 THEN last ELSE package
  IN IF \E i \in DOMAIN body : body[i].text = text THEN Found(body)
     ELSE Changed(InsertAt(body, after + 1, Line(text, 0)))

\* __all__ is extended, or begun at the end.
ensurePythonAllExport(body, name) ==
  LET at == SelectInSeq(body, LAMBDA l : l.text.kind = "all") IN
  IF at = 0 THEN Changed(Append(body, AllList(<<name>>)))
  ELSE IF Contains(body[at].names, name) THEN Found(body)
  ELSE Changed([body EXCEPT ![at].names = Append(@, name)])

-------------------------------------------------------------------------------
(* One update: the segments of its primitive, each on what the one before left. *)

Composite == {"register_route", "register_provider", "patch_framework_entry"}

\* What a manifest says of one kind of text; None where it says nothing.
Segment(kind, text, strategy, anchor, indent, fallback) ==
  [kind |-> kind, text |-> text, strategy |-> strategy, anchor |-> anchor,
   indent |-> indent, fallback |-> fallback]
Or(x, default) == IF x = None THEN default ELSE x

resolvePatchStrategy(patch) ==
  Or(patch.strategy, IF patch.kind = "registration" THEN "after_anchor" ELSE "append")

\* An anchor decides over a strategy that is neither prepend nor before.
applyBasicPatch(body, patch) ==
  LET strategy == resolvePatchStrategy(patch) IN
  IF patch.kind = "import" THEN insertImportStatement(body, patch.text, patch.anchor)
  ELSE IF strategy = "prepend" THEN prependBlockToText(body, patch.text)
  ELSE IF strategy = "before_anchor" THEN insertRelativeToAnchor(body, patch, "before_line")
  ELSE IF strategy = "after_anchor" \/ patch.anchor # None
    THEN insertRelativeToAnchor(body, patch, "after_line")
  ELSE appendBlockToText(body, patch.text)

applyPatchWithFallback(body, patch) ==
  LET outcome == applyBasicPatch(body, patch) IN
  CASE outcome.missing # {} /\ patch.fallback = "append" -> appendBlockToText(body, patch.text)
    [] outcome.missing # {} /\ patch.fallback = "prepend" ->
         prependBlockToText(body, patch.text)
    [] OTHER -> outcome

\* A registration that says nothing else is appended where its anchor is missing.
normalizeSegment(u, kind) ==
  LET s == u.segments[kind] IN
  IF kind = "registration" /\ u.primitive \in Composite
    THEN [s EXCEPT !.strategy = Or(@, "after_anchor"), !.fallback = Or(@, "append"),
                   !.indent = Or(@, "auto")]
    ELSE s

mergeCompositeState(state, outcome) ==
  [body |-> outcome.body, changed |-> state.changed \/ outcome.changed,
   found |-> state.found /\ ~outcome.changed, missing |-> state.missing \cup outcome.missing]

\* The kinds a primitive looks at, in its order.
KindsOf(u) ==
  CASE u.primitive \in Composite -> <<"import", "registration", "export">>
    [] u.primitive = "ensure_module_export" -> <<"import", "export", "content">>
    [] u.primitive = "insert_registration" -> <<"registration">>
    [] u.primitive = "add_import" -> <<"import">>
    [] OTHER -> <<"content">>

applySegment(body, u, kind) ==
  IF kind = "export" /\ u.primitive = "ensure_module_export" /\ u.name # None
    THEN ensurePythonAllExport(body, u.name)
    ELSE applyPatchWithFallback(body, normalizeSegment(u, kind))

applyPrimitiveUpdate(body, u) ==
  LET given == SelectSeq(KindsOf(u), LAMBDA kind :
                 \/ u.segments[kind].text # None
                 \/ kind = "export" /\ u.name # None)
      add(state, kind) == mergeCompositeState(state, applySegment(state.body, u, kind))
  IN FoldLeft(add, Found(body), given)

\* The candidate that is there, or where a new file goes.
resolveLocator(t, u) ==
  LET there == SelectSeq(u.candidates, LAMBDA f : t[f] # None) IN
  IF there # <<>> THEN there[1]
  ELSE IF u.default # None THEN u.default
  ELSE IF u.candidates # <<>> THEN u.candidates[1] ELSE None

\* What applyActionUpdates says of an update, and what it leaves of the tree.
Skips(t, u) ==
  LET at == resolveLocator(t, u) IN at = None \/ (t[at] = None /\ (u.only \/ ~u.create))
Result(t, u, plan) ==
  LET at == resolveLocator(t, u)
      o == applyPrimitiveUpdate(Body(t, at), u)
      status == CASE at = None -> "skipped_unresolved"
                  [] at # None /\ Skips(t, u) -> "skipped_missing"
                  [] ~Skips(t, u) /\ plan ->
                       IF o.missing # {} THEN "skipped_anchor_missing"
                       ELSE IF o.changed THEN "would_apply" ELSE "already_present"
                  [] OTHER ->
                       IF o.changed THEN IF t[at] = None THEN "created" ELSE "updated"
                       ELSE IF o.missing # {} THEN "skipped_anchor_missing"
                       ELSE "already_present"
  IN [status |-> status, file |-> at, missing |-> IF Skips(t, u) THEN {} ELSE o.missing]
Updated(t, u) ==
  LET at == resolveLocator(t, u)
      o == applyPrimitiveUpdate(Body(t, at), u)
  IN IF ~Skips(t, u) /\ o.changed THEN [t EXCEPT ![at] = o.body] ELSE t

-------------------------------------------------------------------------------
(* The command. *)

resolveScaffoldPolicy(c) ==
  [bundle |-> IF c.bundle # "auto" THEN c.bundle
              ELSE CASE c.bias = "conservative" -> "minimal" [] c.bias = "accelerated" -> "full"
                     [] OTHER -> "standard",
   mode |-> IF c.mode # "auto" THEN c.mode
            ELSE IF c.bias = "conservative" THEN "plan" ELSE "apply"]

filterTemplateFiles(bundle) ==
  CASE bundle = "minimal" -> <<"primary">> [] bundle = "standard" -> <<"primary", "support">>
    [] OTHER -> <<"primary", "support", "docs">>

Init ==
  /\ skill \in Skills /\ tree \in Disks(skill)
  /\ made = {} /\ step = Idle /\ moves = 0
  /\ said = [x \in Features |-> None]
  /\ theirs = [f \in DOMAIN tree |-> UsersLines(Body(tree, f))]

\* All outputs are looked up before the first is written; a missing variable or an
\* output that is there refuses the command before it has done anything.
Begin(x, c) ==
  LET policy == resolveScaffoldPolicy(c)
      outputs == filterTemplateFiles(policy.bundle)
  IN /\ step.at = "idle" /\ c.complete
     /\ c.force \/ c.dry \/ \A i \in DOMAIN outputs : <<x, outputs[i]>> \notin made
     /\ step' = [Idle EXCEPT !.at = "outputs", !.name = x, !.mode = policy.mode, !.dry = c.dry,
                             !.todo = IF c.dry THEN <<>> ELSE outputs]
     /\ UNCHANGED <<skill, tree, made, said, theirs, moves>>

WriteOutput ==
  /\ step.at = "outputs" /\ step.todo # <<>>
  /\ made' = made \cup {<<step.name, Head(step.todo)>>}
  /\ step' = [step EXCEPT !.todo = Tail(@)]
  /\ UNCHANGED <<skill, tree, said, theirs, moves>>

Planning == step.dry \/ step.mode = "plan"
ApplyUpdate ==
  /\ step.at = "outputs" /\ step.todo = <<>> /\ step.k <= Len(Updates(skill, step.name))
  /\ LET u == Updates(skill, step.name)[step.k] IN
     /\ tree' = IF Planning \/ step.mode = "skip" THEN tree ELSE Updated(tree, u)
     /\ step' = [step EXCEPT !.k = @ + 1, !.told = Append(@,
          IF step.mode = "skip"
            THEN [Result(tree, u, Planning) EXCEPT !.status = "skipped_by_policy",
                                                        !.missing = {}]
            ELSE Result(tree, u, Planning))]
  /\ UNCHANGED <<skill, made, said, theirs, moves>>

Finish ==
  /\ step.at = "outputs" /\ step.todo = <<>> /\ step.k > Len(Updates(skill, step.name))
  /\ said' = IF Planning \/ step.mode = "skip" THEN said
             ELSE [said EXCEPT ![step.name] = step.told]
  /\ step' = Idle
  /\ UNCHANGED <<skill, tree, made, theirs, moves>>

Kill ==
  /\ step.at = "outputs" /\ step' = Idle
  /\ UNCHANGED <<skill, tree, made, said, theirs, moves>>

\* The user takes a line out, indents one, writes an anchor, or makes or removes a file.
Touched(body) == {i \in 2..Len(body) : body[i].text.kind = "app" \/ body[i].text.of # None}
Edited(body) ==
  {RemoveAt(body, i) : i \in Touched(body)}
  \cup {[body EXCEPT ![i].indent = 1 - @] : i \in Touched(body)}
  \cup {Append(body, Line(Text("app", None), 0))}
User(f) ==
  /\ step.at = "idle" /\ made # {} /\ moves < MaxMoves /\ moves' = moves + 1
  /\ \E body \in (IF tree[f] = None THEN {<<Line(Text("title", None), 0)>>}
                  ELSE Edited(tree[f]) \cup {None}) :
       /\ tree' = [tree EXCEPT ![f] = body]
       /\ theirs' = [theirs EXCEPT ![f] = UsersLines(Body(tree', f))]
  /\ said' = [x \in Features |-> None]
  /\ UNCHANGED <<skill, made, step>>

Next ==
  \/ \E x \in Features, c \in Commands : Begin(x, c)
  \/ WriteOutput \/ ApplyUpdate \/ Finish \/ Kill
  \/ \E f \in DOMAIN tree : User(f)

Spec == Init /\ [][Next]_vars

-------------------------------------------------------------------------------
\* What a result calls created, updated or present is in the file, but for the
\* segments whose anchor it reports missing.
Holds(x, k) ==
  LET u == Updates(skill, x)[k]
      r == said[x][k]
  IN r.status \in {"created", "updated", "already_present"} =>
       /\ tree[r.file] # None
       /\ \A i \in DOMAIN KindsOf(u) :
            LET kind == KindsOf(u)[i] IN
            /\ (u.segments[kind].text # None /\ kind \notin r.missing) =>
                 Includes(tree[r.file], u.segments[kind].text, 0)
            /\ (kind = "export" /\ u.name # None) =>
                 \E j \in DOMAIN tree[r.file] : Contains(tree[r.file][j].names, u.name)

\* Nothing that was generated is twice in a file.
Once(f) ==
  LET body == Body(tree, f) IN
  \A i, j \in DOMAIN body : i # j => body[i].text # body[j].text \/ body[i].text.of = None

\* Scaffolds settle, whatever is scaffolded after them, killed or repeated in between:
\* as long as the user does not edit, what a result says stays so, repeating the
\* scaffold changes nothing, no line is generated twice, and the user's lines are
\* those the user left, in their order.
ScaffoldsSettle ==
  /\ \A f \in DOMAIN tree : /\ UsersLines(Body(tree, f)) = theirs[f]
                            /\ moves = 0 => Once(f)
  /\ \A x \in Features : said[x] # None =>
       \A k \in DOMAIN said[x] : Holds(x, k) /\ Updated(tree, Updates(skill, x)[k]) = tree
===============================================================================
