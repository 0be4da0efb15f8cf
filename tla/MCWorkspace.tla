----------------------------- MODULE MCWorkspace -----------------------------
(* The components that read and write the files of a project, one of which is   
   chosen at the start and runs while the others stay out of it: their          
   variables are None.                                                          *)
EXTENDS Ecosystem, Naturals, Sequences, FiniteSets, TLC

CONSTANTS
  Parts,                                              \* the components to choose from
  Branches, Contents, MaxCommits, MaxTaken,           \* of Snapshots
  Features, Slug, HistoryWindow, PatternWindow, MaxActs,    \* of FeatureRun: names of features
  Sources, Asks, MaxRuns,                             \* of AstRewrite: files, command lines
  Shipped, Versions, Ships, Places,                   \* of Installation
  GoProjects, JavaProjects,                           \* of GoRename and JavaRename
  gov, node, main, c1, f, g, fx,
  fa, fb, fc, p, q, lib, fn, oldName, newName, x1, x2, x3, v1, v2, plan, ship

\* The windows of the project memory hold something, a command line of ast-rewrite
\* says whether it is a dry run, and the marks are marks.
ASSUME WorkspaceAssumption ==
  /\ HistoryWindow \in Nat \ {0} /\ PatternWindow \in Nat \ {0}
  /\ \A x \in Asks : x.dry \in BOOLEAN
  /\ Ships \in [Versions -> SUBSET Shipped]
  /\ None \notin {"eoc", "shim", "torn", "user", "installed", "uninstalled", "applied"}

\* What a project is, to the indexed renames.  Of Go: an occurrence is no name, is at the
\* top level or in a function, and a package declares a name, and a function its own, once.
\* (init, which a package may declare again, is no name anything uses, and is left out.)
\* Of Java: files say what they hold, and types are named with their package.
ASSUME RefusalsAssumption ==
  oldName # newName /\ None \notin {"ambiguous", "collision", "local collision"}
ASSUME GoProjectsAssumption == \A P \in GoProjects :
  /\ \A o \in P :
       /\ o.name \notin P /\ o.fn # "top" /\ o.seen \in BOOLEAN
       /\ \/ o.role = "decl" /\ o.fn = None
          \/ o.role = "method" /\ o.fn = None /\ o.where # "top"
          \/ o.role = "bind" /\ o.fn # None /\ o.where \in {"outer", "inner"}
          \/ o.role = "use" /\ o.where \in {"outer", "inner", "field", "foreign"}
  /\ \A a, b \in P :
       \/ a.role = "decl" /\ b.role = "decl" /\ a.pk = b.pk
            /\ (a.name = b.name \/ (a.where = b.where /\ a.where # "top"))
       \/ a.role = "bind" /\ b.role = "bind" /\ a.pk = b.pk /\ a.fn = b.fn
            /\ a.where = b.where /\ a.name = b.name
       => a = b
ASSUME JavaProjectsAssumption ==
  \A P \in JavaProjects : \A x \in DOMAIN P :
    /\ DOMAIN P[x] = {"pk", "types", "single", "demand", "full", "uses"} /\ P[x].pk # None
    /\ \A t \in P[x].single \cup P[x].full : t = <<t[1], t[2]>>

VARIABLES
  part,
  git, safety, cmd, taken, meddled,
  files, arts, memory, job, fate, acts,
  edit, disk, dryRun, result,
  project, at, renamed, refusal,
  site, env, ask, runs, phase, left, provider, footprint, changed, report,
  place, assets, config, scripts, pc, version, todo, done,
  skill, tree, made, step, said, theirs, moves

ecosystemVars == <<file, seen, mode, settled>>
snapshotVars == <<git, safety, cmd, taken, meddled>>
featureVars == <<files, arts, memory, job, fate, acts>>
editVars == <<edit, disk, dryRun, result>>
renameVars == <<project, at, renamed, refusal>>
rewriteVars == <<site, env, ask, runs, phase, left, provider, footprint, changed, report>>
installVars == <<place, assets, config, scripts, pc, version, todo, done>>
scaffoldVars == <<skill, tree, made, step, said, theirs, moves>>
allVars == <<part, ecosystemVars, snapshotVars, featureVars, editVars, renameVars,
             rewriteVars, installVars, scaffoldVars>>

------------------------------------------------------------------------------
(* The instances. *)

\* Two bundles, one typing error, one preset that has both bundles.
MCRequires == [x \in Bundles |-> {}]
MCPresets == [team |-> Bundles]

S == INSTANCE Snapshots

F == INSTANCE FeatureRun WITH Names <- Features

ASSUME MemoryAssumption == None \notin F!Memories

\* A name in kebab case is its own slug.
ASSUME SlugAssumption ==
  Slug \in [Features -> Features] /\ \A n \in Features : Slug[Slug[n]] = Slug[n]

\* Of the features one has another spelling.
MCSlug == [n \in Features |-> IF n = fx THEN f ELSE n]

\* Up to three items about two paths, with every mode of a file operation.
Item(kind, path) == [kind |-> kind, path |-> path, target |-> path, force |-> FALSE,
                     lenient |-> FALSE, spans |-> <<>>]
InModes(item) == {item, [item EXCEPT !.force = TRUE], [item EXCEPT !.lenient = TRUE]}
Span(from, to, text) == [from |-> from, to |-> to, new |-> text]
SpanLists == {<<Span(0, 1, <<"x">>)>>,
              <<Span(1, 1, <<"y">>), Span(0, 1, <<>>), Span(1, 1, <<"z">>)>>,
              <<Span(0, 2, <<"w">>), Span(1, 2, <<>>)>>}
Items == UNION {InModes(Item("create", x)) : x \in {fa, fb}}
         \cup UNION {InModes([Item("rename", x[1]) EXCEPT !.target = x[2]]) : x \in {<<fa, fb>>, <<fb, fa>>}}
         \cup UNION {{Item("delete", x), [Item("delete", x) EXCEPT !.lenient = TRUE]} : x \in {fa, fb}}
         \cup {[Item("text", x) EXCEPT !.spans = spans] : x \in {fa, fb}, spans \in SpanLists}
\* The paths are alike: the first item is about the first.
EditsOf(n) == {items \in [1..n -> Items] : n = 0 \/ items[1].path = fa}
MCDisks == [{fa, fb} -> {None, <<"k", "l">>}]

W == INSTANCE WorkspaceEdit WITH Files <- {fa, fb}, Scope <- {fa, fb}, MaxFiles <- 0,
       MaxNodes <- 4, Asked <- EditsOf, Disks <- MCDisks, MaxItems <- 3

\* A package with a function fn, a method m, and another package, in all their
\* occurrences, at most one of which is what spelling does not tell.
Occurrence(pk, function, role, where, name) ==
  [pk |-> pk, fn |-> function, role |-> role, where |-> where, name |-> name, seen |-> role # "use"]
Told ==
  {Occurrence(p, None, "decl", "top", n) : n \in {oldName, newName}}
  \cup {Occurrence(p, None, "decl", fn, oldName), Occurrence(q, None, "decl", "top", oldName)}
  \cup {Occurrence(p, fn, "bind", w, n) : w \in {"outer", "inner"}, n \in {oldName, newName}}
  \cup {Occurrence(p, fn, "use", w, n) : w \in {"outer", "inner"}, n \in {oldName, newName}}
  \cup {Occurrence(q, fn, "use", "outer", oldName)}
Untold ==
  {Occurrence(p, fn, "use", "field", oldName), Occurrence(q, fn, "use", "foreign", oldName)}
  \cup {Occurrence(p, None, "method", "m", n) : n \in {oldName, newName}}
  \cup {[o EXCEPT !.seen = FALSE] : o \in {d \in Told : d.role # "use" /\ d.pk = p}}
OnceDeclared(P) ==
  \A a, b \in P :
    /\ a.role = "decl" /\ b.role = "decl" /\ a.pk = b.pk /\ a.name = b.name => a = b
    /\ a.role = "bind" /\ b = [a EXCEPT !.seen = b.seen] => a = b
MCGoProjects ==
  {P \in {told \cup untold : told \in SUBSET Told, untold \in {{}} \cup {{o} : o \in Untold}} : OnceDeclared(P)}

G == INSTANCE GoRename WITH From <- oldName, To <- newName, Projects <- GoProjects

\* The declaring file, one of its package, and one of another package.
JavaFile(pk, types, single, demand, full, uses) ==
  [pk |-> pk, types |-> types, single |-> single, demand |-> demand, full |-> full, uses |-> uses]
MCJavaProjects ==
  {(fa :> x) @@ (fb :> y) @@ (fc :> z) :
     x \in {JavaFile(p, types, {}, {}, {}, uses) : types \in {{oldName}, {oldName, newName}}, uses \in {{}, {oldName}}},
     y \in {JavaFile(p, types, single, {}, {}, uses) :
              types \in {{}, {newName}, {oldName}}, single \in SUBSET {<<lib, oldName>>, <<lib, newName>>},
              uses \in SUBSET {oldName, newName}},
     z \in {JavaFile(q, types, single, demand, full, uses) :
              types \in {{}, {oldName}}, single \in SUBSET {<<p, oldName>>, <<lib, newName>>},
              demand \in SUBSET {p}, full \in SUBSET {<<p, oldName>>}, uses \in SUBSET {oldName, newName}}}

J == INSTANCE JavaRename WITH From <- oldName, To <- newName, Projects <- JavaProjects,
       result <- renamed

Ask(name, backend, dry, cap) ==
  [provider |-> name, backend |-> backend, dry |-> dry, cap |-> cap, forced |-> FALSE]
MCAsks == {Ask("auto", backend, FALSE, cap) : backend \in {"auto", "lsp-required"}, cap \in {0, 1}}
          \cup {Ask("go", "auto", FALSE, 0), Ask("go", "indexed", FALSE, 0), Ask("text", "auto", TRUE, 1)}

A == INSTANCE AstRewrite WITH Files <- Sources, at <- phase

\* The second version ships one name more.
MCShips == (v1 :> {plan}) @@ (v2 :> {plan, ship})

I == INSTANCE Installation WITH Names <- Shipped, Broken <- Torn

\* Four skills whose updates are those of the shipped ones: a package's exports and its
\* application entry, a go router and an index of documents, two lines of configuration,
\* an entry with an export that no anchor may be there for.
Written(kind, indent) ==
  [text |-> [kind |-> kind, of |-> None], indent |-> indent, names |-> <<>>]
Said(kind, text, strategy, anchor, indent, fallback) ==
  kind :> [kind |-> kind, text |-> text, strategy |-> strategy, anchor |-> anchor,
           indent |-> indent, fallback |-> fallback]
Unsaid == Said("import", None, None, None, None, None) @@ Said("export", None, None, None, None, None)
          @@ Said("registration", None, None, None, None, None)
          @@ Said("content", None, None, None, None, None)
Update(primitive, candidates, create, segments) ==
  [primitive |-> primitive, candidates |-> candidates, default |-> candidates[1],
   create |-> create, only |-> ~create, name |-> None, segments |-> segments @@ Unsaid]
Content(x) == Said("content", [kind |-> "block", of |-> x], None, None, None, None)
Import(x) == Said("import", [kind |-> "import", of |-> x], None, None, None, None)
Registration(x, indent) ==
  Said("registration", [kind |-> "register", of |-> x], "after_anchor", "app", indent, "append")
SkillUpdates(s, x) ==
  CASE s = "fastapi" ->
         <<[Update("ensure_module_export", <<"__init__.py">>, FALSE, Import(x)) EXCEPT !.name = x],
           Update("patch_framework_entry", <<"main.py">>, FALSE, Import(x) @@ Registration(x, None))>>
    [] s = "handler" ->
         <<Update("ensure_block", <<"docs/http/index.md", "docs/api/index.md">>, TRUE, Content(x)),
           Update("register_route", <<"routes.go">>, FALSE, Registration(x, "anchor_block"))>>
    [] s = "config" ->
         <<Update("ensure_line", <<".env.example">>, TRUE, Content(x)),
           Update("ensure_line", <<"index.ts">>, FALSE, Content(x))>>
    [] s = "express" ->
         <<Update("patch_framework_entry", <<"app.ts">>, FALSE, Import(x) @@ Registration(x, None)
             @@ Said("export", [kind |-> "export", of |-> x], "before_anchor", "build", None, None))>>
Listed == [Written("all", 0) EXCEPT !.names = <<"old">>]
SkillDisks(s) ==
  CASE s = "fastapi" ->
         {("__init__.py" :> <<Listed>>) @@ ("main.py" :> <<Written("import", 0), Written("app", 0)>>),
          ("__init__.py" :> <<>>)
            @@ ("main.py" :> <<Written("import", 0), Written("def", 0), Written("app", 1)>>)}
    [] s = "handler" ->
         {("docs/http/index.md" :> None) @@ ("docs/api/index.md" :> <<Written("title", 0)>>)
            @@ ("routes.go" :> <<Written("package", 0), Written("app", 0), Written("end", 0)>>)}
    [] s = "config" ->
         {(".env.example" :> None) @@ ("index.ts" :> <<>>), (".env.example" :> <<>>) @@ ("index.ts" :> None)}
    [] s = "express" ->
         {"app.ts" :> (<<Written("import", 0), Written("app", 0)>> \o build) :
            build \in {<<>>, <<Written("build", 0)>>}}
Asked(bias, how) ==
  [bias |-> bias, bundle |-> "auto", mode |-> how, dry |-> FALSE, force |-> FALSE, complete |-> TRUE]
ScaffoldCommands ==
  {Asked("balanced", "auto"), [Asked("balanced", "auto") EXCEPT !.force = TRUE],
   Asked("conservative", "auto"), [Asked("accelerated", "skip") EXCEPT !.dry = TRUE]}

\* g's line ends with f's.
K == INSTANCE Scaffold WITH Features <- {f, g}, Skills <- {"fastapi", "handler", "config", "express"},
       Updates <- SkillUpdates, Disks <- SkillDisks, Inside <- {<<f, g>>},
       Commands <- ScaffoldCommands, MaxMoves <- 1

------------------------------------------------------------------------------
NoEcosystem == file = None /\ seen = None /\ mode = None /\ settled = None
NoSnapshots == git = None /\ safety = None /\ cmd = S!Idle /\ taken = None /\ meddled = None
NoFeature == /\ files = None /\ arts = None
             /\ memory = None /\ job = None /\ fate = None /\ acts = None
NoEdit == edit = None /\ disk = None /\ dryRun = None /\ result = None
NoRename == project = None /\ at = None /\ renamed = None /\ refusal = None
NoRewrite == /\ site = None /\ env = None /\ ask = None /\ runs = None /\ phase = None
             /\ left = None /\ provider = None /\ footprint = None /\ changed = None
             /\ report = None
NoInstall == /\ place = None /\ assets = None /\ config = None /\ scripts = None
             /\ pc = None /\ version = None /\ todo = None /\ done = None
NoScaffold == /\ skill = None /\ tree = None /\ made = None /\ step = None
              /\ said = None /\ theirs = None /\ moves = None

\* Branches, contents, features and the files of a rewrite are alike: of the states
\* that differ in their names one is enough.
Rank(x) ==
  4 * (CASE x.lang = "typescript" -> 0 [] x.lang = "python" -> 1 [] x.lang = "go" -> 2 [] OTHER -> 3)
  + (CASE x.kind = "declares" -> 0 [] x.kind = "uses" -> 1 [] x.kind = "shadows" -> 2 [] OTHER -> 3)
Sorted(sites) == Rank(sites[x1]) <= Rank(sites[x2]) /\ Rank(sites[x2]) <= Rank(sites[x3])
FirstOnF ==
  acts = 0 /\ acts' = 1 =>
    (job' # F!Idle => job'.name \in {f, fx}) /\ \A m \in F!Modules : <<g, m>> \notin files'

MCInit ==
  /\ part \in Parts
  /\ IF part = "ecosystem" THEN Init ELSE NoEcosystem
  /\ IF part = "snapshots" THEN S!Init /\ git.branch = main /\ git.file = c1 ELSE NoSnapshots
  /\ IF part = "feature" THEN F!Init ELSE NoFeature
  /\ IF part = "edit" THEN W!Init ELSE NoEdit
  /\ CASE part = "go" -> G!Init [] part = "java" -> J!Init [] OTHER -> NoRename
  /\ IF part = "rewrite" THEN A!Init /\ Sorted(site) ELSE NoRewrite
  /\ IF part = "install" THEN I!Init ELSE NoInstall
  /\ IF part = "scaffold" THEN K!Init ELSE NoScaffold

Only(others) == UNCHANGED <<part, others>>

MCNext ==
  \/ /\ part = "ecosystem" /\ Next
     /\ Only(<<snapshotVars, featureVars, editVars, renameVars, rewriteVars, installVars, scaffoldVars>>)
  \/ /\ part = "snapshots" /\ S!Next
     /\ Only(<<ecosystemVars, featureVars, editVars, renameVars, rewriteVars, installVars, scaffoldVars>>)
  \/ /\ part = "feature" /\ F!Next /\ FirstOnF
     /\ Only(<<ecosystemVars, snapshotVars, editVars, renameVars, rewriteVars, installVars, scaffoldVars>>)
  \/ /\ part = "edit" /\ W!Next
     /\ Only(<<ecosystemVars, snapshotVars, featureVars, renameVars, rewriteVars, installVars, scaffoldVars>>)
  \/ /\ part = "go" /\ G!Next
     /\ Only(<<ecosystemVars, snapshotVars, featureVars, editVars, rewriteVars, installVars, scaffoldVars>>)
  \/ /\ part = "java" /\ J!Next
     /\ Only(<<ecosystemVars, snapshotVars, featureVars, editVars, rewriteVars, installVars, scaffoldVars>>)
  \/ /\ part = "rewrite" /\ A!Next
     /\ Only(<<ecosystemVars, snapshotVars, featureVars, editVars, renameVars, installVars, scaffoldVars>>)
  \/ /\ part = "install" /\ I!Next
     /\ Only(<<ecosystemVars, snapshotVars, featureVars, editVars, renameVars, rewriteVars,
               scaffoldVars>>)
  \/ /\ part = "scaffold" /\ K!Next
     /\ Only(<<ecosystemVars, snapshotVars, featureVars, editVars, renameVars, rewriteVars,
               installVars>>)

MCSpec == MCInit /\ [][MCNext]_allVars
------------------------------------------------------------------------------
\* What a command records it has done, and what was recorded is kept: a rollback that
\* records itself has put its branch, and no other, on the snapshot's commit with
\* nothing left to commit, and no command forgets a failure pattern by writing back a
\* memory read too early.
RecordsAreTrue == S!RollbackIsExact /\ F!PatternsAreKept

\* What the program says is so: a snapshot called ready can be rolled back to and takes
\* nothing, a plan is not resumed over a target that has changed, and a feature is not
\* accepted while the history holds the failure of its last verification.
ReportsAreTrue ==
  CASE part = "snapshots" -> S!ReadyIsReversible /\ S!TargetDriftIsSeen
    [] part = "feature" -> F!FailureIsNotAccepted
    [] OTHER -> TRUE

\* An indexed rename of Go that is not refused renames what means the name, and one of a
\* Java type leaves every file referring to what it did.
IndexedRenamesAreExact ==
  CASE part = "go" -> G!RenameIsExact [] part = "java" -> J!TypeRenameIsExact [] OTHER -> TRUE

\* A rename that stopped half way is finished by giving the command again.
RetryFinishes == part = "rewrite" => A!RetryFinishes

\* An installation or an uninstall that ends has done all of its work.
CommandsFinishTheJob == part = "install" => I!CommandsFinishTheJob

\* A workspace edit is applied to the letter or not at all; and scaffolds settle: what one
\* says it put into a file stays there, once, and repeating it changes nothing, as long as
\* the user does not edit.
EditsAreExact ==
  CASE part = "edit" -> W!EditIsExact [] part = "scaffold" -> K!ScaffoldsSettle [] OTHER -> TRUE
==============================================================================
