------------------------------- MODULE GoRename -------------------------------
(* The indexed rename of the Go provider, used when no language server is.
   It finds the identifiers of a package by their spelling, takes a name that
   a function is seen to bind anywhere in it for local in the whole of it, and
   renames the rest.  What it sees are the places its patterns match.

   A project is the set of its occurrences of names outside comments and
   strings.  An occurrence has pk, the package; fn, the function it is in,
   None at the top level; role; where; name; and seen, whether a pattern takes
   it for a name declared there.
     "decl"    declares a name of the package; where is the function it is the
               name of, if any.  Seen: not a name of a grouped type, or of a
               constant without a type or a value of its own, or a generic
               function's.
     "method"  is a method's name where it is declared, where being the
               method.  Seen, as if it were the package's.
     "bind"    declares a name of a function, in its outermost block or as a
               parameter or a result ("outer"), or in a block inside ("inner").
               Seen: parameters that have a type of their own, but of a channel
               that only receives; names before :=; and the first after var or
               const.  Not the earlier names of a list with one type, results,
               the later names of a var, those of a group, local types,
               parameters of a function literal, anything in a generic function.
     "use"     is in the outermost block ("outer"), in the block inside
               ("inner"), of a field or a method ("field"), or of a package or
               a declaration of another one ("foreign"), these two after a dot,
               in a type or a literal, or in a clause of the file.  Not seen.    *)
EXTENDS Naturals, FiniteSets

CONSTANTS
  From, To,   \* the two names: renamed, and given
  Projects,   \* the projects considered
  None

VARIABLES
  project,
  at,      \* the occurrence rename-at was pointed to; None: rename-symbol
  renamed, \* the occurrences that now read To; None before the command has run
  refusal  \* why the command refused, None if it did not

vars == <<project, at, renamed, refusal>>

Packages == {o.pk : o \in project}
Named(name) == {o \in project : o.name = name}
InFunction(o, x) == o.pk = x.pk /\ o.fn = x.fn /\ o.fn # None

\* extractGoTopLevelDeclarations of the files of a package.
topLevelDeclarations(pk) ==
  {o.name : o \in {d \in project : d.pk = pk /\ d.seen /\ d.role \in {"decl", "method"}}}

\* extractGoSignatureBindings and extractGoLocalBindings.
localNames(x) == {o.name : o \in {b \in project : InFunction(b, x) /\ b.role = "bind" /\ b.seen}}

\* Mutant: every occurrence in the package, whatever a function binds.
MutWholePackage(pk) == {o \in Named(From) : o.pk = pk}

\* collectGoRenameTargets for a package: what a function binds is left to it.
PackageTargets(pk) == {o \in Named(From) : o.pk = pk /\ From \notin localNames(o)}
\* For a function: its whole text, its own name included.
FunctionTargets(x) ==
  {o \in Named(From) :
     InFunction(o, x) \/ (o.pk = x.pk /\ o.role \in {"decl", "method"} /\ o.where = x.fn)}

Finish(targets, why) ==
  /\ renamed = None
  /\ renamed' = targets /\ refusal' = why
  /\ UNCHANGED <<project, at>>

-------------------------------------------------------------------------------
(* rename-symbol: the package seen to declare the name; if none is, every file,   
   identifier by identifier.                                                      *)

Declaring == {pk \in Packages : From \in topLevelDeclarations(pk)}

\* buildGoRenameSymbolScope and applyGoIndexedRename.
renameSymbol ==
  /\ at = None
  /\ \/ Declaring = {} /\ Finish(Named(From), None)
     \/ Cardinality(Declaring) > 1 /\ Finish({}, "ambiguous")
     \/ \E pk \in Packages :
          /\ Declaring = {pk}
          /\ IF To \in topLevelDeclarations(pk) THEN Finish({}, "collision")
             ELSE Finish(PackageTargets(pk), None)

(* rename-at: the function when it is seen to bind the name, else the package, whether or   
   not the package declares it.                                                   *)

renameAt ==
  /\ at # None
  /\ IF From \in localNames(at)
     THEN IF To \in localNames(at) THEN Finish({}, "local collision")
          ELSE Finish(FunctionTargets(at), None)
     ELSE IF To \in topLevelDeclarations(at.pk) THEN Finish({}, "collision")
          ELSE Finish(PackageTargets(at.pk), None)

-------------------------------------------------------------------------------
Init ==
  /\ project \in Projects
  /\ at \in {None} \cup Named(From)
  /\ renamed = None /\ refusal = None

Next == renameSymbol \/ renameAt
Spec == Init /\ [][Next]_vars

-------------------------------------------------------------------------------
(* What Go says a use means. *)

\* The occurrences a use may mean, nearest scope first, when those in R read To.
Reads(o, R) == IF o \in R THEN To ELSE o.name
Candidates(u, R) == {o \in project : o.role \in {"decl", "bind"} /\ Reads(o, R) = Reads(u, R)}
Bound(u, R, wheres) == {o \in Candidates(u, R) : InFunction(o, u) /\ o.where \in wheres}
Declared(u, R, same) == {o \in Candidates(u, R) : o.role = "decl" /\ (o.pk = u.pk) = same}

Found(u, R) ==
  LET inner == IF u.where = "inner" THEN Bound(u, R, {"inner"}) ELSE {}
      outer == Bound(u, R, {"outer"})
  IN CASE u.where = "field" -> {}
       [] u.where = "foreign" -> Declared(u, R, FALSE)
       [] OTHER -> IF inner # {} THEN inner ELSE IF outer # {} THEN outer ELSE Declared(u, R, TRUE)

\* A name that nothing in the project declares means itself.
Meaning(u, R) == IF Found(u, R) = {} THEN {Reads(u, R)} ELSE Found(u, R)

Uses == {o \in project : o.role = "use"}

\* The declarations the command is to rename, and all that means one of them.
Target ==
  IF at = None THEN {o \in Named(From) : o.role = "decl"}
  ELSE IF at.role = "use" THEN Meaning(at, {}) \cap project ELSE {at}

Meant == Target \cup {u \in Uses : Meaning(u, {}) \cap Target # {}}

\* What spelling does not tell of a function: that the old name is a method's, a field's
\* or another package's; that no pattern sees it declared, or the new one beside it; that
\* it is bound in one block and means something else outside it; that the new name is
\* taken there; that the function has the name of what it binds.
Unseen(x) ==
  LET here == {o \in project : o.pk = x.pk /\ o.fn = x.fn}
      old == here \cap Named(From)
  IN \/ \E o \in old : o.role = "method" \/ o.where \in {"field", "foreign"} \/ (o.role # "use" /\ ~o.seen)
     \/ \E a, b \in old : a.role = "bind" /\ a \notin (IF b.role = "use" THEN Meaning(b, {}) ELSE {b})
     \/ \E o \in here \cap Named(To) :
          \/ o.role = "use"
          \/ old # {} /\ (~o.seen \/ (o.role = "bind" /\ From \notin localNames(x)))
     \/ x.fn # None /\ From \in localNames(x) /\ \E o \in Named(From) : o.pk = x.pk /\ o.where = x.fn

\* A rename that is not refused renames the declaration, each use that means it and
\* nothing else, and changes the meaning of no use, in every project where spelling
\* tells the names of a function apart, whose declarations of the two names the patterns
\* see; and one that would choose between packages, or give a package or a function the
\* same name twice, is refused, where both declarations are seen.  (A name that no package
\* is seen to declare has no such promise: rename-symbol rewrites it everywhere.  Nor has
\* one of an unseen binding: the rename of a package's a rewrites a parameter a of
\* func f(a, b int).)
RenameIsExact ==
  renamed # None /\ Target # {} /\ (at = None => Declaring # {}) =>
    /\ refusal # None => renamed = {}
    /\ at = None /\ refusal = None => \A pk, pk2 \in Declaring : pk = pk2
    /\ \A a, b \in project :
         /\ a # b /\ a.pk = b.pk /\ a.fn = b.fn /\ a.where = b.where
         /\ a.role = b.role /\ a.role \in {"decl", "bind"} /\ a.seen /\ b.seen
         => Reads(a, renamed) # Reads(b, renamed)
    /\ refusal = None /\ (\A o \in project : ~Unseen(o)) =>
         /\ renamed = Meant
         /\ \A u \in Uses : Meaning(u, renamed) = Meaning(u, {})
===============================================================================
