------------------------------ MODULE JavaRename ------------------------------
(* The indexed rename of a type by the Java provider, used when no language       
   server is.  The type is found by its name in the whole project; the files      
   that may refer to it are found by their package, their imports and their       
   text; in those every identifier of that spelling is renamed, whatever it       
   means there, except in a method that has a local of that name.                 
                                                                                  
   A file has pk, its package; types, which it declares; single, the types its    
   single-type imports name; demand, the packages it imports on demand; full, the 
   types it names with their package; and uses, the simple names it uses as types.
   A type is <<package, name>>.                                                   *)
EXTENDS Naturals, FiniteSets

CONSTANTS
  From, To,   \* the two names
  Projects,   \* functions from files to what they hold
  None

VARIABLES
  project,
  at,      \* the file of rename-at, pointed to the declaration; None: rename-symbol
  result,  \* the project afterwards, None before the command has run
  refusal  \* why the command refused, None if it did not

vars == <<project, at, result, refusal>>

Paths == DOMAIN project

\* buildJavaProjectGraph.
declarations == UNION {{[path |-> f, type |-> <<project[f].pk, n>>] : n \in project[f].types} : f \in Paths}

\* What buildJavaTypeRenameScope has to choose from.
Matches ==
  LET named == {d \in declarations : d.type[2] = From}
      preferred == {d \in named : d.path = at}
  IN IF preferred # {} THEN preferred ELSE named

Collides(d) == \E e \in declarations : e.type = <<d.type[1], To>>

RelevantFiles(d) ==
  {f \in Paths : \/ f = d.path
                 \/ project[f].pk = d.type[1]
                 \/ d.type \in project[f].single \cup project[f].full}

New(n) == IF n = From THEN To ELSE n

\* collectJavaRenameTargets and applyIdentifierEdits, the import lines included.
Rewritten(file) ==
  [file EXCEPT !.types = {New(n) : n \in @}, !.uses = {New(n) : n \in @},
               !.single = {<<t[1], New(t[2])>> : t \in @},
               !.full = {<<t[1], New(t[2])>> : t \in @}]

Finish(project2, why) ==
  result' = project2 /\ refusal' = why /\ UNCHANGED <<project, at>>

\* Without a declaration rename-symbol rewrites every file.
applyJavaIndexedRename ==
  /\ result = None
  /\ \/ /\ Matches = {} /\ at = None
        /\ Finish([f \in Paths |-> Rewritten(project[f])], None)
     \/ Cardinality(Matches) > 1 /\ Finish(project, "ambiguous")
     \/ \E d \in Matches :
          /\ Matches = {d}
          /\ IF Collides(d) THEN Finish(project, "collision")
             ELSE Finish([f \in Paths |-> IF f \in RelevantFiles(d) THEN Rewritten(project[f])
                                          ELSE project[f]], None)

Init ==
  /\ project \in Projects
  /\ at \in {None} \cup {f \in Paths : From \in project[f].types}
  /\ result = None /\ refusal = None

Next == applyJavaIndexedRename
Spec == Init /\ [][Next]_vars

-------------------------------------------------------------------------------
(* What Java says a simple name means in a file: the type the file declares or    
   imports by name, else its package's, else one imported on demand, else one     
   that no file of the project declares.                                          *)

Declares(P, pk, n) == \E f \in Paths : P[f].pk = pk /\ n \in P[f].types

\* The types a file declares, or imports by name.
Known(P, f) == {<<P[f].pk, n>> : n \in P[f].types} \cup P[f].single

Here(P, f, n) == {t \in Known(P, f) : t[2] = n}
OfPackage(P, f, n) == IF Declares(P, P[f].pk, n) THEN {<<P[f].pk, n>>} ELSE {}
OnDemand(P, f, n) == {<<pk, n>> : pk \in {pk \in P[f].demand : Declares(P, pk, n)}}

Meaning(P, f, n) ==
  IF Here(P, f, n) # {} THEN Here(P, f, n) ELSE IF OfPackage(P, f, n) # {} THEN OfPackage(P, f, n)
  ELSE IF OnDemand(P, f, n) # {} THEN OnDemand(P, f, n) ELSE {<<None, n>>}

\* The types a file refers to, in whichever way.
Refers(P, f) == P[f].single \cup P[f].full \cup UNION {Meaning(P, f, n) : n \in P[f].uses}

\* What the selection of files and the spelling miss: a file of another package that
\* has the type from an on-demand import; a file that is rewritten and means something
\* else by the old name; a file that knows another type by the new name.
Unseen(d, f) ==
  \/ d.type[1] \in project[f].demand /\ d.type \notin project[f].single \cup project[f].full
  \/ \E t \in Refers(project, f) \cup {<<project[f].pk, n>> : n \in project[f].types} :
       t[2] = To \/ (t[2] = From /\ t # d.type)

\* A rename that is not refused leaves every file referring to the types it referred
\* to, the renamed one under its new name; and one that would choose between two types,
\* or give a package two types of one name, is refused with nothing changed.
TypeRenameIsExact ==
  result # None =>
    /\ refusal # None => result = project
    /\ \A d \in Matches :
         /\ refusal = None => ~Collides(d) /\ Matches = {d}
         /\ refusal = None /\ (\A f \in Paths : ~Unseen(d, f)) =>
              \A f \in Paths :
                Refers(result, f) = {IF t = d.type THEN <<t[1], To>> ELSE t : t \in Refers(project, f)}
===============================================================================
