------------------------------ MODULE AstRewrite ------------------------------
(* ast-rewrite rename-symbol, run again when it failed: a provider is chosen for 
   the tree, go and java may ask a language server first, the files are read and 
   written one at a time, and the footprint is held against the edit policy.  A  
   write may fail, or the command be killed, between two files.                  
                                                                                 
   The tree is one package.  A site is the occurrences of a name in a file: the  
   declaration, uses of it, or a local that shadows it; a rival declares the new 
   name.  What the indexed scopes hold is refined in GoRename and JavaRename,    
   what a server does in RenameSession.                                          *)
EXTENDS Naturals, FiniteSets

CONSTANTS
  Files,
  Asks,     \* the command lines, [provider, backend, dry, cap, forced]
  MaxRuns,  \* bound: how often the command is run
  None

VARIABLES
  site,     \* the tree: file -> [lang, kind, name]
  env,      \* the providers that can run here
  ask, runs,
  at,       \* "idle" | "write" | "check"
  left,     \* files the command has still to write
  provider,
  footprint,\* files the command counts as changed
  changed,  \* files changed since this command began
  report    \* None, "applied" or "failed": how the last command ended

vars == <<site, env, ask, runs, at, left, provider, footprint, changed, report>>

Semantic == {"typescript", "python", "go", "java"}
Kinds == {"declares", "uses", "shadows", "rival"}

Init ==
  /\ site \in [Files -> {[lang |-> l, kind |-> k, name |-> IF k = "rival" THEN "to" ELSE "from"] :
                           l \in Semantic, k \in Kinds}]
  /\ env \in {{"go", "java", "text"} \cup more : more \in SUBSET {"typescript", "python"}}
  /\ ask \in Asks
  /\ runs = 0 /\ at = "idle" /\ left = {} /\ provider = None
  /\ footprint = {} /\ changed = {} /\ report = None

-------------------------------------------------------------------------------
(* Choosing the provider. *)

FilesOf(l) == {f \in Files : site[f].lang = l}

\* resolveSemanticProviderForRename, without a file: the one language there is, or
\* the first of the four that has files and can run.
Preferred ==
  LET there == {l \in Semantic : FilesOf(l) # {}}
      able == there \cap env
  IN IF "typescript" \in able THEN "typescript"
     ELSE IF "python" \in able THEN "python"
     ELSE IF "go" \in able THEN "go"
     ELSE IF "java" \in able THEN "java" ELSE "text"

\* providerSupports: typescript asks only whether it can run.
Supports(p) == p \in {"typescript", "text"} \/ FilesOf(p) # {}

resolveProvider ==
  IF ask.provider = "auto" THEN {Preferred}
  ELSE {p \in {ask.provider} : p \in env /\ Supports(p)}

-------------------------------------------------------------------------------
(* What a provider renames. *)

Named(l, name) == {f \in FilesOf(l) : site[f].name = name}
Declares(l, name) == \E f \in Named(l, name) : site[f].kind \in {"declares", "rival"}

\* The indexed scope spares the locals that shadow the name.
IndexedTargets(l) == {f \in Named(l, "from") : site[f].kind # "shadows"}

\* Mutant: a name the tree no longer declares is nothing to rename.
MutScopeOnly(p) ==
  CASE p \in {"typescript", "python"} -> Named(p, "from")
    [] p = "text" -> UNION {Named(l, "from") : l \in Semantic}
    [] OTHER -> IF Declares(p, "from") THEN IndexedTargets(p) ELSE {}

\* Without a declaration in the tree, go and java rename every token.
renameSymbol(p) ==
  CASE p \in {"typescript", "python"} -> Named(p, "from")
    [] p = "text" -> UNION {Named(l, "from") : l \in Semantic}
    [] OTHER -> IF Declares(p, "from") THEN IndexedTargets(p) ELSE Named(p, "from")

Collides(p) == p \in {"go", "java"} /\ Declares(p, "from") /\ Declares(p, "to")

shouldAttemptLsp(p, server) ==
  /\ p \in {"go", "java"} /\ Declares(p, "from")
  /\ ask.backend \in {"lsp", "lsp-required"} \/ (ask.backend = "auto" /\ server # "absent")

Renamed(fs) == [f \in Files |-> IF f \in fs THEN [site[f] EXCEPT !.name = "to"] ELSE site[f]]

-------------------------------------------------------------------------------
(* One run of the command. *)

Starts ==
  /\ at = "idle" /\ runs < MaxRuns /\ report # "applied"
  /\ runs' = runs + 1
  /\ UNCHANGED <<env, ask>>

Fail == at' = "idle" /\ report' = "failed" /\ left' = {}

\* No provider, or the new name is taken: nothing has been written.
Refuse ==
  /\ Starts
  /\ \/ resolveProvider = {} /\ provider' = None
     \/ \E p \in resolveProvider : Collides(p) /\ provider' = p
  /\ Fail /\ changed' = {} /\ footprint' = {}
  /\ UNCHANGED site

\* The provider's own edits, file by file.
Own(p, tree, done) ==
  /\ provider' = p /\ site' = tree /\ changed' = done /\ report' = None
  /\ footprint' = {f \in renameSymbol(p) : tree[f].name = "from"}
  /\ left' = IF ask.dry THEN {} ELSE footprint'
  /\ at' = IF left' = {} THEN "check" ELSE "write"

Begin == Starts /\ \E p \in resolveProvider :
  ~Collides(p) /\ ~shouldAttemptLsp(p, "absent") /\ Own(p, site, {})

\* The server renames all there is to rename.
ServerRenames == Starts /\ \E p \in resolveProvider :
  /\ ~Collides(p) /\ shouldAttemptLsp(p, "works")
  /\ provider' = p /\ at' = "check" /\ left' = {} /\ report' = None
  /\ footprint' = IndexedTargets(p)
  /\ changed' = IF ask.dry THEN {} ELSE footprint'
  /\ site' = Renamed(changed')

\* The attempt fails, some of the edits perhaps made: an error when the server is
\* required, otherwise the provider's own edits to what is left.
ServerFails == Starts /\ \E p \in resolveProvider : \E done \in SUBSET IndexedTargets(p) :
  /\ ~Collides(p) /\ shouldAttemptLsp(p, "fails")
  /\ ask.dry => done = {}
  /\ IF ask.backend = "lsp-required"
     THEN Fail /\ provider' = p /\ changed' = done /\ footprint' = {} /\ site' = Renamed(done)
     ELSE Own(p, Renamed(done), done)

WriteFile == \E f \in left :
  /\ at = "write"
  /\ site' = Renamed({f}) /\ changed' = changed \cup {f}
  /\ left' = left \ {f}
  /\ at' = IF left' = {} THEN "check" ELSE "write"
  /\ UNCHANGED <<env, ask, runs, provider, footprint, report>>

\* The write throws, or the command is killed.
WriteFails ==
  /\ at = "write" /\ Fail
  /\ UNCHANGED <<site, env, ask, runs, provider, footprint, changed>>

assertEditFootprintAllowed ==
  ask.dry \/ ask.forced \/ ask.cap = 0 \/ Cardinality(footprint) <= ask.cap

Check ==
  /\ at = "check" /\ at' = "idle" /\ left' = {}
  /\ report' = IF assertEditFootprintAllowed THEN "applied" ELSE "failed"
  /\ UNCHANGED <<site, env, ask, runs, provider, footprint, changed>>

Next == Refuse \/ Begin \/ ServerRenames \/ ServerFails \/ WriteFile \/ WriteFails \/ Check

Spec == Init /\ [][Next]_vars

-------------------------------------------------------------------------------
(* Properties. *)

\* A rename that stopped half way is finished by giving the command again: when a run
\* reports APPLIED, no file of the provider's languages declares or uses the old name,
\* whatever earlier runs, or a server before the fallback, had left of it.
RetryFinishes ==
  (report = "applied" /\ ~ask.dry) =>
    \A f \in Files : (site[f].lang = provider \/ provider = "text")
                       => (site[f].kind = "shadows" \/ site[f].name = "to")
===============================================================================
