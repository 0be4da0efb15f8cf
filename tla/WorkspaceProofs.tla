-------------------------- MODULE WorkspaceProofs --------------------------
(* What is proved about the components MCWorkspace composes, for every value
   of their constants: installing and uninstalling, the rewrites a failed
   command leaves, snapshots and rollbacks, the project memory of features,
   the ecosystem file, and the indexed renames of Go and Java.                 *)
EXTENDS MCWorkspace, FiniteSetTheorems, TLAPS

------------------------------------------------------------------------------
(* Installing and uninstalling.                                                *)

Scripts == {None, "user", "shim", "torn"}

\* What a version wants of the configuration is there.
Configured ==
  /\ Ships[version] \subseteq config.listed
  /\ \A n \in Ships[version] : config.entry[n] = "eoc"

\* What a command has done when it is at a step: the steps that follow do not undo it,
\* whatever is killed starts over, and the user only writes while none runs.
InstallInv ==
  /\ scripts \in [Shipped -> Scripts]
  /\ pc \in {"idle", "copy", "merge", "shims", "unshim", "clean"}
  /\ pc # "idle" => done = None
  /\ pc \in {"copy", "merge", "shims"} => version \in Versions
  /\ pc \in {"merge", "shims"} => assets = version
  /\ pc = "shims" => Configured /\ \A n \in Ships[version] \ todo : scripts[n] # None
  /\ pc = "unshim" => I!Shims \subseteq todo
  /\ pc = "clean" => assets = None /\ I!Shims = {}
  /\ I!CommandsFinishTheJob

LEMMA InstallStarts == I!Init => InstallInv
BY WorkspaceAssumption DEF I!Init, InstallInv, Scripts, I!CommandsFinishTheJob, I!Shims

\* The configuration written holds all the version wants.
LEMMA MergeConfigures ==
  ASSUME NEW c, NEW v \in Versions, config' = I!mergeConfig(c, v), UNCHANGED version, version = v
  PROVE  Configured'
<1>1. Ships[v] \subseteq Shipped
  BY WorkspaceAssumption
<1> QED BY <1>1 DEF Configured, I!mergeConfig

LEMMA CommandsFinishStep == InstallInv /\ [I!Next]_installVars => InstallInv'
<1> SUFFICES ASSUME InstallInv, [I!Next]_installVars PROVE InstallInv'
  OBVIOUS
<1> USE DEF InstallInv, Scripts
<1>1. CASE I!StartInstall
  BY <1>1, WorkspaceAssumption DEF I!StartInstall, I!CommandsFinishTheJob
<1>2. CASE I!CopyAssets
  BY <1>2, WorkspaceAssumption DEF I!CopyAssets, I!CommandsFinishTheJob
<1>3. CASE I!WriteConfig
  <2>1. Configured'
    BY <1>3, MergeConfigures DEF I!WriteConfig
  <2>2. CASE place = "project"
    BY <1>3, <2>1, <2>2, WorkspaceAssumption DEF I!WriteConfig, I!CommandsFinishTheJob
  <2>3. CASE place # "project"
    <3>1. done' = "installed" /\ pc' = "idle" /\ UNCHANGED <<place, scripts, version, assets>>
      BY <1>3, <2>3 DEF I!WriteConfig
    <3>2. assets = version
      BY <1>3 DEF I!WriteConfig
    <3>3. I!CommandsFinishTheJob'
      BY <2>1, <2>3, <3>1, <3>2 DEF I!CommandsFinishTheJob, Configured
    <3> QED BY <3>1, <3>3
  <2> QED BY <2>2, <2>3
<1>4. ASSUME NEW n \in Shipped, I!WriteShim(n) PROVE InstallInv'
  <2>1. Configured'
    BY <1>4 DEF I!WriteShim, Configured
  <2>2. scripts' \in [Shipped -> Scripts]
    BY <1>4 DEF I!WriteShim
  <2>3. \A x \in Ships[version] \ todo' : scripts'[x] # None
    <3>1. Ships[version] \subseteq Shipped
      BY <1>4, WorkspaceAssumption DEF I!WriteShim
    <3> QED BY <1>4, <3>1, WorkspaceAssumption DEF I!WriteShim
  <2> QED BY <1>4, <2>1, <2>2, <2>3, WorkspaceAssumption DEF I!WriteShim, I!CommandsFinishTheJob
<1>5. CASE I!EndInstall
  BY <1>5, WorkspaceAssumption DEF I!EndInstall, I!CommandsFinishTheJob, Configured
<1>6. CASE I!StartUninstall
  BY <1>6, WorkspaceAssumption DEF I!StartUninstall, I!CommandsFinishTheJob, I!Shims
<1>7. ASSUME NEW n \in Shipped, I!RemoveShim(n) PROVE InstallInv'
  <2>1. I!Shims' \subseteq todo'
    BY <1>7, WorkspaceAssumption DEF I!RemoveShim, I!Shims
  <2> QED BY <1>7, <2>1, WorkspaceAssumption DEF I!RemoveShim, I!CommandsFinishTheJob
<1>8. CASE I!RemoveAssets
  BY <1>8, WorkspaceAssumption DEF I!RemoveAssets, I!CommandsFinishTheJob, I!Shims
<1>9. CASE I!CleanConfig
  <2>1. assets' = None /\ I!Shims' = {} /\ pc' = "idle" /\ done' = "uninstalled"
    BY <1>9 DEF I!CleanConfig, I!Shims
  <2>2. I!Readable(config') => config' = I!cleanConfig(config)
    BY <1>9 DEF I!CleanConfig, I!Readable
  <2>3. I!Readable(config') =>
          /\ config'.listed = {} /\ config'.default # "eoc"
          /\ \A n \in Shipped : config'.entry[n] # "eoc"
    BY <2>2, WorkspaceAssumption DEF I!cleanConfig
  <2>4. I!CommandsFinishTheJob'
    BY <2>1, <2>3 DEF I!CommandsFinishTheJob
  <2> QED BY <1>9, <2>1, <2>4 DEF I!CleanConfig
<1>10. CASE I!Killed
  BY <1>10, WorkspaceAssumption DEF I!Killed, I!CommandsFinishTheJob
<1>11. CASE I!UserWrites
  BY <1>11, WorkspaceAssumption DEF I!UserWrites, I!CommandsFinishTheJob
<1>12. CASE UNCHANGED installVars
  BY <1>12 DEF installVars, I!CommandsFinishTheJob, I!Shims, Configured
<1> QED BY <1>1, <1>2, <1>3, <1>4, <1>5, <1>6, <1>7, <1>8, <1>9, <1>10, <1>11, <1>12 DEF I!Next

\* An uninstall that ends has left nothing, an installation that ends has left all
\* its version ships, whatever was killed before, for every set of versions, names
\* and places.
THEOREM CommandsFinishTheJobHolds == MCSpec => []CommandsFinishTheJob
<1> DEFINE Inv == part = "install" => InstallInv
<1>1. MCInit => Inv
  BY InstallStarts DEF MCInit
<1>2. Inv /\ [MCNext]_allVars => Inv'
  <2> SUFFICES ASSUME Inv, [MCNext]_allVars, part' = "install" PROVE InstallInv'
    OBVIOUS
  <2>1. part = "install" /\ InstallInv
    BY DEF MCNext, Only, allVars
  <2>2. [I!Next]_installVars
    BY <2>1 DEF MCNext, Only, allVars
  <2> QED BY <2>1, <2>2, CommandsFinishStep
<1>3. Inv => CommandsFinishTheJob
  BY DEF InstallInv, CommandsFinishTheJob
<1> QED BY <1>1, <1>2, <1>3, PTL DEF MCSpec

------------------------------------------------------------------------------
(* Rewrites.                                                                   *)

Tree == [Sources -> [lang : A!Semantic, kind : A!Kinds, name : {"from", "to"}]]

\* Nothing the provider is to rename has the old name, but files it has still to write.
OnlyLeft(fs) ==
  \A x \in Sources : /\ site[x].lang = provider \/ provider = "text"
                     /\ site[x].kind # "shadows" /\ site[x].name = "from"
                     => x \in fs

\* A command that has begun keeps what it has still to write.
RewriteInv ==
  /\ site \in Tree
  /\ phase \in {"idle", "write", "check"}
  /\ ask \in Asks
  /\ phase = "write" => report = None
  /\ phase = "write" /\ ~ask.dry => OnlyLeft(left)
  /\ (phase = "check" \/ report = "applied") /\ ~ask.dry => OnlyLeft({})

LEMMA RewriteStarts == A!Init => RewriteInv
BY WorkspaceAssumption DEF A!Init, RewriteInv, Tree, A!Kinds, A!Semantic

\* Renaming keeps a tree a tree, and changes names only.
LEMMA RenamedTree ==
  ASSUME site \in Tree, NEW fs
  PROVE  /\ A!Renamed(fs) \in Tree
         /\ \A x \in Sources : /\ A!Renamed(fs)[x].lang = site[x].lang
                               /\ A!Renamed(fs)[x].kind = site[x].kind
                               /\ A!Renamed(fs)[x].name = IF x \in fs THEN "to" ELSE site[x].name
BY DEF A!Renamed, Tree

\* Whichever provider renames, all it is to rename is in its scope.
LEMMA ScopeIsWhole ==
  ASSUME site \in Tree, NEW pr, NEW x \in Sources, site[x].lang = pr \/ pr = "text",
         site[x].kind # "shadows", site[x].name = "from"
  PROVE  x \in A!renameSymbol(pr)
<1>1. CASE pr = "text"
  <2>1. site[x].lang \in A!Semantic
    BY DEF Tree
  <2>2. x \in A!Named(site[x].lang, "from")
    BY DEF A!Named, A!FilesOf
  <2>3. A!renameSymbol(pr) = UNION {A!Named(l, "from") : l \in A!Semantic}
    BY <1>1 DEF A!renameSymbol
  <2> QED BY <2>1, <2>2, <2>3
<1>2. CASE pr # "text"
  BY <1>2 DEF A!renameSymbol, A!IndexedTargets, A!Named, A!FilesOf
<1> QED BY <1>1, <1>2

\* The provider's own edits, from a tree some of whose files a server may have renamed.
LEMMA OwnKeeps ==
  ASSUME RewriteInv, NEW pr, NEW renamedTo, NEW fs, A!Own(pr, renamedTo, fs), UNCHANGED ask,
         renamedTo \in Tree, \A x \in Sources : /\ renamedTo[x].lang = site[x].lang
                                           /\ renamedTo[x].kind = site[x].kind
                                           /\ renamedTo[x].name \in {site[x].name, "to"}
  PROVE  RewriteInv'
<1>1. site' = renamedTo /\ provider' = pr /\ report' = None
  BY DEF A!Own
<1>2. phase' \in {"write", "check"} /\ (phase' = "check" <=> left' = {})
  BY DEF A!Own
<1>3. ASSUME ~ask.dry PROVE OnlyLeft(left)'
  <2> SUFFICES ASSUME NEW x \in Sources, renamedTo[x].lang = pr \/ pr = "text",
                      renamedTo[x].kind # "shadows", renamedTo[x].name = "from"
               PROVE  x \in left'
    BY <1>1 DEF OnlyLeft
  <2>1. site[x].name = "from"
    BY DEF RewriteInv, Tree
  <2>2. x \in A!renameSymbol(pr)
    BY <2>1, ScopeIsWhole DEF RewriteInv
  <2> QED BY <1>3, <2>2 DEF A!Own
<1>4. phase' = "check" /\ ~ask.dry => OnlyLeft({})'
  BY <1>2, <1>3 DEF OnlyLeft
<1>5. report' # "applied"
  BY <1>1, WorkspaceAssumption
<1> QED BY <1>1, <1>2, <1>3, <1>4, <1>5 DEF RewriteInv

LEMMA RetryFinishesStep == RewriteInv /\ [A!Next]_rewriteVars => RewriteInv'
<1> SUFFICES ASSUME RewriteInv, [A!Next]_rewriteVars PROVE RewriteInv'
  OBVIOUS
<1>1. CASE A!Refuse
  BY <1>1 DEF A!Refuse, A!Starts, A!Fail, RewriteInv
<1>2. CASE A!Begin
  <2>1. PICK pr : A!Own(pr, site, {})
    BY <1>2 DEF A!Begin
  <2> QED BY <1>2, <2>1, OwnKeeps DEF A!Begin, A!Starts, RewriteInv
<1>3. CASE A!ServerRenames
  <2>1. PICK pr : /\ pr \in {"go", "java"}
                  /\ provider' = pr /\ phase' = "check" /\ report' = None
                  /\ ~ask.dry => site' = A!Renamed(A!IndexedTargets(pr))
                  /\ ask.dry => site' = A!Renamed({})
    BY <1>3 DEF A!ServerRenames, A!shouldAttemptLsp
  <2>2. site' \in Tree /\ ask' = ask
    BY <1>3, <2>1, RenamedTree DEF A!ServerRenames, A!Starts, RewriteInv
  <2>3. ASSUME ~ask.dry PROVE OnlyLeft({})'
    <3> SUFFICES ASSUME NEW x \in Sources, site'[x].lang = pr, site'[x].kind # "shadows",
                        site'[x].name = "from"
                 PROVE  FALSE
      BY <2>1 DEF OnlyLeft
    <3>1. /\ site'[x].lang = site[x].lang /\ site'[x].kind = site[x].kind
          /\ site'[x].name = IF x \in A!IndexedTargets(pr) THEN "to" ELSE site[x].name
      BY <2>1, <2>3, RenamedTree DEF RewriteInv
    <3> QED BY <3>1 DEF A!IndexedTargets, A!Named, A!FilesOf
  <2>4. report' # "applied"
    BY <2>1, WorkspaceAssumption
  <2> QED BY <2>1, <2>2, <2>3, <2>4 DEF RewriteInv
<1>4. CASE A!ServerFails
  <2>1. PICK pr, fs : IF ask.backend = "lsp-required"
                      THEN A!Fail /\ site' = A!Renamed(fs)
                      ELSE A!Own(pr, A!Renamed(fs), fs)
    BY <1>4 DEF A!ServerFails
  <2>2. ask' = ask
    BY <1>4 DEF A!ServerFails, A!Starts
  <2>3. CASE ask.backend = "lsp-required"
    <3>1. site' \in Tree
      BY <2>1, <2>3, RenamedTree DEF RewriteInv
    <3> QED BY <2>1, <2>2, <2>3, <3>1 DEF A!Fail, RewriteInv
  <2>4. CASE ask.backend # "lsp-required"
    BY <2>1, <2>2, <2>4, RenamedTree, OwnKeeps DEF RewriteInv
  <2> QED BY <2>3, <2>4
<1>5. CASE A!WriteFile
  <2>1. PICK x \in left : /\ site' = A!Renamed({x}) /\ left' = left \ {x}
                          /\ phase' = IF left' = {} THEN "check" ELSE "write"
    BY <1>5 DEF A!WriteFile
  <2>2. phase = "write" /\ UNCHANGED <<ask, provider, report>>
    BY <1>5 DEF A!WriteFile
  <2>3. site' \in Tree
    BY <2>1, RenamedTree DEF RewriteInv
  <2>4. ASSUME ~ask.dry PROVE OnlyLeft(left)'
    BY <2>1, <2>2, <2>4, RenamedTree DEF RewriteInv, OnlyLeft
  <2>5. phase' = "check" => left' = {}
    BY <2>1
  <2>6. report' # "applied"
    BY <2>2, WorkspaceAssumption DEF RewriteInv
  <2> QED BY <2>1, <2>2, <2>3, <2>4, <2>5, <2>6 DEF RewriteInv, OnlyLeft
<1>6. CASE A!WriteFails
  BY <1>6 DEF A!WriteFails, A!Fail, RewriteInv
<1>7. CASE A!Check
  BY <1>7 DEF A!Check, RewriteInv, OnlyLeft
<1>8. CASE UNCHANGED rewriteVars
  BY <1>8 DEF rewriteVars, RewriteInv, OnlyLeft
<1> QED BY <1>1, <1>2, <1>3, <1>4, <1>5, <1>6, <1>7, <1>8 DEF A!Next

\* A rename that stopped half way is finished by giving the command again, for every
\* tree, every command line, and however often it is run.
THEOREM RetryFinishesHolds == MCSpec => []RetryFinishes
<1> DEFINE Inv == part = "rewrite" => RewriteInv
<1>1. MCInit => Inv
  BY RewriteStarts DEF MCInit
<1>2. Inv /\ [MCNext]_allVars => Inv'
  <2> SUFFICES ASSUME Inv, [MCNext]_allVars, part' = "rewrite" PROVE RewriteInv'
    OBVIOUS
  <2>1. part = "rewrite" /\ RewriteInv
    BY DEF MCNext, Only, allVars
  <2>2. [A!Next]_rewriteVars
    BY <2>1 DEF MCNext, Only, allVars
  <2> QED BY <2>1, <2>2, RetryFinishesStep
<1>3. Inv => RetryFinishes
  <2> SUFFICES ASSUME RewriteInv, report = "applied", ~ask.dry, NEW x \in Sources,
                      site[x].lang = provider \/ provider = "text"
               PROVE  site[x].kind = "shadows" \/ site[x].name = "to"
    BY DEF RetryFinishes, A!RetryFinishes
  <2>1. OnlyLeft({}) /\ site[x].name \in {"from", "to"}
    BY DEF RewriteInv, Tree
  <2> QED BY <2>1 DEF OnlyLeft
<1> QED BY <1>1, <1>2, <1>3, PTL DEF MCSpec

------------------------------------------------------------------------------
(* Snapshots, rollbacks and the plans that link them.                          *)

Commits == DOMAIN git.log

Saved == [id : Nat, status : {"ready"}, branch : Branches, head : Commits]

\* The steps of a command between two of its writes.
Working ==
  \/ cmd = S!Idle
  \/ cmd \in [at : {"save", "point"}, after : {"plan", "idle"}, snapshot : Saved]
  \/ cmd \in [at : {"plan"}, id : Nat \cup {None}]
  \/ cmd \in [at : {"reset", "clean", "record"}, snapshot : Saved, force : BOOLEAN,
              before : [Branches -> Nat]]

Repositories ==
  [repo : BOOLEAN, ignored : BOOLEAN, branch : Branches, log : Seq(Contents \cup {None}),
   heads : [Branches -> Nat], file : Contents \cup {None}, extra : BOOLEAN]

RepositoryOK ==
  /\ git \in Repositories /\ git.log # <<>>
  /\ \A b \in Branches : git.heads[b] \in Commits

\* Before the reset no head has moved; after it the snapshot's branch is on its commit.
RollbackOK ==
  /\ cmd.at \in {"reset", "clean", "record"} => git.repo
  /\ ~meddled =>
       /\ cmd.at = "reset" => git.heads = cmd.before
                              /\ (cmd.force \/ cmd.snapshot.branch = git.branch)
       /\ cmd.at \in {"clean", "record"} =>
            /\ S!Tip(git) = cmd.snapshot.head /\ git.file = git.log[S!Tip(git)]
            /\ \A b \in Branches : git.heads[b] # cmd.before[b] =>
                                     cmd.force \/ b = cmd.snapshot.branch
       /\ cmd.at = "record" => ~git.extra

\* A commit never changes: a baseline recorded clean is still what its commit holds.
BaselineOK ==
  safety.plan # None =>
    LET base == safety.plan.baseline
    IN base.repo /\ ~base.dirty => /\ git.repo
                                   /\ base.head \in Commits
                                   /\ git.log[base.head] = base.target

SnapshotInv ==
  /\ RepositoryOK /\ Working /\ taken \in Nat
  /\ safety.snapshots \subseteq Saved
  /\ safety = [snapshots |-> safety.snapshots, latest |-> safety.latest, plan |-> safety.plan,
               rolled |-> safety.rolled]
  /\ RollbackOK /\ BaselineOK

\* What the repository's history keeps of what refers to it.
LEMMA LongerHistory ==
  ASSUME RepositoryOK, RepositoryOK', Working, safety.snapshots \subseteq Saved, BaselineOK,
         UNCHANGED <<safety, cmd>>, git'.repo = git.repo,
         \A i \in Commits : i \in Commits' /\ git'.log[i] = git.log[i]
  PROVE  Working' /\ (safety.snapshots \subseteq Saved)' /\ BaselineOK'
<1>1. Saved \subseteq Saved'
  BY DEF Saved
<1> QED BY <1>1 DEF Working, BaselineOK

LEMMA SnapshotsStart == S!Init => SnapshotInv
<1> SUFFICES ASSUME S!Init PROVE SnapshotInv
  OBVIOUS
<1>1. PICK repo, ignored \in BOOLEAN, c \in Contents, b \in Branches :
        git = [repo |-> repo, ignored |-> ignored, branch |-> b, log |-> <<c>>,
               heads |-> [x \in Branches |-> 1], file |-> c, extra |-> FALSE]
  BY DEF S!Init
<1>2. RepositoryOK
  BY <1>1 DEF RepositoryOK, Repositories, Commits
<1> QED BY <1>2 DEF S!Init, SnapshotInv, Working, RollbackOK, BaselineOK, S!Idle

LEMMA LoadedIsSaved ==
  ASSUME NEW id, S!loadSnapshot(id) # None
  PROVE  S!loadSnapshot(id) \in safety.snapshots
BY DEF S!loadSnapshot

\* A command's own writes.
LEMMA CommandKeeps == SnapshotInv /\ S!Command => SnapshotInv'
<1> SUFFICES ASSUME SnapshotInv, S!Command PROVE SnapshotInv'
  OBVIOUS
<1> USE DEF SnapshotInv
<1>1. ASSUME NEW allowDirty \in BOOLEAN, NEW forPlan \in BOOLEAN,
             S!createSnapshot(allowDirty, forPlan)
      PROVE  SnapshotInv'
  <2> DEFINE state == S!getGitRepoState(git)
             status == S!SnapshotStatus(state, allowDirty)
             after == IF forPlan THEN "plan" ELSE "idle"
  <2>1. UNCHANGED <<git, safety, meddled>> /\ taken' = taken + 1
    BY <1>1 DEF S!createSnapshot
  <2>2. status = "ready" => state.branch \in Branches /\ state.head \in Commits
    BY DEF S!SnapshotStatus, S!getGitRepoState, S!Tip, RepositoryOK, Repositories
  <2>3. after \in {"plan", "idle"}
    OBVIOUS
  <2>4. cmd' = IF status = "ready"
               THEN [at |-> "save", after |-> after,
                     snapshot |-> [id |-> taken + 1, status |-> status,
                                   branch |-> state.branch, head |-> state.head]]
               ELSE S!Then(after, taken + 1)
    BY <1>1 DEF S!createSnapshot
  <2> HIDE DEF state, status, after
  <2>5. Working' /\ cmd'.at \in {"save", "plan", "idle"}
    <3>1. CASE status = "ready"
      <4>1. [id |-> taken + 1, status |-> status, branch |-> state.branch,
             head |-> state.head] \in Saved'
        BY <2>1, <2>2, <3>1 DEF Saved, Commits
      <4> QED BY <2>1, <2>3, <2>4, <3>1, <4>1 DEF Working
    <3>2. CASE status # "ready"
      BY <2>1, <2>4, <3>2 DEF Working, S!Then, S!Idle
    <3> QED BY <3>1, <3>2
  <2> QED BY <2>1, <2>5 DEF RepositoryOK, Repositories, Commits, RollbackOK, BaselineOK, Saved
<1>2. ASSUME NEW id \in {None} \cup 1..taken, NEW force \in BOOLEAN, S!rollbackSnapshot(id, force)
      PROVE  SnapshotInv'
  <2> DEFINE s == S!loadSnapshot(id)
  <2>1. s # None /\ git.repo /\ (s.branch = git.branch \/ force)
    BY <1>2 DEF S!rollbackSnapshot, S!RollbackAllowed
  <2>2. s \in Saved
    BY <2>1, LoadedIsSaved
  <2>3. /\ cmd' = [at |-> "reset", snapshot |-> s, force |-> force, before |-> git.heads]
        /\ UNCHANGED <<git, safety, taken>>
    BY <1>2 DEF S!rollbackSnapshot
  <2> HIDE DEF s
  <2>4. git.heads \in [Branches -> Nat]
    BY DEF RepositoryOK, Repositories, Commits
  <2> QED BY <2>1, <2>2, <2>3, <2>4 DEF RepositoryOK, Repositories, Commits, Working, RollbackOK, BaselineOK, Saved
<1>3. CASE S!SaveSnapshot
  <2>1. cmd.snapshot \in Saved
    BY <1>3 DEF S!SaveSnapshot, Working, S!Idle
  <2>2. /\ UNCHANGED <<git, taken, meddled>>
        /\ safety'.snapshots = safety.snapshots \cup {cmd.snapshot} /\ safety'.plan = safety.plan
        /\ safety' = [snapshots |-> safety'.snapshots, latest |-> safety'.latest,
                      plan |-> safety'.plan, rolled |-> safety'.rolled]
    BY <1>3 DEF S!SaveSnapshot
  <2>3. Working' /\ cmd'.at = "point"
    BY <1>3, <2>2 DEF S!SaveSnapshot, Working, S!Idle, Saved, Commits
  <2> QED BY <2>1, <2>2, <2>3 DEF RepositoryOK, Repositories, Commits, RollbackOK, BaselineOK, Saved
<1>4. CASE S!writeLatestSnapshot
  <2>1. /\ UNCHANGED <<git, taken, meddled>>
        /\ safety'.snapshots = safety.snapshots /\ safety'.plan = safety.plan
        /\ safety' = [snapshots |-> safety'.snapshots, latest |-> safety'.latest,
                      plan |-> safety'.plan, rolled |-> safety'.rolled]
    BY <1>4 DEF S!writeLatestSnapshot
  <2>2. cmd.snapshot.id \in Nat
    BY <1>4 DEF S!writeLatestSnapshot, Working, S!Idle, Saved
  <2>3. cmd' = [at |-> "plan", id |-> cmd.snapshot.id] \/ cmd' = S!Idle
    BY <1>4 DEF S!writeLatestSnapshot, S!Then
  <2>4. Working' /\ cmd'.at \in {"plan", "idle"}
    BY <2>2, <2>3 DEF Working, S!Idle
  <2> QED BY <2>1, <2>4 DEF RepositoryOK, Repositories, Commits, RollbackOK, BaselineOK, Saved
<1>5. CASE S!NoSnapshot
  BY <1>5 DEF S!NoSnapshot, RepositoryOK, Repositories, Commits, Working, RollbackOK, BaselineOK, Saved
<1>6. CASE S!WritePlan
  <2>1. BaselineOK'
    <3>1. safety'.plan.baseline = S!getGitRepoState(git) /\ git' = git
      BY <1>6 DEF S!WritePlan
    <3>2. S!Tip(git) \in Commits
      BY DEF S!Tip, RepositoryOK, Repositories
    <3> QED BY <3>1, <3>2 DEF BaselineOK, S!getGitRepoState, S!Dirty, RepositoryOK, Repositories, Commits
  <2> QED BY <1>6, <2>1 DEF S!WritePlan, S!Idle, RepositoryOK, Repositories, Commits, Working, RollbackOK, Saved
<1>7. CASE S!Reset
  <2>1. cmd.snapshot \in Saved /\ cmd.at = "reset"
    BY <1>7 DEF S!Reset, Working, S!Idle
  <2>2. /\ git'.repo = git.repo /\ git'.log = git.log /\ git'.branch = git.branch
        /\ git'.extra = git.extra /\ git'.heads = [git.heads EXCEPT ![git.branch] = cmd.snapshot.head]
        /\ git'.file = git.log[cmd.snapshot.head]
    BY <1>7 DEF S!Reset, S!ResetTo, RepositoryOK, Repositories
  <2>3. RepositoryOK'
    <3>1. git.log[cmd.snapshot.head] \in Contents \cup {None} /\ cmd.snapshot.head \in Nat
      BY <2>1 DEF RepositoryOK, Repositories, Commits, Saved
    <3>2. git' \in Repositories
      BY <1>7, <3>1 DEF S!Reset, S!ResetTo, RepositoryOK, Repositories
    <3> QED BY <2>1, <2>2, <3>2 DEF RepositoryOK, Repositories, Commits, Saved
  <2>4. RollbackOK'
    BY <1>7, <2>1, <2>2 DEF S!Reset, RollbackOK, S!Tip, RepositoryOK, Repositories, Working, S!Idle
  <2>5. Working'
    BY <1>7, <2>1, <2>2 DEF S!Reset, Working, S!Idle, Saved, Commits
  <2> QED BY <1>7, <2>2, <2>3, <2>4, <2>5 DEF S!Reset, BaselineOK, Saved, Commits
<1>8. CASE S!Clean
  <2>1. /\ git'.repo = git.repo /\ git'.log = git.log /\ git'.branch = git.branch
        /\ git'.heads = git.heads /\ git'.file = git.file /\ git'.extra = FALSE
    BY <1>8 DEF S!Clean, RepositoryOK, Repositories
  <2>2. RepositoryOK'
    BY <1>8, <2>1 DEF S!Clean, RepositoryOK, Repositories, Commits
  <2>3. /\ safety'.snapshots \subseteq safety.snapshots /\ safety'.plan \in {safety.plan, None}
        /\ safety' = [snapshots |-> safety'.snapshots, latest |-> safety'.latest,
                      plan |-> safety'.plan, rolled |-> safety'.rolled]
    BY <1>8 DEF S!Clean, S!Wiped
  <2>4. Working' /\ RollbackOK'
    BY <1>8, <2>1 DEF S!Clean, Working, RollbackOK, S!Idle, S!Tip, Saved, Commits
  <2>5. BaselineOK'
    BY <2>1, <2>3 DEF BaselineOK, Commits
  <2> QED BY <1>8, <2>1, <2>2, <2>3, <2>4, <2>5 DEF S!Clean, Saved, Commits
<1>9. CASE S!RecordRollback
  BY <1>9 DEF S!RecordRollback, S!Idle, RepositoryOK, Repositories, Commits, Working, RollbackOK, BaselineOK, Saved
<1> QED BY <1>1, <1>2, <1>3, <1>4, <1>5, <1>6, <1>7, <1>8, <1>9 DEF S!Command

\* What the user and git do meanwhile.
LEMMA MeddlingKeeps ==
  ASSUME SnapshotInv, NEW after, S!Meddle(after), RepositoryOK', git'.repo = git.repo,
         \A i \in Commits : i \in Commits' /\ git'.log[i] = git.log[i]
  PROVE  SnapshotInv'
<1>1. UNCHANGED <<safety, cmd, taken>> /\ meddled' = TRUE
  BY DEF S!Meddle
<1>2. Working' /\ (safety.snapshots \subseteq Saved)' /\ BaselineOK'
  BY <1>1, LongerHistory DEF SnapshotInv
<1>3. RollbackOK'
  BY <1>1 DEF SnapshotInv, RollbackOK
<1> QED BY <1>1, <1>2, <1>3 DEF SnapshotInv

LEMMA UserKeeps == SnapshotInv /\ S!User => SnapshotInv'
<1> SUFFICES ASSUME SnapshotInv, S!User PROVE SnapshotInv'
  OBVIOUS
<1> USE DEF RepositoryOK, Repositories, Commits
<1>1. CASE S!Edit
  <2>1. PICK c \in Contents \cup {None} : S!Meddle([git EXCEPT !.file = c])
    BY <1>1 DEF S!Edit
  <2>2. git' = [git EXCEPT !.file = c]
    BY <2>1 DEF S!Meddle
  <2>3. git' \in Repositories /\ git'.log = git.log /\ git'.heads = git.heads /\ git'.repo = git.repo
    BY <2>2 DEF SnapshotInv
  <2> QED BY <2>1, <2>3, MeddlingKeeps DEF SnapshotInv
<1>2. CASE S!AddFile
  BY <1>2, MeddlingKeeps DEF S!AddFile, S!Meddle, SnapshotInv
<1>3. CASE S!Commit
  <2> DEFINE after == [git EXCEPT !.log = Append(@, git.file), !.extra = FALSE,
                                  !.heads[git.branch] = Len(git.log) + 1]
  <2>1. S!Meddle(after) /\ git' = after
    BY <1>3 DEF S!Commit, S!Meddle
  <2>2. /\ after.log = Append(git.log, git.file) /\ after.repo = git.repo
        /\ after.heads = [git.heads EXCEPT ![git.branch] = Len(git.log) + 1]
    BY DEF SnapshotInv
  <2>3. /\ after.log \in Seq(Contents \cup {None}) /\ after.log # <<>>
        /\ Len(after.log) = Len(git.log) + 1
        /\ \A i \in 1..Len(git.log) : after.log[i] = git.log[i]
    BY <2>2 DEF SnapshotInv
  <2>4. /\ 1..Len(git.log) \subseteq 1..Len(after.log) /\ Len(git.log) + 1 \in 1..Len(after.log)
        /\ DOMAIN git.log = 1..Len(git.log) /\ DOMAIN after.log = 1..Len(after.log)
    BY <2>3 DEF SnapshotInv
  <2>5. after \in Repositories
    <3>1. Append(git.log, git.file) \in Seq(Contents \cup {None}) /\ Len(git.log) + 1 \in Nat
      BY DEF SnapshotInv
    <3>2. [git.heads EXCEPT ![git.branch] = Len(git.log) + 1] \in [Branches -> Nat]
      BY <3>1 DEF SnapshotInv
    <3> QED BY <3>1, <3>2 DEF SnapshotInv
  <2> HIDE DEF after
  <2>6. RepositoryOK'
    BY <2>1, <2>2, <2>3, <2>4, <2>5 DEF SnapshotInv
  <2>7. \A i \in Commits : i \in Commits' /\ git'.log[i] = git.log[i]
    BY <2>1, <2>3, <2>4
  <2> QED BY <2>1, <2>2, <2>6, <2>7, MeddlingKeeps
<1>4. CASE S!Checkout
  <2>1. PICK b \in Branches : S!Meddle([git EXCEPT !.branch = b, !.file = git.log[git.heads[b]]])
    BY <1>4 DEF S!Checkout
  <2>2. git.log[git.heads[b]] \in Contents \cup {None}
    BY DEF SnapshotInv
  <2> QED BY <2>1, <2>2, MeddlingKeeps DEF S!Meddle, SnapshotInv
<1> QED BY <1>1, <1>2, <1>3, <1>4 DEF S!User

LEMMA SnapshotStep == SnapshotInv /\ [S!Next]_snapshotVars => SnapshotInv'
<1> SUFFICES ASSUME SnapshotInv, [S!Next]_snapshotVars PROVE SnapshotInv'
  OBVIOUS
<1>1. CASE S!Abort
  BY <1>1 DEF S!Abort, SnapshotInv, S!Idle, RepositoryOK, Repositories, Commits, Working, RollbackOK,
              BaselineOK, Saved
<1>2. CASE UNCHANGED snapshotVars
  BY <1>2 DEF snapshotVars, SnapshotInv, RepositoryOK, Repositories, Commits, Working, RollbackOK,
              BaselineOK, Saved, S!Tip, S!Idle
<1> QED BY <1>1, <1>2, CommandKeeps, UserKeeps DEF S!Next

\* A snapshot called ready can be rolled back to, and the rollback takes nothing.
LEMMA ReadyReverses == SnapshotInv => S!ReadyIsReversible
<1> SUFFICES ASSUME SnapshotInv, S!assessSnapshotReadiness = "ready"
             PROVE  /\ S!RollbackAllowed(S!loadSnapshot(safety.latest), FALSE)
                    /\ S!ResetTo(git, S!loadSnapshot(None).head) = git /\ ~git.extra
  BY DEF S!ReadyIsReversible
<1> DEFINE s == S!loadSnapshot(None)
           now == S!getGitRepoState(git)
<1>1. s # None /\ now.repo /\ ~now.dirty /\ s.head = now.head /\ s.branch = now.branch
  BY DEF S!assessSnapshotReadiness
<1>2. S!loadSnapshot(safety.latest) = s
  BY DEF S!loadSnapshot
<1>3. s \in Saved
  BY <1>1, LoadedIsSaved DEF SnapshotInv
<1> HIDE DEF s
<1>4. git.repo /\ ~S!Dirty(git) /\ s.head = S!Tip(git) /\ s.branch = git.branch
  BY <1>1 DEF S!getGitRepoState
<1>5. S!RollbackAllowed(s, FALSE)
  BY <1>1, <1>3, <1>4 DEF S!RollbackAllowed, Saved
<1>6. ~git.extra /\ git.file = git.log[s.head] /\ git.heads[git.branch] = s.head
  BY <1>4 DEF S!Dirty, S!Tip, SnapshotInv, RepositoryOK, Repositories
<1>7. S!ResetTo(git, s.head) = git
  <2>1. [git.heads EXCEPT ![git.branch] = s.head] = git.heads
    BY <1>6 DEF SnapshotInv, RepositoryOK, Repositories
  <2> QED BY <1>6, <2>1 DEF S!ResetTo, SnapshotInv, RepositoryOK, Repositories
<1> QED BY <1>2, <1>5, <1>6, <1>7 DEF s

\* A target that moved away from a clean baseline costs at least 25 points.
LEMMA DriftIsSeen == SnapshotInv => S!TargetDriftIsSeen
<1> DEFINE base == safety.plan.baseline
           now == S!getGitRepoState(git)
           Points(n, drifted) == IF drifted THEN n ELSE 0
<1> SUFFICES ASSUME SnapshotInv, safety.plan # None, base.repo, ~base.dirty, base.target # None,
                    git.file # base.target
             PROVE  S!ConfidenceScore(base, now) < 80
  BY DEF S!TargetDriftIsSeen, S!diffRepoState
<1>1. git.repo /\ base.head \in Commits /\ git.log[base.head] = base.target
  BY DEF SnapshotInv, BaselineOK
<1>2. now.repo /\ now.target = git.file /\ (now.dirty <=> S!Dirty(git)) /\ now.head = S!Tip(git)
  BY <1>1 DEF S!getGitRepoState
<1>3. now.dirty \/ base.head # now.head
  BY <1>1, <1>2 DEF S!Dirty
<1> HIDE DEF base, now
<1>4. S!ConfidenceScore(base, now) =
        100 - Points(40, base.branch # now.branch) - Points(20, base.head # now.head)
            - Points(15, now.dirty) - 0 - 10
  BY <1>1, <1>2 DEF S!ConfidenceScore
<1> QED BY <1>3, <1>4

\* A rollback that records itself undisturbed has moved nothing but its own branch.
LEMMA RecordedIsExact ==
  ASSUME SnapshotInv, S!RecordRollback, ~meddled
  PROVE  LET s == cmd.snapshot
         IN /\ S!Tip(git) = s.head /\ ~S!Dirty(git)
            /\ \A b \in Branches : git.heads[b] # cmd.before[b] => cmd.force \/ b = s.branch
BY DEF SnapshotInv, RollbackOK, S!RecordRollback, S!Dirty

------------------------------------------------------------------------------
(* Features and the project memory.                                            *)

Generating == {"scaffold", "code", "test", "json", "plan", "remember", "parentPlan", "persist"}
Verifying == {"verify", "recover", "rerender", "again", "recoverLate", "failed", "passed"}
Failing == {"recover", "rerender", "again", "recoverLate", "failed"}
Found == [import : BOOLEAN, script : BOOLEAN, files : SUBSET F!Modules]
Fates == [F!Slugs -> {"none", "passed", "failed", "skipped", "unseen"}]

Jobs == [at : Generating \cup Verifying \cup {"read"}, name : Features, subject : Features,
         force : BOOLEAN, verify : BOOLEAN, test : BOOLEAN,
         parent : F!Memories \cup {None}, mem : F!Memories \cup {None},
         failures : Found \cup {None}]

\* A history that tells of a feature tells last of a failure.
OfFeature(h, n) == {i \in DOMAIN h : h[i].name = n}
ShowsFailure(h, n) ==
  \/ OfFeature(h, n) = {}
  \/ \E i \in OfFeature(h, n) : h[i].status = "failure" /\ \A j \in OfFeature(h, n) : j <= i

\* A memory that is to be written back knows every failure that stands.
KnowsFailures(m) == \A n \in F!Slugs : fate[n] = "failed" => ShowsFailure(m.history, n)

\* Nobody writes the memory while a child has it, and what the parent's copy lacks is
\* about the feature it generates, whose last verification has not failed.
FeatureInv ==
  /\ memory \in F!Memories \cup {None}
  /\ fate \in Fates
  /\ job = F!Idle \/ job \in Jobs
  /\ KnowsFailures(F!readOrInfer)
  /\ job.at \in Verifying => memory \in F!Memories /\ job.mem = memory
  /\ job.at \in Failing => job.failures \in Found
  /\ job.at \in Generating => job.parent # None
  /\ job.at # "idle" /\ job.parent # None =>
       /\ memory \in F!Memories /\ memory.patterns = job.parent.patterns
       /\ KnowsFailures(job.parent)
       /\ job.at # "scaffold" => fate[Slug[job.name]] # "failed"

\* A slug is a feature's name, and its own slug.
LEMMA SlugsAreNames ==
  /\ F!Slugs \subseteq Features /\ \A n \in Features : Slug[n] \in F!Slugs
  /\ \A n \in F!Slugs : Slug[n] = n
BY SlugAssumption DEF F!Slugs

LEMMA TrimKeepsTheEnd ==
  ASSUME NEW T, NEW h \in Seq(T), NEW k \in Nat
  PROVE  LET t == F!trimHistory(h, k)
             dropped == IF Len(h) <= k THEN 0 ELSE Len(h) - k
         IN /\ t \in Seq(T) /\ dropped \in Nat /\ Len(h) = Len(t) + dropped
            /\ \A i \in 1..Len(t) : t[i] = h[i + dropped]
BY DEF F!trimHistory

\* What an entry at the end of a history shows, and what it leaves.
LEMMA HistoryShows ==
  ASSUME NEW h \in Seq(F!HistoryEntry), NEW e \in F!HistoryEntry, NEW n
  PROVE  LET t == F!trimHistory(Append(h, e), HistoryWindow)
         IN /\ t \in Seq(F!HistoryEntry)
            /\ n # e.name /\ ShowsFailure(h, n) => ShowsFailure(t, n)
            /\ e.status = "failure" => ShowsFailure(t, e.name)
<1> DEFINE longer == Append(h, e)
           t == F!trimHistory(longer, HistoryWindow)
           dropped == IF Len(longer) <= HistoryWindow THEN 0 ELSE Len(longer) - HistoryWindow
<1>1. longer \in Seq(F!HistoryEntry) /\ Len(longer) = Len(h) + 1 /\ longer[Len(h) + 1] = e
      /\ \A i \in 1..Len(h) : longer[i] = h[i]
  OBVIOUS
<1>2. /\ t \in Seq(F!HistoryEntry) /\ dropped \in Nat /\ Len(longer) = Len(t) + dropped
      /\ \A i \in 1..Len(t) : t[i] = longer[i + dropped]
  BY <1>1, TrimKeepsTheEnd, WorkspaceAssumption
<1>3. Len(t) \in Nat \ {0} /\ t[Len(t)] = e /\ \A i \in 1..(Len(t) - 1) : t[i] = h[i + dropped]
  <2>1. dropped < Len(longer)
    BY <1>1, WorkspaceAssumption
  <2> HIDE DEF longer, dropped, t
  <2>2. Len(longer) \in Nat /\ Len(t) \in Nat /\ Len(t) > 0
    BY <1>1, <1>2, <2>1
  <2>3. t[Len(t)] = e
    <3>1. t[Len(t)] = longer[Len(t) + dropped]
      BY <1>2, <2>2
    <3>2. Len(t) + dropped = Len(h) + 1
      BY <1>1, <1>2
    <3> QED BY <1>1, <3>1, <3>2
  <2>4. ASSUME NEW i \in 1..(Len(t) - 1) PROVE t[i] = h[i + dropped]
    <3>1. i \in 1..Len(t) /\ i + dropped \in 1..Len(h)
      BY <1>1, <1>2, <2>2, <2>4
    <3> QED BY <1>1, <1>2, <3>1
  <2>5. Len(t) \in Nat \ {0}
    BY <2>2
  <2> QED BY <2>3, <2>4, <2>5
<1> HIDE DEF longer, dropped, t
<1>4. Len(h) \in Nat /\ Len(h) = Len(t) - 1 + dropped /\ DOMAIN h = 1..Len(h) /\ DOMAIN t = 1..Len(t)
  BY <1>1, <1>2, <1>3
<1>5. ASSUME e.status = "failure" PROVE ShowsFailure(t, e.name)
  BY <1>3, <1>4, <1>5 DEF ShowsFailure, OfFeature
<1>6. ASSUME n # e.name, ShowsFailure(h, n) PROVE ShowsFailure(t, n)
  <2>1. \A i \in OfFeature(t, n) : i \in 1..(Len(t) - 1) /\ i + dropped \in OfFeature(h, n)
    BY <1>2, <1>3, <1>4, <1>6 DEF OfFeature
  <2>2. CASE OfFeature(h, n) = {}
    BY <2>1, <2>2 DEF ShowsFailure
  <2>3. CASE OfFeature(h, n) # {}
    <3>1. PICK i \in OfFeature(h, n) : h[i].status = "failure" /\ \A j \in OfFeature(h, n) : j <= i
      BY <1>6, <2>3 DEF ShowsFailure
    <3>2. i \in 1..Len(h)
      BY <1>4 DEF OfFeature
    <3>3. \A j \in OfFeature(t, n) : j + dropped <= i
      BY <2>1, <3>1
    <3>4. CASE i <= dropped
      <4>1. \A j \in OfFeature(t, n) : j \in Nat /\ j > 0 /\ j + dropped <= dropped
        BY <1>2, <1>3, <2>1, <3>2, <3>3, <3>4
      <4>2. OfFeature(t, n) = {}
        BY <1>2, <4>1
      <4> QED BY <4>2 DEF ShowsFailure
    <3>5. CASE i > dropped
      <4>1. i - dropped \in 1..(Len(t) - 1)
        BY <1>2, <1>4, <3>2, <3>5
      <4>2. t[i - dropped] = h[i]
        BY <1>2, <1>3, <3>2, <4>1
      <4>3. i - dropped \in OfFeature(t, n)
        BY <1>4, <4>1, <4>2 DEF OfFeature
      <4>4. \A j \in OfFeature(t, n) : j <= i - dropped
        BY <1>2, <2>1, <3>2, <3>3
      <4> QED BY <3>1, <4>2, <4>3, <4>4 DEF ShowsFailure
    <3> QED BY <1>2, <3>2, <3>4, <3>5
  <2> QED BY <2>2, <2>3
<1> QED BY <1>2, <1>5, <1>6 DEF t, longer

\* What a memory brought up to date holds.
Updates(m, name, status, u) ==
  /\ u \in F!Memories /\ u.patterns = m.patterns
  /\ \A n : n # name /\ ShowsFailure(m.history, n) => ShowsFailure(u.history, n)
  /\ status = "failure" => ShowsFailure(u.history, name)

LEMMA UpdateKeeps ==
  ASSUME NEW m \in F!Memories, NEW name \in Features, NEW status \in {"success", "failure"},
         NEW withTest
  PROVE  Updates(m, name, status, F!updateMemory(m, name, status, withTest))
<1> DEFINE e == [name |-> name, status |-> status]
           h == F!trimHistory(Append(m.history, e), HistoryWindow)
           tests == F!updateModulePreferenceStats(m.test, withTest, status)
<1>1. m.history \in Seq(F!HistoryEntry) /\ e \in F!HistoryEntry /\ e.name = name /\ e.status = status
  BY DEF F!Memories, F!HistoryEntry
<1>2. tests \in [success : Nat, failure : Nat, disabled : Nat]
  <2>1. m.test \in [success : Nat, failure : Nat, disabled : Nat]
    BY DEF F!Memories
  <2>2. CASE ~withTest
    BY <2>1, <2>2 DEF F!updateModulePreferenceStats
  <2>3. CASE withTest /\ status = "success"
    BY <2>1, <2>3 DEF F!updateModulePreferenceStats, F!Capped
  <2>4. CASE withTest /\ status = "failure"
    BY <2>1, <2>4 DEF F!updateModulePreferenceStats, F!Capped
  <2> QED BY <2>2, <2>3, <2>4
<1> HIDE DEF e
<1>3. /\ h \in Seq(F!HistoryEntry)
      /\ \A n : n # name /\ ShowsFailure(m.history, n) => ShowsFailure(h, n)
      /\ status = "failure" => ShowsFailure(h, name)
  BY <1>1, HistoryShows
<1> DEFINE u == F!updateMemory(m, name, status, withTest)
<1>4. u = [m EXCEPT !.history = h, !.test = tests]
  BY DEF F!updateMemory, e
<1> HIDE DEF h, tests, u
<1>5. u.history = h /\ u.patterns = m.patterns /\ u \in F!Memories
  BY <1>2, <1>3, <1>4 DEF F!Memories
<1> QED BY <1>3, <1>5 DEF Updates, u

LEMMA PatternAdded ==
  ASSUME NEW m \in F!Memories, NEW kind \in F!Patterns
  PROVE  LET u == F!appendFailurePattern(m, kind)
         IN u \in F!Memories /\ u.history = m.history
<1>1. m.patterns \in Seq(F!Patterns) /\ PatternWindow - 1 \in Nat
  BY WorkspaceAssumption DEF F!Memories
<1>2. F!trimHistory(m.patterns, PatternWindow - 1) \in Seq(F!Patterns)
  BY <1>1, TrimKeepsTheEnd
<1>3. Append(F!trimHistory(m.patterns, PatternWindow - 1), kind) \in Seq(F!Patterns)
  BY <1>2
<1> QED BY <1>3 DEF F!appendFailurePattern, F!Memories

LEMMA MemoryIsRead ==
  ASSUME memory \in F!Memories \cup {None}
  PROVE  F!readOrInfer \in F!Memories /\ F!EmptyMemory \in F!Memories
         /\ \A n : ShowsFailure(F!EmptyMemory.history, n)
<1>1. F!EmptyMemory \in F!Memories
  BY DEF F!EmptyMemory, F!Memories
<1>2. \A n : ShowsFailure(F!EmptyMemory.history, n)
  BY DEF F!EmptyMemory, ShowsFailure, OfFeature
<1> QED BY <1>1, <1>2 DEF F!readOrInfer

LEMMA FeatureStarts == F!Init => FeatureInv
<1> SUFFICES ASSUME F!Init PROVE FeatureInv
  OBVIOUS
<1> QED BY MemoryIsRead
        DEF F!Init, FeatureInv, F!Idle, Generating, Verifying, Failing, Fates, KnowsFailures

LEMMA JobIsTyped ==
  ASSUME FeatureInv, job.at # "idle"
  PROVE  job \in Jobs
BY DEF FeatureInv, F!Idle

\* A step that only moves the command on.
LEMMA JobMoves ==
  ASSUME FeatureInv, NEW at2, UNCHANGED <<memory, fate>>, job' = [job EXCEPT !.at = at2],
         \/ job.at \in Verifying /\ at2 \in Verifying /\ (at2 \in Failing => job.at \in Failing)
         \/ job.at \in Generating \ {"scaffold"} /\ at2 \in Generating \ {"scaffold"}
  PROVE  FeatureInv'
<1>1. job \in Jobs
  BY JobIsTyped DEF Verifying, Generating
<1>2. /\ job' \in Jobs /\ job'.at = at2
      /\ job'.parent = job.parent /\ job'.mem = job.mem /\ job'.name = job.name
      /\ job'.failures = job.failures
  BY <1>1 DEF Jobs
<1>3. (KnowsFailures(F!readOrInfer))' /\ (job.parent # None /\ KnowsFailures(job.parent) => KnowsFailures(job.parent)')
  BY <1>2 DEF FeatureInv, KnowsFailures, F!readOrInfer
<1>4. job.at # "idle" /\ at2 # "scaffold" /\ (at2 \in Verifying <=> job.at \in Verifying)
      /\ (at2 \in Generating <=> job.at \in Generating) /\ (at2 \in Failing => job.at \in Failing)
  BY DEF Verifying, Generating, Failing
<1>5. job.at # "scaffold"
  BY DEF Verifying, Generating
<1> QED BY <1>2, <1>3, <1>4, <1>5 DEF FeatureInv

\* A step that ends the command.
LEMMA JobEnds ==
  ASSUME job' = F!Idle, memory' \in F!Memories \cup {None},
         fate' \in Fates,
         memory' # None => KnowsFailures(memory)'
  PROVE  FeatureInv'
<1>1. (KnowsFailures(F!readOrInfer))'
  BY MemoryIsRead DEF KnowsFailures, F!readOrInfer, F!EmptyMemory, ShowsFailure, OfFeature
<1> QED BY <1>1 DEF FeatureInv, F!Idle, Verifying, Generating, Failing

\* generate-feature, and the scaffold of its first child.
LEMMA GenerateKeeps ==
  ASSUME FeatureInv,
         \/ \E n, subject \in Features, force, verify \in BOOLEAN, test \in BOOLEAN \cup {None} :
               F!Generate(n, subject, force, test, verify)
         \/ F!scaffoldSkill \/ F!WriteOutput
         \/ F!writeFeatureIntegrationJson \/ F!WritePlans \/ F!RememberScaffold
  PROVE  FeatureInv'
<1>1. ASSUME NEW n \in Features, NEW subject \in Features, NEW force \in BOOLEAN,
             NEW verify \in BOOLEAN, NEW test \in BOOLEAN \cup {None},
             F!Generate(n, subject, force, test, verify)
      PROVE  FeatureInv'
  <2> DEFINE m == F!readOrInfer
  <2>1. m \in F!Memories /\ m # None
    BY MemoryIsRead, MemoryAssumption DEF FeatureInv
  <2>2. /\ memory' = m /\ fate' = fate
        /\ job' = [F!Begun(n, subject, "scaffold") EXCEPT
                     !.force = force, !.verify = verify, !.parent = m,
                     !.test = F!PlanTest(m, test)]
    BY <1>1 DEF F!Generate
  <2>3. F!PlanTest(m, test) \in BOOLEAN
    BY DEF F!PlanTest, F!testSuppressed
  <2>4. KnowsFailures(m)
    BY DEF FeatureInv
  <2> HIDE DEF m
  <2>5. job' \in Jobs /\ job'.at = "scaffold" /\ job'.parent = m /\ job'.name = n
    BY <2>1, <2>2, <2>3 DEF F!Begun, Jobs, Generating
  <2>6. (KnowsFailures(F!readOrInfer))' /\ KnowsFailures(job.parent)'
    BY <2>1, <2>2, <2>4, <2>5 DEF KnowsFailures, F!readOrInfer
  <2> QED BY <2>1, <2>2, <2>5, <2>6 DEF FeatureInv, Generating, Verifying, Failing
<1>2. CASE F!scaffoldSkill
  <2>1. job.at = "scaffold" /\ job \in Jobs /\ memory' = memory
    BY <1>2 DEF F!scaffoldSkill, FeatureInv, F!Idle
  <2>2. CASE F!Refused
    BY <1>2, <2>1, <2>2, JobEnds DEF F!scaffoldSkill, FeatureInv, KnowsFailures, F!readOrInfer
  <2>3. CASE ~F!Refused
    <3>1. /\ job' = [job EXCEPT !.at = "code", !.force = FALSE]
          /\ fate' = [fate EXCEPT ![Slug[job.name]] = "none"]
      BY <1>2, <2>3 DEF F!scaffoldSkill
    <3>2. job' \in Jobs /\ job'.at = "code" /\ job'.parent = job.parent /\ job'.name = job.name
          /\ job.name \in Features
      BY <2>1, <3>1 DEF Jobs, Generating
    <3>3. /\ (KnowsFailures(F!readOrInfer))' /\ KnowsFailures(job.parent)'
          /\ fate' \in Fates
          /\ fate'[Slug[job.name]] = "none"
      BY <2>1, <3>1, <3>2, SlugsAreNames
         DEF KnowsFailures, F!readOrInfer, FeatureInv, Fates, Generating
    <3> QED BY <2>1, <3>2, <3>3 DEF FeatureInv, Generating, Verifying, Failing
  <2> QED BY <2>2, <2>3
<1>3. CASE F!WriteOutput
  <2>1. PICK at2 \in {"test", "json"} : job' = [job EXCEPT !.at = at2]
    BY <1>3 DEF F!WriteOutput, F!Goto
  <2> QED BY <1>3, <2>1, JobMoves DEF F!WriteOutput, F!Modules, Generating
<1>4. CASE F!writeFeatureIntegrationJson
  BY <1>4, JobMoves DEF F!writeFeatureIntegrationJson, F!Goto, Generating
<1>5. CASE F!WritePlans
  <2>1. CASE job.at = "plan"
    BY <1>5, <2>1, JobMoves DEF F!WritePlans, F!writeFeaturePlan, F!Goto, Generating
  <2>2. CASE job.at = "parentPlan" /\ ~job.verify
    BY <1>5, <2>2, JobMoves DEF F!WritePlans, F!writeFeaturePlan, F!Goto, Generating
  <2>3. CASE job.at = "parentPlan" /\ job.verify
    <3>1. job \in Jobs /\ job' = [job EXCEPT !.at = "read"] /\ UNCHANGED <<memory, fate>>
      BY <1>5, <2>3, JobIsTyped DEF F!WritePlans, F!writeFeaturePlan, F!Goto
    <3>2. job' \in Jobs /\ job'.at = "read" /\ job'.parent = job.parent /\ job'.name = job.name
      BY <3>1 DEF Jobs
    <3>3. (KnowsFailures(F!readOrInfer))' /\ (KnowsFailures(job.parent) => KnowsFailures(job.parent)')
      BY <3>1, <3>2 DEF KnowsFailures, F!readOrInfer, FeatureInv
    <3> QED BY <2>3, <3>1, <3>2, <3>3 DEF FeatureInv, Generating, Verifying, Failing
  <2> QED BY <1>5, <2>1, <2>2, <2>3 DEF F!WritePlans, F!writeFeaturePlan
<1>6. CASE F!RememberScaffold
  <2> DEFINE slug == Slug[job.name]
  <2>1. job.at = "remember" /\ job \in Jobs /\ fate' = fate
        /\ memory' = F!updateMemory(F!readOrInfer, slug, "success", job.test)
    BY <1>6 DEF F!RememberScaffold, FeatureInv, F!Idle
  <2>2. job' = [job EXCEPT !.at = "parentPlan"]
    BY <1>6 DEF F!RememberScaffold, F!Goto
  <2>3. job' \in Jobs /\ job'.at = "parentPlan" /\ job'.parent = job.parent /\ job'.name = job.name
        /\ slug \in F!Slugs /\ slug \in Features /\ job.test \in BOOLEAN
    BY <2>1, <2>2, SlugsAreNames DEF Jobs, Generating
  <2>4. /\ job.parent # None /\ memory \in F!Memories /\ memory.patterns = job.parent.patterns
        /\ KnowsFailures(job.parent) /\ fate[slug] # "failed"
    BY <2>1 DEF FeatureInv, Generating
  <2> HIDE DEF slug
  <2>5. F!readOrInfer = memory
    BY <2>4, MemoryAssumption DEF F!readOrInfer
  <2>6. memory' = F!updateMemory(memory, slug, "success", job.test)
    BY <2>1, <2>5
  <2>7. /\ memory' \in F!Memories /\ memory'.patterns = memory.patterns
        /\ \A n : n # slug /\ ShowsFailure(memory.history, n) => ShowsFailure(memory'.history, n)
    <3>1. Updates(memory, slug, "success", memory')
      BY <2>3, <2>4, <2>6, UpdateKeeps
    <3> QED BY <3>1 DEF Updates
  <2>8. (KnowsFailures(F!readOrInfer))' /\ KnowsFailures(job.parent)'
    BY <2>1, <2>3, <2>4, <2>5, <2>7, MemoryAssumption DEF KnowsFailures, F!readOrInfer, FeatureInv
  <2> QED BY <2>1, <2>3, <2>4, <2>7, <2>8 DEF FeatureInv, Generating, Verifying, Failing, slug
<1> QED BY <1>1, <1>2, <1>3, <1>4, <1>5, <1>6

\* debug-fix-loop, and the parent's last write.
LEMMA RepairKeeps ==
  ASSUME FeatureInv,
         \/ \E n, subject \in Features : F!Repair(n, subject)
         \/ F!ReadMemory \/ F!FirstVerify \/ F!rerenderModule
         \/ F!SecondVerify \/ F!Recover("recover", "rerender") \/ F!Recover("recoverLate", "failed")
         \/ F!RememberRepair \/ F!RememberFailure \/ F!persistFeatureMemoryUpdate
  PROVE  FeatureInv'
<1>1. ASSUME NEW n \in Features, NEW subject \in Features, F!Repair(n, subject) PROVE FeatureInv'
  <2>1. memory' = memory /\ fate' = fate /\ job' = F!Begun(n, subject, "read")
    BY <1>1 DEF F!Repair
  <2>2. job' \in Jobs /\ job'.at = "read" /\ job'.parent = None
    BY <2>1 DEF F!Begun, Jobs
  <2> QED BY <2>1, <2>2 DEF FeatureInv, KnowsFailures, F!readOrInfer, Generating, Verifying, Failing
<1>2. CASE F!ReadMemory
  <2>1. /\ job.at = "read" /\ job \in Jobs /\ fate' = fate
        /\ memory' = F!readOrInfer /\ F!readOrInfer \in F!Memories
        /\ job' = [job EXCEPT !.at = "verify", !.mem = F!readOrInfer]
    BY <1>2, MemoryIsRead DEF F!ReadMemory, FeatureInv, F!Idle
  <2>2. /\ job' \in Jobs /\ job'.at = "verify" /\ job'.mem = memory'
        /\ job'.parent = job.parent /\ job'.name = job.name
    BY <2>1 DEF Jobs, Verifying
  <2>3. job.parent # None => memory' = memory
    BY <2>1, MemoryAssumption DEF FeatureInv, F!readOrInfer
  <2>4. (KnowsFailures(F!readOrInfer))' /\ (KnowsFailures(job.parent) => KnowsFailures(job.parent)')
    BY <2>1, <2>2, MemoryAssumption DEF KnowsFailures, F!readOrInfer, FeatureInv
  <2> QED BY <2>1, <2>2, <2>3, <2>4 DEF FeatureInv, Generating, Verifying, Failing
<1>3. CASE F!FirstVerify
  <2>1. job.at = "verify" /\ UNCHANGED <<memory, fate>>
    BY <1>3 DEF F!FirstVerify
  <2>2. CASE F!Goto("passed")
    BY <2>1, <2>2, JobMoves DEF F!Goto, Verifying, Failing
  <2>3. CASE ~F!Goto("passed")
    <3>1. PICK found \in F!ParsedFailures, at2 \in {"recover", "rerender"} :
            job' = [job EXCEPT !.at = at2, !.failures = found]
      BY <1>3, <2>3 DEF F!FirstVerify
    <3>2. job \in Jobs
      BY <2>1, JobIsTyped
    <3>3. /\ job' \in Jobs /\ job'.at = at2 /\ job'.mem = job.mem
          /\ job'.parent = job.parent /\ job'.name = job.name /\ job'.failures \in Found
      BY <3>1, <3>2 DEF Jobs, Found, Verifying, F!ParsedFailures
    <3>4. (KnowsFailures(F!readOrInfer))' /\ (KnowsFailures(job.parent) => KnowsFailures(job.parent)')
      BY <2>1, <3>3 DEF KnowsFailures, F!readOrInfer, FeatureInv
    <3> QED BY <2>1, <3>3, <3>4 DEF FeatureInv, Generating, Verifying, Failing
  <2> QED BY <2>2, <2>3
<1>4. CASE F!rerenderModule
  <2>1. /\ job.at = "rerender" /\ UNCHANGED <<memory, fate>>
        /\ job' = [job EXCEPT !.at = "again", !.failures = [job.failures EXCEPT !.files = {}]]
    BY <1>4 DEF F!rerenderModule
  <2>2. job \in Jobs /\ job.failures \in Found
    BY <2>1, JobIsTyped DEF FeatureInv, Failing, Jobs
  <2>3. /\ job' \in Jobs /\ job'.at = "again" /\ job'.mem = job.mem
        /\ job'.parent = job.parent /\ job'.name = job.name /\ job'.failures \in Found
    BY <2>1, <2>2 DEF Jobs, Found, Verifying
  <2>4. (KnowsFailures(F!readOrInfer))' /\ (KnowsFailures(job.parent) => KnowsFailures(job.parent)')
    BY <2>1, <2>3 DEF KnowsFailures, F!readOrInfer, FeatureInv
  <2> QED BY <2>1, <2>3, <2>4 DEF FeatureInv, Generating, Verifying, Failing
<1>5. CASE F!SecondVerify
  <2>1. PICK at2 \in {"passed", "recoverLate", "failed"} : job' = [job EXCEPT !.at = at2]
    BY <1>5 DEF F!SecondVerify, F!Goto
  <2> QED BY <1>5, <2>1, JobMoves DEF F!SecondVerify, Verifying, Failing
<1>6. CASE F!Recover("recover", "rerender")
  <2>1. PICK at2 \in {"passed", "rerender"} : job' = [job EXCEPT !.at = at2]
    BY <1>6 DEF F!Recover, F!Goto
  <2> QED BY <1>6, <2>1, JobMoves DEF F!Recover, Verifying, Failing
<1>7. CASE F!Recover("recoverLate", "failed")
  <2>1. PICK at2 \in {"passed", "failed"} : job' = [job EXCEPT !.at = at2]
    BY <1>7 DEF F!Recover, F!Goto
  <2> QED BY <1>7, <2>1, JobMoves DEF F!Recover, Verifying, Failing
<1>8. CASE F!RememberRepair
  <2> DEFINE yes == TRUE
  <2>1. job.at = "passed" /\ memory' = F!updateMemory(job.mem, job.name, "success", yes)
    BY <1>8 DEF F!RememberRepair
  <2>2. /\ job \in Jobs /\ memory \in F!Memories /\ job.mem = memory
        /\ job.name \in Features /\ job.parent \in F!Memories \cup {None}
    BY <2>1, JobIsTyped DEF FeatureInv, Verifying, Jobs
  <2> HIDE DEF yes
  <2>3. /\ memory' \in F!Memories /\ memory'.patterns = memory.patterns
        /\ \A n : n # job.name /\ ShowsFailure(memory.history, n) => ShowsFailure(memory'.history, n)
    <3>1. memory' = F!updateMemory(memory, job.name, "success", yes)
      BY <2>1, <2>2
    <3>2. Updates(memory, job.name, "success", memory')
      BY <2>2, <3>1, UpdateKeeps
    <3> QED BY <3>2 DEF Updates
  <2>4. F!readOrInfer = memory
    BY <2>2, MemoryAssumption DEF F!readOrInfer
  <2>5. CASE job.parent = None
    <3>1. job' = F!Idle /\ fate' = [fate EXCEPT ![Slug[job.name]] = "passed"]
      BY <1>8, <2>5 DEF F!RememberRepair
    <3>2. KnowsFailures(memory)'
      BY <2>2, <2>3, <2>4, <3>1, SlugsAreNames DEF FeatureInv, KnowsFailures, Fates
    <3>3. fate' \in Fates
      BY <2>2, <3>1 DEF FeatureInv, Fates
    <3> QED BY <2>3, <3>1, <3>2, <3>3, JobEnds
  <2>6. CASE job.parent # None
    <3>1. fate' = fate /\ job' = [job EXCEPT !.at = "persist"]
      BY <1>8, <2>6 DEF F!RememberRepair, F!Goto
    <3>2. job' \in Jobs /\ job'.at = "persist" /\ job'.parent = job.parent /\ job'.name = job.name
      BY <2>2, <3>1 DEF Jobs, Generating
    <3>3. /\ memory.patterns = job.parent.patterns
          /\ KnowsFailures(job.parent) /\ fate[Slug[job.name]] # "failed"
      BY <2>1, <2>6 DEF FeatureInv
    <3>4. (KnowsFailures(F!readOrInfer))' /\ KnowsFailures(job.parent)'
      BY <2>2, <2>3, <2>4, <3>1, <3>2, <3>3, MemoryAssumption, SlugsAreNames
         DEF KnowsFailures, F!readOrInfer, FeatureInv
    <3> QED BY <2>3, <2>6, <3>1, <3>2, <3>3, <3>4 DEF FeatureInv, Generating, Verifying, Failing
  <2> QED BY <2>5, <2>6
<1>9. CASE F!RememberFailure
  <2> DEFINE kind == F!FailurePattern(job.failures)
             m == F!appendFailurePattern(job.mem, kind)
             yes == TRUE
  <2>1. /\ job.at = "failed" /\ memory' = F!updateMemory(m, job.name, "failure", yes)
        /\ job' = F!Idle
        /\ fate' = [fate EXCEPT ![Slug[job.name]] = IF job.name \in F!Slugs THEN "failed" ELSE "unseen"]
    BY <1>9 DEF F!RememberFailure
  <2>2. /\ job \in Jobs /\ memory \in F!Memories /\ job.mem = memory
        /\ kind \in F!Patterns /\ job.name \in Features
    BY <2>1, JobIsTyped DEF FeatureInv, Verifying, F!FailurePattern, F!Patterns, Jobs
  <2> HIDE DEF kind, yes
  <2>3. m \in F!Memories /\ m.history = memory.history
    BY <2>2, PatternAdded
  <2> HIDE DEF m
  <2>4. /\ memory' \in F!Memories /\ ShowsFailure(memory'.history, job.name)
        /\ \A n : n # job.name /\ ShowsFailure(memory.history, n) => ShowsFailure(memory'.history, n)
    <3>1. memory' = F!updateMemory(m, job.name, "failure", yes)
      BY <2>1
    <3>2. Updates(m, job.name, "failure", memory')
      BY <2>2, <2>3, <3>1, UpdateKeeps
    <3> QED BY <2>3, <3>2 DEF Updates
  <2>5. F!readOrInfer = memory
    BY <2>2, MemoryAssumption DEF F!readOrInfer
  <2>6. KnowsFailures(memory)'
    <3>1. ASSUME NEW n \in F!Slugs, fate'[n] = "failed" PROVE n = job.name \/ fate[n] = "failed"
      BY <2>1, <2>2, <3>1, SlugsAreNames DEF FeatureInv, Fates
    <3> QED BY <2>4, <2>5, <3>1 DEF FeatureInv, KnowsFailures
  <2>7. fate' \in Fates
    BY <2>1, <2>2 DEF FeatureInv, Fates
  <2> QED BY <2>1, <2>4, <2>6, <2>7, JobEnds
<1>10. CASE F!persistFeatureMemoryUpdate
  <2>1. /\ job.at = "persist" /\ job \in Jobs /\ job' = F!Idle
        /\ memory' = F!updateMemory(job.parent, job.name, "success", job.test)
    BY <1>10 DEF F!persistFeatureMemoryUpdate, FeatureInv, F!Idle
  <2>2. PICK end \in {"passed", "skipped"} : fate' = [fate EXCEPT ![Slug[job.name]] = end]
    BY <1>10 DEF F!persistFeatureMemoryUpdate
  <2>3. /\ job.parent \in F!Memories /\ job.name \in Features /\ job.test \in BOOLEAN
        /\ KnowsFailures(job.parent)
    BY <2>1 DEF FeatureInv, Jobs, Generating
  <2>4. /\ memory' \in F!Memories
        /\ \A n : n # job.name /\ ShowsFailure(job.parent.history, n) => ShowsFailure(memory'.history, n)
    <3>1. memory' = F!updateMemory(job.parent, job.name, "success", job.test)
      BY <2>1
    <3> QED BY <2>3, <3>1, UpdateKeeps DEF Updates
  <2>5. KnowsFailures(memory)'
    BY <2>2, <2>3, <2>4, SlugsAreNames DEF FeatureInv, KnowsFailures, Fates
  <2>6. fate' \in Fates
    BY <2>2, <2>3 DEF FeatureInv, Fates
  <2> QED BY <2>1, <2>4, <2>5, <2>6, JobEnds
<1> QED BY <1>1, <1>2, <1>3, <1>4, <1>5, <1>5, <1>6, <1>7, <1>8, <1>9, <1>10

LEMMA FeatureStep == FeatureInv /\ [F!Next]_featureVars => FeatureInv'
<1> SUFFICES ASSUME FeatureInv, [F!Next]_featureVars PROVE FeatureInv'
  OBVIOUS
<1>1. CASE F!Kill
  <2>1. job' = F!Idle /\ fate' = fate /\ memory' \in {memory, None}
    BY <1>1 DEF F!Kill
  <2>2. memory' # None => KnowsFailures(memory)'
    BY <2>1 DEF FeatureInv, KnowsFailures, F!readOrInfer
  <2> QED BY <2>1, <2>2, JobEnds DEF FeatureInv
<1>2. CASE F!Refresh
  <2>1. job' = F!Idle /\ fate' = fate /\ memory' = F!EmptyMemory
    BY <1>2 DEF F!Refresh
  <2>2. memory' \in F!Memories /\ KnowsFailures(memory)'
    BY <2>1, MemoryIsRead DEF FeatureInv, KnowsFailures
  <2> QED BY <2>1, <2>2, JobEnds DEF FeatureInv
<1>3. CASE F!UserEdit
  <2>1. UNCHANGED <<memory, job, fate>>
    BY <1>3 DEF F!UserEdit
  <2> QED BY <2>1 DEF FeatureInv, KnowsFailures, F!readOrInfer
<1>4. CASE UNCHANGED featureVars
  BY <1>4 DEF featureVars, FeatureInv, KnowsFailures, F!readOrInfer
<1> QED BY <1>1, <1>2, <1>3, <1>4, GenerateKeeps, RepairKeeps DEF F!Next

\* No feature is accepted while the history holds the failure that stands.
LEMMA FailureShows == FeatureInv => F!FailureIsNotAccepted
BY DEF FeatureInv, KnowsFailures, ShowsFailure, OfFeature, F!FailureIsNotAccepted,
       F!summarizeFeature, F!LastFailed, F!Entries

\* What a step does to the patterns, but for a refresh.
LEMMA PatternsStay ==
  ASSUME FeatureInv, [F!Next]_featureVars, memory # None, memory' # None, ~F!Refresh
  PROVE  \/ memory'.patterns = memory.patterns
         \/ \E kind \in F!Patterns :
              memory' = [memory' EXCEPT !.patterns = F!appendFailurePattern(memory, kind).patterns]
<1>1. memory \in F!Memories /\ F!readOrInfer = memory
  BY DEF FeatureInv, F!readOrInfer
<1>2. CASE memory' = memory
  BY <1>2
<1>3. ASSUME NEW n, NEW subject, NEW force, NEW verify, NEW test,
             F!Generate(n, subject, force, test, verify)
      PROVE  memory' = memory
  BY <1>1, <1>3 DEF F!Generate
<1>4. CASE F!ReadMemory
  BY <1>1, <1>4 DEF F!ReadMemory
<1>5. CASE F!RememberScaffold
  <2>1. job.at = "remember" /\ memory' = F!updateMemory(memory, Slug[job.name], "success", job.test)
    BY <1>1, <1>5 DEF F!RememberScaffold
  <2>2. Slug[job.name] \in Features
    BY <2>1, JobIsTyped, SlugsAreNames DEF Jobs
  <2>3. Updates(memory, Slug[job.name], "success", memory')
    BY <1>1, <2>1, <2>2, UpdateKeeps
  <2> QED BY <2>3 DEF Updates
<1>6. CASE F!RememberRepair
  <2> DEFINE yes == TRUE
  <2>1. job.at = "passed" /\ memory' = F!updateMemory(job.mem, job.name, "success", yes)
    BY <1>6 DEF F!RememberRepair
  <2>2. job.name \in Features /\ job.mem = memory
    BY <2>1, JobIsTyped DEF Jobs, FeatureInv, Verifying
  <2> HIDE DEF yes
  <2>3. Updates(memory, job.name, "success", memory')
    BY <1>1, <2>1, <2>2, UpdateKeeps
  <2> QED BY <2>3 DEF Updates
<1>7. CASE F!persistFeatureMemoryUpdate
  <2>1. job.at = "persist" /\ memory' = F!updateMemory(job.parent, job.name, "success", job.test)
    BY <1>7 DEF F!persistFeatureMemoryUpdate
  <2>2. job.name \in Features /\ job.parent \in F!Memories /\ memory.patterns = job.parent.patterns
    BY <2>1, JobIsTyped DEF Jobs, FeatureInv, Generating
  <2>3. Updates(job.parent, job.name, "success", memory')
    BY <2>1, <2>2, UpdateKeeps
  <2> QED BY <2>2, <2>3 DEF Updates
<1>8. CASE F!RememberFailure
  <2> DEFINE kind == F!FailurePattern(job.failures)
             m == F!appendFailurePattern(memory, kind)
             yes == TRUE
  <2>1. job.at = "failed" /\ memory' = F!updateMemory(F!appendFailurePattern(job.mem, kind), job.name, "failure", yes)
    BY <1>8 DEF F!RememberFailure
  <2>2. /\ job.mem = memory /\ kind \in F!Patterns /\ job.name \in Features
    BY <2>1, JobIsTyped DEF FeatureInv, Verifying, F!FailurePattern, F!Patterns, Jobs
  <2> HIDE DEF kind, yes
  <2>3. m \in F!Memories
    BY <1>1, <2>2, PatternAdded
  <2>4. memory' = F!updateMemory(m, job.name, "failure", yes)
    BY <2>1, <2>2
  <2> HIDE DEF m
  <2>5. Updates(m, job.name, "failure", memory')
    BY <2>2, <2>3, <2>4, UpdateKeeps
  <2>6. memory' \in F!Memories /\ memory'.patterns = m.patterns
    BY <2>5 DEF Updates
  <2>7. memory' = [memory' EXCEPT !.patterns = m.patterns]
    BY <2>6 DEF F!Memories
  <2> QED BY <2>2, <2>7 DEF m
<1>9. CASE F!Kill
  BY <1>2, <1>9 DEF F!Kill
<1>10. memory' = memory \/ F!ReadMemory \/ F!RememberScaffold \/ F!RememberRepair
       \/ F!persistFeatureMemoryUpdate \/ F!RememberFailure \/ F!Kill
  <2>1. CASE UNCHANGED featureVars
    BY <2>1 DEF featureVars
  <2>2. CASE \E n, subject \in Features : F!Repair(n, subject)
    BY <2>2 DEF F!Repair
  <2>3. CASE F!scaffoldSkill \/ F!WriteOutput \/ F!writeFeatureIntegrationJson \/ F!WritePlans
    BY <2>3 DEF F!scaffoldSkill, F!WriteOutput, F!writeFeatureIntegrationJson, F!WritePlans,
                F!writeFeaturePlan
  <2>4. CASE F!FirstVerify \/ F!rerenderModule \/ F!SecondVerify
             \/ F!Recover("recover", "rerender") \/ F!Recover("recoverLate", "failed") \/ F!UserEdit
    BY <2>4 DEF F!FirstVerify, F!rerenderModule, F!SecondVerify, F!Recover, F!UserEdit
  <2> QED BY <1>3, <2>1, <2>2, <2>3, <2>4 DEF F!Next
<1> QED BY <1>2, <1>4, <1>5, <1>6, <1>7, <1>8, <1>9, <1>10

------------------------------------------------------------------------------
(* What the commands of both say and record.                                   *)

\* Whatever the user, git and the kills do, a snapshot or a feature is in its invariant.
LEMMA RecordsInvariant ==
  MCSpec => []((part = "snapshots" => SnapshotInv) /\ (part = "feature" => FeatureInv))
<1> DEFINE Inv == (part = "snapshots" => SnapshotInv) /\ (part = "feature" => FeatureInv)
<1>1. MCInit => Inv
  BY SnapshotsStart, FeatureStarts DEF MCInit
<1>2. Inv /\ [MCNext]_allVars => Inv'
  <2> SUFFICES ASSUME Inv, [MCNext]_allVars PROVE Inv'
    OBVIOUS
  <2>1. part' = part
    BY DEF MCNext, Only, allVars
  <2>2. part = "snapshots" => [S!Next]_snapshotVars
    BY DEF MCNext, Only, allVars
  <2>3. part = "feature" => [F!Next]_featureVars
    BY DEF MCNext, Only, allVars
  <2> QED BY <2>1, <2>2, <2>3, SnapshotStep, FeatureStep
<1> QED BY <1>1, <1>2, PTL DEF MCSpec

\* A snapshot called ready can be rolled back to and takes nothing, a plan is not
\* resumed over a target that has changed, and a feature is not accepted while the
\* history holds the failure of its last verification, for every repository and memory.
THEOREM ReportsAreTrueHolds == MCSpec => []ReportsAreTrue
<1>1. (part = "snapshots" => SnapshotInv) /\ (part = "feature" => FeatureInv) => ReportsAreTrue
  BY ReadyReverses, DriftIsSeen, FailureShows DEF ReportsAreTrue
<1> QED BY <1>1, RecordsInvariant, PTL

\* A rollback that records itself undisturbed has put its branch, and no other, on the
\* snapshot's commit, and no command forgets a failure pattern by writing back a memory
\* read too early.
THEOREM RecordsAreTrueHolds == MCSpec => RecordsAreTrue
<1> DEFINE Inv == (part = "snapshots" => SnapshotInv) /\ (part = "feature" => FeatureInv)
<1>1. Inv /\ [MCNext]_allVars => [S!RecordsExactly]_S!vars
  <2> SUFFICES ASSUME Inv, [MCNext]_allVars, ~UNCHANGED S!vars, S!RecordRollback, ~meddled
               PROVE  S!RecordsExactly
    BY DEF S!RecordsExactly
  <2>1. part = "snapshots"
    BY DEF MCNext, Only, allVars, snapshotVars, S!vars
  <2> QED BY <2>1, RecordedIsExact DEF S!RecordsExactly
<1>2. Inv /\ [MCNext]_allVars => [F!KeepsPatterns]_F!vars
  <2> SUFFICES ASSUME Inv, [MCNext]_allVars, ~UNCHANGED F!vars PROVE F!KeepsPatterns
    OBVIOUS
  <2>1. part = "feature" /\ [F!Next]_featureVars
    BY DEF MCNext, Only, allVars, featureVars, F!vars
  <2> QED BY <2>1, PatternsStay DEF F!KeepsPatterns
<1> QED BY <1>1, <1>2, RecordsInvariant, PTL DEF MCSpec, RecordsAreTrue, S!RollbackIsExact, F!PatternsAreKept

------------------------------------------------------------------------------
(* The ecosystem file.                                                         *)

\* What expandBundleIds computes: bundles that are not disabled, those wanted
\* among them, and with each of them those it requires, as few as can be.
Known(wanted, disabled) == (wanted \cap Bundles) \ disabled

Complete(applied, disabled) ==
    /\ applied \subseteq Bundles \ disabled
    /\ \A b \in applied : Known(Requires[b], disabled) \subseteq applied

LEMMA ExpandIsLeast ==
  ASSUME NEW wanted, NEW disabled
  PROVE  LET applied == expandBundleIds(wanted, disabled)
         IN  /\ Complete(applied, disabled) /\ Known(wanted, disabled) \subseteq applied
             /\ \A whole : Complete(whole, disabled) /\ Known(wanted, disabled) \subseteq whole
                        => applied \subseteq whole
<1> DEFINE applied == expandBundleIds(wanted, disabled)
           all == Bundles \ disabled
<1>1. \A b : b \in applied <=>
               /\ b \in Bundles
               /\ \A whole \in SUBSET all :
                    Known(wanted, disabled) \subseteq whole
                    /\ (\A c \in whole : Known(Requires[c], disabled) \subseteq whole) => b \in whole
  BY DEF expandBundleIds, Known
<1> HIDE DEF applied
<1>2. applied \subseteq all
  <2>1. Known(wanted, disabled) \subseteq all /\ \A c \in all : Known(Requires[c], disabled) \subseteq all
    BY DEF Known
  <2> QED BY <1>1, <2>1
<1>3. Known(wanted, disabled) \subseteq applied
  BY <1>1 DEF Known
<1>4. ASSUME NEW b \in applied, NEW c \in Known(Requires[b], disabled) PROVE c \in applied
  BY <1>1, <1>4 DEF Known
<1>5. ASSUME NEW whole, Complete(whole, disabled), Known(wanted, disabled) \subseteq whole
      PROVE  applied \subseteq whole
  BY <1>1, <1>5 DEF Complete
<1> QED BY <1>2, <1>3, <1>4, <1>5 DEF Complete, applied

\* A complete set stays what it is when what is wanted besides is in it.
LEMMA CompleteIsSettled ==
  ASSUME NEW applied, NEW disabled, NEW wanted, Complete(applied, disabled),
         applied \subseteq wanted, Known(wanted, disabled) \subseteq applied
  PROVE  expandBundleIds(wanted, disabled) = applied
<1>1. applied \subseteq Known(wanted, disabled)
  BY DEF Complete, Known
<1> QED BY <1>1, ExpandIsLeast

(* What was applied last is complete, and as long as nothing moves it holds *)
(* what is enabled and what is detected.                                    *)
AppliedIsComplete ==
  (file \notin {None, Torn}) =>
    /\ Complete(file.applied, file.disabled)
    /\ settled => Known(file.enabled \cup detected(mode), file.disabled) \subseteq file.applied

\* Whatever a command applies is complete and holds what it was applied for.
LEMMA ApplyingCompletes ==
  ASSUME NEW enabled, NEW disabled, NEW recommended, NEW m,
         applyBundles(enabled, disabled, recommended), UNCHANGED <<seen, mode>>,
         Known(detected(m), disabled) \subseteq recommended, settled' => m = mode
  PROVE  AppliedIsComplete'
<1> DEFINE applied == expandBundleIds(recommended \cup enabled, disabled)
           state == [enabled |-> enabled, disabled |-> disabled, applied |-> applied]
<1>1. file' \in {state, Torn}
  BY DEF applyBundles, writeEcosystemState, resolveEffectiveBundles
<1>2. Complete(applied, disabled) /\ Known(recommended \cup enabled, disabled) \subseteq applied
  BY ExpandIsLeast
<1>3. Known(enabled \cup detected(m), disabled) \subseteq applied
  BY <1>2 DEF Known
<1>4. state.enabled = enabled /\ state.disabled = disabled /\ state.applied = applied
  OBVIOUS
<1> HIDE DEF applied, state
<1>5. detected(mode)' = detected(mode)
  BY DEF detected
<1>6. CASE file' = Torn
  BY <1>6 DEF AppliedIsComplete
<1>7. CASE file' = state
  BY <1>2, <1>3, <1>4, <1>5, <1>7 DEF AppliedIsComplete, Complete, Known
<1> QED BY <1>1, <1>6, <1>7

LEMMA AppliedIsCompleteStep == AppliedIsComplete /\ [Next]_vars => AppliedIsComplete'
<1> SUFFICES ASSUME AppliedIsComplete, [Next]_vars PROVE AppliedIsComplete'
  OBVIOUS
<1> DEFINE s == loadEcosystemState
<1>1. \A m, disabled : s.disabled \subseteq disabled =>
        Known(detected(m), disabled) \subseteq buildWorkspaceProfile(s, m)
  BY DEF buildWorkspaceProfile, Known
<1>2. CASE Command
  <2> USE <1>2 DEF Command
  <2>1. ASSUME NEW ids, Enable(ids) PROVE AppliedIsComplete'
    BY <1>1, <2>1, ApplyingCompletes DEF Enable
  <2>2. ASSUME NEW ids, Disable(ids) PROVE AppliedIsComplete'
    <3>1. s.disabled \subseteq s.disabled \cup ids
      OBVIOUS
    <3> QED BY <1>1, <2>2, <3>1, ApplyingCompletes DEF Disable
  <2>3. CASE Apply
    BY <1>1, <2>3, ApplyingCompletes DEF Apply
  <2> QED BY <2>1, <2>2, <2>3
<1>3. CASE Bootstrap
  <2>1. PICK presets \in SUBSET DOMAIN Presets, ids \in SUBSET Names, m \in Modes :
          bootstrapEcosystem(presets, ids, m) /\ settled' = (m = mode)
    BY <1>3 DEF Bootstrap
  <2>2. applyBundles(ids \cup UNION {Presets[preset] : preset \in presets}, s.disabled,
                     buildWorkspaceProfile(s, m))
    BY <2>1 DEF bootstrapEcosystem
  <2>3. UNCHANGED <<seen, mode>> /\ (settled' => m = mode)
    BY <1>3, <2>1 DEF Bootstrap
  <2> QED BY <1>1, <2>2, <2>3, ApplyingCompletes
<1>4. CASE WorkspaceMoves
  BY <1>4 DEF WorkspaceMoves, AppliedIsComplete
<1>5. CASE RemoveFile
  BY <1>5 DEF RemoveFile, AppliedIsComplete
<1>6. CASE UNCHANGED vars
  BY <1>6 DEF vars, AppliedIsComplete, detected
<1> QED BY <1>2, <1>3, <1>4, <1>5, <1>6 DEF Next

\* The file is at rest after every command, whichever commands and changes of
\* the project came before, for every registry of bundles and presets.
THEOREM AppliedSettlesHolds == Spec => []AppliedSettles
<1>1. Init => AppliedIsComplete
  BY DEF Init, AppliedIsComplete
<1>2. AppliedIsComplete => AppliedSettles
  <2> SUFFICES ASSUME AppliedIsComplete, file \notin {None, Torn}
               PROVE  /\ file.applied \cap file.disabled = {}
                      /\ settled =>
                           /\ resolveEffectiveBundles(file.enabled, file.disabled,
                                buildWorkspaceProfile(file, mode)) = file.applied
                           /\ ResolvedPlan \cap Bundles = file.applied
    BY DEF AppliedSettles
  <2>1. Complete(file.applied, file.disabled)
    BY DEF AppliedIsComplete
  <2>2. ASSUME settled
        PROVE  /\ resolveEffectiveBundles(file.enabled, file.disabled,
                    buildWorkspaceProfile(file, mode)) = file.applied
               /\ ResolvedPlan \cap Bundles = file.applied
    <3> DEFINE wanted == buildWorkspaceProfile(file, mode) \cup file.enabled
    <3>1. Known(file.enabled \cup detected(mode), file.disabled) \subseteq file.applied
      BY <2>2 DEF AppliedIsComplete
    <3>2. file.applied \subseteq wanted /\ Known(wanted, file.disabled) \subseteq file.applied
      BY <2>1, <3>1 DEF buildWorkspaceProfile, Known, Complete
    <3>3. expandBundleIds(wanted, file.disabled) = file.applied
      BY <2>1, <3>2, CompleteIsSettled
    <3>4. ResolvedPlan \cap Bundles = file.applied
      BY <2>1, <3>1 DEF ResolvedPlan, loadEcosystemState, buildWorkspaceProfile, Known, Complete
    <3> QED BY <3>3, <3>4 DEF resolveEffectiveBundles
  <2> QED BY <2>1, <2>2 DEF Complete
<1> QED BY <1>1, <1>2, AppliedIsCompleteStep, PTL DEF Spec
------------------------------------------------------------------------------
(* The indexed rename of a Go name.                                            *)

\* A project of which spelling tells the names of every function apart.
Plain == project \in GoProjects /\ \A o \in project : ~G!Unseen(o)

\* What that says of the function of an occurrence.
LEMMA SpellingTells ==
  ASSUME Plain, NEW x \in project
  PROVE  /\ x.name = oldName => /\ x.role # "method" /\ x.where \notin {"field", "foreign"}
                               /\ (x.role # "use" => x.seen)
         /\ x.role = "use" => x.name # newName
         /\ \A a, b \in G!Named(oldName) :
              a.role = "bind" /\ G!InFunction(a, x) /\ G!InFunction(b, x) =>
                IF b.role = "use" THEN a \in G!Meaning(b, {}) ELSE a = b
         /\ x.name = oldName => \A o \in G!Named(newName) :
              /\ (o.role = "bind" /\ G!InFunction(o, x) => oldName \in G!localNames(x) /\ o.seen)
              /\ (o.pk = x.pk /\ o.fn = x.fn => o.seen)
         /\ oldName \in G!localNames(x) => \A o \in G!Named(oldName) : ~(o.pk = x.pk /\ o.where = x.fn)
<1> DEFINE here == {o \in project : o.pk = x.pk /\ o.fn = x.fn}
           old == here \cap G!Named(oldName)
<1>1. /\ \A o \in old : /\ o.role # "method" /\ o.where \notin {"field", "foreign"}
                        /\ (o.role # "use" => o.seen)
      /\ \A a, b \in old : a.role = "bind" => IF b.role = "use" THEN a \in G!Meaning(b, {}) ELSE a \in {b}
      /\ \A o \in here \cap G!Named(newName) :
           o.role # "use" /\ (old # {} => o.seen /\ (o.role = "bind" => oldName \in G!localNames(x)))
      /\ x.fn # None /\ oldName \in G!localNames(x) => \A o \in G!Named(oldName) : ~(o.pk = x.pk /\ o.where = x.fn)
  BY DEF Plain, G!Unseen
<1>2. \A o \in project : G!InFunction(o, x) => o \in here
  BY DEF G!InFunction
<1>3. oldName \in G!localNames(x) => x.fn # None
  BY DEF G!localNames, G!InFunction
<1>4. x \in here /\ (x.name = oldName => x \in old) /\ (x.name = newName => x \in here \cap G!Named(newName))
  BY DEF G!Named
<1>5. \A o \in G!Named(oldName) : G!InFunction(o, x) => o \in old
  BY <1>2 DEF G!Named
<1>6. \A o \in G!Named(newName) : G!InFunction(o, x) => o \in here \cap G!Named(newName)
  BY <1>2 DEF G!Named
<1>7. \A o \in G!Named(newName) : o.pk = x.pk /\ o.fn = x.fn => o \in here \cap G!Named(newName)
  BY DEF G!Named
<1> HIDE DEF here, old
<1>8. /\ x.name = oldName => /\ x.role # "method" /\ x.where \notin {"field", "foreign"}
                            /\ (x.role # "use" => x.seen)
      /\ x.role = "use" => x.name # newName
  BY <1>1, <1>4
<1>9. x.name = oldName => \A o \in G!Named(newName) :
        /\ (o.role = "bind" /\ G!InFunction(o, x) => oldName \in G!localNames(x) /\ o.seen)
        /\ (o.pk = x.pk /\ o.fn = x.fn => o.seen)
  BY <1>1, <1>4, <1>6, <1>7
<1> QED BY <1>1, <1>3, <1>5, <1>8, <1>9

\* The kinds of occurrences.
LEMMA GoOccurrences ==
  ASSUME project \in GoProjects, NEW o \in project
  PROVE  /\ o.name \notin project /\ o.fn # "top"
         /\ o.role \in {"decl", "method", "bind", "use"}
         /\ o.role \in {"decl", "method"} => o.fn = None
         /\ o.role = "bind" => o.fn # None /\ o.where \in {"outer", "inner"}
         /\ o.role = "use" => o.where \in {"outer", "inner", "field", "foreign"}
         /\ \A x : G!InFunction(o, x) => o.role \notin {"decl", "method"}
         /\ \A d \in project : o.role = "decl" /\ d.role = "decl" /\ o.pk = d.pk /\ o.name = d.name => o = d
BY GoProjectsAssumption DEF G!InFunction

\* What a use means when it is a name of a function's text: a name of its block if there is
\* one, else one of the outer block, else one of its package.
LEMMA FoundInText ==
  ASSUME NEW u \in G!Uses, u.where \in {"inner", "outer"}, NEW R,
         NEW inner, inner = G!Bound(u, R, {"inner"}), NEW outer, outer = G!Bound(u, R, {"outer"})
  PROVE  /\ u.where = "inner" /\ inner # {} => G!Found(u, R) = inner
         /\ (u.where = "outer" \/ inner = {}) /\ outer # {} => G!Found(u, R) = outer
         /\ (u.where = "outer" \/ inner = {}) /\ outer = {} => G!Found(u, R) = G!Declared(u, R, TRUE)
BY DEF G!Found

\* An occurrence that a use means has its name, as it reads, and is none of the uses.
LEMMA MeantIsFound ==
  ASSUME project \in GoProjects, NEW u \in G!Uses, NEW R, NEW o \in project, o \in G!Meaning(u, R),
         o # G!Reads(u, R)
  PROVE  o \in G!Found(u, R) /\ o \in G!Candidates(u, R)
<1>1. o \in G!Found(u, R)
  BY DEF G!Meaning
<1>2. \A w : G!Bound(u, R, w) \subseteq G!Candidates(u, R)
  BY DEF G!Bound
<1>3. \A s : G!Declared(u, R, s) \subseteq G!Candidates(u, R)
  BY DEF G!Declared
<1> QED BY <1>1, <1>2, <1>3 DEF G!Found

\* A use of another name means what it did, whatever of the old name is renamed.
LEMMA OtherNamesStay ==
  ASSUME NEW R \in SUBSET G!Named(oldName), NEW u \in G!Uses, u.name # oldName, u.name # newName
  PROVE  G!Meaning(u, R) = G!Meaning(u, {})
<1>1. G!Reads(u, R) = u.name /\ G!Reads(u, {}) = u.name
  BY DEF G!Reads, G!Named
<1>2. \A o \in project : G!Reads(o, R) = u.name <=> G!Reads(o, {}) = u.name
  BY DEF G!Reads, G!Named
<1>3. G!Candidates(u, R) = G!Candidates(u, {})
  BY <1>1, <1>2 DEF G!Candidates
<1>4. \A w : G!Bound(u, R, w) = G!Bound(u, {}, w)
  BY <1>3 DEF G!Bound
<1>5. \A s : G!Declared(u, R, s) = G!Declared(u, {}, s)
  BY <1>3 DEF G!Declared
<1>6. G!Found(u, R) = G!Found(u, {})
  <2>1. /\ G!Bound(u, R, {"inner"}) = G!Bound(u, {}, {"inner"})
        /\ G!Bound(u, R, {"outer"}) = G!Bound(u, {}, {"outer"})
        /\ G!Declared(u, R, TRUE) = G!Declared(u, {}, TRUE) /\ G!Declared(u, R, FALSE) = G!Declared(u, {}, FALSE)
    BY <1>4, <1>5
  <2> QED BY <2>1 DEF G!Found
<1> QED BY <1>1, <1>6 DEF G!Meaning

\* A name that a use of the old name may mean is declared or bound by that name.
LEMMA UsesOfTheOldName ==
  ASSUME Plain, NEW u \in G!Uses, u.name = oldName
  PROVE  /\ u \in project /\ u.where \in {"inner", "outer"} /\ G!Reads(u, {}) = oldName /\ oldName \notin project
         /\ G!Candidates(u, {}) = {o \in G!Named(oldName) : o.role \in {"decl", "bind"}}
         /\ \A b \in G!Named(oldName) : b.role = "bind" /\ G!InFunction(b, u) =>
              b.where \in {"inner", "outer"} /\ oldName \in G!localNames(u)
         /\ oldName \in G!localNames(u) =>
              \E b \in G!Named(oldName) : b.role = "bind" /\ G!InFunction(b, u) /\ b \in G!Found(u, {})
<1>1. u \in project /\ u.role = "use" /\ G!Reads(u, {}) = oldName /\ oldName \notin project /\ project \in GoProjects
  BY GoOccurrences DEF G!Uses, G!Reads, Plain
<1>2. u.where \in {"inner", "outer"}
  BY <1>1, SpellingTells, GoOccurrences
<1>3. G!Candidates(u, {}) = {o \in G!Named(oldName) : o.role \in {"decl", "bind"}}
  BY <1>1 DEF G!Candidates, G!Reads, G!Named
<1>4. ASSUME NEW b \in G!Named(oldName), b.role = "bind", G!InFunction(b, u)
      PROVE  b.where \in {"inner", "outer"} /\ oldName \in G!localNames(u)
  <2>1. b \in project /\ b.name = oldName /\ b.where \in {"inner", "outer"} /\ b.seen
    BY <1>1, <1>4, SpellingTells, GoOccurrences DEF G!Named
  <2> QED BY <1>4, <2>1 DEF G!localNames
<1>5. ASSUME oldName \in G!localNames(u)
      PROVE  \E b \in G!Named(oldName) : b.role = "bind" /\ G!InFunction(b, u) /\ b \in G!Found(u, {})
  <2>1. PICK b \in project : b.name = oldName /\ b.role = "bind" /\ G!InFunction(b, u)
    BY <1>5 DEF G!localNames
  <2>2. G!InFunction(u, u) /\ u \in G!Named(oldName) /\ b \in G!Named(oldName)
    BY <1>1, <2>1 DEF G!InFunction, G!Named
  <2>3. b \in G!Meaning(u, {})
    BY <1>1, <2>1, <2>2, SpellingTells
  <2>4. b \in G!Found(u, {})
    BY <1>1, <2>1, <2>3, MeantIsFound
  <2> QED BY <2>1, <2>2, <2>4
<1> QED BY <1>1, <1>2, <1>3, <1>4, <1>5

\* The rename of a declaration D of a package.
LEMMA PackageRenameIsExact ==
  ASSUME Plain, NEW D \in G!Named(oldName), D.role = "decl", newName \notin G!topLevelDeclarations(D.pk),
         NEW R, R = G!PackageTargets(D.pk), G!Target = {D}
  PROVE  R = G!Meant /\ \A u \in G!Uses : G!Meaning(u, R) = G!Meaning(u, {})
<1>1. /\ project \in GoProjects /\ R \subseteq G!Named(oldName) /\ G!Named(oldName) \subseteq project
      /\ oldName # newName /\ D.name = oldName /\ D \in project /\ D.fn = None /\ G!Uses \subseteq project
  BY RefusalsAssumption, GoOccurrences DEF Plain, G!PackageTargets, G!Named, G!Uses
<1>2. \A o \in G!Named(oldName) : o.role = "decl" /\ o.pk = D.pk => o = D
  BY <1>1, GoOccurrences DEF G!Named
<1>3. \A o \in project : o.role = "decl" /\ o.pk = D.pk => o.name # newName
  <2> SUFFICES ASSUME NEW o \in project, o.role = "decl", o.pk = D.pk, o.name = newName PROVE FALSE
    OBVIOUS
  <2>1. o.fn = D.fn /\ o \in G!Named(newName)
    BY <1>1, GoOccurrences DEF G!Named
  <2>2. o.seen
    BY <1>1, <2>1, SpellingTells
  <2> QED BY <2>2 DEF G!topLevelDeclarations
<1>4. \A o \in R : o.pk = D.pk /\ oldName \notin G!localNames(o)
  BY DEF G!PackageTargets
<1>5. \A o \in G!Named(oldName) : o.pk = D.pk /\ oldName \notin G!localNames(o) => o \in R
  BY DEF G!PackageTargets
<1>6. \A o \in R : o.role # "bind"
  <2> SUFFICES ASSUME NEW o \in R, o.role = "bind" PROVE FALSE
    OBVIOUS
  <2>1. o \in project /\ o.name = oldName /\ o.fn # None /\ o.seen
    BY <1>1, SpellingTells, GoOccurrences DEF G!Named
  <2>2. oldName \in G!localNames(o)
    BY <2>1 DEF G!localNames, G!InFunction
  <2> QED BY <1>4, <2>2
<1>7. \A o \in R : o.role # "method" /\ (o.role = "decl" => o = D)
  <2>1. \A o \in R : o \in project /\ o.name = oldName
    BY <1>1 DEF G!Named
  <2>2. \A o \in R : o.role # "method"
    BY <2>1, SpellingTells
  <2> QED BY <1>1, <1>2, <1>4, <2>2
<1>8. ASSUME NEW u \in G!Uses, u \in R
      PROVE  G!Meaning(u, {}) = {D}
  <2>1. u.name = oldName /\ u.pk = D.pk
    BY <1>4, <1>8 DEF G!PackageTargets, G!Named
  <2>2. \A w : G!Bound(u, {}, w) = {}
    BY <1>1, <1>4, <1>8, <2>1, UsesOfTheOldName, GoOccurrences DEF G!Bound
  <2>3. G!Declared(u, {}, TRUE) = {D}
    BY <1>1, <1>2, <2>1, UsesOfTheOldName DEF G!Declared
  <2>4. G!Found(u, {}) = {D}
    <3>1. u.where \in {"inner", "outer"}
      BY <2>1, UsesOfTheOldName
    <3>2. G!Bound(u, {}, {"inner"}) = {} /\ G!Bound(u, {}, {"outer"}) = {}
      BY <2>2
    <3> QED BY <2>3, <3>1, <3>2, FoundInText
  <2> QED BY <2>4 DEF G!Meaning
<1>9. ASSUME NEW u \in G!Uses, D \in G!Meaning(u, {})
      PROVE  u \in R
  <2>1. D \in G!Found(u, {}) /\ D \in G!Candidates(u, {})
    <3>1. G!Reads(u, {}) = u.name /\ u.name \notin project
      BY <1>1, GoOccurrences DEF G!Reads
    <3> QED BY <1>1, <1>9, <3>1, MeantIsFound
  <2>2. u.name = oldName
    BY <1>1, <2>1 DEF G!Candidates, G!Reads
  <2>3. \A w : D \notin G!Bound(u, {}, w)
    BY <1>1 DEF G!Bound, G!InFunction
  <2>4. G!Found(u, {}) = G!Declared(u, {}, TRUE)
    <3>1. u.where \in {"inner", "outer"}
      BY <2>2, UsesOfTheOldName
    <3>2. D \notin G!Bound(u, {}, {"inner"}) /\ D \notin G!Bound(u, {}, {"outer"})
      BY <2>3
    <3> DEFINE inner == G!Bound(u, {}, {"inner"})
               outer == G!Bound(u, {}, {"outer"})
    <3> HIDE DEF inner, outer
    <3>3. /\ u.where = "inner" /\ inner # {} => G!Found(u, {}) = inner
          /\ (u.where = "outer" \/ inner = {}) /\ outer # {} => G!Found(u, {}) = outer
          /\ (u.where = "outer" \/ inner = {}) /\ outer = {} => G!Found(u, {}) = G!Declared(u, {}, TRUE)
      <4>1. inner = G!Bound(u, {}, {"inner"}) /\ outer = G!Bound(u, {}, {"outer"})
        BY DEF inner, outer
      <4> QED BY <3>1, <4>1 DEF G!Found
    <3>4. D \notin inner /\ D \notin outer
      BY <3>2 DEF inner, outer
    <3> QED BY <2>1, <3>1, <3>3, <3>4
  <2>5. D.pk = u.pk
    BY <2>1, <2>4 DEF G!Declared
  <2>6. oldName \notin G!localNames(u)
    <3> SUFFICES ASSUME oldName \in G!localNames(u) PROVE FALSE
      OBVIOUS
    <3>1. PICK b \in G!Named(oldName) : b.role = "bind" /\ b \in G!Found(u, {})
      BY <2>2, UsesOfTheOldName
    <3> QED BY <2>4, <3>1 DEF G!Declared
  <2>7. u \in G!Named(oldName)
    BY <1>1, <2>2 DEF G!Named
  <2> QED BY <1>5, <2>5, <2>6, <2>7
<1>10. R = G!Meant
  <2>1. D \in R
    <3>1. oldName \notin G!localNames(D)
      BY <1>1 DEF G!localNames, G!InFunction
    <3> QED BY <1>5, <3>1
  <2>2. \A o \in R : o = D \/ o \in G!Uses
    BY <1>1, <1>6, <1>7, GoOccurrences DEF G!Uses
  <2>3. \A o \in R : o \in G!Uses => G!Meaning(o, {}) \cap {D} # {}
    BY <1>8
  <2>4. \A o \in G!Uses : G!Meaning(o, {}) \cap {D} # {} => o \in R
    BY <1>9
  <2> QED BY <2>1, <2>2, <2>3, <2>4 DEF G!Meant
<1>11. ASSUME NEW u \in G!Uses, u \in R
       PROVE  G!Meaning(u, R) = {D}
  <2>1. u.name = oldName /\ u.pk = D.pk /\ u \in project /\ G!Reads(u, R) = newName
    BY <1>1, <1>4, <1>11 DEF G!PackageTargets, G!Named, G!Reads
  <2>2. G!Candidates(u, R) = {o \in project : o.role \in {"decl", "bind"} /\ (o = D \/ o.name = newName)}
    <3>1. \A o \in project : o.role # "use" => (G!Reads(o, R) = newName <=> o = D \/ o.name = newName)
      <4>1. D \in R
        BY <1>10 DEF G!Meant
      <4>2. \A o \in R : o.role # "use" => o = D
        BY <1>1, <1>6, <1>7, GoOccurrences
      <4> QED BY <4>1, <4>2 DEF G!Reads
    <3> QED BY <2>1, <3>1 DEF G!Candidates
  <2>3. \A w : G!Bound(u, R, w) = {}
    <3> SUFFICES ASSUME NEW w, NEW o \in G!Candidates(u, R), G!InFunction(o, u) PROVE FALSE
      BY DEF G!Bound
    <3>1. o \in project /\ o.role = "bind" /\ o.name = newName
      BY <1>1, <2>2, GoOccurrences DEF G!InFunction
    <3>2. o \in G!Named(newName)
      BY <3>1 DEF G!Named
    <3> QED BY <1>4, <1>11, <2>1, <3>1, <3>2, SpellingTells
  <2>4. G!Declared(u, R, TRUE) = {D}
    BY <1>1, <1>3, <2>1, <2>2 DEF G!Declared
  <2>5. G!Found(u, R) = {D}
    <3>1. u.where \in {"inner", "outer"}
      BY <2>1, UsesOfTheOldName
    <3>2. G!Bound(u, R, {"inner"}) = {} /\ G!Bound(u, R, {"outer"}) = {}
      BY <2>3
    <3> QED BY <2>4, <3>1, <3>2, FoundInText
  <2> QED BY <2>5 DEF G!Meaning
<1>12. ASSUME NEW u \in G!Uses, u \notin R, u.name = oldName
       PROVE  G!Meaning(u, R) = G!Meaning(u, {})
  <2>1. u \in project /\ u \in G!Named(oldName) /\ G!Reads(u, R) = oldName /\ G!Reads(u, {}) = oldName
    BY <1>1, <1>12 DEF G!Named, G!Reads
  <2>2. G!Candidates(u, R) = {o \in G!Named(oldName) : o.role \in {"decl", "bind"} /\ o \notin R}
    BY <1>1, <2>1 DEF G!Candidates, G!Reads, G!Named
  <2>3. G!Candidates(u, R) = G!Candidates(u, {}) \ {D}
    <3>1. \A o \in G!Named(oldName) : o.role # "use" => (o \in R <=> o = D)
      <4>1. D \in R
        BY <1>10 DEF G!Meant
      <4>2. \A o \in R : o.role # "use" => o = D
        BY <1>1, <1>6, <1>7, GoOccurrences
      <4> QED BY <4>1, <4>2
    <3>2. G!Candidates(u, {}) = {o \in G!Named(oldName) : o.role \in {"decl", "bind"}}
      BY <1>12, UsesOfTheOldName
    <3> QED BY <2>2, <3>1, <3>2
  <2>4. \A w : G!Bound(u, R, w) = G!Bound(u, {}, w)
    BY <1>1, <2>3 DEF G!Bound, G!InFunction
  <2> DEFINE inner == G!Bound(u, {}, {"inner"})
             outer == G!Bound(u, {}, {"outer"})
  <2> HIDE DEF inner, outer
  <2>5. outer # {} \/ (u.where = "inner" /\ inner # {}) \/ G!Declared(u, R, TRUE) = G!Declared(u, {}, TRUE)
    <3>1. CASE u.pk = D.pk
      <4>1. PICK b \in G!Named(oldName) : b.role = "bind" /\ b \in G!Found(u, {})
        BY <1>5, <1>12, <2>1, <3>1, UsesOfTheOldName
      <4>2. b \notin G!Declared(u, {}, TRUE)
        BY <4>1 DEF G!Declared
      <4>3. u.where \in {"inner", "outer"}
        BY <1>12, UsesOfTheOldName
      <4>4. G!Found(u, {}) # G!Declared(u, {}, TRUE)
        BY <4>1, <4>2
      <4>5. (u.where = "outer" \/ inner = {}) /\ outer = {} => G!Found(u, {}) = G!Declared(u, {}, TRUE)
        <5>1. inner = G!Bound(u, {}, {"inner"}) /\ outer = G!Bound(u, {}, {"outer"})
          BY DEF inner, outer
        <5> QED BY <4>3, <5>1 DEF G!Found
      <4> QED BY <4>3, <4>4, <4>5
    <3>2. CASE u.pk # D.pk
      BY <1>1, <2>3, <3>2 DEF G!Declared
    <3> QED BY <3>1, <3>2
  <2>6. u.where \in {"inner", "outer"}
    BY <1>12, UsesOfTheOldName
  <2>7. G!Found(u, R) = G!Found(u, {})
    <3>1. inner = G!Bound(u, R, {"inner"}) /\ outer = G!Bound(u, R, {"outer"})
      BY <2>4 DEF inner, outer
    <3>2. /\ u.where = "inner" /\ inner # {} => G!Found(u, R) = inner
          /\ (u.where = "outer" \/ inner = {}) /\ outer # {} => G!Found(u, R) = outer
          /\ (u.where = "outer" \/ inner = {}) /\ outer = {} => G!Found(u, R) = G!Declared(u, R, TRUE)
      BY <2>6, <3>1 DEF G!Found
    <3>3. /\ u.where = "inner" /\ inner # {} => G!Found(u, {}) = inner
          /\ (u.where = "outer" \/ inner = {}) /\ outer # {} => G!Found(u, {}) = outer
          /\ (u.where = "outer" \/ inner = {}) /\ outer = {} => G!Found(u, {}) = G!Declared(u, {}, TRUE)
      <4>1. inner = G!Bound(u, {}, {"inner"}) /\ outer = G!Bound(u, {}, {"outer"})
        BY DEF inner, outer
      <4> QED BY <2>6, <4>1 DEF G!Found
    <3> QED BY <2>5, <2>6, <3>2, <3>3
  <2> QED BY <2>1, <2>7 DEF G!Meaning
<1>13. \A u \in G!Uses : u.name # newName
  BY <1>1, SpellingTells DEF G!Uses
<1> QED BY <1>1, <1>8, <1>10, <1>11, <1>12, <1>13, OtherNamesStay

\* The rename of what a function binds.
LEMMA FunctionRenameIsExact ==
  ASSUME Plain, at # None, at \in G!Named(oldName), oldName \in G!localNames(at), newName \notin G!localNames(at),
         NEW R, R = G!FunctionTargets(at)
  PROVE  R = G!Meant /\ \A u \in G!Uses : G!Meaning(u, R) = G!Meaning(u, {})
<1>1. /\ project \in GoProjects /\ G!Named(oldName) \subseteq project /\ G!Uses \subseteq project
      /\ oldName # newName /\ at \in project /\ at.name = oldName /\ oldName \notin project
  BY RefusalsAssumption, GoOccurrences DEF Plain, G!Named, G!Uses
<1>2. R = {o \in G!Named(oldName) : G!InFunction(o, at)}
  BY <1>1, SpellingTells DEF G!FunctionTargets
<1>3. PICK b \in G!Named(oldName) : b.role = "bind" /\ G!InFunction(b, at)
  BY DEF G!localNames, G!Named
<1>4. G!InFunction(at, at) /\ at.fn # None /\ at.role # "decl"
  BY <1>1, <1>3, GoOccurrences DEF G!InFunction
<1>5. b \in R /\ b \in project /\ \A o \in R : o.role # "use" => o = b
  BY <1>1, <1>2, <1>3, SpellingTells, GoOccurrences
<1>6. \A u \in R : \A o : G!InFunction(o, u) <=> G!InFunction(o, at)
  BY <1>2 DEF G!InFunction
<1>7. ASSUME NEW u \in G!Uses, u \in R
      PROVE  G!Meaning(u, {}) = {b} /\ b \in G!Found(u, {})
  <2>1. u.name = oldName /\ u \in project /\ u.role = "use"
    BY <1>1, <1>2, <1>7 DEF G!Named, G!Uses
  <2>2. b \in G!Meaning(u, {})
    BY <1>1, <1>2, <1>3, <1>7, <2>1, SpellingTells
  <2>3. b \in G!Found(u, {})
    <3>1. G!Reads(u, {}) = oldName
      BY <2>1 DEF G!Reads
    <3> QED BY <1>1, <1>5, <2>2, <3>1, MeantIsFound
  <2>4. \A w : \A o \in G!Bound(u, {}, w) : o = b
    <3> SUFFICES ASSUME NEW w, NEW o \in G!Bound(u, {}, w) PROVE o = b
      OBVIOUS
    <3>1. o \in G!Named(oldName) /\ o.role # "use" /\ G!InFunction(o, u)
      BY <2>1, UsesOfTheOldName DEF G!Bound
    <3> QED BY <1>2, <1>5, <1>6, <1>7, <3>1
  <2>5. b \notin G!Declared(u, {}, TRUE)
    BY <1>3 DEF G!Declared
  <2>6. \A o \in G!Found(u, {}) : o = b
    <3> DEFINE inner == G!Bound(u, {}, {"inner"})
               outer == G!Bound(u, {}, {"outer"})
    <3>1. (\A o \in inner : o = b) /\ (\A o \in outer : o = b)
      BY <2>4
    <3>2. inner = G!Bound(u, {}, {"inner"}) /\ outer = G!Bound(u, {}, {"outer"})
      OBVIOUS
    <3> HIDE DEF inner, outer
    <3>3. u.where \in {"inner", "outer"}
      BY <2>1, UsesOfTheOldName
    <3>4. \/ G!Found(u, {}) = inner \/ G!Found(u, {}) = outer \/ G!Found(u, {}) = G!Declared(u, {}, TRUE)
      BY <3>2, <3>3 DEF G!Found
    <3>5. G!Found(u, {}) # G!Declared(u, {}, TRUE)
      BY <2>3, <2>5
    <3>6. G!Found(u, {}) \subseteq inner \cup outer
      BY <3>4, <3>5
    <3> QED BY <3>1, <3>6
  <2> QED BY <2>2, <2>3, <2>6 DEF G!Meaning
<1>8. ASSUME NEW u \in G!Uses, b \in G!Meaning(u, {})
      PROVE  u \in R
  <2>1. b \in G!Found(u, {}) /\ b \in G!Candidates(u, {})
    <3>1. G!Reads(u, {}) = u.name /\ u.name \notin project
      BY <1>1, GoOccurrences DEF G!Reads
    <3> QED BY <1>1, <1>5, <1>8, <3>1, MeantIsFound
  <2>2. u.name = oldName
    BY <1>3, <2>1 DEF G!Candidates, G!Reads, G!Named
  <2>3. \A s : b \notin G!Declared(u, {}, s)
    BY <1>3 DEF G!Declared
  <2>4. \E w : b \in G!Bound(u, {}, w)
    <3>1. u.where \in {"inner", "outer"}
      BY <2>2, UsesOfTheOldName
    <3>2. b \in G!Bound(u, {}, {"inner"}) \/ b \in G!Bound(u, {}, {"outer"})
      BY <2>1, <2>3, <3>1 DEF G!Found
    <3> QED BY <3>2
  <2>5. G!InFunction(b, u)
    BY <2>4 DEF G!Bound
  <2> QED BY <1>1, <1>2, <1>3, <2>2, <2>5 DEF G!InFunction, G!Named
<1>9. R = G!Meant
  <2>1. G!Target = {b}
    <3>1. CASE at.role = "use"
      <4>1. G!Meaning(at, {}) = {b}
        BY <1>1, <1>2, <1>4, <1>7, <3>1 DEF G!Uses
      <4> QED BY <1>5, <3>1, <4>1 DEF G!Target
    <3>2. CASE at.role # "use"
      <4>1. at = b
        BY <1>2, <1>4, <1>5, <3>2
      <4> QED BY <3>2, <4>1 DEF G!Target
    <3> QED BY <3>1, <3>2
  <2>2. \A o \in R : o = b \/ o \in G!Uses
    BY <1>1, <1>2, <1>5 DEF G!Uses
  <2>3. \A o \in R : o \in G!Uses => G!Meaning(o, {}) \cap {b} # {}
    BY <1>7
  <2>4. \A o \in G!Uses : G!Meaning(o, {}) \cap {b} # {} => o \in R
    BY <1>8
  <2> QED BY <1>5, <2>1, <2>2, <2>3, <2>4 DEF G!Meant
<1>10. ASSUME NEW u \in G!Uses, u \in R
       PROVE  G!Meaning(u, R) = {b}
  <2>1. u.name = oldName /\ u \in project /\ G!Reads(u, R) = newName /\ b.name = oldName
    BY <1>1, <1>2, <1>10 DEF G!Named, G!Reads
  <2>2. b \in G!Candidates(u, R)
    BY <1>3, <1>5, <2>1 DEF G!Candidates, G!Reads
  <2>3. \A w : \A o \in G!Bound(u, R, w) : o = b
    <3> SUFFICES ASSUME NEW w, NEW o \in G!Bound(u, R, w), o # b PROVE FALSE
      OBVIOUS
    <3>1. o \in project /\ o.role # "use" /\ G!Reads(o, R) = newName /\ G!InFunction(o, at)
      BY <1>6, <1>10, <2>1 DEF G!Bound, G!Candidates
    <3>2. o \notin R
      BY <1>5, <3>1
    <3>3. o.name = newName /\ o.role = "bind" /\ o \in G!Named(newName)
      BY <1>1, <3>1, <3>2, GoOccurrences DEF G!Reads, G!Named
    <3>4. o.seen
      BY <1>1, <3>1, <3>3, SpellingTells
    <3> QED BY <3>1, <3>3, <3>4 DEF G!localNames
  <2>4. \A w : b \in G!Bound(u, R, w) <=> b \in G!Bound(u, {}, w)
    BY <1>3, <2>1, <2>2, UsesOfTheOldName DEF G!Bound
  <2>5. b \in G!Found(u, {}) /\ b \notin G!Declared(u, {}, TRUE)
    BY <1>3, <1>7, <1>10 DEF G!Declared
  <2> DEFINE inner == G!Bound(u, {}, {"inner"})
             outer == G!Bound(u, {}, {"outer"})
             inner2 == G!Bound(u, R, {"inner"})
             outer2 == G!Bound(u, R, {"outer"})
  <2>6. /\ b \in inner2 <=> b \in inner
        /\ b \in outer2 <=> b \in outer
        /\ (\A o \in inner2 : o = b) /\ (\A o \in outer2 : o = b)
    BY <2>3, <2>4
  <2>7. /\ inner = G!Bound(u, {}, {"inner"}) /\ outer = G!Bound(u, {}, {"outer"})
        /\ inner2 = G!Bound(u, R, {"inner"}) /\ outer2 = G!Bound(u, R, {"outer"})
    OBVIOUS
  <2> HIDE DEF inner, outer, inner2, outer2
  <2>8. u.where \in {"inner", "outer"}
    BY <2>1, UsesOfTheOldName
  <2>9. (u.where = "inner" /\ b \in inner) \/ b \in outer
    BY <2>5, <2>7, <2>8 DEF G!Found
  <2>10. G!Found(u, R) = inner2 \/ G!Found(u, R) = outer2
    BY <2>6, <2>7, <2>8, <2>9 DEF G!Found
  <2>11. G!Found(u, R) # {}
    BY <2>6, <2>7, <2>8, <2>9 DEF G!Found
  <2> QED BY <2>6, <2>10, <2>11 DEF G!Meaning
<1>11. ASSUME NEW u \in G!Uses, u \notin R, u.name = oldName
       PROVE  G!Meaning(u, R) = G!Meaning(u, {})
  <2>1. u \in project /\ u \in G!Named(oldName) /\ G!Reads(u, R) = oldName /\ G!Reads(u, {}) = oldName
    BY <1>1, <1>11 DEF G!Named, G!Reads
  <2>2. G!Candidates(u, R) = G!Candidates(u, {}) \ {b}
    <3>1. \A o \in project : o.role # "use" =>
            (G!Reads(o, R) = oldName <=> o.name = oldName /\ o # b)
      BY <1>1, <1>2, <1>5 DEF G!Reads, G!Named
    <3>2. G!Candidates(u, {}) = {o \in G!Named(oldName) : o.role \in {"decl", "bind"}}
      BY <1>11, UsesOfTheOldName
    <3>3. G!Candidates(u, R) = {o \in project : o.role \in {"decl", "bind"} /\ G!Reads(o, R) = oldName}
      BY <2>1 DEF G!Candidates
    <3> QED BY <3>1, <3>2, <3>3 DEF G!Named
  <2>3. ~G!InFunction(b, u)
    BY <1>2, <1>3, <1>11, <2>1 DEF G!InFunction
  <2>4. \A w : G!Bound(u, R, w) = G!Bound(u, {}, w)
    BY <2>2, <2>3 DEF G!Bound
  <2>5. \A s : G!Declared(u, R, s) = G!Declared(u, {}, s)
    BY <1>3, <2>2 DEF G!Declared
  <2>6. G!Found(u, R) = G!Found(u, {})
    <3>1. /\ G!Bound(u, R, {"inner"}) = G!Bound(u, {}, {"inner"})
          /\ G!Bound(u, R, {"outer"}) = G!Bound(u, {}, {"outer"})
          /\ G!Declared(u, R, TRUE) = G!Declared(u, {}, TRUE) /\ G!Declared(u, R, FALSE) = G!Declared(u, {}, FALSE)
      BY <2>4, <2>5
    <3> QED BY <3>1 DEF G!Found
  <2> QED BY <2>1, <2>6 DEF G!Meaning
<1>12. \A u \in G!Uses : u.name # newName
  BY <1>1, SpellingTells DEF G!Uses
<1>13. R \in SUBSET G!Named(oldName)
  BY <1>2
<1> QED BY <1>7, <1>9, <1>10, <1>11, <1>12, <1>13, OtherNamesStay

\* What the command has done when it is through.
GoDone ==
  \/ refusal # None /\ renamed = {}
  \/ refusal = None /\ at = None /\ G!Declaring = {}
  \/ refusal = None /\ at = None /\ \E k \in G!Packages :
       G!Declaring = {k} /\ newName \notin G!topLevelDeclarations(k) /\ renamed = G!PackageTargets(k)
  \/ refusal = None /\ at # None /\ oldName \in G!localNames(at) /\ newName \notin G!localNames(at)
       /\ renamed = G!FunctionTargets(at)
  \/ refusal = None /\ at # None /\ oldName \notin G!localNames(at)
       /\ newName \notin G!topLevelDeclarations(at.pk) /\ renamed = G!PackageTargets(at.pk)

GoInv ==
  /\ project \in GoProjects /\ at \in {None} \cup G!Named(oldName)
  /\ renamed # None => GoDone

\* A package is renamed for one declaration of it.
LEMMA OneDeclaration ==
  ASSUME Plain, G!Target # {}, NEW k,
         \/ at = None /\ G!Declaring = {k}
         \/ at # None /\ at \in G!Named(oldName) /\ oldName \notin G!localNames(at) /\ k = at.pk
  PROVE  \E D \in G!Named(oldName) : D.role = "decl" /\ D.pk = k /\ G!Target = {D}
<1>1. project \in GoProjects /\ \A o \in G!Named(oldName) : o \in project /\ o.name = oldName
  BY DEF Plain, G!Named
<1>2. \A c, d \in G!Named(oldName) : c.role = "decl" /\ d.role = "decl" /\ c.pk = d.pk => c = d
  BY <1>1, GoOccurrences
<1>3. ASSUME NEW o \in G!Target
      PROVE  o \in G!Named(oldName) /\ o.role = "decl" /\ o.pk = k
  <2>1. CASE at = None /\ G!Declaring = {k}
    <3>1. o \in G!Named(oldName) /\ o.role = "decl"
      BY <1>3, <2>1 DEF G!Target
    <3>2. o.pk \in G!Declaring
      <4>1. o \in project /\ o.name = oldName /\ o.seen
        BY <1>1, <3>1, SpellingTells
      <4> QED BY <3>1, <4>1 DEF G!Declaring, G!topLevelDeclarations, G!Packages
    <3> QED BY <2>1, <3>1, <3>2
  <2>2. CASE at # None /\ at \in G!Named(oldName) /\ oldName \notin G!localNames(at) /\ k = at.pk
    <3>1. CASE at.role = "use"
      <4>1. at \in G!Uses /\ at.name = oldName
        BY <1>1, <2>2, <3>1 DEF G!Uses
      <4>2. o \in project /\ o \in G!Meaning(at, {}) /\ o # G!Reads(at, {})
        BY <1>3, <2>2, <3>1, <4>1, UsesOfTheOldName DEF G!Target
      <4>3. o \in G!Found(at, {}) /\ o \in G!Candidates(at, {})
        BY <1>1, <4>1, <4>2, MeantIsFound
      <4>4. o \in G!Named(oldName) /\ o.role # "use"
        BY <4>1, <4>3, UsesOfTheOldName
      <4>5. \A w : o \notin G!Bound(at, {}, w)
        BY <1>1, <2>2, <4>1, <4>4, UsesOfTheOldName, GoOccurrences DEF G!Bound
      <4>6. at.where \in {"inner", "outer"}
        BY <4>1, UsesOfTheOldName
      <4>7. o \in G!Declared(at, {}, TRUE)
        BY <4>3, <4>5, <4>6 DEF G!Found
      <4> QED BY <2>2, <4>4, <4>7 DEF G!Declared
    <3>2. CASE at.role # "use"
      <4>1. o = at /\ at \in project /\ at.name = oldName
        BY <1>1, <1>3, <2>2, <3>2 DEF G!Target
      <4>2. at.role # "bind"
        <5> SUFFICES ASSUME at.role = "bind" PROVE FALSE
          OBVIOUS
        <5>1. at.fn # None /\ at.seen
          BY <1>1, <4>1, SpellingTells, GoOccurrences
        <5> QED BY <2>2, <4>1, <5>1 DEF G!localNames, G!InFunction
      <4>3. at.role = "decl"
        BY <1>1, <3>2, <4>1, <4>2, SpellingTells, GoOccurrences
      <4> QED BY <2>2, <4>1, <4>3
    <3> QED BY <3>1, <3>2
  <2> QED BY <2>1, <2>2
<1>4. PICK D \in G!Target : TRUE
  OBVIOUS
<1>5. D \in G!Named(oldName) /\ D.role = "decl" /\ D.pk = k
  BY <1>3
<1>6. \A o \in G!Target : o = D
  BY <1>2, <1>3, <1>5
<1> QED BY <1>4, <1>5, <1>6

\* Two declarations of one scope have two names.
LEMMA NamesAreApart ==
  ASSUME project \in GoProjects, NEW a \in project, NEW b \in project, a # b, a.pk = b.pk, a.fn = b.fn,
         a.role = b.role, a.role \in {"decl", "bind"}, a.where = b.where
  PROVE  a.name # b.name
BY GoProjectsAssumption

\* No declaration gets the new name beside one that has it.
LEMMA NewNamesAreFree ==
  ASSUME project \in GoProjects, NEW R,
         \/ \E k : newName \notin G!topLevelDeclarations(k) /\ R = G!PackageTargets(k)
         \/ at \in G!Named(oldName) /\ newName \notin G!localNames(at) /\ R = G!FunctionTargets(at),
         NEW a \in R, NEW b \in project, a # b, a.pk = b.pk, a.fn = b.fn, a.role = b.role, a.role \in {"decl", "bind"},
         a.where = b.where, a.seen, b.seen
  PROVE  a \in project /\ a.name = oldName /\ b.name # newName
<1>1. a \in project /\ a.name = oldName
  BY DEF G!PackageTargets, G!FunctionTargets, G!Named
<1>2. a.role \in {"decl", "bind"} /\ (a.role = "bind" => a.fn # None)
  BY <1>1, GoOccurrences
<1> SUFFICES ASSUME b.name = newName PROVE FALSE
  BY <1>1
<1>3. CASE \E k : newName \notin G!topLevelDeclarations(k) /\ R = G!PackageTargets(k)
  <2>1. PICK k : newName \notin G!topLevelDeclarations(k) /\ R = G!PackageTargets(k)
    BY <1>3
  <2>2. a.pk = k /\ oldName \notin G!localNames(a)
    BY <2>1 DEF G!PackageTargets
  <2>3. a.role # "bind"
    BY <1>1, <1>2, <2>2 DEF G!localNames, G!InFunction
  <2>4. a.role # "decl"
    BY <2>1, <2>2 DEF G!topLevelDeclarations
  <2> QED BY <1>2, <2>3, <2>4
<1>4. CASE at \in G!Named(oldName) /\ newName \notin G!localNames(at) /\ R = G!FunctionTargets(at)
  <2>1. G!InFunction(a, at) \/ (a.role = "decl" /\ a.where = at.fn)
    BY <1>4 DEF G!FunctionTargets
  <2>2. at \in project /\ at.fn # "top"
    BY <1>4, GoOccurrences DEF G!Named
  <2>3. CASE a.role = "decl"
    <3>1. a.where = at.fn
      BY <1>1, <2>1, <2>3, GoOccurrences
    <3>2. \A c, d \in project : c.role = "decl" /\ d.role = "decl" /\ c.pk = d.pk
            /\ (c.name = d.name \/ (c.where = d.where /\ c.where # "top")) => c = d
      BY GoProjectsAssumption
    <3> QED BY <1>1, <2>2, <2>3, <3>1, <3>2
  <2>4. CASE a.role = "bind"
    <3>1. G!InFunction(b, at)
      BY <2>1, <2>4 DEF G!InFunction
    <3> QED BY <1>4, <2>4, <3>1 DEF G!localNames
  <2> QED BY <1>2, <2>3, <2>4
<1> QED BY <1>3, <1>4

LEMMA GoDoneIsExact ==
  ASSUME GoInv
  PROVE  G!RenameIsExact
<1> SUFFICES ASSUME renamed # None, G!Target # {}, at = None => G!Declaring # {} PROVE
      /\ refusal # None => renamed = {}
      /\ at = None /\ refusal = None => \A k, l \in G!Declaring : k = l
      /\ \A a, b \in project :
           a # b /\ a.pk = b.pk /\ a.fn = b.fn /\ a.where = b.where
           /\ a.role = b.role /\ a.role \in {"decl", "bind"} /\ a.seen /\ b.seen
           => G!Reads(a, renamed) # G!Reads(b, renamed)
      /\ refusal = None /\ (\A o \in project : ~G!Unseen(o)) =>
           renamed = G!Meant /\ \A u \in G!Uses : G!Meaning(u, renamed) = G!Meaning(u, {})
  BY DEF G!RenameIsExact
<1>1. project \in GoProjects /\ at \in {None} \cup G!Named(oldName) /\ GoDone
  BY DEF GoInv
<1>2. at = None => G!Declaring # {}
  OBVIOUS
<1> DEFINE ofPackage(k) ==
             /\ newName \notin G!topLevelDeclarations(k) /\ renamed = G!PackageTargets(k)
             /\ \/ at = None /\ G!Declaring = {k}
                \/ at # None /\ at \in G!Named(oldName) /\ oldName \notin G!localNames(at) /\ k = at.pk
           ofFunction ==
             /\ at # None /\ at \in G!Named(oldName) /\ oldName \in G!localNames(at)
             /\ newName \notin G!localNames(at) /\ renamed = G!FunctionTargets(at)
<1>3. (refusal # None /\ renamed = {}) \/ (refusal = None /\ ((\E k : ofPackage(k)) \/ ofFunction))
  BY <1>1, <1>2 DEF GoDone
<1>4. at = None /\ refusal = None => \A k, l \in G!Declaring : k = l
  BY <1>3
<1>5. ASSUME NEW a \in project, NEW b \in project, a # b, a.pk = b.pk, a.fn = b.fn, a.role = b.role,
             a.role \in {"decl", "bind"}, a.seen, b.seen, a.where = b.where
      PROVE  G!Reads(a, renamed) # G!Reads(b, renamed)
  <2>1. a.name # b.name
    BY <1>1, <1>5, NamesAreApart
  <2>2. CASE renamed = {}
    BY <2>1, <2>2 DEF G!Reads
  <2>3. CASE (\E k : ofPackage(k)) \/ ofFunction
    <3>1. \/ \E k : newName \notin G!topLevelDeclarations(k) /\ renamed = G!PackageTargets(k)
          \/ at \in G!Named(oldName) /\ newName \notin G!localNames(at) /\ renamed = G!FunctionTargets(at)
      BY <2>3
    <3>2. a \in renamed => a.name = oldName /\ b.name # newName
      BY <1>1, <1>5, <3>1, NewNamesAreFree
    <3>3. b \in renamed => b.name = oldName /\ a.name # newName
      BY <1>1, <1>5, <3>1, NewNamesAreFree
    <3> QED BY <2>1, <3>2, <3>3 DEF G!Reads
  <2> QED BY <1>3, <2>2, <2>3
<1>6. ASSUME refusal = None, \A o \in project : ~G!Unseen(o)
      PROVE  renamed = G!Meant /\ \A u \in G!Uses : G!Meaning(u, renamed) = G!Meaning(u, {})
  <2>1. Plain
    BY <1>1, <1>6 DEF Plain
  <2>2. CASE \E k : ofPackage(k)
    <3>1. PICK k : ofPackage(k)
      BY <2>2
    <3>2. PICK D \in G!Named(oldName) : D.role = "decl" /\ D.pk = k /\ G!Target = {D}
      BY <2>1, <3>1, OneDeclaration
    <3> QED BY <2>1, <3>1, <3>2, PackageRenameIsExact
  <2>3. CASE ofFunction
    BY <2>1, <2>3, FunctionRenameIsExact
  <2> QED BY <1>3, <1>6, <2>2, <2>3
<1> QED BY <1>3, <1>4, <1>5, <1>6

\* The command does what it is to have done.
LEMMA GoStep ==
  ASSUME GoInv, [G!Next]_renameVars
  PROVE  GoInv'
<1>1. project' = project /\ at' = at
  BY DEF G!Next, G!renameSymbol, G!renameAt, G!Finish, renameVars
<1>2. /\ G!Declaring' = G!Declaring /\ G!Packages' = G!Packages /\ G!Named(oldName)' = G!Named(oldName)
      /\ G!localNames(at)' = G!localNames(at)
  BY <1>1 DEF G!Declaring, G!Packages, G!Named, G!topLevelDeclarations, G!localNames, G!InFunction
<1>3. \A k : G!topLevelDeclarations(k)' = G!topLevelDeclarations(k) /\ G!PackageTargets(k)' = G!PackageTargets(k)
  BY <1>1 DEF G!topLevelDeclarations, G!PackageTargets, G!Named, G!localNames, G!InFunction
<1>4. /\ G!topLevelDeclarations(at.pk)' = G!topLevelDeclarations(at.pk)
      /\ G!PackageTargets(at.pk)' = G!PackageTargets(at.pk)
  BY <1>1 DEF G!topLevelDeclarations, G!PackageTargets, G!Named, G!localNames, G!InFunction
<1>5. G!FunctionTargets(at)' = G!FunctionTargets(at)
  BY <1>1 DEF G!FunctionTargets, G!Named, G!InFunction
<1>6. project' \in GoProjects /\ at' \in {None} \cup G!Named(oldName)'
  BY <1>1, <1>2 DEF GoInv
<1>7. ASSUME renamed' # None
      PROVE  GoDone'
  <2>1. CASE UNCHANGED renameVars
    <3>1. GoDone
      BY <1>7, <2>1 DEF GoInv, renameVars
    <3> QED BY <1>1, <1>2, <1>3, <1>4, <1>5, <2>1, <3>1 DEF GoDone, renameVars
  <2>2. CASE G!renameSymbol
    <3>1. CASE renamed' = {} /\ (refusal' = "ambiguous" \/ refusal' = "collision")
      <4>1. refusal' # None
        BY <3>1, RefusalsAssumption, Zenon
      <4> QED BY <3>1, <4>1 DEF GoDone
    <3>2. CASE at = None /\ G!Declaring = {} /\ refusal' = None
      BY <1>1, <1>2, <3>2 DEF GoDone
    <3>3. ASSUME at = None, NEW k \in G!Packages, G!Declaring = {k}, newName \notin G!topLevelDeclarations(k),
                 renamed' = G!PackageTargets(k), refusal' = None
          PROVE  GoDone'
      BY <1>1, <1>2, <1>3, <3>3 DEF GoDone
    <3> QED BY <2>2, <3>1, <3>2, <3>3 DEF G!renameSymbol, G!Finish
  <2>3. CASE G!renameAt
    <3>1. CASE renamed' = {} /\ (refusal' = "local collision" \/ refusal' = "collision")
      <4>1. refusal' # None
        BY <3>1, RefusalsAssumption, Zenon
      <4> QED BY <3>1, <4>1 DEF GoDone
    <3>2. CASE /\ at # None /\ oldName \in G!localNames(at) /\ newName \notin G!localNames(at)
               /\ renamed' = G!FunctionTargets(at) /\ refusal' = None
      BY <1>1, <1>2, <1>5, <3>2 DEF GoDone
    <3>3. CASE /\ at # None /\ oldName \notin G!localNames(at) /\ newName \notin G!topLevelDeclarations(at.pk)
               /\ renamed' = G!PackageTargets(at.pk) /\ refusal' = None
      BY <1>1, <1>2, <1>4, <3>3 DEF GoDone
    <3> QED BY <2>3, <3>1, <3>2, <3>3, Zenon DEF G!renameAt, G!Finish
  <2> QED BY <2>1, <2>2, <2>3 DEF G!Next
<1> QED BY <1>6, <1>7 DEF GoInv

------------------------------------------------------------------------------
(* The indexed rename of a Java type.                                          *)

\* What a name means is never nothing, and has that name.
LEMMA MeaningHasTheName ==
  ASSUME NEW P, NEW x, NEW n
  PROVE  J!Meaning(P, x, n) # {} /\ \A t \in J!Meaning(P, x, n) : t[2] = n
<1>1. /\ \A t \in J!Here(P, x, n) : t[2] = n
      /\ \A t \in J!OfPackage(P, x, n) : t[2] = n
      /\ \A t \in J!OnDemand(P, x, n) : t[2] = n
      /\ \A t \in {<<None, n>>} : t[2] = n
  BY DEF J!Here, J!OfPackage, J!OnDemand
<1> QED BY <1>1 DEF J!Meaning

\* In the project that a rename of d leaves, where spelling tells: every file refers to what
\* it did, d under its new name.
LEMMA RewrittenRefers ==
  ASSUME project \in JavaProjects, NEW d \in J!Matches, ~J!Collides(d), \A y \in J!Paths : ~J!Unseen(d, y),
         NEW R, R = [y \in J!Paths |-> IF y \in J!RelevantFiles(d) THEN J!Rewritten(project[y]) ELSE project[y]],
         NEW x \in J!Paths
  PROVE  J!Refers(R, x) = {IF t = d.type THEN <<t[1], newName>> ELSE t : t \in J!Refers(project, x)}
<1>1. oldName # newName
  BY RefusalsAssumption, Zenon
<1>2. PICK home \in J!Paths : /\ d.path = home /\ d.type = <<project[home].pk, oldName>>
                             /\ oldName \in project[home].types
  BY DEF J!Matches, J!declarations
<1> DEFINE pk == project[home].pk
           new(n) == IF n = oldName THEN newName ELSE n
           ren(t) == IF t = d.type THEN <<t[1], newName>> ELSE t
<1>3. \A y \in J!Paths : /\ DOMAIN project[y] = {"pk", "types", "single", "demand", "full", "uses"}
                         /\ project[y].pk # None
                         /\ \A t \in project[y].single \cup project[y].full : t = <<t[1], t[2]>>
  BY JavaProjectsAssumption DEF J!Paths
<1>4. \A y \in J!Paths :
        /\ R[y].pk = project[y].pk /\ R[y].demand = project[y].demand
        /\ y \notin J!RelevantFiles(d) => R[y] = project[y]
        /\ y \in J!RelevantFiles(d) =>
             /\ R[y].types = {new(n) : n \in project[y].types} /\ R[y].uses = {new(n) : n \in project[y].uses}
             /\ R[y].single = {<<t[1], new(t[2])>> : t \in project[y].single}
             /\ R[y].full = {<<t[1], new(t[2])>> : t \in project[y].full}
  BY <1>3 DEF J!Rewritten, J!New
<1>5. \A y \in J!Paths : \A t \in J!Refers(project, y) : t[2] # newName /\ (t[2] = oldName => t = d.type)
  BY DEF J!Unseen
<1>6. \A y \in J!Paths : \A n \in project[y].types : n # newName /\ (n = oldName => project[y].pk = pk)
  <2> SUFFICES ASSUME NEW y \in J!Paths, NEW n \in project[y].types
               PROVE  n # newName /\ (n = oldName => project[y].pk = pk)
    OBVIOUS
  <2> DEFINE t == <<project[y].pk, n>>
  <2>1. t[2] # newName /\ (t[2] = oldName => t = d.type)
    <3>1. t \in {<<project[y].pk, m>> : m \in project[y].types}
      OBVIOUS
    <3> HIDE DEF t
    <3> QED BY <3>1 DEF J!Unseen
  <2>2. t[1] = project[y].pk /\ t[2] = n /\ d.type[1] = pk
    BY <1>2
  <2> HIDE DEF t
  <2> QED BY <2>1, <2>2
\* Renaming the one type is renaming by name.
<1>7. \A t : t = <<t[1], t[2]>> /\ (t[2] = oldName => t = d.type) => ren(t) = <<t[1], new(t[2])>>
  <2> SUFFICES ASSUME NEW t, t = <<t[1], t[2]>>, t[2] = oldName => t = d.type PROVE ren(t) = <<t[1], new(t[2])>>
    OBVIOUS
  <2>1. t = d.type <=> t[2] = oldName
    BY <1>2
  <2> QED BY <2>1
<1>8. \A t \in J!Known(project, x) : t = <<t[1], t[2]>> /\ t[2] # newName /\ (t[2] = oldName => t = d.type)
  <2>1. \A n \in project[x].types : n # newName /\ (n = oldName => <<project[x].pk, n>> = d.type)
    BY <1>2, <1>6
  <2>2. \A t \in project[x].single : t = <<t[1], t[2]>> /\ t[2] # newName /\ (t[2] = oldName => t = d.type)
    BY <1>3, <1>5 DEF J!Refers
  <2> QED BY <2>1, <2>2 DEF J!Known
<1>9. /\ project[x].pk = pk => x \in J!RelevantFiles(d)
      /\ d.type \in project[x].single \cup project[x].full => x \in J!RelevantFiles(d)
      /\ d.type \in J!Known(project, x) => x \in J!RelevantFiles(d)
      /\ pk \in project[x].demand => x \in J!RelevantFiles(d)
  <2>1. d.type[1] = pk /\ d.type = <<pk, oldName>>
    BY <1>2
  <2>2. /\ project[x].pk = pk => x \in J!RelevantFiles(d)
        /\ d.type \in project[x].single \cup project[x].full => x \in J!RelevantFiles(d)
    BY <2>1 DEF J!RelevantFiles
  <2>3. d.type \in J!Known(project, x) => project[x].pk = pk \/ d.type \in project[x].single
    BY <2>1 DEF J!Known
  <2>4. pk \in project[x].demand => d.type \in project[x].single \cup project[x].full
    BY <2>1 DEF J!Unseen
  <2> QED BY <2>2, <2>3, <2>4
<1>10. J!Known(R, x) = {ren(t) : t \in J!Known(project, x)}
  <2>1. CASE x \in J!RelevantFiles(d)
    <3>1. J!Known(R, x) = {<<t[1], new(t[2])>> : t \in J!Known(project, x)}
      <4>1. {<<R[x].pk, n>> : n \in R[x].types} = {<<project[x].pk, new(n)>> : n \in project[x].types}
        BY <1>4, <2>1
      <4>2. R[x].single = {<<t[1], new(t[2])>> : t \in project[x].single}
        BY <1>4, <2>1
      <4> HIDE DEF new
      <4> DEFINE moved(t) == <<t[1], new(t[2])>>
      <4>3. \A n : moved(<<project[x].pk, n>>) = <<project[x].pk, new(n)>>
        OBVIOUS
      <4> HIDE DEF moved
      <4>4. {<<project[x].pk, new(n)>> : n \in project[x].types}
              = {moved(t) : t \in {<<project[x].pk, n>> : n \in project[x].types}}
        BY <4>3
      <4>5. R[x].single = {moved(t) : t \in project[x].single}
        BY <4>2 DEF moved
      <4>6. J!Known(R, x) = {moved(t) : t \in J!Known(project, x)}
        BY <4>1, <4>4, <4>5 DEF J!Known
      <4> QED BY <4>6 DEF moved
    <3>2. \A t \in J!Known(project, x) : ren(t) = <<t[1], new(t[2])>>
      BY <1>7, <1>8
    <3> HIDE DEF new, ren
    <3> QED BY <3>1, <3>2
  <2>2. CASE x \notin J!RelevantFiles(d)
    <3>1. J!Known(R, x) = J!Known(project, x)
      BY <1>4, <2>2 DEF J!Known
    <3>2. \A t \in J!Known(project, x) : ren(t) = t
      BY <1>9, <2>2
    <3> HIDE DEF ren
    <3> QED BY <3>1, <3>2
  <2> QED BY <2>1, <2>2
<1>11. \A k, n : n # newName =>
         /\ J!Declares(R, k, new(n)) <=> J!Declares(project, k, n)
         /\ n = oldName /\ J!Declares(project, k, n) => k = pk
  <2> SUFFICES ASSUME NEW k, NEW n, n # newName
               PROVE  /\ J!Declares(R, k, new(n)) <=> J!Declares(project, k, n)
                      /\ n = oldName /\ J!Declares(project, k, n) => k = pk
    OBVIOUS
  <2>1. \A y \in J!Paths : new(n) \in R[y].types <=> n \in project[y].types
    <3> SUFFICES ASSUME NEW y \in J!Paths PROVE new(n) \in R[y].types <=> n \in project[y].types
      OBVIOUS
    <3>1. CASE y \in J!RelevantFiles(d)
      <4>1. R[y].types = {new(m) : m \in project[y].types}
        BY <1>4, <3>1
      <4>2. \A m \in project[y].types : new(n) = new(m) => n = m
        BY <1>6
      <4> HIDE DEF new
      <4> QED BY <4>1, <4>2
    <3>2. CASE y \notin J!RelevantFiles(d)
      <4>1. R[y].types = project[y].types
        BY <1>4, <3>2
      <4>2. oldName \notin project[y].types
        BY <1>2, <1>6, <3>2 DEF J!RelevantFiles
      <4> QED BY <1>6, <4>1, <4>2
    <3> QED BY <3>1, <3>2
  <2> HIDE DEF new
  <2> QED BY <1>4, <1>6, <2>1 DEF J!Declares
\* So what a use means is renamed with it, part by part.
<1>12. ASSUME NEW n, n # newName
       PROVE  /\ J!Here(R, x, new(n)) = {ren(t) : t \in J!Here(project, x, n)}
              /\ J!OfPackage(R, x, new(n)) = {ren(t) : t \in J!OfPackage(project, x, n)}
              /\ J!OnDemand(R, x, new(n)) = {ren(t) : t \in J!OnDemand(project, x, n)}
  <2>1. \A t \in J!Known(project, x) : ren(t)[2] = new(n) <=> t[2] = n
    <3>1. \A t \in J!Known(project, x) : ren(t)[2] = new(t[2])
      BY <1>7, <1>8
    <3>2. \A t \in J!Known(project, x) : new(t[2]) = new(n) <=> t[2] = n
      BY <1>8, <1>12
    <3> HIDE DEF new, ren
    <3> QED BY <3>1, <3>2
  <2>2. \A k : J!Declares(project, k, n) => ren(<<k, n>>) = <<k, new(n)>>
    <3> SUFFICES ASSUME NEW k, J!Declares(project, k, n) PROVE ren(<<k, n>>) = <<k, new(n)>>
      OBVIOUS
    <3>1. n = oldName => <<k, n>> = d.type
      BY <1>2, <1>11, <1>12
    <3>2. <<k, n>> = d.type => n = oldName
      BY <1>2
    <3> QED BY <3>1, <3>2
  <2>3. \A k : J!Declares(R, k, new(n)) <=> J!Declares(project, k, n)
    BY <1>11, <1>12
  <2>4. R[x].pk = project[x].pk /\ R[x].demand = project[x].demand
    BY <1>4
  <2> HIDE DEF new, ren
  <2>5. J!Here(R, x, new(n)) = {ren(t) : t \in J!Here(project, x, n)}
    BY <1>10, <2>1 DEF J!Here
  <2>6. J!OfPackage(R, x, new(n)) = {ren(t) : t \in J!OfPackage(project, x, n)}
    BY <2>2, <2>3, <2>4 DEF J!OfPackage
  <2>7. J!OnDemand(R, x, new(n)) = {ren(t) : t \in J!OnDemand(project, x, n)}
    BY <2>2, <2>3, <2>4 DEF J!OnDemand
  <2> QED BY <2>5, <2>6, <2>7
<1>13. \A n \in project[x].uses : n # newName /\ (n = oldName => J!Meaning(project, x, n) = {d.type})
  <2>1. \A n \in project[x].uses : \A t \in J!Meaning(project, x, n) : t \in J!Refers(project, x)
    BY DEF J!Refers
  <2> QED BY <1>5, <2>1, MeaningHasTheName
<1>14. ASSUME NEW n \in project[x].uses
       PROVE  J!Meaning(R, x, new(n)) = {ren(t) : t \in J!Meaning(project, x, n)}
  <2>1. CASE /\ J!Here(project, x, n) = {} /\ J!OfPackage(project, x, n) = {} /\ J!OnDemand(project, x, n) = {}
    <3>1. J!Meaning(project, x, n) = {<<None, n>>}
      BY <2>1 DEF J!Meaning
    <3>2. n # oldName
      <4> SUFFICES ASSUME n = oldName PROVE FALSE
        OBVIOUS
      <4>1. d.type = <<None, n>>
        BY <1>13, <3>1
      <4>2. d.type[1] = None /\ d.type[1] = pk
        BY <1>2, <4>1
      <4> QED BY <1>3, <4>2
    <3>3. new(n) = n /\ ren(<<None, n>>) = <<None, n>>
      BY <1>2, <3>2
    <3> HIDE DEF new, ren
    <3>4. J!Here(R, x, new(n)) = {} /\ J!OfPackage(R, x, new(n)) = {} /\ J!OnDemand(R, x, new(n)) = {}
      BY <1>12, <1>13, <2>1
    <3>5. J!Meaning(R, x, new(n)) = {<<None, new(n)>>}
      BY <3>4 DEF J!Meaning
    <3> QED BY <3>1, <3>3, <3>5
  <2>2. CASE ~(/\ J!Here(project, x, n) = {} /\ J!OfPackage(project, x, n) = {} /\ J!OnDemand(project, x, n) = {})
    <3> HIDE DEF new, ren
    <3> DEFINE image(ts) == {ren(t) : t \in ts}
    <3>1. /\ J!Here(R, x, new(n)) = image(J!Here(project, x, n))
          /\ J!OfPackage(R, x, new(n)) = image(J!OfPackage(project, x, n))
          /\ J!OnDemand(R, x, new(n)) = image(J!OnDemand(project, x, n))
      BY <1>12, <1>13
    <3>2. \A ts : image(ts) = {} <=> ts = {}
      OBVIOUS
    <3> HIDE DEF image
    <3>3. J!Meaning(R, x, new(n)) = image(J!Meaning(project, x, n))
      BY <2>2, <3>1, <3>2 DEF J!Meaning
    <3> QED BY <3>3 DEF image
  <2> QED BY <2>1, <2>2
<1>15. oldName \in project[x].uses => x \in J!RelevantFiles(d)
  <2> SUFFICES ASSUME oldName \in project[x].uses PROVE x \in J!RelevantFiles(d)
    OBVIOUS
  <2>1. d.type \in J!Meaning(project, x, oldName) /\ d.type = <<pk, oldName>>
    BY <1>2, <1>13
  <2>2. \/ d.type \in J!Here(project, x, oldName) \/ d.type \in J!OfPackage(project, x, oldName)
        \/ d.type \in J!OnDemand(project, x, oldName) \/ d.type = <<None, oldName>>
    BY <2>1 DEF J!Meaning
  <2>3. d.type # <<None, oldName>>
    BY <1>3, <2>1
  <2>4. d.type \in J!Here(project, x, oldName) => d.type \in J!Known(project, x)
    BY DEF J!Here
  <2>5. d.type \in J!OfPackage(project, x, oldName) => project[x].pk = pk
    BY <2>1 DEF J!OfPackage
  <2>6. d.type \in J!OnDemand(project, x, oldName) => pk \in project[x].demand
    BY <2>1 DEF J!OnDemand
  <2> QED BY <1>9, <2>2, <2>3, <2>4, <2>5, <2>6
<1>16. R[x].uses = {new(n) : n \in project[x].uses}
  <2>1. CASE x \in J!RelevantFiles(d)
    BY <1>4, <2>1
  <2>2. CASE x \notin J!RelevantFiles(d)
    <3>1. R[x].uses = project[x].uses /\ \A n \in project[x].uses : new(n) = n
      BY <1>4, <1>15, <2>2
    <3> HIDE DEF new
    <3> QED BY <3>1
  <2> QED BY <2>1, <2>2
<1>17. /\ R[x].single = {ren(t) : t \in project[x].single}
       /\ R[x].full = {ren(t) : t \in project[x].full}
  <2>1. \A t \in project[x].single \cup project[x].full : t = <<t[1], t[2]>> /\ (t[2] = oldName => t = d.type)
    BY <1>3, <1>5 DEF J!Refers
  <2>2. CASE x \in J!RelevantFiles(d)
    <3>1. \A t \in project[x].single \cup project[x].full : ren(t) = <<t[1], new(t[2])>>
      BY <1>7, <2>1
    <3>2. /\ R[x].single = {<<t[1], new(t[2])>> : t \in project[x].single}
          /\ R[x].full = {<<t[1], new(t[2])>> : t \in project[x].full}
      BY <1>4, <2>2
    <3> HIDE DEF new, ren
    <3> QED BY <3>1, <3>2
  <2>3. CASE x \notin J!RelevantFiles(d)
    <3>1. \A t \in project[x].single \cup project[x].full : ren(t) = t
      BY <1>9, <2>3
    <3>2. R[x].single = project[x].single /\ R[x].full = project[x].full
      BY <1>4, <2>3
    <3> HIDE DEF ren
    <3> QED BY <3>1, <3>2
  <2> QED BY <2>2, <2>3
<1>18. UNION {J!Meaning(R, x, n) : n \in R[x].uses} = {ren(t) : t \in UNION {J!Meaning(project, x, n) : n \in project[x].uses}}
  <2> HIDE DEF new, ren
  <2>1. \A s : s \in UNION {J!Meaning(R, x, n) : n \in R[x].uses} <=> \E n \in project[x].uses : s \in J!Meaning(R, x, new(n))
    <3>1. \A s : s \in UNION {J!Meaning(R, x, n) : n \in R[x].uses} <=> \E n \in R[x].uses : s \in J!Meaning(R, x, n)
      OBVIOUS
    <3>2. \A n : n \in R[x].uses <=> \E m \in project[x].uses : n = new(m)
      BY <1>16
    <3> QED BY <3>1, <3>2
  <2> DEFINE meant == UNION {J!Meaning(R, x, n) : n \in R[x].uses}
  <2>2. \A s : s \in meant <=> \E n \in project[x].uses : \E t \in J!Meaning(project, x, n) : s = ren(t)
    <3>1. ASSUME NEW n \in project[x].uses, NEW s
          PROVE  s \in J!Meaning(R, x, new(n)) <=> \E t \in J!Meaning(project, x, n) : s = ren(t)
      <4>1. J!Meaning(R, x, new(n)) = {ren(t) : t \in J!Meaning(project, x, n)}
        BY <1>14
      <4> QED BY <4>1
    <3>2. \A s : s \in meant <=> \E n \in project[x].uses : s \in J!Meaning(R, x, new(n))
      BY <2>1
    <3> HIDE DEF meant
    <3> QED BY <3>1, <3>2
  <2> QED BY <2>2
<1>19. J!Refers(R, x) = {ren(t) : t \in J!Refers(project, x)}
  <2> HIDE DEF new, ren
  <2> QED BY <1>17, <1>18 DEF J!Refers
<1> QED BY <1>19

\* What the command has done when it is through.
JavaDone ==
  \/ refusal # None /\ renamed = project
  \/ refusal = None /\ J!Matches = {}
  \/ refusal = None /\ \E d \in J!Matches :
       /\ J!Matches = {d} /\ ~J!Collides(d)
       /\ renamed = [x \in J!Paths |-> IF x \in J!RelevantFiles(d) THEN J!Rewritten(project[x]) ELSE project[x]]

JavaInv == project \in JavaProjects /\ (renamed # None => JavaDone)

LEMMA JavaDoneIsExact ==
  ASSUME JavaInv
  PROVE  J!TypeRenameIsExact
<1> SUFFICES ASSUME renamed # None
             PROVE  /\ refusal # None => renamed = project
                    /\ \A d \in J!Matches :
                         /\ refusal = None => ~J!Collides(d) /\ J!Matches = {d}
                         /\ refusal = None /\ (\A y \in J!Paths : ~J!Unseen(d, y)) =>
                              \A x \in J!Paths : J!Refers(renamed, x) =
                                {IF t = d.type THEN <<t[1], newName>> ELSE t : t \in J!Refers(project, x)}
  BY DEF J!TypeRenameIsExact
<1>1. project \in JavaProjects /\ JavaDone
  BY DEF JavaInv
<1>2. CASE refusal # None /\ renamed = project
  BY <1>2
<1>3. CASE refusal = None /\ J!Matches = {}
  BY <1>3
<1>4. ASSUME NEW d \in J!Matches, refusal = None, J!Matches = {d}, ~J!Collides(d),
             renamed = [x \in J!Paths |-> IF x \in J!RelevantFiles(d) THEN J!Rewritten(project[x]) ELSE project[x]]
      PROVE  /\ \A c \in J!Matches : c = d
             /\ (\A y \in J!Paths : ~J!Unseen(d, y)) =>
                  \A x \in J!Paths : J!Refers(renamed, x) =
                    {IF t = d.type THEN <<t[1], newName>> ELSE t : t \in J!Refers(project, x)}
  BY <1>1, <1>4, RewrittenRefers
<1>5. CASE refusal = None /\ \E d \in J!Matches :
             /\ J!Matches = {d} /\ ~J!Collides(d)
             /\ renamed = [x \in J!Paths |-> IF x \in J!RelevantFiles(d) THEN J!Rewritten(project[x]) ELSE project[x]]
  <2>1. PICK d \in J!Matches :
             /\ J!Matches = {d} /\ ~J!Collides(d)
             /\ renamed = [x \in J!Paths |-> IF x \in J!RelevantFiles(d) THEN J!Rewritten(project[x]) ELSE project[x]]
    BY <1>5
  <2> SUFFICES ASSUME NEW c \in J!Matches
               PROVE  /\ ~J!Collides(c) /\ J!Matches = {c}
                      /\ (\A y \in J!Paths : ~J!Unseen(c, y)) =>
                           \A x \in J!Paths : J!Refers(renamed, x) =
                             {IF t = c.type THEN <<t[1], newName>> ELSE t : t \in J!Refers(project, x)}
    BY <1>5
  <2>2. c = d
    BY <2>1
  <2> QED BY <1>4, <1>5, <2>1, <2>2
<1> QED BY <1>1, <1>2, <1>3, <1>5 DEF JavaDone

\* The command does what it is to have done.
LEMMA JavaStep ==
  ASSUME JavaInv, [J!Next]_renameVars
  PROVE  JavaInv'
<1>1. project' = project /\ at' = at
  BY DEF J!Next, J!applyJavaIndexedRename, J!Finish, renameVars
<1>2. J!Paths' = J!Paths /\ J!Matches' = J!Matches
  BY <1>1 DEF J!Paths, J!Matches, J!declarations
<1>3. \A d : J!Collides(d)' = J!Collides(d) /\ J!RelevantFiles(d)' = J!RelevantFiles(d)
  BY <1>1 DEF J!Paths, J!Collides, J!RelevantFiles, J!declarations
<1>4. ASSUME renamed' # None
      PROVE  JavaDone'
  <2>1. CASE UNCHANGED renameVars
    <3>1. JavaDone
      BY <1>4, <2>1 DEF JavaInv, renameVars
    <3> QED BY <1>1, <1>2, <1>3, <2>1, <3>1 DEF JavaDone, renameVars
  <2>2. CASE J!applyJavaIndexedRename
    <3>1. CASE renamed' = project /\ (refusal' = "ambiguous" \/ refusal' = "collision")
      <4>1. refusal' # None
        BY <3>1, RefusalsAssumption, Zenon
      <4> QED BY <1>1, <3>1, <4>1 DEF JavaDone
    <3>2. CASE J!Matches = {} /\ refusal' = None
      BY <1>2, <3>2 DEF JavaDone
    <3>3. ASSUME NEW d \in J!Matches, J!Matches = {d}, ~J!Collides(d), refusal' = None,
                 renamed' = [x \in J!Paths |-> IF x \in J!RelevantFiles(d) THEN J!Rewritten(project[x]) ELSE project[x]]
          PROVE  JavaDone'
      BY <1>1, <1>2, <1>3, <3>3 DEF JavaDone
    <3> QED BY <2>2, <3>1, <3>2, <3>3 DEF J!applyJavaIndexedRename, J!Finish
  <2> QED BY <2>1, <2>2 DEF J!Next
<1> QED BY <1>1, <1>4 DEF JavaInv

\* An indexed rename that is not refused is exact wherever spelling tells the names of a
\* function, or of a file, apart: for every Go project and occurrence, and every Java project.
THEOREM IndexedRenamesAreExactHolds == MCSpec => []IndexedRenamesAreExact
<1> DEFINE Inv == (part = "go" => GoInv) /\ (part = "java" => JavaInv)
<1>1. MCInit => Inv
  <2> SUFFICES ASSUME MCInit PROVE Inv
    OBVIOUS
  <2>1. renamed = None
    BY DEF MCInit, G!Init, J!Init, NoRename
  <2>2. part = "go" => GoInv
    BY <2>1 DEF MCInit, G!Init, GoInv
  <2>3. part = "java" => JavaInv
    BY <2>1 DEF MCInit, J!Init, JavaInv
  <2> QED BY <2>2, <2>3
<1>2. Inv /\ [MCNext]_allVars => Inv'
  <2>1. ASSUME Inv, [MCNext]_allVars, part' = "go"
        PROVE  GoInv'
    <3>1. part = "go" /\ GoInv
      BY <2>1 DEF MCNext, Only, allVars
    <3>2. [G!Next]_renameVars
      BY <2>1, <3>1 DEF MCNext, Only, allVars
    <3> QED BY <3>1, <3>2, GoStep
  <2>2. ASSUME Inv, [MCNext]_allVars, part' = "java"
        PROVE  JavaInv'
    <3>1. part = "java" /\ JavaInv
      BY <2>2 DEF MCNext, Only, allVars
    <3>2. [J!Next]_renameVars
      BY <2>2, <3>1 DEF MCNext, Only, allVars
    <3> QED BY <3>1, <3>2, JavaStep
  <2> QED BY <2>1, <2>2
<1>3. Inv => IndexedRenamesAreExact
  <2>1. part = "go" /\ GoInv => G!RenameIsExact
    BY GoDoneIsExact
  <2>2. part = "java" /\ JavaInv => J!TypeRenameIsExact
    BY JavaDoneIsExact
  <2> QED BY <2>1, <2>2 DEF IndexedRenamesAreExact
<1> QED BY <1>1, <1>2, <1>3, PTL DEF MCSpec

==============================================================================
