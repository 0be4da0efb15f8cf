------------------------------ MODULE Snapshots ------------------------------
(* Safety snapshots: safe-apply and implement-task record the branch and the  
   commit before an edit, and a rollback resets to them.  The user edits,      
   commits and changes branch at any moment, also between the steps of a       
   command, and a command may be killed between two of its writes.             
                                                                               
   The tree holds one tracked target and one possible untracked file; a        
   repository has at least one commit.  A refusal and a dry run change        
   nothing and have no action.                                                *)
EXTENDS Integers, Sequences

CONSTANTS
  Branches, Contents,   \* the branches; what the target may hold
  MaxCommits, MaxTaken, \* bounds: commits of the repository, snapshots taken
  None                  \* a null, a missing file

VARIABLES
  git,      \* the repository and the tree: repo, ignored (.opencode is in
            \* .gitignore), branch, heads, log (the target at each commit),
            \* file (the target now), extra (an untracked file)
  safety,   \* .opencode: snapshots, latest, plan, rolled (last-rollback.json)
  cmd,      \* the command in progress
  taken,    \* snapshot ids handed out
  meddled   \* somebody changed the repository after the command read it

vars == <<git, safety, cmd, taken, meddled>>

Idle == [at |-> "idle"]
Tip(g) == g.heads[g.branch]
Dirty(g) == g.repo /\ (g.extra \/ g.file # g.log[Tip(g)])

\* What the program reads of the repository.
getGitRepoState(g) ==
  [repo |-> g.repo, dirty |-> Dirty(g), target |-> g.file,
   branch |-> IF g.repo THEN g.branch ELSE None,
   head |-> IF g.repo THEN Tip(g) ELSE None]

loadSnapshot(id) ==
  LET wanted == IF id = None THEN safety.latest ELSE id
      found == {s \in safety.snapshots : s.id = wanted}
  IN IF found = {} THEN None ELSE CHOOSE s \in found : TRUE

Init ==
  /\ \E repo, ignored \in BOOLEAN, c \in Contents : \E b \in Branches :
       git = [repo |-> repo, ignored |-> ignored, branch |-> b, log |-> <<c>>,
              heads |-> [x \in Branches |-> 1], file |-> c, extra |-> FALSE]
  /\ safety = [snapshots |-> {}, latest |-> None, plan |-> None, rolled |-> None]
  /\ cmd = Idle /\ taken = 0 /\ meddled = FALSE

-------------------------------------------------------------------------------
(* safe-apply snapshot, and the snapshot of an implement-task run. *)

\* The outcome of createSnapshot before it writes anything.
SnapshotStatus(state, allowDirty) ==
  IF ~state.repo THEN "skipped_not_git"
  ELSE IF state.dirty /\ ~allowDirty THEN "skipped_dirty" ELSE "ready"

Then(after, id) == IF after = "plan" THEN [at |-> "plan", id |-> id] ELSE Idle

\* A skipped snapshot has an id and no file.
createSnapshot(allowDirty, forPlan) ==
  LET state == getGitRepoState(git)
      status == SnapshotStatus(state, allowDirty)
      after == IF forPlan THEN "plan" ELSE "idle"
  IN /\ cmd = Idle /\ taken < MaxTaken
     /\ taken' = taken + 1
     /\ cmd' = IF status = "ready"
               THEN [at |-> "save", after |-> after,
                     snapshot |-> [id |-> taken + 1, status |-> status,
                                   branch |-> state.branch, head |-> state.head]]
               ELSE Then(after, taken + 1)
     /\ UNCHANGED <<git, safety, meddled>>

SaveSnapshot ==
  /\ cmd.at = "save"
  /\ safety' = [safety EXCEPT !.snapshots = @ \cup {cmd.snapshot}]
  /\ cmd' = [cmd EXCEPT !.at = "point"]
  /\ UNCHANGED <<git, taken, meddled>>

writeLatestSnapshot ==
  /\ cmd.at = "point"
  /\ safety' = [safety EXCEPT !.latest = cmd.snapshot.id]
  /\ cmd' = Then(cmd.after, cmd.snapshot.id)
  /\ UNCHANGED <<git, taken, meddled>>

\* implement-task --no-snapshot.
NoSnapshot ==
  /\ cmd = Idle
  /\ cmd' = [at |-> "plan", id |-> None]
  /\ UNCHANGED <<git, safety, taken, meddled>>

\* The plan links the snapshot and keeps the repository as the plan found it.
WritePlan ==
  /\ cmd.at = "plan"
  /\ safety' = [safety EXCEPT !.plan = [snapshot |-> cmd.id,
                                        baseline |-> getGitRepoState(git)]]
  /\ cmd' = Idle /\ UNCHANGED <<git, taken, meddled>>

-------------------------------------------------------------------------------
(* safe-apply rollback. *)

\* Mutant: the branch is not compared.
MutAnyBranch(s, force) == s # None /\ s.status = "ready" /\ git.repo

RollbackAllowed(s, force) ==
  s # None /\ s.status = "ready" /\ git.repo /\ (s.branch = git.branch \/ force)

rollbackSnapshot(id, force) ==
  LET s == loadSnapshot(id)
  IN /\ cmd = Idle /\ RollbackAllowed(s, force)
     /\ cmd' = [at |-> "reset", snapshot |-> s, force |-> force, before |-> git.heads]
     /\ meddled' = FALSE
     /\ UNCHANGED <<git, safety, taken>>

ResetTo(g, head) == [g EXCEPT !.heads[g.branch] = head, !.file = g.log[head]]

\* git reset --hard: the branch that is checked out moves.
Reset ==
  /\ cmd.at = "reset"
  /\ git' = ResetTo(git, cmd.snapshot.head)
  /\ cmd' = [cmd EXCEPT !.at = "clean"]
  /\ UNCHANGED <<safety, taken, meddled>>

Wiped == [safety EXCEPT !.snapshots = {}, !.latest = None, !.plan = None, !.rolled = None]

\* git clean -fd: also takes .opencode when git does not ignore it.
Clean ==
  /\ cmd.at = "clean"
  /\ git' = [git EXCEPT !.extra = FALSE]
  /\ safety' = IF git.ignored THEN safety ELSE Wiped
  /\ cmd' = [cmd EXCEPT !.at = "record"]
  /\ UNCHANGED <<taken, meddled>>

RecordRollback ==
  /\ cmd.at = "record"
  /\ safety' = [safety EXCEPT !.rolled = cmd.snapshot.id]
  /\ cmd' = Idle
  /\ UNCHANGED <<git, taken, meddled>>

\* git fails, or the command is killed: what was done stays.
Abort ==
  /\ cmd # Idle /\ cmd' = Idle
  /\ UNCHANGED <<git, safety, taken, meddled>>

-------------------------------------------------------------------------------
(* The user and git. *)

Meddle(g) ==
  /\ git' = g /\ g # git
  /\ meddled' = TRUE
  /\ UNCHANGED <<safety, cmd, taken>>

Edit == \E c \in Contents \cup {None} : Meddle([git EXCEPT !.file = c])
AddFile == Meddle([git EXCEPT !.extra = TRUE])

Commit ==
  /\ Dirty(git) /\ Len(git.log) < MaxCommits
  /\ Meddle([git EXCEPT !.log = Append(@, git.file), !.extra = FALSE,
                        !.heads[git.branch] = Len(git.log) + 1])

Checkout ==
  \E b \in Branches : /\ git.repo /\ ~Dirty(git)
                      /\ Meddle([git EXCEPT !.branch = b, !.file = git.log[git.heads[b]]])

Command ==
  \/ \E allowDirty, forPlan \in BOOLEAN : createSnapshot(allowDirty, forPlan)
  \/ \E id \in {None} \cup 1..taken, force \in BOOLEAN : rollbackSnapshot(id, force)
  \/ SaveSnapshot \/ writeLatestSnapshot \/ NoSnapshot \/ WritePlan
  \/ Reset \/ Clean \/ RecordRollback

User == Edit \/ AddFile \/ Commit \/ Checkout

Next == Command \/ User \/ Abort

Spec == Init /\ [][Next]_vars

-------------------------------------------------------------------------------
(* What the program says of a snapshot and of a plan. *)

\* The readiness of the latest snapshot, as status, release-check show it.
assessSnapshotReadiness ==
  LET now == getGitRepoState(git)
      s == loadSnapshot(None)
  IN CASE ~now.repo -> "degraded_not_git"
       [] now.repo /\ now.dirty -> "degraded_dirty"
       [] now.repo /\ ~now.dirty /\ s = None -> "missing"
       [] OTHER -> IF s.head # now.head THEN "stale"
                   ELSE IF s.branch # now.branch THEN "stale_branch" ELSE "ready"

\* How far the repository has drifted from a plan's baseline, out of 100.
ConfidenceScore(base, now) ==
  LET both == base.repo /\ now.repo
      Points(n, drifted) == IF drifted THEN n ELSE 0
  IN 100 - Points(40, both /\ base.branch # now.branch) - Points(20, both /\ base.head # now.head)
         - Points(15, both /\ now.dirty) - Points(35, base.repo # now.repo)
         - Points(10, base.target # None /\ base.target # now.target)

diffRepoState(base, now) ==
  LET score == ConfidenceScore(base, now)
  IN IF score < 50 THEN "new_plan" ELSE IF score < 80 THEN "rebuild_context" ELSE "resume"

-------------------------------------------------------------------------------
(* Properties. *)

\* A rollback that records itself, and that nobody disturbed, has put the branch
\* on the snapshot's commit with nothing left to commit, and without --force has
\* moved no branch but the snapshot's.  Its steps are separate git processes, and
\* the branch is only compared before the first.
RecordsExactly ==
  RecordRollback /\ ~meddled =>
    LET s == cmd.snapshot
    IN /\ Tip(git) = s.head /\ ~Dirty(git)
       /\ \A b \in Branches : git.heads[b] # cmd.before[b] => cmd.force \/ b = s.branch
RollbackIsExact == [][RecordsExactly]_vars

\* "ready" is the promise that the rollback it recommends is allowed and takes
\* nothing: the snapshot loads by the id shown, for this branch, and resetting and
\* cleaning leave the tree as it is.
ReadyIsReversible ==
  assessSnapshotReadiness = "ready" =>
    /\ RollbackAllowed(loadSnapshot(safety.latest), FALSE)
    /\ ResetTo(git, loadSnapshot(None).head) = git /\ ~git.extra

\* A plan recorded on a clean tree is never resumed over a target that has changed
\* since: the change is uncommitted or in another commit, and either takes the score
\* of diffRepoState below 80.  (A dirty baseline does not have this: reverting the
\* edit changes the target, and is scored 90.)
TargetDriftIsSeen ==
  LET base == safety.plan.baseline
  IN /\ safety.plan # None /\ base.repo /\ ~base.dirty
     /\ base.target # None /\ git.file # base.target
     => diffRepoState(base, getGitRepoState(git)) # "resume"
===============================================================================
