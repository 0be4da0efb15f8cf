----------------------------- MODULE Ecosystem -----------------------------
(***************************************************************************)
(* Ecosystem bundles: the file .opencode/ecosystem.json, the commands      *)
(* `eoc ecosystem enable | disable | apply`, `eoc bootstrap`, the          *)
(* recommendations drawn from the workspace, and the hook policy that      *)
(* reads the file.  Lists of bundle ids are sets: the code keeps them      *)
(* without repetition and no decision depends on their order.  One command *)
(* runs at a time; a command may be killed while it writes the file.       *)
(***************************************************************************)
CONSTANTS
    Bundles,        \* the ids of bundle-registry.js
    Typos,          \* ids a user may type that the registry does not have
    Governance,     \* the bundle that also wants a mode other than solo
    Requires,       \* Requires[b]: the bundles b requires
    Presets,        \* Presets[p]: the bundles of preset p
    None, Torn      \* no file; a file cut short, which is not JSON

ASSUME EcosystemAssumption ==
    /\ Governance \in Bundles
    /\ Typos \cap Bundles = {}
    /\ Requires \in [Bundles -> SUBSET Bundles]
    /\ \A p \in DOMAIN Presets : Presets[p] \subseteq Bundles

VARIABLES
    file,           \* the managed state on disk
    seen,           \* the bundles whose signals the detectors find
    mode,           \* the product mode of the project
    settled         \* nothing moved since the file was last written

vars == <<file, seen, mode, settled>>

Names == Bundles \cup Typos
Modes == {"solo", "team"}
EmptyState == [enabled |-> {}, disabled |-> {}, applied |-> {}]
loadEcosystemState == IF file = None THEN EmptyState ELSE file

\* The bundles `wanted` brings in: a disabled bundle is neither taken nor
\* searched for what it requires.
expandBundleIds(wanted, disabled) ==
    LET Known(S) == (S \cap Bundles) \ disabled
        Closed(S) == Known(wanted) \subseteq S
                     /\ \A b \in S : Known(Requires[b]) \subseteq S
    IN  {b \in Bundles : \A S \in SUBSET (Bundles \ disabled) :
                           Closed(S) => b \in S}

detected(m) == {b \in seen : b = Governance => m # "solo"}

\* Mutant: bundles applied earlier are forgotten.
MutForgetApplied(s, m) == (s.enabled \cup detected(m)) \ s.disabled

\* What buildWorkspaceProfile recommends in mode m: whatever was enabled or
\* applied before stays recommended, also when its signals are gone.
buildWorkspaceProfile(s, m) ==
    (s.enabled \cup s.applied \cup detected(m)) \ s.disabled

resolveEffectiveBundles(enabled, disabled, recommended) ==
    expandBundleIds(recommended \cup enabled, disabled)

\* Writing the file: it is complete, or the process is killed inside the write
\* and leaves it torn.  Nothing else in the program writes or repairs it.
writeEcosystemState(s) == file' \in {s, Torn}

applyBundles(enabled, disabled, recommended) ==
    writeEcosystemState(
      [enabled |-> enabled, disabled |-> disabled,
       applied |-> resolveEffectiveBundles(enabled, disabled, recommended)])

Init ==
    /\ file = None
    /\ seen \in SUBSET Bundles
    /\ mode \in Modes
    /\ settled = FALSE

\* `ecosystem enable`: adds to the enabled bundles, checked by nobody, and
\* leaves the disabled ones alone.
Enable(ids) ==
    LET s == loadEcosystemState
    IN  applyBundles(s.enabled \cup ids, s.disabled, buildWorkspaceProfile(s, mode))

Disable(ids) ==
    LET s == loadEcosystemState
    IN  applyBundles(s.enabled, s.disabled \cup ids, buildWorkspaceProfile(s, mode))

\* `ecosystem apply`: the bundles named on its command line are not used, since
\* the profile always holds a list of recommendations.
Apply ==
    LET s == loadEcosystemState
    IN  applyBundles(s.enabled, s.disabled, buildWorkspaceProfile(s, mode))

Command ==
    /\ file # Torn              \* otherwise loading throws
    /\ \/ \E ids \in SUBSET Names \ {{}} : Enable(ids) \/ Disable(ids)
       \/ Apply
    /\ settled' = TRUE
    /\ UNCHANGED <<seen, mode>>

\* `bootstrap --apply`, or an installation with --bootstrap: what was selected
\* takes the place of what was enabled.  A preview (no --apply) writes nothing.
bootstrapEcosystem(presets, ids, m) ==
    LET s == loadEcosystemState
        selected == ids \cup UNION {Presets[p] : p \in presets}
    IN  /\ selected \subseteq Bundles       \* otherwise "unknown bundle"
        /\ applyBundles(selected, s.disabled, buildWorkspaceProfile(s, m))

Bootstrap ==
    /\ file # Torn
    /\ \E presets \in SUBSET DOMAIN Presets, ids \in SUBSET Names, m \in Modes :
         /\ bootstrapEcosystem(presets, ids, m)
         /\ settled' = (m = mode)           \* --mode decides for this run only
    /\ UNCHANGED <<seen, mode>>

\* The user edits the project, sets its mode, or removes the file.
WorkspaceMoves ==
    /\ seen' \in SUBSET Bundles
    /\ mode' \in Modes
    /\ settled' = FALSE
    /\ UNCHANGED file

RemoveFile ==
    /\ file' = None
    /\ settled' = FALSE
    /\ UNCHANGED <<seen, mode>>

Next == Command \/ Bootstrap \/ WorkspaceMoves \/ RemoveFile

Spec == Init /\ [][Next]_vars

-----------------------------------------------------------------------------
\* The plan `ecosystem status` and `recommend` show.
ResolvedPlan ==
    LET s == loadEcosystemState
    IN  (s.applied \cup s.enabled \cup buildWorkspaceProfile(s, mode)) \ s.disabled

\* The file is at rest after a command: `ecosystem apply` run again in the same
\* workspace would write the same bundles, whichever sequence of enables,
\* disables and bootstraps came before, no disabled bundle is applied, and the
\* plan that status shows is what was applied, up to ids nobody registered.
AppliedSettles ==
    (file \notin {None, Torn}) =>
       /\ file.applied \cap file.disabled = {}
       /\ settled =>
            /\ resolveEffectiveBundles(file.enabled, file.disabled,
                                       buildWorkspaceProfile(file, mode)) = file.applied
            /\ ResolvedPlan \cap Bundles = file.applied

=============================================================================
