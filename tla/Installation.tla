---------------------------- MODULE Installation ----------------------------
(***************************************************************************)
(* Installing Easy OpenCode into a project or globally, installing another *)
(* version over it, and uninstalling it.  The commands work on three       *)
(* places: the asset directory, which is removed and copied again; the     *)
(* configuration opencode.json, which the user also edits; and, in a       *)
(* project, the directory scripts/, which the user also fills.  A command  *)
(* can be killed between any two of its file operations, and inside the    *)
(* write of a file.  What a version ships under one name stands for its    *)
(* agent, command, instruction, plugin entry and script of that name.      *)
(***************************************************************************)
CONSTANTS
    Names,          \* names of agents, commands and scripts
    Versions, Ships,\* Ships[v]: the names version v brings
    Places,         \* a subset of {"project", "global"}
    None, Broken    \* nothing there; a configuration that is not JSON

VARIABLES
    place,          \* where this installation lives
    assets,         \* None, "partial", or the version that is there
    config,         \* None, Broken, or what the file says
    scripts,        \* the project's scripts by name
    pc, version,    \* the command that runs: its next step and its version
    todo,           \* shims it has still to write or remove
    done            \* the last command, if it ended and nobody moved since

vars == <<place, assets, config, scripts, pc, version, todo, done>>

\* An entry of the configuration is the user's or points below the asset
\* directory: `entry` for the agents and commands, `listed` for instructions
\* and plugins, `default` for the default agent.
Empty == [entry |-> [n \in Names |-> None], listed |-> {}, default |-> None]
Readable(c) == c \notin {None, Broken}

Init ==
    /\ place \in Places
    /\ assets = None
    /\ config \in {None, Empty, [Empty EXCEPT !.default = "user"]}
    /\ scripts = [n \in Names |-> None]
    /\ pc = "idle" /\ version = None /\ todo = {} /\ done = None

-----------------------------------------------------------------------------
(* Installing.                                                             *)

StartInstall ==
    /\ pc = "idle"
    /\ version' \in Versions
    /\ pc' = "copy" /\ done' = None
    /\ assets' = "partial"          \* rmSync, then an empty directory
    /\ UNCHANGED <<place, config, scripts, todo>>

\* copyAssets and configureHooks are done; config.json comes next.
CopyAssets ==
    /\ pc = "copy"
    /\ assets' = version
    /\ pc' = "merge"
    /\ UNCHANGED <<place, config, scripts, version, todo, done>>

mergeConfig(c, v) ==
    [entry |-> [n \in Names |-> IF n \in Ships[v] THEN "eoc" ELSE c.entry[n]],
     listed |-> c.listed \cup Ships[v],
     default |-> IF c.default = None THEN "eoc" ELSE c.default]

\* A file that is absent or no JSON counts as an empty configuration.
WriteConfig ==
    /\ pc = "merge"
    /\ config' = mergeConfig(IF Readable(config) THEN config ELSE Empty, version)
    /\ IF place = "project"
       THEN pc' = "shims" /\ todo' = Ships[version] /\ UNCHANGED done
       ELSE pc' = "idle" /\ done' = "installed" /\ UNCHANGED todo
    /\ UNCHANGED <<place, assets, scripts, version>>

\* createProjectScriptShims: a script without the marker line is the user's.
WriteShim(n) ==
    /\ pc = "shims" /\ n \in todo
    /\ todo' = todo \ {n}
    /\ scripts' = IF scripts[n] \in {None, "shim"}
                  THEN [scripts EXCEPT ![n] = "shim"] ELSE scripts
    /\ UNCHANGED <<place, assets, config, pc, version, done>>

EndInstall ==
    /\ pc = "shims" /\ todo = {}
    /\ pc' = "idle" /\ done' = "installed"
    /\ UNCHANGED <<place, assets, config, scripts, version, todo>>

-----------------------------------------------------------------------------
(* Uninstalling.                                                           *)

Shims == {n \in Names : scripts[n] = "shim"}

StartUninstall ==
    /\ pc = "idle"
    /\ assets # None \/ config # None \/ Shims # {}     \* "Nothing to remove"
    /\ pc' = "unshim" /\ todo' = Shims /\ version' = None /\ done' = None
    /\ UNCHANGED <<place, assets, config, scripts>>

RemoveShim(n) ==
    /\ pc = "unshim" /\ n \in todo
    /\ scripts' = [scripts EXCEPT ![n] = None]
    /\ todo' = todo \ {n}
    /\ UNCHANGED <<place, assets, config, pc, version, done>>

RemoveAssets ==
    /\ pc = "unshim" /\ todo = {}
    /\ assets' = None
    /\ pc' = "clean"
    /\ UNCHANGED <<place, config, scripts, version, todo, done>>

\* Mutant: only the entries of agents and commands are looked at.
MutCleanEntries(c) ==
    [c EXCEPT !.entry = [n \in Names |-> IF @[n] = "eoc" THEN None ELSE @[n]],
              !.default = IF @ = "eoc" THEN None ELSE @]

\* What points below the asset directory goes, whichever version wrote it.
cleanConfig(c) ==
    [entry |-> [n \in Names |-> IF c.entry[n] = "eoc" THEN None ELSE c.entry[n]],
     listed |-> {},
     default |-> IF c.default = "eoc" THEN None ELSE c.default]

CleanConfig ==
    /\ pc = "clean"
    /\ config' = IF Readable(config) THEN cleanConfig(config) ELSE config
    /\ pc' = "idle" /\ done' = "uninstalled"
    /\ UNCHANGED <<place, assets, scripts, version, todo>>

-----------------------------------------------------------------------------
(* Kills and the user.                                                     *)

\* The process dies: between two operations, in the write of opencode.json, or
\* in the write of a shim, which then lacks the marker line.
Killed ==
    /\ pc # "idle"
    /\ \/ UNCHANGED <<config, scripts>>
       \/ /\ pc = "merge" \/ (pc = "clean" /\ Readable(config))
          /\ config' = Broken /\ UNCHANGED scripts
       \/ /\ pc = "shims" /\ UNCHANGED config
          /\ \E n \in todo : /\ scripts[n] \in {None, "shim"}
                             /\ scripts' = [scripts EXCEPT ![n] = "torn"]
    /\ pc' = "idle" /\ todo' = {} /\ done' = None
    /\ UNCHANGED <<place, assets, version>>

\* While no command runs the user writes a script or an entry of their own.
UserWrites ==
    /\ pc = "idle" /\ done' = None
    /\ \E n \in Names :
         \/ /\ place = "project"
            /\ scripts' = [scripts EXCEPT ![n] = "user"] /\ UNCHANGED config
         \/ /\ Readable(config) /\ UNCHANGED scripts
            /\ config' = [config EXCEPT !.entry[n] = "user"]
    /\ UNCHANGED <<place, assets, pc, version, todo>>

Next ==
    \/ StartInstall \/ CopyAssets \/ WriteConfig \/ EndInstall
    \/ StartUninstall \/ RemoveAssets \/ CleanConfig
    \/ \E n \in Names : WriteShim(n) \/ RemoveShim(n)
    \/ Killed \/ UserWrites

Spec == Init /\ [][Next]_vars

-----------------------------------------------------------------------------
\* Whatever was killed before and whichever versions came first: an uninstall
\* that ends leaves no assets, no shim and, in a configuration that can be read,
\* nothing that points to the assets; an installation that ends leaves a
\* configuration and, in a project, a script for all its version ships.
CommandsFinishTheJob ==
    /\ done = "uninstalled" =>
         /\ assets = None /\ Shims = {}
         /\ Readable(config) =>
              /\ config.listed = {} /\ config.default # "eoc"
              /\ \A n \in Names : config.entry[n] # "eoc"
    /\ done = "installed" =>
         /\ assets = version /\ Ships[version] \subseteq config.listed
         /\ \A n \in Ships[version] :
              config.entry[n] = "eoc" /\ (place = "project" => scripts[n] # None)
=============================================================================
