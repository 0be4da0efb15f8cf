---------------------------- MODULE VerifyCommands ----------------------------
(***************************************************************************)
(* Which commands verify a feature of a node project: those its profile    *)
(* has for the steps a skill names (project-profile, verification),        *)
(* adjusted to its scripts and to what the project memory prefers          *)
(* (core/feature/feedback-commands.js), and, where a script is missing,    *)
(* those debug-fix-loop tries instead (core/repair).  What was tried with  *)
(* success the memory prefers from then on.                                *)
(*                                                                         *)
(* Between two commands the user rewrites the project.  FeatureRun has     *)
(* what they generate, what else they remember and where they may be       *)
(* killed.  One test framework is told apart, the tool.                    *)
(***************************************************************************)
EXTENDS Naturals, Sequences, FiniteSets, SequencesExt

CONSTANTS
  Projects,  \* what package.json and the sources may be: the package manager, the scripts
             \* (None, a placeholder, one that starts the tool or another), whether the tool
             \* is installed, the kinds of checks other tools are installed for, whether there
             \* is a directory of tests, and the runner the sources name:
             \* [pm, body, tool, others, suite, mentions]
  Skills,    \* the kinds of checks a skill asks for, in order
  Lists,     \* the lists of --verify that debug-fix-loop may be given
  MaxTurns,  \* bound: commands begun and changes of the project
  None

VARIABLES project, memory, job, turns

commandVars == <<project, memory, job, turns>>

Idle == [at |-> "idle"]

Modes == {"default", "ci", "watch", "coverage"}

\* A command is run by a package manager, a tool through npx or pnpm exec, or node.
Script(pm, name) == [by |-> pm, do |-> name]
Tool(mode) == [by |-> "npx", do |-> IF mode = "ci" THEN "default" ELSE mode]
Checker(pm, kind) == [by |-> IF pm = "npm" THEN "npx" ELSE "pnpm-exec", do |-> kind]
NodeTest == [by |-> "node", do |-> "default"]

Has(p, name) == p.body[name] # None
At(seq, i) == IF i = 0 THEN None ELSE seq[i]
FirstOf(seq, Test(_)) == At(seq, SelectInSeq(seq, Test))
Either(x, y) == IF x # None THEN x ELSE y
FirstScript(p, names) == FirstOf(names, LAMBDA n : Has(p, n))
Named(pm, name) == IF name = None THEN None ELSE Script(pm, name)
ScriptCommand(p, names) == Named(p.pm, FirstScript(p, names))

------------------------------------------------------------------------------
(* The profile of the project, and the steps of a skill in its words.      *)

Kinds == <<"typecheck", "lint", "test", "build">>
OtherKinds == Range(Kinds) \ {"test"}
StartsTool(c) == c.by \in {"npx", "pnpm-exec"} /\ c.do \notin OtherKinds

Real(p, kind) == p.body[kind] \notin {None, "placeholder"}
UsesTool(p) == p.tool \/ p.body["test"] = "tool"

\* buildValidationCommands: None where the project has no such check.
Validation(p, kind) ==
  CASE Real(p, kind) -> Script(p.pm, kind)
    [] ~Real(p, kind) /\ kind = "test" /\ UsesTool(p) -> Checker(p.pm, "default")
    [] ~Real(p, kind) /\ kind \in p.others -> Checker(p.pm, kind)
    [] OTHER -> None

buildVerifySuggestions(p, kinds) ==
  LET named == [i \in DOMAIN kinds |-> Either(Validation(p, kinds[i]), Script("npm", kinds[i]))]
      rest  == SelectSeq(Kinds, LAMBDA k : k \notin Range(kinds) /\ Validation(p, k) # None)
  IN  named \o [i \in DOMAIN rest |-> Validation(p, rest[i])]

------------------------------------------------------------------------------
(* The project memory: the framework, the command preferred for each mode, *)
(* and the one of no mode.                                                 *)

detectTestFramework(p) ==
  CASE UsesTool(p) \/ p.mentions = "tool" -> "tool"
    [] ~UsesTool(p) /\ p.mentions = "node" -> "node:test"
    [] OTHER -> "unknown"

ModeScripts == [default  |-> <<"test:unit", "test">>,
                ci       |-> <<"test:ci", "ci:test", "test:unit">>,
                watch    |-> <<"test:watch", "watch:test", "test:dev">>,
                coverage |-> <<"test:coverage", "coverage", "coverage:test">>]

detectPreferredTestCommands(p) ==
  LET fallback(mode) == CASE detectTestFramework(p) = "tool" -> Tool(mode)
                          [] detectTestFramework(p) = "node:test" -> NodeTest
                          [] OTHER -> None
      found(mode) == Either(ScriptCommand(p, ModeScripts[mode]), fallback(mode))
  IN  [mode \in Modes |->
         IF mode = "ci" THEN Either(ScriptCommand(p, ModeScripts["ci"]), found("default"))
         ELSE found(mode)]

analyzeProjectMemory(p) ==
  [framework |-> detectTestFramework(p), commands |-> detectPreferredTestCommands(p),
   single |-> detectPreferredTestCommands(p)["default"]]

\* readOrInferProjectMemory: what the file has, however old, is kept.
Read == IF memory = None THEN analyzeProjectMemory(project)
        ELSE [memory EXCEPT !.single = Either(@, analyzeProjectMemory(project).single)]

------------------------------------------------------------------------------
(* inferVerifyCommands.                                                    *)

NamedScripts == {"test:unit", "test:ci", "test:watch", "test:coverage", "coverage", "test"}

\* Mutant: a script that was there once is taken to be there.
MutResolve(c, p) ==
  IF c = None THEN None
  ELSE IF c.by = "npm" /\ c.do \in NamedScripts THEN Script(p.pm, c.do)
  ELSE IF c.by = "node" THEN c
  ELSE IF StartsTool(c) /\ p.tool THEN Tool(c.do) ELSE None

\* What was preferred once is preferred as far as the project still has it.  A script
\* remembered under another package manager's name is not recognised.
resolveNamedCommand(c, p) ==
  IF c = None THEN None
  ELSE IF c.by = "npm" /\ c.do \in NamedScripts /\ Has(p, c.do) THEN Script(p.pm, c.do)
  ELSE IF c.by = "node" THEN c
  ELSE IF StartsTool(c) /\ p.tool THEN Tool(c.do) ELSE None

preferredMemoryTestCommand(m, p, mode) ==
  resolveNamedCommand(
    IF mode = "default" THEN Either(m.commands["default"], m.single) ELSE m.commands[mode], p)

ModeScript(p, mode) ==
  CASE mode = "default" -> "test:unit"
    [] mode = "ci"      -> FirstScript(p, <<"test:ci", "ci:test">>)
    [] OTHER            -> FirstScript(p, ModeScripts[mode])

\* A CI script that is not called test:ci goes by the name of the unit tests'.
SpokenName(name) == IF name = "ci:test" THEN "test:unit" ELSE name

FrameworkScript(p, mode) ==
  FirstOf(<<ModeScript(p, mode), "test:unit", "test">>,
          LAMBDA name : name # None /\ p.body[name] = "tool")

preferredFrameworkTestCommand(m, p, mode) ==
  IF m.framework # "tool" THEN None
  ELSE Either(Named(p.pm, SpokenName(FrameworkScript(p, mode))),
              IF p.tool THEN Tool(mode) ELSE None)

inferNodeTestFallback(m, p) == IF m.framework = "node:test" /\ p.suite THEN NodeTest ELSE None

Preferred(m, p, mode) ==
  Either(preferredMemoryTestCommand(m, p, mode),
         Either(preferredFrameworkTestCommand(m, p, mode), inferNodeTestFallback(m, p)))

Watches(c) == c.do \in {"test:watch", "watch:test", "watch"}
AsksCoverage(c)  == c.do \in {"test:coverage", "coverage", "coverage:test"}

\* What a command that is asked for becomes, None where it is skipped.
Adjusted(m, p, c, ci, mode) ==
  LET either(x) == Either(Preferred(m, p, x), Preferred(m, p, "default")) IN
  IF ci /\ Watches(c) THEN either("ci")
  ELSE IF mode = "coverage" /\ AsksCoverage(c) THEN either("coverage")
  ELSE IF c = Script("npm", "build") THEN ScriptCommand(p, <<"build">>)
  ELSE IF c = Script("npm", "test") THEN Either(ScriptCommand(p, <<"test">>), Preferred(m, p, mode))
  ELSE IF c = Tool("default") THEN Either(Preferred(m, p, mode), c)
  ELSE IF Watches(c) \/ c = Script("npm", "test:dev")
    THEN Either(either(IF ci THEN "ci" ELSE "watch"), c)
  ELSE c

\* The commands there are, each where it is said first.
Once(commands) ==
  LET first == {i \in DOMAIN commands :
                  commands[i] # None /\ \A j \in 1..(i - 1) : commands[j] # commands[i]}
      rank(i) == Cardinality({j \in first : j <= i})
  IN  [n \in 1..Cardinality(first) |-> commands[CHOOSE i \in first : rank(i) = n]]

UnlessEmpty(commands, otherwise) == IF commands # <<>> THEN commands ELSE otherwise

inferVerifyCommands(m, p, asked, ci, mode) ==
  UnlessEmpty(Once([i \in DOMAIN asked |-> Adjusted(m, p, asked[i], ci, mode)]),
              Once(<<ScriptCommand(p, <<"build">>),
                     Either(Preferred(m, p, mode), ScriptCommand(p, <<"test">>))>>))

PreferredCommands(m, p) ==
  [mode \in Modes |-> IF mode = "ci" THEN Either(Preferred(m, p, "ci"), Preferred(m, p, "default"))
                      ELSE Preferred(m, p, mode)]

\* A command whose words say it tests.
IsTest(c) == c.do \notin OtherKinds \cup {"coverage"} \/ StartsTool(c) \/ c.by = "node"
FirstTest(commands) == FirstOf(commands, IsTest)

\* What is remembered of commands that inferVerifyCommands found.
Learned(m, commands, preferred) ==
  [m EXCEPT !.single = Either(FirstTest(commands), Either(preferred["default"], @)),
            !.commands = preferred]

------------------------------------------------------------------------------
(* generate-feature, which leaves the verification to debug-fix-loop, and  *)
(* debug-fix-loop by itself.                                               *)

Init == project \in Projects /\ memory = None /\ job = Idle /\ turns = 0

Begin == job = Idle /\ turns < MaxTurns /\ turns' = turns + 1

Plan(m, p, kinds) == inferVerifyCommands(m, p, buildVerifySuggestions(p, kinds), FALSE, "default")

\* The child that scaffolds reads the memory and plans; what it plans it remembers,
\* before anything was run.  The parent keeps the memory from before.
Generate(kinds, inCI, verify) ==
  LET commands == Plan(Read, project, kinds) IN
  /\ Begin
  /\ memory' = Learned(Read, commands, PreferredCommands(Read, project))
  /\ job' = IF commands = <<>> \/ ~verify THEN Idle
            ELSE [at |-> "start", verify |-> commands, ci |-> inCI, parent |-> memory',
                  mem |-> None, others |-> <<>>]
  /\ UNCHANGED project

inferInitialVerifyCommands(inCI) ==
  inferVerifyCommands(Read, project, <<Script("npm", "build"), Script("npm", "test")>>, FALSE,
                      IF inCI THEN "ci" ELSE "default")

\* With nothing to run it refuses.
Repair(list, inCI) ==
  LET commands == IF list # <<>> THEN list ELSE inferInitialVerifyCommands(inCI) IN
  /\ Begin /\ commands # <<>>
  /\ job' = [at |-> "start", verify |-> commands, ci |-> inCI, parent |-> None,
             mem |-> None, others |-> <<>>]
  /\ memory' = IF list # <<>> THEN memory ELSE Read
  /\ UNCHANGED project

Start ==
  /\ job.at = "start"
  /\ memory' = Read /\ job' = [job EXCEPT !.at = "verify", !.mem = Read]
  /\ UNCHANGED <<project, turns>>

CanRun(p, c) ==
  /\ c.by \in {"npm", "pnpm"} => Has(p, c.do)
  /\ c.by \in {"npx", "pnpm-exec"} => IF StartsTool(c) THEN p.tool ELSE c.do \in p.others

\* runVerifyCommands: one after another, up to the first that fails.
MayPass(commands) == \A c \in Range(commands) : CanRun(project, c)

InCI == job.ci \/ \E c \in Range(job.verify) : Watches(c)

RecoveryMode == IF \E c \in Range(job.verify) : AsksCoverage(c) THEN "coverage"
                ELSE IF InCI THEN "ci" ELSE "default"

TestLike(c) ==
  \/ c.by = "npm" /\ c.do \in {"test", "test:unit", "test:ci", "test:watch", "test:dev", "test:coverage"}
  \/ StartsTool(c) \/ c.by = "node"

normalizeRecoveryCommands(commands, preferred) ==
  LET wanted == CASE RecoveryMode = "ci" -> Either(preferred["ci"], preferred["default"])
                  [] OTHER -> preferred[RecoveryMode]
      replaced(c) ==
        \/ RecoveryMode = "coverage" /\ TestLike(c)
        \/ RecoveryMode = "ci" /\ (Watches(c) \/ (TestLike(c) /\ ~Watches(wanted)))
        \/ c \in Range(job.verify) /\ c.by = "npm" /\ TestLike(c)
  IN  IF wanted = None THEN commands
      ELSE Once([i \in DOMAIN commands |-> IF replaced(commands[i]) THEN wanted ELSE commands[i]])

RecoverySeed == <<Script("npm", "build"),
                  Script("npm", IF RecoveryMode = "coverage" THEN "test:coverage" ELSE "test")>>
Inferred == inferVerifyCommands(job.mem, project, RecoverySeed, InCI, RecoveryMode)
Others == normalizeRecoveryCommands(Inferred, PreferredCommands(job.mem, project))

\* The verification passes, or fails with or without the report of a missing script;
\* the second recovery goes by the first's report.
Verify(at, failed) ==
  /\ job.at = at
  /\ \/ MayPass(job.verify) /\ job' = [job EXCEPT !.at = "passed"]
     \/ job' = [job EXCEPT !.at = failed]
     \/ \E others \in {Others} \ {<<>>, job.verify} :
          /\ at = "again" => job.others # <<>>
          /\ job' = [job EXCEPT !.at = IF at = "verify" THEN "recover" ELSE "recover-late",
                                !.others = others]
  /\ UNCHANGED <<project, memory, turns>>

Recover(at, failed) ==
  /\ job.at = at
  /\ \/ MayPass(job.others) /\ job' = [job EXCEPT !.at = "recovered"]
     \/ job' = [job EXCEPT !.at = failed]
  /\ UNCHANGED <<project, memory, turns>>

\* A parent then writes the memory it read before its children, with what was planned.
Done == IF job.parent = None THEN Idle ELSE [job EXCEPT !.at = "persist"]

Remember ==
  /\ job.at \in {"passed", "recovered"}
  /\ memory' = IF job.at = "passed"
               THEN [job.mem EXCEPT !.single = Either(FirstTest(job.verify), @)]
               ELSE Learned(job.mem, Inferred, PreferredCommands(job.mem, project))
  /\ job' = Done
  /\ UNCHANGED <<project, turns>>

persistFeatureMemoryUpdate ==
  /\ job.at = "persist"
  /\ memory' = job.parent /\ job' = Idle
  /\ UNCHANGED <<project, turns>>

Fail ==
  /\ job.at = "failed" /\ job' = Idle
  /\ memory' = job.mem
  /\ UNCHANGED <<project, turns>>

\* The user rewrites package.json, or what it says moves.
Develop ==
  /\ Begin /\ project' \in Projects \ {project}
  /\ UNCHANGED <<memory, job>>

CommandsNext ==
  \/ \E kinds \in Skills, inCI, verify \in BOOLEAN : Generate(kinds, inCI, verify)
  \/ \E list \in Lists, inCI \in BOOLEAN : Repair(list, inCI)
  \/ Start \/ Verify("verify", "again") \/ Recover("recover", "again")
  \/ Verify("again", "failed") \/ Recover("recover-late", "failed")
  \/ Remember \/ persistFeatureMemoryUpdate \/ Fail \/ Develop

CommandsSpec == Init /\ [][CommandsNext]_commandVars
------------------------------------------------------------------------------
\* The one name the code gets wrong.
Misnamed(c) == c = Script(project.pm, "test:unit") /\ ModeScript(project, "ci") = "ci:test"

\* Whatever the memory remembers of the project's past and its success then, what is
\* tried instead of commands that failed is something, and what the project can run now.
RecoveryCanRun ==
  job.at \in {"recover", "recover-late"} =>
    job.others # <<>> /\ \A c \in Range(job.others) : CanRun(project, c) \/ Misnamed(c)
==============================================================================
