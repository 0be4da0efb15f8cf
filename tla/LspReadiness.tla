---------------------------- MODULE LspReadiness ----------------------------
(***************************************************************************)
(* lsp-production-readiness report (core/refactor): for go and for java it *)
(* finds a language server, probes it, lets it rename in small projects it *)
(* writes itself, and says whether renames may be called ready for         *)
(* production.  Servers come and go while it runs; what a probe said stays *)
(* said for the whole process (providers/lsp-backend.js).                  *)
(***************************************************************************)
EXTENDS Naturals, FiniteSets

CONSTANTS
  Worlds,     \* where the servers may be at the start: language -> what each place holds
  Answers,    \* what a server may make of a scenario: [ok, prepared, renamed]
  Toolchains, \* what may be found of "go", "java" and "home", set with JDTLS_HOME
  MaxMoves,   \* bound on the changes of the places
  None

Languages == {"go", "java"}
Scenarios == {"symbol", "at"}

\* A configured command, a gopls in Go's directories or a launcher of jdtls in a home,
\* the plain name on the PATH: what each may hold.  Servers differ by what is found of
\* them: the real one's name, "fake" in the name or the answer, another name; a broken
\* one fails when started, a missing one is configured and is not there.
Holds == [explicit |-> {"real", "fake", "custom", "broken", "missing"},
          discovered |-> {"real", "broken", None}, path |-> {"real", "fake", "broken", None}]

VARIABLES
  places,    \* language -> [explicit, discovered, path]
  toolchain, assumed,
  cache,     \* language -> place -> None or the probe of this process there: [server, ok]
  probes,    \* language -> None or the probe its report begins with: [at, server, ok, lacking]
  results,   \* language -> scenario -> None or [ok, prepared, renamed]
  phase,     \* "started", "running" or "reported"
  swaps,     \* history: how often the places have changed
  held       \* history: language -> place -> what has been there

readinessVars == <<places, toolchain, assumed, cache, probes, results, phase, swaps, held>>

ReadinessInit ==
  /\ places \in Worlds
  /\ toolchain \in Toolchains /\ assumed \in BOOLEAN
  /\ cache = [l \in Languages |-> [at \in DOMAIN Holds |-> None]]
  /\ probes = [l \in Languages |-> None]
  /\ results = [l \in Languages |-> [s \in Scenarios |-> None]]
  /\ phase = "started" /\ swaps = 0
  /\ held = [l \in Languages |-> [at \in DOMAIN Holds |-> {places[l][at]}]]

------------------------------------------------------------------------------
(* Finding and probing a server. *)

\* A configured command is used whatever else is there; the java launcher is found
\* only with a java to start it.
resolveServerSpec(l) ==
  LET p == places[l]
  IN CASE p.explicit # None -> "explicit"
       [] p.explicit = None /\ p.discovered # None /\ (l = "go" \/ "java" \in toolchain) -> "discovered"
       [] OTHER -> "path"

\* The language can be run and its server is neither named nor, for java, given a home.
buildEnvironmentSnapshot(l) ==
  /\ l \in toolchain
  /\ IF places[l].explicit # None THEN places[l].explicit = "missing" ELSE places[l].path = None
  /\ l = "java" => "home" \notin toolchain

\* A launcher is not started: it is there.  Any other server is asked for its version,
\* and may be too slow to answer.  What is said of a file is remembered, and so is that
\* the configured one, named by its path, is missing.
probesOf(l) ==
  LET at == resolveServerSpec(l)
      server == places[l][at]
      Answer(ok) == [at |-> at, server |-> server, ok |-> ok, lacking |-> buildEnvironmentSnapshot(l)]
  IN CASE server = None -> {Answer(FALSE)}
       [] server # None /\ cache[l][at] # None ->
            {[Answer(cache[l][at].ok) EXCEPT !.server = cache[l][at].server]}
       [] l = "java" /\ at = "discovered" -> {Answer(TRUE)}
       [] OTHER -> {Answer(FALSE)} \cup {Answer(server \notin {"broken", "missing"})}

With(known, l, probe) ==
  IF probe.server = None THEN known
  ELSE [known EXCEPT ![l][probe.at] = [server |-> probe.server, ok |-> probe.ok]]
Remember(l, probe) == cache' = With(cache, l, probe)

\* The providers are described, each with whether its server is there.
describeProviders(go, java) == cache' = With(With(cache, "go", go), "java", java)

Describe == \E go \in probesOf("go"), java \in probesOf("java") :
  /\ phase = "started" /\ phase' = "running"
  /\ describeProviders(go, java)
  /\ UNCHANGED <<places, toolchain, assumed, probes, results, swaps, held>>

\* The report on a language begins, java's after go's; both providers are described once
\* more, and the probe of the report is what that remembers.
Begin(l) == \E go \in probesOf("go"), java \in probesOf("java") :
  /\ phase = "running" /\ probes[l] = None
  /\ l = "java" => probes["go"] # None /\ (probes["go"].ok => results["go"]["at"] # None)
  /\ probes' = [probes EXCEPT ![l] = IF l = "go" THEN go ELSE java] /\ describeProviders(go, java)
  /\ UNCHANGED <<places, toolchain, assumed, results, phase, swaps, held>>

\* By its name, the launcher's name, or the user's word for it.
detectServerIdentity(l) ==
  CASE ~probes[l].ok -> "missing"
    [] probes[l].ok /\ (assumed \/ probes[l].server \in {"real", "broken"}) -> "real"
    [] OTHER -> probes[l].server

------------------------------------------------------------------------------
(* The scenarios of a language, in order. *)

Upcoming(l) == IF results[l]["symbol"] = None THEN "symbol" ELSE "at"

\* renamed tells where the new name is found: in every file the scenario names, in some
\* file, be it one of them or another, or in none.
verifyScenarioOutcome(renamed) == renamed # "none"

\* Mutant: an answer is enough.
MutAnswered(result) == result.ok

Passes(result) == result.ok /\ verifyScenarioOutcome(result.renamed)

Fails == [ok |-> FALSE, prepared |-> FALSE, renamed |-> "none"]

\* A rename through a server that must be used, found and probed anew.
runScenario(l) == \E probe \in probesOf(l) :
  /\ phase = "running" /\ probes[l] # None /\ probes[l].ok /\ results[l]["at"] = None
  /\ \E result \in {Fails} \cup Answers :
       /\ result # Fails => probe.ok /\ places[l][probe.at] \notin {"broken", "missing"}
       /\ results' = [results EXCEPT ![l][Upcoming(l)] = result]
  /\ Remember(l, probe)
  /\ UNCHANGED <<places, toolchain, assumed, probes, phase, swaps, held>>

\* A server is installed, replaced or removed; the environment of the process stays.
Change == \E l \in Languages, at \in DOMAIN Holds : \E server \in Holds[at] :
  /\ phase = "running" /\ swaps < MaxMoves /\ swaps' = swaps + 1
  /\ at = "explicit" => places[l].explicit # None
  /\ places' = [places EXCEPT ![l][at] = server]
  /\ held' = [held EXCEPT ![l][at] = @ \cup {server}]
  /\ UNCHANGED <<toolchain, assumed, cache, probes, results, phase>>

Report ==
  /\ phase = "running"
  /\ \A l \in Languages : probes[l] # None /\ (probes[l].ok => results[l]["at"] # None)
  /\ phase' = "reported"
  /\ UNCHANGED <<places, toolchain, assumed, cache, probes, results, swaps, held>>

ReadinessNext == Describe \/ (\E l \in Languages : Begin(l) \/ runScenario(l)) \/ Change \/ Report

------------------------------------------------------------------------------
(* The report. *)

Available(l) == probes[l].ok
Real(l) == detectServerIdentity(l) = "real"
Passed(l) == \A s \in Scenarios : results[l][s] # None /\ Passes(results[l][s])

\* The metrics are those of the last scenario that was answered; every answer is guarded.
Answered(l) == {s \in Scenarios : results[l][s] # None /\ results[l][s].ok}
Guarded(l) == Answered(l) # {}
Prepared(l) == Guarded(l) /\ results[l][IF "at" \in Answered(l) THEN "at" ELSE "symbol"].prepared

\* Both providers have the harness and ask for a real server.
evaluateLanguage(l) == Available(l) /\ Passed(l) /\ Guarded(l) /\ Real(l)

When(holds, name) == IF holds THEN {name} ELSE {}
buildLanguageClaimBlockers(l) ==
  When(~Available(l), IF probes[l].lacking THEN "missing_real_server" ELSE "server_unavailable")
  \cup When(Available(l) /\ ~Real(l), "real_server_not_verified")
  \cup When(Available(l) /\ ~Passed(l), "scenario_matrix_incomplete")
  \cup When(Available(l) /\ ~Guarded(l), "workspace_scope_guard_missing")
  \cup When(Available(l) /\ ~Prepared(l), "prepare_rename_not_confirmed")

deriveReadinessStage(l) ==
  CASE evaluateLanguage(l) -> "claim_ready"
    [] ~evaluateLanguage(l) /\ (~Available(l) \/ ~Real(l)) -> "verification_blocked"
    [] Available(l) /\ Real(l) /\ ~Passed(l) -> "validation_failed"
    [] OTHER -> "hardening"

claimable == {l \in Languages : evaluateLanguage(l)}
production_claim_ready == claimable = Languages

------------------------------------------------------------------------------
\* Renames are called ready for production only after every scenario of both languages
\* was answered and left the new name in a file, by a real server or one the user
\* vouches for where none was exchanged meanwhile; where one was, the claim may stand on
\* what was said of the server before, but one with the real one's name has been there.
\* A language that is pending says what blocks it, and one that is not has at most an
\* unconfirmed prepareRename against it (lsp-production-readiness.js:60-79, :455-465,
\* :482-497; lsp-backend.js:134-).
ClaimsAreProven ==
  phase = "reported" =>
    /\ production_claim_ready =>
         \A l \in Languages :
           /\ \A s \in Scenarios : results[l][s].ok /\ results[l][s].renamed # "none"
           /\ ~assumed => held[l][probes[l].at] \cap {"real", "broken"} # {}
           /\ swaps = 0 /\ ~assumed => places[l][resolveServerSpec(l)] = "real"
    /\ \A l \in Languages :
         l \in claimable <=> buildLanguageClaimBlockers(l) \subseteq {"prepare_rename_not_confirmed"}
    /\ \A l \in Languages :
         deriveReadinessStage(l) = "verification_blocked"
           <=> buildLanguageClaimBlockers(l)
                 \cap {"missing_real_server", "server_unavailable", "real_server_not_verified"} # {}
==============================================================================
