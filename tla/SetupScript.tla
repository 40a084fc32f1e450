----------------------------- MODULE SetupScript -----------------------------
(* scripts/setup-wizard.js, the interactive installer: its prompts and        *)
(* checks in their order, and what each of them writes.  The operator may     *)
(* press Ctrl+C at every prompt and run the script again.                     *)
EXTENDS Naturals, FiniteSets

CONSTANTS Urls,      \* connection strings the operator may enter
          Remote,    \* providers with a key
          Ollama,    \* the local one, which gives a base URL and never is the default
          None,
          MaxRuns    \* runs of the script, a bound

VARIABLES env,       \* .env.iranti: [url, keys, default]
          dbs,       \* connection string |-> what is in its database
          registry,  \* whether instance.json exists
          mcp,       \* whether an .mcp.json names Iranti
          pc,        \* the prompt or check the script is at
          state,     \* the script's own state
          runs, before, told

world == <<env, dbs, registry, mcp>>
vars == <<world, pc, state, runs, before, told>>

Prompts == {"guard", "system", "existing", "enter", "test", "vector", "write", "migrate",
            "providers", "mcp", "bind", "launch"}
NewState == [url |-> None, existing |-> FALSE, mcpWritten |-> FALSE]

Init == /\ env = [url |-> None, keys |-> {}, default |-> None]
        /\ dbs \in [Urls -> [exists : BOOLEAN, vector : {FALSE}, migrated : {FALSE}]]
        /\ registry = FALSE /\ mcp = FALSE
        /\ pc = "off" /\ state = NewState /\ runs = 0 /\ before = world /\ told = "nothing"

Goes(to) == pc' = to /\ UNCHANGED <<runs, before, told>>
Stops(tell) == pc' = "off" /\ told' = tell /\ UNCHANGED <<runs, before>>
------------------------------------------------------------------------------
\* npm run setup; an instance that exists makes it ask first.
main == /\ pc = "off" /\ runs < MaxRuns /\ runs' = runs + 1
        /\ pc' = IF registry THEN "guard" ELSE "system"
        /\ state' = NewState /\ before' = world /\ told' = "nothing" /\ UNCHANGED world
Continue == pc = "guard" /\ Goes("system") /\ UNCHANGED <<world, state>>
Declined == pc = "guard" /\ Stops("not-changed") /\ UNCHANGED <<world, state>>

\* Node.js too old, or no PostgreSQL and the operator stops there.
section1_SystemChecks ==
    /\ pc = "system" /\ UNCHANGED <<world, state>>
    /\ Goes(IF env.url # None THEN "existing" ELSE "enter") \/ Stops("fix-and-re-run")

UseExisting == /\ pc = "existing" /\ Goes("vector") /\ UNCHANGED world
               /\ state' = [state EXCEPT !.url = env.url, !.existing = TRUE]
EnterAnother == pc = "existing" /\ Goes("enter") /\ UNCHANGED <<world, state>>
section2_DatabaseSetup(u) == /\ pc = "enter" /\ Goes("test") /\ UNCHANGED world
                             /\ state' = [state EXCEPT !.url = u]

\* testDbConnection; a database that does not exist may be created.  Setup goes
\* on whatever came of it.
TestConnection ==
    /\ pc = "test" /\ Goes("vector") /\ UNCHANGED <<env, registry, mcp, state>>
    /\ dbs' \in {dbs, [dbs EXCEPT ![state.url].exists = TRUE]}

\* checkPgvector, and the offer to enable the extension.
AfterVector == IF state.existing THEN "migrate" ELSE "write"
runPgvectorCheck ==
    /\ pc = "vector" /\ UNCHANGED <<env, registry, mcp, state>>
    /\ \/ /\ Goes(AfterVector)
          /\ \/ UNCHANGED dbs
             \/ dbs[state.url].exists /\ dbs' = [dbs EXCEPT ![state.url].vector = TRUE]
       \/ ~dbs[state.url].vector /\ Stops("fix-and-re-run") /\ UNCHANGED dbs

\* readEnvFile, the updates over it, one rename.
writeEnvFile(e, updates) ==
    [k \in DOMAIN e |-> IF k \notin DOMAIN updates THEN e[k]
                        ELSE IF k = "keys" THEN e.keys \union updates.keys ELSE updates[k]]

writeEnvSection == /\ pc = "write" /\ Goes("migrate") /\ UNCHANGED <<dbs, registry, mcp, state>>
                   /\ env' \in {env, writeEnvFile(env, [url |-> state.url])}

\* Skipped, done, or failed, after which the operator stops or goes on.
runMigrations ==
    /\ pc = "migrate" /\ UNCHANGED <<env, registry, mcp, state>>
    /\ \/ Goes("providers") /\ UNCHANGED dbs
       \/ /\ dbs[state.url].exists /\ dbs[state.url].vector
          /\ Goes("providers") /\ dbs' = [dbs EXCEPT ![state.url].migrated = TRUE]
       \/ Stops("fix-and-re-run") /\ UNCHANGED dbs

\* Of the providers chosen, the default is one with a key; Ollama's address is
\* written if it answers.
Updates(S) ==
    LET remote == S \ {Ollama}
        keys == {remote} \union {S} IN
    IF remote = {} THEN {[keys |-> k] : k \in keys}
    ELSE {[keys |-> k, default |-> d] : k \in keys, d \in remote}
\* Keys, default and registry in one stretch; the registry may fail.
section3_ProviderSetup(S) ==
    /\ pc = "providers" /\ S # {} /\ Goes("mcp") /\ UNCHANGED <<dbs, mcp, state>>
    /\ \E u \in Updates(S) : env' = writeEnvFile(env, u)
    /\ registry' \in {registry, TRUE}
\* "Skip for now": the registry is not written either.
SkipProviders == pc = "providers" /\ Goes("mcp") /\ UNCHANGED <<world, state>>

\* An entry that is there already, one written now, or none.
section4_Integrations ==
    /\ pc = "mcp" /\ Goes("bind") /\ UNCHANGED <<env, dbs, registry>>
    /\ mcp' \in {mcp, TRUE} /\ state' = [state EXCEPT !.mcpWritten = mcp']
\* External: npx iranti project init.
bindProject == pc = "bind" /\ Goes("launch") /\ UNCHANGED <<world, state>>

\* The critical checks are the server, the registry and DATABASE_URL, pgvector
\* when it is not even installed; the others only warn.
section5_Verification ==
    /\ pc = "launch" /\ UNCHANGED <<world, state>>
    /\ \/ /\ registry /\ env.url # None
          /\ Stops(IF dbs[state.url].vector /\ env.keys \ {Ollama} # {} /\ env.default # None /\ state.mcpWritten
                   THEN "complete" ELSE "complete-with-warnings")
       \/ Stops("critical-issues")

\* Ctrl+C: checkCancel at a prompt, the SIGINT handler between them.
checkCancel == /\ pc \in Prompts /\ Stops("cancelled-no-changes")
               /\ UNCHANGED <<world, state>>

Next == \/ main \/ Continue \/ Declined \/ section1_SystemChecks \/ UseExisting \/ EnterAnother
        \/ \E u \in Urls : section2_DatabaseSetup(u)
        \/ TestConnection \/ runPgvectorCheck \/ writeEnvSection \/ runMigrations
        \/ \E S \in SUBSET (Remote \union {Ollama}) : section3_ProviderSetup(S)
        \/ SkipProviders \/ section4_Integrations \/ bindProject \/ section5_Verification \/ checkCancel
Spec == Init /\ [][Next]_vars
------------------------------------------------------------------------------
(* Properties. *)

\* Whatever is declined, cancelled or run again, the default provider has its
\* key in the same file.
DefaultHasKey == env.default # None => env.default \in env.keys

\* No run loses what an earlier one wrote to the env file.
SettingsAreKept ==
    env.keys \subseteq env'.keys /\ (env.url # None => env'.url # None)
       /\ (env.default # None => env'.default # None)

\* "Press Ctrl+C at any time to cancel without writing any changes."
CancelChangesNothing == told = "cancelled-no-changes" => world = before
===============================================================================
