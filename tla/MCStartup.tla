------------------------------ MODULE MCStartup ------------------------------
(***************************************************************************)
(* Clusters to start, for TLC: two agents, two MCP servers, one router.    *)
(***************************************************************************)
EXTENDS Startup, TLC

CONSTANTS alfa, beta, exa, fs, rt, k1, k2

FileOrder == <<alfa, beta>>

Table(next, router, tools) == [next |-> next, router |-> router, tools |-> tools]

\* A plain agent, one with a router and a tool, one with both tools, and one
\* that has both next_agent and a router.
Tables == {Table(TRUE, None, {}), Table(FALSE, rt, {exa}),
           Table(TRUE, None, {exa, fs}), Table(TRUE, rt, {})}

Entry(hasCommand, env) == [command |-> hasCommand, env |-> env]

\* fs has no command, or both servers are good.
McpFiles == {Missing, Malformed,
             exa :> Entry(TRUE, {k1}) @@ fs :> Entry(FALSE, {}),
             exa :> Entry(TRUE, {k1, k2}) @@ fs :> Entry(TRUE, {})}

Secrets == {Missing, Malformed, exa :> {k1}}

Prompts == {{alfa, beta}, {alfa}}

=============================================================================
