--------------------------- MODULE MCOrchestrator ---------------------------
(* Instances of Orchestrator for TLC.                                        *)
EXTENDS Orchestrator

Choice(components, check) ==
    [web |-> "web" \in components, mcp |-> "mcp" \in components,
     ingest |-> "ingest" \in components, maintenance |-> "maintenance" \in components,
     check |-> check]

\* All in one with and without the startup check, the MCP server on its own
\* beside the ingest loop, the console alone, and nothing at all.
MCSettings ==
    {Choice(Component, TRUE), Choice(Component, FALSE),
     Choice({"mcp", "ingest"}, TRUE), Choice({"web"}, TRUE), Choice({}, TRUE)}

=============================================================================
