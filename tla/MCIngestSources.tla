--------------------------- MODULE MCIngestSources ---------------------------
(***************************************************************************)
(* The ingest loop and its two push sources in one run.  The loop sees of  *)
(* a push source what its stream() yields and nothing else, and a push     *)
(* source nothing of the loop, so one of the three moves in a behaviour    *)
(* and the others keep their initial state.                                *)
(***************************************************************************)
EXTENDS MCIngestPipeline, GatewaySource, HermesSource

VARIABLE component
sourcesVars == <<component, vars, gatewayVars, hermesVars>>

\* A turn with a tool call in it, one that is a tool call only, a long one.
MCPayload ==
    {<<"text">>, <<"text", "tool", "text">>, <<"call">>, <<"text", "text", "text">>}

SourcesInit ==
    /\ component \in {"loop", "gateway", "hermes"}
    /\ Init /\ GatewayInit /\ HermesInit
    /\ component = "loop" \/ (mode = Streaming /\ transcript = [s \in Session |-> <<>>])

SourcesNext ==
    /\ UNCHANGED component
    /\ \/ component = "loop" /\ Next /\ UNCHANGED <<gatewayVars, hermesVars>>
       \/ component = "gateway" /\ GatewayNext /\ UNCHANGED <<vars, hermesVars>>
       \/ component = "hermes" /\ HermesNext /\ UNCHANGED <<vars, gatewayVars>>

SourcesSpec == SourcesInit /\ [][SourcesNext]_sourcesVars

=============================================================================
