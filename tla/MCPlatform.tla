----------------------------- MODULE MCPlatform -----------------------------
(***************************************************************************)
(* The parts of a server behind its requests, one at a time: they share no *)
(* state, so the run explores each of them next to the others at rest.     *)
(***************************************************************************)
EXTENDS DocumentIndexer, ProviderConfig, SpanStore, TraceView, McpClient

VARIABLE service   \* the one that is explored

MCInstances == {"i1", "i2"}
MCKeyOf     == [i \in MCInstances |-> IF i = "i1" THEN "k1" ELSE "none"]
MCOrder     == <<"deepseek", "house">>
MCLabel     == [n \in {"deepseek", "house"} |-> IF n = "house" THEN "openai" ELSE n]
MCUserOf    == [t \in Tasks |-> "u1"]

platformVars == <<indexVars, providerVars, spanVars, spans, mcpVars, service>>

PlatformInit ==
    /\ service \in {"indexer", "providers", "spans", "view", "mcp"}
    /\ IndexerInit /\ ProviderInit /\ SpanInit /\ ViewInit /\ McpInit
    /\ service # "providers" => \A n \in Names : ~There(n)

Indexing    == service = "indexer" /\ IndexerNext
               /\ UNCHANGED <<providerVars, spanVars, spans, mcpVars, service>>
Configuring == service = "providers" /\ ProviderNext
               /\ UNCHANGED <<indexVars, spanVars, spans, mcpVars, service>>
Tracing     == service = "spans" /\ SpanNext
               /\ UNCHANGED <<indexVars, providerVars, spans, mcpVars, service>>
Viewing     == service = "view" /\ ViewNext
               /\ UNCHANGED <<indexVars, providerVars, spanVars, mcpVars, service>>
Connecting == service = "mcp" /\ McpNext
               /\ UNCHANGED <<indexVars, providerVars, spanVars, spans, service>>

PlatformNext == Indexing \/ Configuring \/ Tracing \/ Viewing \/ Connecting

\* IndexerFairness, ProviderFairness and McpFairness, for the service that is explored.
PlatformFairness ==
    /\ \A w \in Workers : WF_indexVars(service = "indexer" /\ WorkerStep(w))
    /\ \A i \in Instances : WF_providerVars(service = "providers" /\ Refresh(i))
    /\ \A c \in Callers : /\ WF_mcpVars(service = "mcp" /\ PostReturns(c))
                          /\ WF_mcpVars(service = "mcp" /\ AwaitChannel(c))

PlatformSpec == PlatformInit /\ [][PlatformNext]_platformVars /\ PlatformFairness
=============================================================================
