----------------------------- MODULE MCServices -----------------------------
(***************************************************************************)
(* The services an API instance is made of, one at a time: they share no   *)
(* state, so the run explores each of them next to the others at rest.     *)
(***************************************************************************)
EXTENDS TaskRequests, EventHub, AgentRegistry, WorkflowCache, AgentTeam, InMemoryQueue

VARIABLE service   \* the one that is explored

MCLimit  == [b \in {"user", "tasks"} |-> IF b = "user" THEN 2 ELSE 1]
MCUserOf == [c \in Clients |-> IF c = "c3" THEN "u2" ELSE "u1"]
MCTaskOf == [c \in Clients |-> IF c = "c2" THEN "t2" ELSE "t1"]
MCNameOf == [k \in 1..Listed |-> IF k = 1 THEN "coder" ELSE "other"]
MCCapOf  == [n \in Wanted |-> IF n = "research" THEN "search" ELSE "code"]

\* An inactive agent is never a candidate, whatever else it is and wherever it stands: all but
\* the newest come last.
Idler(k) == ~crew[k].active /\ crew[k].kind = "http" /\ crew[k].caps = {}

servicesVars == <<requestVars, hubVars, registryVars, cacheVars, teamVars, memoryVars, service>>

ServicesInit ==
    /\ service \in {"requests", "hub", "registry", "cache", "team", "queue"}
    /\ RequestInit /\ HubInit /\ RegistryInit /\ CacheInit /\ TeamInit
    /\ MemoryInit
    /\ service # "cache" => cached = NoEntry
    /\ service # "team" => \A k \in Ranks : Idler(k)
    /\ \A k \in 3..Listed : crew[k].active => crew[k - 1].active
    /\ \A k \in Ranks : Idler(k) \/ (crew[k].active /\ (k = 1 \/ (crew[k].kind # "http" /\ crew[k].caps = Caps)))

Requesting  == service = "requests" /\ RequestNext
               /\ UNCHANGED <<hubVars, registryVars, cacheVars, teamVars, memoryVars, service>>
Publishing  == service = "hub" /\ HubNext
               /\ UNCHANGED <<requestVars, registryVars, cacheVars, teamVars, memoryVars, service>>
Registering == service = "registry" /\ RegistryNext
               /\ UNCHANGED <<requestVars, hubVars, cacheVars, teamVars, memoryVars, service>>
Caching     == service = "cache" /\ CacheNext
               /\ UNCHANGED <<requestVars, hubVars, registryVars, teamVars, memoryVars, service>>
Teaming     == service = "team" /\ TeamNext
               /\ UNCHANGED <<requestVars, hubVars, registryVars, cacheVars, memoryVars, service>>
Queueing    == service = "queue" /\ MemoryNext
               /\ UNCHANGED <<requestVars, hubVars, registryVars, cacheVars, teamVars, service>>

ServicesNext == Requesting \/ Publishing \/ Registering \/ Caching \/ Teaming \/ Queueing

\* CacheFairness and MemoryFairness, for the service that is explored.
ServicesFairness ==
    /\ \A r \in Readers : WF_cacheVars(service = "cache" /\ ReaderStep(r))
    /\ \A w \in Writers : WF_cacheVars(service = "cache" /\ Invalidate(w))
    /\ WF_cacheVars(service = "cache" /\ CacheExpires)
    /\ \A c \in Consumers : WF_memoryVars(service = "queue" /\ ConsumerStep(c))
    /\ \A j \in Jobs : WF_memoryVars(service = "queue" /\ Resend(j))

ServicesSpec == ServicesInit /\ [][ServicesNext]_servicesVars /\ ServicesFairness
=============================================================================
