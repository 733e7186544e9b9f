---------------------------- MODULE AgentRegistry ----------------------------
(***************************************************************************)
(* The agents of internal/agent/registry.go: rows of agent_registry        *)
(* (internal/store/agents.go, memory_agents.go), changed by the handlers   *)
(* of internal/api/handlers_agent.go, and the runtimes every instance      *)
(* builds from them and keeps in its own cache, which has no expiry.       *)
(***************************************************************************)
EXTENDS Integers, FiniteSets, FiniteSetsExt

CONSTANTS
    Replicas,    \* instances of the program, one Registry each
    AgentUsers,  \* users, positive numbers; 0 owns the system agents
    Bases,       \* names of agents before a suffix is added
    Editors,     \* requests that change agents
    Getters,     \* callers of GetRuntime
    AgentStore,  \* "postgres" or "memory"
    MaxAgents,   \* bound: rows ever inserted
    MaxCommits   \* bound: changes of rows

ASSUME RegistryAssumption ==
    /\ AgentUsers \subseteq Nat \ {0}
    /\ MaxAgents \in Nat \ {0} /\ MaxCommits \in Nat

VARIABLES
    agents,    \* agents[id]: the row, or NoAgent
    runtimes,  \* runtimes[i][id]: the runtime instance i keeps, or NoRuntime
    edit,      \* edit[e]: a request in progress
    get,       \* get[g]: a call of GetRuntime in progress
    commits,   \* changes of rows so far
    own        \* own[i][id]: the last change of id that instance i reported as made

registryVars == <<agents, runtimes, edit, get, commits, own>>

AgentIds  == 1..MaxAgents
AgentName == Bases \X (1..3)     \* "name", "name-2", "name-3"
NoAgent   == [kind |-> "none"]      \* an id not given yet
Deleted   == [kind |-> "deleted"]
AgentRow  == [owner : AgentUsers \cup {0}, name : AgentName,
              active : BOOLEAN, ver : 0..MaxCommits]
NoRuntime == [kind |-> "none"]
\* at: the changes of rows there had been when the runtime was put in the cache.
Runtime   == [ver : 0..MaxCommits, at : 0..MaxCommits]

IdleEdit == [pc |-> "idle"]
IdleGet  == [pc |-> "idle"]
EditStates == [pc : {"insert"}, user : AgentUsers, name : AgentName]
         \cup [pc : {"write"}, at : Replicas, id : AgentIds, row : AgentRow]
         \cup [pc : {"forget"}, at : Replicas, id : AgentIds]
GetStates  == [pc : {"read", "store"}, at : Replicas, id : AgentIds, ver : 0..MaxCommits]

RegistryTypeOK ==
    /\ agents \in [AgentIds -> AgentRow \cup {NoAgent, Deleted}]
    /\ runtimes \in [Replicas -> [AgentIds -> Runtime \cup {NoRuntime}]]
    /\ edit \in [Editors -> EditStates \cup {IdleEdit}]
    /\ get \in [Getters -> GetStates \cup {IdleGet}]
    /\ commits \in 0..MaxCommits
    /\ own \in [Replicas -> [AgentIds -> 0..MaxCommits]]

\* The seed data: one system agent of each name.
RegistryInit ==
    /\ \E b \in Bases : agents =
           [id \in AgentIds |->
               IF id = 1 THEN [owner |-> 0, name |-> <<b, 1>>, active |-> TRUE, ver |-> 0]
               ELSE NoAgent]
    /\ runtimes = [i \in Replicas |-> [id \in AgentIds |-> NoRuntime]]
    /\ edit = [e \in Editors |-> IdleEdit]
    /\ get = [g \in Getters |-> IdleGet]
    /\ commits = 0
    /\ own = [i \in Replicas |-> [id \in AgentIds |-> 0]]

Given == {id \in AgentIds : agents[id] # NoAgent}
Live  == {id \in Given : agents[id] # Deleted}

\* CreateAgent.  The unique index on (user_id, name) is a matter of the database, whose statements
\* may also fail; rows are numbered in the order of their insertion.
Taken(user, name, except) ==
    AgentStore = "postgres" /\ \E id \in Live \ {except} :
        agents[id].owner = user /\ agents[id].name = name

Insert(user, name) ==
    \/ AgentStore = "postgres" /\ UNCHANGED agents
    \/ /\ ~Taken(user, name, 0)
       /\ Cardinality(Given) < MaxAgents
       /\ agents' = [agents EXCEPT ![Cardinality(Given) + 1] =
              [owner |-> user, name |-> name, active |-> TRUE, ver |-> commits]]

-----------------------------------------------------------------------------
(* The handlers. *)

Register(e, user, name) ==
    /\ edit[e].pc = "idle"
    /\ Insert(user, name)
    /\ UNCHANGED <<runtimes, edit, get, commits, own>>

\* The names InstallAgent finds in use: GetAgentByName also finds the system agents.
InUse(user, name) ==
    \E id \in Live : /\ agents[id].name = name
                     /\ agents[id].owner \in IF AgentStore = "postgres" THEN {user, 0} ELSE {user}

FreeName(user, base) ==
    <<base, Min({k \in 1..3 : k = 3 \/ ~InUse(user, <<base, k>>)})>>

\* The statements before the INSERT; the memory store holds its lock across both.
Install(e, user, id) ==
    /\ edit[e].pc = "idle"
    /\ id \in Live /\ agents[id].owner = 0
    /\ LET name == FreeName(user, agents[id].name[1]) IN
       IF AgentStore = "memory" THEN Insert(user, name) /\ UNCHANGED edit
       ELSE /\ edit' = [edit EXCEPT ![e] = [pc |-> "insert", user |-> user, name |-> name]]
            /\ UNCHANGED agents
    /\ UNCHANGED <<runtimes, get, commits, own>>

InstallInsert(e) ==
    /\ edit[e].pc = "insert"
    /\ Insert(edit[e].user, edit[e].name)
    /\ edit' = [edit EXCEPT ![e] = IdleEdit]
    /\ UNCHANGED <<runtimes, get, commits, own>>

\* update and delete: the row is read and its owner compared first.
OpenAgent(e, i, user, id) ==
    /\ edit[e].pc = "idle"
    /\ id \in Live /\ agents[id].owner = user
    /\ edit' = [edit EXCEPT ![e] = [pc |-> "write", at |-> i, id |-> id, row |-> agents[id]]]
    /\ UNCHANGED <<agents, runtimes, get, commits, own>>

\* The statement of the store took effect on the row of edit[e].  If it is reported as done, the
\* runtime is dropped next; if its reply is lost, Update and Delete return the error at once.
Written(e, row) ==
    /\ commits < MaxCommits /\ commits' = commits + 1
    /\ agents' = [agents EXCEPT ![edit[e].id] = row]
    /\ \/ /\ own' = [own EXCEPT ![edit[e].at][edit[e].id] = commits + 1]
          /\ edit' = [edit EXCEPT ![e] = [pc |-> "forget", at |-> edit[e].at, id |-> edit[e].id]]
       \/ /\ AgentStore = "postgres"
          /\ edit' = [edit EXCEPT ![e] = IdleEdit]
          /\ UNCHANGED own

\* The row is gone, its new name is taken, or the statement failed.
NotWritten(e) ==
    /\ AgentStore = "postgres" \/ edit[e].id \notin Live
    /\ edit' = [edit EXCEPT ![e] = IdleEdit]
    /\ UNCHANGED <<agents, commits, own>>

\* Every column is written back as it was read, but for what the request names.
UpdateAgent(e, name, active) ==
    /\ edit[e].pc = "write"
    /\ \/ /\ edit[e].id \in Live /\ ~Taken(edit[e].row.owner, name, edit[e].id)
          /\ Written(e, [edit[e].row EXCEPT !.name = name, !.active = active, !.ver = commits + 1])
       \/ NotWritten(e)
    /\ UNCHANGED <<runtimes, get>>

\* Mutant: the runtime of a deleted agent is left in the cache.
DeleteKeepsRuntime(e) ==
    /\ edit[e].pc = "write"
    /\ edit[e].id \in Live => commits < MaxCommits
    /\ IF edit[e].id \in Live
       THEN /\ commits' = commits + 1
            /\ agents' = [agents EXCEPT ![edit[e].id] = Deleted]
            /\ own' = [own EXCEPT ![edit[e].at][edit[e].id] = commits + 1]
       ELSE UNCHANGED <<agents, commits, own>>
    /\ edit' = [edit EXCEPT ![e] = IdleEdit]
    /\ UNCHANGED <<runtimes, get>>

DeleteAgent(e) ==
    /\ edit[e].pc = "write"
    /\ (edit[e].id \in Live /\ Written(e, Deleted)) \/ NotWritten(e)
    /\ UNCHANGED <<runtimes, get>>

\* r.cache.Delete(id), on the instance that served the request.
ForgetRuntime(e) ==
    /\ edit[e].pc = "forget"
    /\ runtimes' = [runtimes EXCEPT ![edit[e].at][edit[e].id] = NoRuntime]
    /\ edit' = [edit EXCEPT ![e] = IdleEdit]
    /\ UNCHANGED <<agents, get, commits, own>>

-----------------------------------------------------------------------------
(* GetRuntime, for GET /api/agents/:id/health and the router; a runtime    *)
(* found in the cache is returned and changes nothing.  Nobody changes the *)
(* system agents, and their runtimes are left out.                         *)

LoadRuntime(g, i, id) ==
    /\ get[g].pc = "idle"
    /\ id \in Live /\ agents[id].owner # 0 /\ runtimes[i][id] = NoRuntime
    /\ get' = [get EXCEPT ![g] = [pc |-> "read", at |-> i, id |-> id, ver |-> 0]]
    /\ UNCHANGED <<agents, runtimes, edit, commits, own>>

\* An agent that is gone or inactive has no runtime; the statement may fail.
ReadAgent(g) ==
    /\ get[g].pc = "read"
    /\ LET id == get[g].id IN
       \/ /\ id \in Live /\ agents[id].active
          /\ get' = [get EXCEPT ![g].pc = "store", ![g].ver = agents[id].ver]
       \/ /\ AgentStore = "postgres" \/ (id \in Live => ~agents[id].active)
          /\ get' = [get EXCEPT ![g] = IdleGet]
    /\ UNCHANGED <<agents, runtimes, edit, commits, own>>

StoreRuntime(g) ==
    /\ get[g].pc = "store"
    /\ runtimes' = [runtimes EXCEPT ![get[g].at][get[g].id] = [ver |-> get[g].ver, at |-> commits]]
    /\ get' = [get EXCEPT ![g] = IdleGet]
    /\ UNCHANGED <<agents, edit, commits, own>>

EditStep(e) ==
    \/ \E u \in AgentUsers, n \in AgentName : n[2] = 1 /\ Register(e, u, n)
    \/ \E u \in AgentUsers, id \in AgentIds : Install(e, u, id)
    \/ InstallInsert(e)
    \/ \E i \in Replicas, u \in AgentUsers, id \in AgentIds : OpenAgent(e, i, u, id)
    \/ \E n \in AgentName, a \in BOOLEAN : n[2] = 1 /\ UpdateAgent(e, n, a)
    \/ DeleteAgent(e)
    \/ ForgetRuntime(e)

GetStep(g) ==
    \/ \E i \in Replicas, id \in AgentIds : LoadRuntime(g, i, id)
    \/ ReadAgent(g) \/ StoreRuntime(g)

RegistryNext == (\E e \in Editors : EditStep(e)) \/ (\E g \in Getters : GetStep(g))

RegistrySpec == RegistryInit /\ [][RegistryNext]_registryVars

-----------------------------------------------------------------------------
(* Properties. *)

\* A change of an agent that was reported as made takes effect on the instance that made it: a
\* runtime put in its cache before the change is gone, or about to be dropped.  A change that took
\* effect but was reported as failed is not among them: Update and Delete then return before they
\* drop the runtime (registry.go:104-120).
OwnChangeDropsRuntime ==
    \A i \in Replicas, id \in AgentIds :
        runtimes[i][id] # NoRuntime =>
            \/ own[i][id] <= runtimes[i][id].at
            \/ \E e \in Editors : edit[e] = [pc |-> "forget", at |-> i, id |-> id]

\* registry.go:104, "下次获取时重新创建 Runtime".  Not met: a GetRuntime that read the row
\* before the change stores its runtime after it, for ever; every other instance keeps its own;
\* and so does this one when the reply of the statement is lost.
UpdateTakesEffect ==
    \A i \in Replicas, id \in Live :
        runtimes[i][id] # NoRuntime =>
            \/ runtimes[i][id].ver = agents[id].ver
            \/ \E e \in Editors : edit[e].pc = "forget" /\ edit[e].id = id

\* agents.go:223, "如果用户已有同名 Agent，会在名称后加数字后缀".  Not met with PostgreSQL: the
\* system agent itself is found under its name, and every first copy is called "name-2".
SuffixOnlyOnConflict ==
    [][\A e \in Editors : InstallInsert(e) /\ agents' # agents =>
           (edit[e].name[2] > 1 =>
                \E id \in Live : /\ agents[id].owner = edit[e].user
                                 /\ agents[id].name[1] = edit[e].name[1])]_registryVars
=============================================================================
