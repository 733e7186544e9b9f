SPECIFICATION ServicesSpec
CONSTANTS
    Requests = {r1, r2}
    Leavers = {r1}
    Limit <- MCLimit
    AdmitLimit = 1
    Faults = {"refused", "crash"}
    MaxGlitches = 1
    Clients = {"c1", "c2", "c3"}
    UserOf <- MCUserOf
    TaskOf <- MCTaskOf
    ChanCap = 1
    ReplayCap = 1
    MaxReplay = 1
    MaxPerUser = 1
    MaxTotal = 2
    MaxEvents = 2
    Replicas = {i1, i2}
    AgentUsers = {1}
    Bases = {"n"}
    Editors = {e1, e2}
    Getters = {g1}
    AgentStore = "postgres"
    MaxAgents = 2
    MaxCommits = 2
    Readers = {r1, r2}
    Writers = {a1, a2}
    StoreKind = "postgres"
    CacheFaults = {"get", "set", "del"}
    MaxVersion = 3
    MaxCacheFaults = 1
    Listed = 4
    Wanted = {"coder", "research"}
    NameOf <- MCNameOf
    CapOf <- MCCapOf
    Caps = {"search"}
    PartIds = {p1, p2}
    MaxParts = 2
    MaxRounds = 2
    MaxCheck = 3
    CheckTime = 2
    Patience = 4
    Jobs = {j1, j2, j3}
    Consumers = {k1, k2}
    Size = 1
    MaxHanded = 1
CHECK_DEADLOCK FALSE
INVARIANT CounterHeals
INVARIANT TaskAccountedFor
 
INVARIANT HubAccounts
INVARIANT OwnChangeDropsRuntime
INVARIANT StaleForAReason
INVARIANT EveryPartReported
INVARIANT HealthyIsRouted
PROPERTY CacheCatchesUp
PROPERTY JobsSettle
