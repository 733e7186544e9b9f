SPECIFICATION PlatformSpec
CONSTANTS
    Docs = {d1, d2}
    Empty = {d2}
    Workers = {w1, w2}
    QueueSize = 1
    Backend = "postgres"
    ColumnFits = {"remote"}
    Faults = {"refused", "reply", "embed", "timeout", "crash"}
    MaxGlitches = 1
    Instances <- MCInstances
    Ciphers = {"k1", "k2"}
    KeyOf <- MCKeyOf
    Order <- MCOrder
    Label <- MCLabel
    Requests = {q1}
    Secrets = {"s1"}
    Urls = {"u1"}
    LooksEncrypted = {}
    MaxChanges = 1
    MaxStarts = 2
    MaxDbFailures = 1
    TraceIds = {"a", "b", "c"}
    Tasks = {"t1", "t2"}
    Users = {"u1", "u2"}
    UserOf <- MCUserOf
    MaxTraces = 2
    MaxSpans = 1
    MaxCalls = 4
    MaxSpanId = 3
    Horizon = 3
    ExecuteIds = {2}
    ToolCalls = {c1}
    MaxConnects = 2
    Refuses = TRUE
CHECK_DEADLOCK FALSE
INVARIANT FoundWholeAndOnce
INVARIANT CleanShutdown
INVARIANT KeysRecoverable
INVARIANT NoCiphertextUsed
INVARIANT StoreAgrees
INVARIANT TraceIsFaithful
PROPERTY AcceptedEnds
PROPERTY NamesFollow
PROPERTY CloseReachesCalls
