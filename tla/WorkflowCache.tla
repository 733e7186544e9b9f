---------------------------- MODULE WorkflowCache ----------------------------
(***************************************************************************)
(* Reads and writes of one workflow through the read-through cache         *)
(* (internal/store/cached_workflows.go, internal/cache/cache.go) on the    *)
(* store (internal/store/workflows.go, memory.go).  Every commit gives the *)
(* workflow a new version; what is read is the versions of its parts.      *)
(***************************************************************************)
EXTENDS Integers, FiniteSets

CONSTANTS
    Readers,       \* callers of GetWorkflow: requests and the scheduler
    Writers,       \* requests that update or delete
    StoreKind,     \* "postgres" or "memory"
    CacheFaults,   \* "get", "set", "del": commands of the cache that may fail
    MaxVersion,    \* bound: commits
    MaxCacheFaults \* bound: commands that fail

ASSUME CacheAssumption == MaxVersion \in Nat \ {0}

VARIABLES
    version,  \* commits so far
    exists,   \* the workflow has not been deleted
    cached,   \* the value at workflowCacheKey(userID, id)
    reader,   \* reader[r]
    writer,   \* writer[w]: "idle", "invalidate"
    missed,   \* the last version whose invalidation failed or was left out
    failures  \* cache commands that have failed

cacheVars == <<version, exists, cached, reader, writer, missed, failures>>

Versions == 0..MaxVersion
\* The versions of the three parts: the row, its nodes and its edges.  0: no rows.
Value    == [row : Versions, nodes : Versions, edges : Versions]
\* began and at: the version when the read began and when the value was stored.
Entry    == [val : Value, began : Versions, at : Versions, ttl : BOOLEAN]
NoEntry  == [kind |-> "none"]
Garbage  == [kind |-> "garbage"]   \* written by another version of the program
Reader   == [pc : {"get", "row", "nodes", "edges", "set"}, val : Value, began : Versions]

Nothing == [row |-> 0, nodes |-> 0, edges |-> 0]
Idling  == [pc |-> "get", val |-> Nothing, began |-> 0]

CacheTypeOK ==
    /\ version \in Versions /\ missed \in Versions /\ exists \in BOOLEAN
    /\ cached \in Entry \cup {NoEntry, Garbage}
    /\ reader \in [Readers -> Reader]
    /\ writer \in [Writers -> {"idle", "invalidate"}]
    /\ failures \in 0..MaxCacheFaults

CacheInit ==
    /\ version = 1 /\ exists = TRUE /\ missed = 0 /\ failures = 0
    /\ cached \in {NoEntry, Garbage}
    /\ reader = [r \in Readers |-> Idling]
    /\ writer = [w \in Writers |-> "idle"]

IsEntry == cached \in Entry

Fails(op) == /\ op \in CacheFaults /\ failures < MaxCacheFaults
             /\ failures' = failures + 1

-----------------------------------------------------------------------------
(* GetWorkflow. *)

ToStore(r) == reader' = [reader EXCEPT ![r] = [Idling EXCEPT !.pc = "row"]]

\* A hit returns the value and changes nothing: it is no step here.  A failing cache counts as a
\* miss; a value that cannot be parsed is dropped.
CacheGet(r) ==
    /\ reader[r].pc = "get"
    /\ \/ /\ cached = NoEntry /\ ToStore(r) /\ UNCHANGED <<cached, failures>>
       \/ /\ Fails("get") /\ ToStore(r) /\ UNCHANGED cached
       \/ /\ cached = Garbage /\ ToStore(r)
          /\ \/ cached' = NoEntry /\ UNCHANGED failures
             \/ Fails("del") /\ UNCHANGED cached
    /\ UNCHANGED <<version, exists, writer, missed>>

\* The first of three statements; ErrWorkflowNotFound is not cached.  The memory store reads
\* everything under its lock.
ReadRow(r) ==
    /\ reader[r].pc = "row"
    /\ reader' = [reader EXCEPT ![r] =
           IF ~exists THEN Idling
           ELSE IF StoreKind = "memory"
                THEN [pc |-> "set", began |-> version,
                      val |-> [row |-> version, nodes |-> version, edges |-> version]]
                ELSE [pc |-> "nodes", began |-> version, val |-> [Nothing EXCEPT !.row = version]]]
    /\ UNCHANGED <<version, exists, cached, writer, missed, failures>>

\* An error of the database is returned to the caller; nothing is cached.
ReadFails(r) ==
    /\ StoreKind = "postgres" /\ reader[r].pc \in {"row", "nodes", "edges"}
    /\ reader' = [reader EXCEPT ![r] = Idling]
    /\ UNCHANGED <<version, exists, cached, writer, missed, failures>>

Rows == IF exists THEN version ELSE 0

GetWorkflowNodes(r) ==
    /\ reader[r].pc = "nodes"
    /\ reader' = [reader EXCEPT ![r].pc = "edges", ![r].val.nodes = Rows]
    /\ UNCHANGED <<version, exists, cached, writer, missed, failures>>

GetWorkflowEdges(r) ==
    /\ reader[r].pc = "edges"
    /\ reader' = [reader EXCEPT ![r].pc = "set", ![r].val.edges = Rows]
    /\ UNCHANGED <<version, exists, cached, writer, missed, failures>>

\* Mutant of CacheSet: the entry never expires.
CacheSetForever(r) ==
    /\ reader[r].pc = "set"
    /\ \/ /\ cached' = [val |-> reader[r].val, began |-> reader[r].began, at |-> version, ttl |-> FALSE]
          /\ UNCHANGED failures
       \/ Fails("set") /\ UNCHANGED cached
    /\ reader' = [reader EXCEPT ![r] = Idling]
    /\ UNCHANGED <<version, exists, writer, missed>>

CacheSet(r) ==
    /\ reader[r].pc = "set"
    /\ \/ /\ cached' = [val |-> reader[r].val, began |-> reader[r].began, at |-> version, ttl |-> TRUE]
          /\ UNCHANGED failures
       \/ Fails("set") /\ UNCHANGED cached
    /\ reader' = [reader EXCEPT ![r] = Idling]
    /\ UNCHANGED <<version, exists, writer, missed>>

\* The TTL of an entry runs out; so does that of a value nobody can parse.
CacheExpires ==
    /\ (IsEntry /\ cached.ttl) \/ cached = Garbage
    /\ cached' = NoEntry
    /\ UNCHANGED <<version, exists, reader, writer, missed, failures>>

-----------------------------------------------------------------------------
(* UpdateWorkflow and DeleteWorkflow: one transaction, then the invalidation. *)

\* Mutant of Commit: the invalidation comes before the transaction.
CommitAfterInvalidation(w) ==
    /\ exists /\ version < MaxVersion
    /\ \/ writer[w] = "idle" /\ cached' = NoEntry /\ writer' = [writer EXCEPT ![w] = "invalidate"]
          /\ UNCHANGED <<version, exists>>
       \/ writer[w] = "invalidate" /\ version' = version + 1 /\ exists' \in BOOLEAN
          /\ writer' = [writer EXCEPT ![w] = "idle"] /\ UNCHANGED cached
    /\ UNCHANGED <<reader, missed, failures>>

\* A transaction that fails changes nothing.  One that takes effect although its reply is lost, or
\* after which the process ends, is not followed by the invalidation.
Commit(w) ==
    /\ writer[w] = "idle" /\ exists /\ version < MaxVersion
    /\ version' = version + 1
    /\ exists' \in BOOLEAN
    /\ \/ writer' = [writer EXCEPT ![w] = "invalidate"] /\ UNCHANGED missed
       \/ StoreKind = "postgres" /\ missed' = version + 1 /\ UNCHANGED writer
    /\ UNCHANGED <<cached, reader, failures>>

\* The failure of DEL (a lost connection, a request that is gone) is only logged.
Invalidate(w) ==
    /\ writer[w] = "invalidate"
    /\ \/ cached' = NoEntry /\ UNCHANGED <<missed, failures>>
       \/ Fails("del") /\ missed' = version /\ UNCHANGED cached
    /\ writer' = [writer EXCEPT ![w] = "idle"]
    /\ UNCHANGED <<version, exists, reader>>

ReaderStep(r) ==
    \/ CacheGet(r) \/ ReadRow(r) \/ GetWorkflowNodes(r) \/ GetWorkflowEdges(r)
    \/ ReadFails(r) \/ CacheSet(r)

CacheNext ==
    \/ \E r \in Readers : ReaderStep(r)
    \/ \E w \in Writers : Commit(w) \/ Invalidate(w)
    \/ CacheExpires

\* Calls end, and so does every TTL.
CacheFairness ==
    /\ \A r \in Readers : WF_cacheVars(ReaderStep(r))
    /\ \A w \in Writers : WF_cacheVars(Invalidate(w))
    /\ WF_cacheVars(CacheExpires)

CacheSpec == CacheInit /\ [][CacheNext]_cacheVars /\ CacheFairness

-----------------------------------------------------------------------------
(* Properties. *)

Whole(v) == [row |-> v, nodes |-> v, edges |-> v]
Fresh    == exists /\ cached.val = Whole(version)

\* The cache is stale for one of four reasons only: an invalidation is due, one has failed since the
\* value was stored, a commit since then was reported as an error and not invalidated at all
\* (cached_workflows.go:143-165), or the read that filled it overlapped a commit.  A read that ran
\* alone never leaves a stale value behind (cached_workflows.go:127-131).
StaleForAReason ==
    IsEntry /\ ~Fresh => \/ \E w \in Writers : writer[w] = "invalidate"
                         \/ missed > cached.at     \* a failed one, or one left out
                         \/ cached.began < cached.at

\* When the writes stop, the cache ends up empty or up to date, for good (the TTL is the
\* backstop, cached_workflows.go:27-30).
CacheCatchesUp == <>[](IsEntry => Fresh)

\* A workflow is read as it was at one moment.
NoTornRead == \A r \in Readers : reader[r].pc = "set" => reader[r].val = Whole(reader[r].val.row)
=============================================================================
