------------------------- MODULE RedisWorkflowLock -------------------------
(***************************************************************************)
(* RedisWorkflowLock of internal/scheduler/wflock.go for one lock key: a   *)
(* process-local flag in front of SET NX EX, a compare-and-delete release, *)
(* and the TTL.  The clients are the consumers of several server           *)
(* instances.  What the code does on a Redis error is the fault "redis";   *)
(* "slow" drops the assumption that the TTL outlasts an execution          *)
(* (lockTTL in cmd/server/main.go is the task timeout plus five minutes).  *)
(* The history variable calm says that neither has happened yet.           *)
(***************************************************************************)
EXTENDS Integers

CONSTANTS
    Instances,  \* server processes
    Clients,    \* their consumers
    Home,       \* Home[c]: the instance of c
    Nobody,     \* no client
    Faults,     \* what may go wrong
    MaxTokens   \* bound: acquisitions

ASSUME LockAssumption ==
    /\ Home \in [Clients -> Instances]
    /\ Nobody \notin Clients
    /\ Faults \subseteq {"redis", "slow"}
    /\ MaxTokens \in Nat

VARIABLES
    lock,    \* the value of the Redis key, 0 when it does not exist
    owner,   \* the client that wrote it
    local,   \* local[i]: l.local of instance i
    pc,      \* progress of every client
    token,   \* token[c]: the token of its last attempt
    tokens,  \* tokens drawn so far: randomToken never repeats one
    calm     \* history: Redis has always answered and no lock expired in use

vars == <<lock, owner, local, pc, token, tokens, calm>>

Steps == {"idle", "setnx", "mark", "run", "free", "del"}

TypeOK ==
    /\ lock \in 0..MaxTokens
    /\ owner \in Clients \cup {Nobody}
    /\ local \in [Instances -> BOOLEAN]
    /\ pc \in [Clients -> Steps]
    /\ token \in [Clients -> 0..MaxTokens]
    /\ tokens \in 0..MaxTokens
    /\ calm \in BOOLEAN

Init ==
    /\ lock = 0 /\ owner = Nobody
    /\ local = [i \in Instances |-> FALSE]
    /\ pc = [c \in Clients |-> "idle"]
    /\ token = [c \in Clients |-> 0]
    /\ tokens = 0
    /\ calm = TRUE

Goto(c, step) == pc' = [pc EXCEPT ![c] = step]

\* Mutant of CheckLocal: the flag is set where it is read, and nobody clears it when
\* SET NX then finds the key.
CheckAndMark(c) ==
    /\ pc[c] = "idle" /\ ~local[Home[c]]
    /\ tokens < MaxTokens
    /\ tokens' = tokens + 1
    /\ token' = [token EXCEPT ![c] = tokens + 1]
    /\ local' = [local EXCEPT ![Home[c]] = TRUE]
    /\ Goto(c, "setnx")
    /\ UNCHANGED <<lock, owner, calm>>

\* Acquire: the local flag is read under l.mu, which is released before SET NX.
\* A client that finds the flag set gets ErrWorkflowLocked and stays idle.
CheckLocal(c) ==
    /\ pc[c] = "idle" /\ ~local[Home[c]]
    /\ tokens < MaxTokens
    /\ tokens' = tokens + 1
    /\ token' = [token EXCEPT ![c] = tokens + 1]
    /\ Goto(c, "setnx")
    /\ UNCHANGED <<lock, owner, local, calm>>

\* Mutant of SetNX: SET without NX.
SetAlways(c) ==
    /\ pc[c] = "setnx"
    /\ lock' = token[c] /\ owner' = c
    /\ Goto(c, "mark")
    /\ UNCHANGED <<local, token, tokens, calm>>

SetNX(c) ==
    /\ pc[c] = "setnx" /\ lock = 0
    /\ lock' = token[c] /\ owner' = c
    /\ Goto(c, "mark")
    /\ UNCHANGED <<local, token, tokens, calm>>

\* The key exists: ErrWorkflowLocked.
SetNXBusy(c) ==
    /\ pc[c] = "setnx" /\ lock # 0
    /\ Goto(c, "idle")
    /\ UNCHANGED <<lock, owner, local, token, tokens, calm>>

\* Redis fails, before or after it has executed the command: the task is
\* executed without a lock and with a release that does nothing.
SetNXError(c) ==
    /\ "redis" \in Faults
    /\ pc[c] = "setnx"
    /\ \/ UNCHANGED <<lock, owner>>
       \/ lock = 0 /\ lock' = token[c] /\ owner' = c
    /\ calm' = FALSE
    /\ Goto(c, "free")
    /\ UNCHANGED <<local, token, tokens>>

MarkLocal(c) ==
    /\ pc[c] = "mark"
    /\ local' = [local EXCEPT ![Home[c]] = TRUE]
    /\ Goto(c, "run")
    /\ UNCHANGED <<lock, owner, token, tokens, calm>>

\* The deferred release: first the local flag, then the script.
Release(c) ==
    /\ pc[c] = "run"
    /\ local' = [local EXCEPT ![Home[c]] = FALSE]
    /\ Goto(c, "del")
    /\ UNCHANGED <<lock, owner, token, tokens, calm>>

ReleaseNothing(c) ==
    /\ pc[c] = "free"
    /\ Goto(c, "idle")
    /\ UNCHANGED <<lock, owner, local, token, tokens, calm>>

\* Mutant of DelScript: DEL without comparing the token.
DelAlways(c) ==
    /\ pc[c] = "del"
    /\ lock' = 0 /\ owner' = Nobody
    /\ Goto(c, "idle")
    /\ UNCHANGED <<local, token, tokens, calm>>

\* delScript: compare the token and delete.
DelScript(c) ==
    /\ pc[c] = "del"
    /\ lock' = IF lock = token[c] THEN 0 ELSE lock
    /\ owner' = IF lock = token[c] THEN Nobody ELSE owner
    /\ Goto(c, "idle")
    /\ UNCHANGED <<local, token, tokens, calm>>

\* The script runs on the consumer's ctx, which a shutdown has cancelled, and its
\* error is ignored.
DelLost(c) ==
    /\ pc[c] = "del"
    /\ Goto(c, "idle")
    /\ UNCHANGED <<lock, owner, local, token, tokens, calm>>

\* A client between its SET NX and the end of its release.
Holding(c) == pc[c] \in {"mark", "run", "del"}

\* Mutant of Expire: the fixed TTL that a longer task timeout outlasts
\* (main.go:370-371).
ExpireEarly ==
    /\ lock # 0
    /\ lock' = 0 /\ owner' = Nobody
    /\ UNCHANGED <<local, pc, token, tokens, calm>>

\* The client that still needs the stored lock, if there is one.
InUse == \E c \in Clients : Holding(c) /\ token[c] = lock

\* The TTL expires, after every execution that could have taken the lock.
Expire ==
    /\ lock # 0
    /\ InUse => "slow" \in Faults
    /\ lock' = 0 /\ owner' = Nobody
    /\ calm' = (calm /\ ~InUse)
    /\ UNCHANGED <<local, pc, token, tokens>>

\* An instance dies: its clients and its local flag are gone, the key is not.
Crash(i) ==
    /\ pc' = [c \in Clients |-> IF Home[c] = i THEN "idle" ELSE pc[c]]
    /\ local' = [local EXCEPT ![i] = FALSE]
    /\ UNCHANGED <<lock, owner, token, tokens, calm>>

Step(c) ==
    \/ CheckLocal(c) \/ SetNX(c) \/ SetNXBusy(c) \/ SetNXError(c) \/ MarkLocal(c)
    \/ Release(c) \/ ReleaseNothing(c) \/ DelScript(c) \/ DelLost(c)

Next ==
    \/ \E c \in Clients : Step(c)
    \/ Expire
    \/ \E i \in Instances : Crash(i)

Spec == Init /\ [][Next]_vars

\* A consumer that holds the lock goes on, and Redis expires the keys nobody needs;
\* nothing makes the fault "slow" happen.
FairSpec ==
    /\ Spec
    /\ \A c \in Clients : WF_vars(pc[c] # "idle" /\ Step(c))
    /\ WF_vars(~InUse /\ Expire)

-----------------------------------------------------------------------------
\* Consumers that execute the task.
Executing == {c \in Clients : pc[c] \in {"run", "free"}}

\* No two consumers, of the same or of two instances, execute the task at the
\* same time (wflock.go:29, the purpose of the lock), until a Redis command fails
\* or an execution outlasts the TTL.
MutualExclusion == calm => \A c, e \in Executing : c = e

\* A lock disappears only through its owner's release or through the TTL: the
\* late release of a client whose lock has expired does not take the next
\* holder's lock away (wflock.go:127-129).
OnlyOwnerReleases ==
    [][\A c, e \in Clients :
         (Holding(c) /\ lock = token[c] /\ lock' # lock /\ pc'[e] # pc[e]) => e = c]_vars

\* Within one instance the lock excludes even when Redis fails: without Redis the
\* lock falls back to a lock of the process (wflock.go:24).
LocalExclusion == \A c, e \in Executing : Home[c] = Home[e] => c = e

\* Nothing bars a workflow for good: neither the key of a holder that died or whose
\* release was lost (wflock.go:121-130), nor the local flag, which the consumers of
\* an instance set and delete for each other and which no TTL would clear
\* (wflock.go:74-79, 113-126).
LockIsFreed ==
    /\ lock # 0 ~> lock = 0
    /\ \A i \in Instances : local[i] ~> ~local[i]

\* The Redis lock implements the promise made by the interface: its holder is the
\* client whose token is stored, active from SET NX to the end of its release.
\* The promise ends, all clients released, with the first fault.
Abstract == INSTANCE ExecutionLock WITH
              holder <- IF calm THEN owner ELSE Nobody,
              active <- {c \in Clients : calm /\ Holding(c)}

Refinement == Abstract!Spec
=============================================================================
