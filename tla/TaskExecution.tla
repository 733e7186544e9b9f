--------------------------- MODULE TaskExecution ---------------------------
(***************************************************************************)
(* The execution of one task by the scheduler (executeTask and its helpers *)
(* in internal/scheduler/scheduler.go, ExecuteNode in executor.go): the    *)
(* main loop over the workflow's DAG, node retries, approval, abort, the   *)
(* checkpoint in task_nodes that a later run resumes from, and the three   *)
(* requests that meet it from outside: redelivery by the queue, CancelTask *)
(* and ApproveNode.                                                        *)
(*                                                                         *)
(* The queue is reduced to what RedisStreamQueue guarantees: a message is  *)
(* deliverable, held by a run, left in the PEL, or dead.  The execution    *)
(* lock makes runs of the task exclusive (WorkflowLock); the workers of a  *)
(* finished run may outlive it.                                            *)
(***************************************************************************)
EXTENDS Integers, FiniteSets

CONSTANTS
    Nodes,      \* node keys of the workflow
    Edges,      \* Edges[n]: the successors of n
    Approvals,  \* nodes of type approval
    NodeRetry,  \* NodeRetry[n]: max_retry of n
    TaskRetry,  \* defaultMaxRetry of the scheduler
    Faults,     \* what may happen from outside
    MaxRuns,    \* bound: executions of the task
    MaxDecisions \* bound: ApproveNode requests

\* The DAG: everything reachable from a set of nodes, least set closed under
\* Edges; BuildDAG accepts a workflow only when no node reaches itself.
Descendants(S) ==
    {m \in Nodes : \A C \in SUBSET Nodes :
        (/\ \A n \in S : Edges[n] \subseteq C
         /\ \A n \in C : Edges[n] \subseteq C) => m \in C}
Preds(n) == {m \in Nodes : n \in Edges[m]}

ASSUME ExecutionAssumption ==
    /\ IsFiniteSet(Nodes) /\ Nodes # {}
    /\ Edges \in [Nodes -> SUBSET Nodes]
    /\ \A n \in Nodes : n \notin Descendants({n})
    /\ Approvals \subseteq Nodes
    /\ NodeRetry \in [Nodes -> Nat]
    /\ TaskRetry \in Nat
    /\ MaxRuns \in Nat /\ MaxDecisions \in Nat
    /\ Faults \subseteq {"crash", "deadline", "sigterm", "cancel", "remote",
                         "fail", "panic", "full", "db"}

VARIABLES
    tstatus,    \* status column of the task row
    nstatus,    \* status column of the task_nodes rows
    msgs,       \* deliverable messages of the task (stream or retry ZSET)
    parked,     \* messages delivered and neither acknowledged nor held
    dead,       \* messages in the dead letter stream
    phase,      \* where executeTask is; "idle" when no run is active
    run,        \* number of the current or last run
    ctx,        \* ctx[r]: state of the runCtx of run r
    marked,     \* s.cancelled[task]
    submitted,  \* nodes with a verdict or handed to the pool
    inDegree,   \* unfinished predecessors of every node
    results,    \* nodes with a result
    remaining,  \* counter of nodes still awaited
    firstErr,   \* kind of the first error
    aborted,    \* the loop ended on runCtx.Done
    tries,      \* retryCount
    timers,     \* nodes waiting for a retry timer
    jobs,       \* node jobs in the worker pool, of this and of earlier runs
    outcomes,   \* buffered outcomes of the current run (channel done)
    stopping,   \* "no", "signal" (SIGTERM), "closed" (worker pool closed)
    cancelPC,   \* progress of a CancelTask request
    approvePC,  \* progress of an ApproveNode request
    approval,   \* its arguments
    decisions,  \* number of ApproveNode requests so far
    requeues    \* how often a run handed its message back for another attempt

dbVars    == <<tstatus, nstatus>>
queueVars == <<msgs, parked, dead, requeues>>
loopVars  == <<submitted, inDegree, results, remaining, firstErr, aborted, tries>>
userVars  == <<cancelPC, approvePC, approval, decisions>>
vars == <<dbVars, queueVars, phase, run, ctx, marked, loopVars, timers, jobs,
          outcomes, stopping, userVars>>

TaskStatus == {"pending", "running", "waiting", "succeeded", "failed", "cancelled"}
NodeStatus == {"pending", "running", "waiting", "succeeded", "failed", "skipped",
               "cancelled"}
Terminal     == {"succeeded", "failed", "cancelled"}
NodeTerminal == {"succeeded", "failed", "skipped", "cancelled"}
Errors  == {"nil", "node", "approval", "pool", "resumed", "cancelled", "timeout",
            "exit"}
Job     == [node : Nodes, run : 1..MaxRuns, started : BOOLEAN]
Outcome == [node : Nodes, kind : {"ok", "error", "approval"}]

TypeOK ==
    /\ tstatus \in TaskStatus
    /\ nstatus \in [Nodes -> NodeStatus]
    /\ msgs \in Nat /\ parked \in Nat /\ dead \in Nat /\ requeues \in Nat
    /\ phase \in {"idle", "begin", "start", "resume", "loop", "select", "finish",
                 "settle"}
    /\ run \in 0..MaxRuns
    /\ ctx \in [1..MaxRuns -> {"live", "cancelled", "deadline"}]
    /\ marked \in BOOLEAN
    /\ submitted \subseteq Nodes /\ results \subseteq Nodes
    /\ inDegree \in [Nodes -> Int]
    /\ remaining \in Nat
    /\ firstErr \in Errors
    /\ aborted \in BOOLEAN
    /\ tries \in [Nodes -> Nat]
    /\ timers \subseteq Nodes
    /\ jobs \subseteq Job
    /\ outcomes \subseteq Outcome
    /\ stopping \in {"no", "signal", "closed"}
    /\ cancelPC \in {"new", "signal", "write", "done"}
    /\ approvePC \in {"idle", "node", "status", "enqueue"}
    /\ approval \in [node : Nodes, yes : BOOLEAN]
    /\ decisions \in 0..MaxDecisions

\* dag.InDegree and retryCount at the start of a run.
DagInDegree == [n \in Nodes |-> Cardinality(Preds(n))]
NoTries     == [n \in Nodes |-> 0]

\* CreateTask has stored the row and enqueued the message.
Init ==
    /\ tstatus = "pending"
    /\ nstatus = [n \in Nodes |-> "pending"]
    /\ msgs = 1 /\ parked = 0 /\ dead = 0 /\ requeues = 0
    /\ phase = "idle" /\ run = 0 /\ marked = FALSE
    /\ ctx = [r \in 1..MaxRuns |-> "live"]
    /\ submitted = {} /\ results = {}
    /\ inDegree = DagInDegree /\ remaining = Cardinality(Nodes)
    /\ firstErr = "nil" /\ aborted = FALSE /\ tries = NoTries
    /\ timers = {} /\ jobs = {} /\ outcomes = {}
    /\ stopping = "no"
    /\ cancelPC = "new" /\ approvePC = "idle"
    /\ decisions = 0
    /\ approval = [node |-> CHOOSE n \in Nodes : TRUE, yes |-> FALSE]

Registered == phase \in {"start", "resume", "loop", "select", "finish", "settle"}

\* executeTask returns: its deferred functions stop the timers, drop the cancel
\* registration and cancel runCtx; workers that still run keep their job.
Return ==
    /\ phase' = "idle"
    /\ marked' = FALSE
    /\ submitted' = {} /\ results' = {}
    /\ inDegree' = DagInDegree /\ remaining' = Cardinality(Nodes)
    /\ firstErr' = "nil" /\ aborted' = FALSE /\ tries' = NoTries
    /\ timers' = {} /\ outcomes' = {}
    /\ ctx' = IF run > 0 /\ Registered /\ ctx[run] = "live"
              THEN [ctx EXCEPT ![run] = "cancelled"] ELSE ctx

-----------------------------------------------------------------------------
(* The run: delivery, start, main loop, finish. *)

\* The task row is read; a cancelled task is acknowledged and dropped.  A failed
\* read and a busy lock hand the message back, which is no step here.
Deliver ==
    /\ phase = "idle" /\ msgs > 0 /\ stopping = "no" /\ run < MaxRuns
    /\ msgs' = msgs - 1
    /\ phase' = IF tstatus = "cancelled" THEN "idle" ELSE "begin"
    /\ UNCHANGED <<dbVars, parked, dead, requeues, run, ctx, marked, loopVars, timers,
                   jobs, outcomes, stopping, userVars>>

\* The workflow cannot be read or is invalid, or the node rows cannot be written:
\* failTask.  Its status update may fail as well.
BeginFail ==
    /\ "db" \in Faults
    /\ phase = "begin" /\ stopping = "no"
    /\ tstatus' \in {tstatus, "failed"}
    /\ dead' = dead + 1
    /\ Return
    /\ UNCHANGED <<nstatus, msgs, parked, requeues, run, jobs, stopping, userVars>>

\* The lock is taken, the node rows exist, the cancel function is registered.
Register ==
    /\ phase = "begin" /\ stopping = "no"
    /\ run' = run + 1
    /\ phase' = "start"
    /\ UNCHANGED <<dbVars, queueVars, ctx, marked, loopVars, timers, jobs, outcomes,
                   stopping, userVars>>

\* The status update fails: the message goes to the dead letter stream.
StartFail ==
    /\ "db" \in Faults
    /\ phase = "start" /\ stopping = "no"
    /\ dead' = dead + 1
    /\ Return
    /\ UNCHANGED <<dbVars, msgs, parked, requeues, run, jobs, stopping, userVars>>

\* On a context cancelled by SIGTERM every step before the main loop fails, the
\* Nack of its error path too: the message stays in the PEL.
StopEarly ==
    /\ phase \in {"begin", "start"} /\ stopping # "no"
    /\ parked' = parked + 1
    /\ Return
    /\ UNCHANGED <<dbVars, msgs, dead, requeues, run, jobs, stopping, userVars>>

\* The status becomes running.
Start ==
    /\ phase = "start" /\ stopping = "no"
    /\ tstatus' = "running"
    /\ phase' = "resume"
    /\ UNCHANGED <<nstatus, queueVars, run, ctx, marked, loopVars, timers, jobs, outcomes,
                   stopping, userVars>>

\* What listTaskNodes may return: the rows, or nothing on an error, which a runCtx
\* that is already done may cause as well.
Unread == [n \in Nodes |-> "pending"]
Rows   == {nstatus} \cup (IF ctx[run] # "live" \/ "db" \in Faults THEN {Unread} ELSE {})

\* The replay of the mutants below on the rows read: done are the nodes that count
\* as a predecessor's result, err is the first error, twice the number of nodes
\* that are counted twice.
Replay(rows, done, err, twice) ==
    /\ phase = "resume"
    /\ LET With(s) == {n \in Nodes : rows[n] = s}
           below   == Descendants(With("failed") \cup With("skipped"))
           verdict == With("succeeded") \cup With("failed") \cup With("skipped")
       IN  /\ submitted' = verdict \cup below
           /\ remaining' = Cardinality(Nodes \ (verdict \cup below)) - twice
           /\ results' = With("succeeded")
           /\ nstatus' = [n \in Nodes |-> IF n \in below \ verdict THEN "skipped"
                                          ELSE nstatus[n]]
    /\ inDegree' = [n \in Nodes |-> inDegree[n] - Cardinality(Preds(n) \cap done)]
    /\ firstErr' = err
    /\ phase' = "loop"
    /\ UNCHANGED <<tstatus, queueVars, run, ctx, marked, aborted, tries, timers, jobs,
                   outcomes, stopping, userVars>>

RowsWith(S) == {n \in Nodes : nstatus[n] \in S}
Resumed     == IF RowsWith({"failed"}) = {} THEN "nil" ELSE "resumed"

\* Mutant of Checkpoint: the error of a failed row is forgotten.
CheckpointForgetsError == Replay(nstatus, RowsWith({"succeeded"}), "nil", 0)

\* Mutant of Checkpoint: a resumed task starts from the beginning.
CheckpointIgnored == Replay(Unread, {}, "nil", 0)

\* The checkpoint is replayed: succeeded nodes count for their successors,
\* everything below a failed or skipped node is skipped.  A row below a failed one
\* that is terminal itself is overwritten or not, depending on the order of the
\* rows.
Checkpoint ==
    /\ phase = "resume"
    /\ \E rows \in Rows :
         LET With(s) == {n \in Nodes : rows[n] = s}
             below   == Descendants(With("failed") \cup With("skipped"))
             verdict == With("succeeded") \cup With("failed") \cup With("skipped")
         IN  /\ submitted' = verdict \cup below
             /\ remaining' = Cardinality(Nodes) - Cardinality(verdict \cup below)
             /\ results' = With("succeeded")
             /\ inDegree' = [n \in Nodes |->
                   inDegree[n] - Cardinality(Preds(n) \cap With("succeeded"))]
             /\ firstErr' = IF With("failed") = {} THEN "nil" ELSE "resumed"
             /\ \E over \in SUBSET (below \cap verdict) :
                  nstatus' = [n \in Nodes |-> IF n \in (below \ verdict) \cup over
                                              THEN "skipped" ELSE nstatus[n]]
    /\ phase' = "loop"
    /\ UNCHANGED <<tstatus, queueVars, run, ctx, marked, aborted, tries, timers, jobs,
                   outcomes, stopping, userVars>>

\* skipDownstream: every node below n without a verdict is recorded as skipped.
SkipSet(S) == Descendants(S) \ submitted

\* ReadyNodes: nodes without a verdict whose predecessors are all done.
Ready == {n \in Nodes \ submitted : inDegree[n] = 0}

\* submitReady for one ready node.  Submit rejects when the pool is closed, and
\* may reject as soon as SIGTERM has cancelled the pool's context: the node gets
\* no row of its own, everything below it is skipped.
SubmitNode(n) ==
    /\ phase = "loop" /\ remaining > 0
    /\ n \in Ready
    /\ \/ /\ stopping # "closed"
          /\ jobs' = jobs \cup {[node |-> n, run |-> run, started |-> FALSE]}
          /\ submitted' = submitted \cup {n}
          /\ UNCHANGED <<remaining, firstErr, nstatus>>
       \/ /\ stopping # "no"
          /\ submitted' = submitted \cup {n} \cup SkipSet({n})
          /\ remaining' = remaining - 1 - Cardinality(SkipSet({n}))
          /\ firstErr' = IF firstErr = "nil" THEN "pool" ELSE firstErr
          /\ nstatus' = [m \in Nodes |-> IF m \in SkipSet({n}) THEN "skipped"
                                         ELSE nstatus[m]]
          /\ UNCHANGED jobs
    /\ UNCHANGED <<tstatus, queueVars, phase, run, ctx, marked, inDegree, results,
                   aborted, tries, timers, outcomes, stopping, userVars>>

\* Nothing is ready any more: the loop waits, or ends when nothing remains.
TurnLoop ==
    /\ phase = "loop"
    /\ remaining = 0 \/ Ready = {}
    /\ phase' = IF remaining = 0 THEN "finish" ELSE "select"
    /\ UNCHANGED <<dbVars, queueVars, run, ctx, marked, loopVars, timers, jobs, outcomes,
                   stopping, userVars>>

\* A node succeeded: its successors have one predecessor less to wait for.
SelectOk ==
    /\ phase = "select"
    /\ \E o \in outcomes :
         /\ o.kind = "ok"
         /\ outcomes' = outcomes \ {o}
         /\ results' = results \cup {o.node}
         /\ inDegree' = [n \in Nodes |-> IF n \in Edges[o.node] THEN inDegree[n] - 1
                                         ELSE inDegree[n]]
    /\ remaining' = remaining - 1
    /\ phase' = "loop"
    /\ UNCHANGED <<dbVars, queueVars, run, ctx, marked, submitted, firstErr, aborted,
                   tries, timers, jobs, stopping, userVars>>

\* A node waits for a human: the loop is left, nothing below is skipped.
SelectApproval ==
    /\ phase = "select"
    /\ \E o \in outcomes : o.kind = "approval" /\ outcomes' = outcomes \ {o}
    /\ firstErr' = IF firstErr = "nil" THEN "approval" ELSE firstErr
    /\ remaining' = 0
    /\ phase' = "loop"
    /\ UNCHANGED <<dbVars, queueVars, run, ctx, marked, submitted, inDegree, results,
                   aborted, tries, timers, jobs, stopping, userVars>>

\* Mutant of SelectRetry: a node that will be retried is no longer awaited.
RetryNotAwaited ==
    /\ phase = "select"
    /\ \E o \in outcomes :
         /\ o.kind = "error" /\ tries[o.node] < NodeRetry[o.node]
         /\ outcomes' = outcomes \ {o}
         /\ tries' = [tries EXCEPT ![o.node] = @ + 1]
         /\ timers' = timers \cup {o.node}
    /\ remaining' = remaining - 1
    /\ phase' = "loop"
    /\ UNCHANGED <<dbVars, queueVars, run, ctx, marked, submitted, inDegree, results,
                   firstErr, aborted, jobs, stopping, userVars>>

\* A node failed and its policy allows a retry: a timer is armed.
SelectRetry ==
    /\ phase = "select"
    /\ \E o \in outcomes :
         /\ o.kind = "error" /\ tries[o.node] < NodeRetry[o.node]
         /\ outcomes' = outcomes \ {o}
         /\ tries' = [tries EXCEPT ![o.node] = @ + 1]
         /\ timers' = timers \cup {o.node}
    /\ phase' = "loop"
    /\ UNCHANGED <<dbVars, queueVars, run, ctx, marked, submitted, inDegree, results,
                   remaining, firstErr, aborted, jobs, stopping, userVars>>

\* The failure handling of the mutants below: skip are the nodes given up, rows the
\* ones recorded as skipped, and freed the successors that stop waiting.
Failure(o, skip, rows, freed) ==
    /\ phase = "select"
    /\ o.kind = "error" /\ tries[o.node] >= NodeRetry[o.node]
    /\ outcomes' = outcomes \ {o}
    /\ submitted' = submitted \cup skip
    /\ remaining' = remaining - 1 - Cardinality(skip)
    /\ nstatus' = [n \in Nodes |-> IF n \in rows THEN "skipped" ELSE nstatus[n]]
    /\ inDegree' = [n \in Nodes |-> IF n \in freed THEN inDegree[n] - 1 ELSE inDegree[n]]
    /\ firstErr' = IF firstErr = "nil" THEN "node" ELSE firstErr
    /\ phase' = "loop"
    /\ UNCHANGED <<tstatus, queueVars, run, ctx, marked, results, aborted, tries, timers,
                   jobs, stopping, userVars>>

\* Mutant of SelectFailure: the branch below goes on with an empty input.
FailureGoesOn == \E o \in outcomes : Failure(o, {}, {}, Edges[o.node])

\* Mutant of SelectFailure: what is below is given up but not recorded.
FailureUnrecorded == \E o \in outcomes : Failure(o, SkipSet({o.node}), {}, {})

\* Mutant of SelectFailure: what is below is forgotten.
FailureForgets == \E o \in outcomes : Failure(o, {}, {}, {})

\* A node failed for good: everything below it is skipped.
SelectFailure ==
    /\ phase = "select"
    /\ \E o \in outcomes :
         /\ o.kind = "error" /\ tries[o.node] >= NodeRetry[o.node]
         /\ outcomes' = outcomes \ {o}
         /\ LET below == SkipSet({o.node})
            IN  /\ submitted' = submitted \cup below
                /\ remaining' = remaining - 1 - Cardinality(below)
                /\ nstatus' = [n \in Nodes |-> IF n \in below THEN "skipped"
                                               ELSE nstatus[n]]
    /\ firstErr' = IF firstErr = "nil" THEN "node" ELSE firstErr
    /\ phase' = "loop"
    /\ UNCHANGED <<tstatus, queueVars, run, ctx, marked, inDegree, results, aborted,
                   tries, timers, jobs, stopping, userVars>>

\* classifyAbort
AbortCause == IF marked THEN "cancelled"
              ELSE IF ctx[run] = "deadline" THEN "timeout" ELSE "exit"

\* runCtx is done: nodes without a verdict are recorded as cancelled.
SelectDone ==
    /\ phase = "select"
    /\ ctx[run] # "live"
    /\ firstErr' = IF firstErr = "nil" THEN AbortCause ELSE firstErr
    /\ aborted' = TRUE
    /\ remaining' = 0
    /\ submitted' = Nodes
    /\ nstatus' = [n \in Nodes |-> IF n \in submitted THEN nstatus[n] ELSE "cancelled"]
    /\ phase' = "loop"
    /\ UNCHANGED <<tstatus, queueVars, run, ctx, marked, inDegree, results, tries,
                   timers, jobs, outcomes, stopping, userVars>>

FinalStatus == CASE firstErr = "nil"       -> "succeeded"
                 [] firstErr = "cancelled" -> "cancelled"
                 [] OTHER                  -> "failed"

\* Waiting for approval: the message stays in the PEL.
Suspend ==
    /\ phase = "finish" /\ firstErr = "approval"
    /\ tstatus' = "waiting"
    /\ parked' = parked + 1
    /\ Return
    /\ UNCHANGED <<nstatus, msgs, dead, requeues, run, jobs, stopping, userVars>>

\* finish, first half: the final status is written; an error is only logged.
FinishStatus ==
    /\ phase = "finish" /\ firstErr # "approval"
    /\ tstatus' \in {FinalStatus} \cup (IF "db" \in Faults THEN {tstatus} ELSE {})
    /\ phase' = "settle"
    /\ UNCHANGED <<nstatus, queueVars, run, ctx, marked, loopVars, timers, jobs,
                   outcomes, stopping, userVars>>

\* finish, second half: Ack, or Nack with a retry budget for aborted runs.
FinishMessage ==
    /\ phase = "settle"
    /\ LET again == aborted /\ firstErr # "cancelled" /\ TaskRetry > 0
       IN  /\ msgs' = IF FinalStatus = "failed" /\ again THEN msgs + 1 ELSE msgs
           /\ requeues' = IF FinalStatus = "failed" /\ again THEN requeues + 1
                          ELSE requeues
           /\ dead' = IF FinalStatus = "failed" /\ ~again THEN dead + 1 ELSE dead
    /\ Return
    /\ UNCHANGED <<dbVars, parked, run, jobs, stopping, userVars>>

-----------------------------------------------------------------------------
(* The worker pool and ExecuteNode. *)

\* A worker takes the job and records the node as running.
JobStart(j) ==
    /\ j \in jobs /\ ~j.started
    /\ jobs' = (jobs \ {j}) \cup {[j EXCEPT !.started = TRUE]}
    /\ nstatus' = [nstatus EXCEPT ![j.node] = "running"]
    /\ UNCHANGED <<tstatus, queueVars, phase, run, ctx, marked, loopVars, timers,
                   outcomes, stopping, userVars>>

\* The node's status is recorded and OnDone reports to the run, if it still
\* listens.
JobEnd(j, status, kind) ==
    /\ j \in jobs /\ j.started
    /\ jobs' = jobs \ {j}
    /\ nstatus' = [nstatus EXCEPT ![j.node] = status]
    /\ outcomes' = IF Registered /\ j.run = run
                   THEN outcomes \cup {[node |-> j.node, kind |-> kind]} ELSE outcomes
    /\ UNCHANGED <<tstatus, queueVars, phase, run, ctx, marked, loopVars, timers,
                   stopping, userVars>>

JobSucceeds(j)  == j.node \notin Approvals /\ JobEnd(j, "succeeded", "ok")
JobWaits(j)     == j.node \in Approvals /\ JobEnd(j, "waiting", "approval")
JobFails(j)     == /\ "fail" \in Faults
                   /\ j.node \notin Approvals
                   /\ JobEnd(j, "failed", "error")
\* The node observes its context: Canceled is recorded as cancelled, an exceeded
\* deadline as failed.
JobInterrupted(j) ==
    /\ j.node \notin Approvals
    /\ ctx[j.run] # "live"
    /\ JobEnd(j, IF ctx[j.run] = "cancelled" THEN "cancelled" ELSE "failed", "error")

\* The node panics: safeExecute reports an error, the row stays as it is.
JobPanics(j) ==
    /\ "panic" \in Faults
    /\ JobEnd(j, nstatus[j.node], "error")

\* A retry timer fires: the node is submitted again unless runCtx is done.
TimerFires(n) ==
    /\ n \in timers
    /\ timers' = timers \ {n}
    /\ jobs' = IF ctx[run] = "live"
               THEN jobs \cup {[node |-> n, run |-> run, started |-> FALSE]} ELSE jobs
    /\ UNCHANGED <<dbVars, queueVars, phase, run, ctx, marked, loopVars, outcomes,
                   stopping, userVars>>

-----------------------------------------------------------------------------
(* The environment of the run. *)

\* The task timeout expires.
Deadline ==
    /\ "deadline" \in Faults
    /\ Registered /\ ctx[run] = "live"
    /\ ctx' = [ctx EXCEPT ![run] = "deadline"]
    /\ UNCHANGED <<dbVars, queueVars, phase, run, marked, loopVars, timers, jobs,
                   outcomes, stopping, userVars>>

\* SIGTERM cancels every context of the process; later the pool is closed.
Sigterm ==
    /\ "sigterm" \in Faults
    /\ stopping = "no"
    /\ stopping' = "signal"
    /\ ctx' = IF Registered /\ ctx[run] = "live"
              THEN [ctx EXCEPT ![run] = "cancelled"] ELSE ctx
    /\ UNCHANGED <<dbVars, queueVars, phase, run, marked, loopVars, timers, jobs,
                   outcomes, userVars>>

ClosePool ==
    /\ stopping = "signal"
    /\ stopping' = "closed"
    /\ UNCHANGED <<dbVars, queueVars, phase, run, ctx, marked, loopVars, timers, jobs,
                   outcomes, userVars>>

\* The process dies or, after a SIGTERM, exits without waiting for its consumers:
\* the run and its workers vanish, its message stays in the PEL.  Workers of
\* earlier runs live on if they belong to another instance.
Crash ==
    /\ "crash" \in Faults \/ stopping = "closed"
    /\ phase # "idle" \/ stopping # "no"
    /\ parked' = IF phase # "idle" THEN parked + 1 ELSE parked
    /\ \E lost \in SUBSET {j \in jobs : j.run < run} :
         jobs' = {j \in jobs : j.run < run} \ lost
    /\ stopping' = "no"
    /\ Return
    /\ UNCHANGED <<dbVars, msgs, dead, requeues, run, userVars>>

\* Some instance starts and recovers the messages left in the PEL.
Recover ==
    /\ parked > 0
    /\ parked' = parked - 1 /\ msgs' = msgs + 1
    /\ UNCHANGED <<dbVars, dead, requeues, phase, run, ctx, marked, loopVars, timers,
                   jobs, outcomes, stopping, userVars>>

-----------------------------------------------------------------------------
(* CancelTask: read the status, interrupt the run, write cancelled. *)

CancelRead ==
    /\ "cancel" \in Faults
    /\ cancelPC = "new"
    /\ tstatus \in {"pending", "running"}
    /\ cancelPC' = "signal"
    /\ UNCHANGED <<dbVars, queueVars, phase, run, ctx, marked, loopVars, timers, jobs,
                   outcomes, stopping, approvePC, approval, decisions>>

\* Cancel reaches the run only on the instance that executes it.
CancelSignal ==
    /\ cancelPC = "signal"
    /\ cancelPC' = "write"
    /\ \/ /\ Registered
          /\ marked' = TRUE
          /\ ctx' = IF ctx[run] = "live" THEN [ctx EXCEPT ![run] = "cancelled"] ELSE ctx
       \/ /\ ~Registered \/ "remote" \in Faults
          /\ UNCHANGED <<marked, ctx>>
    /\ UNCHANGED <<dbVars, queueVars, phase, run, loopVars, timers, jobs, outcomes,
                   stopping, approvePC, approval, decisions>>

CancelWrite ==
    /\ cancelPC = "write"
    /\ cancelPC' = "done"
    /\ tstatus' = "cancelled"
    /\ UNCHANGED <<nstatus, queueVars, phase, run, ctx, marked, loopVars, timers, jobs,
                   outcomes, stopping, approvePC, approval, decisions>>

-----------------------------------------------------------------------------
(* ApproveNode: read the status, write the node, write the task, enqueue. *)

ApproveRead(n, yes) ==
    /\ approvePC = "idle" /\ decisions < MaxDecisions
    /\ tstatus = "waiting"
    /\ decisions' = decisions + 1
    /\ approval' = [node |-> n, yes |-> yes]
    /\ approvePC' = "node"
    /\ UNCHANGED <<dbVars, queueVars, phase, run, ctx, marked, loopVars, timers, jobs,
                   outcomes, stopping, cancelPC>>

ApproveWriteNode ==
    /\ approvePC = "node"
    /\ nstatus' = [nstatus EXCEPT ![approval.node] =
                     IF approval.yes THEN "succeeded" ELSE "failed"]
    /\ approvePC' = "status"
    /\ UNCHANGED <<tstatus, queueVars, phase, run, ctx, marked, loopVars, timers, jobs,
                   outcomes, stopping, cancelPC, approval, decisions>>

ApproveWriteStatus ==
    /\ approvePC = "status"
    /\ tstatus' = IF approval.yes THEN "pending" ELSE "failed"
    /\ approvePC' = IF approval.yes THEN "enqueue" ELSE "idle"
    /\ UNCHANGED <<nstatus, queueVars, phase, run, ctx, marked, loopVars, timers, jobs,
                   outcomes, stopping, cancelPC, approval, decisions>>

\* The queue may refuse (ErrQueueFull) after the status has been reset.
ApproveEnqueue ==
    /\ approvePC = "enqueue"
    /\ approvePC' = "idle"
    /\ \/ msgs' = msgs + 1
       \/ "full" \in Faults /\ UNCHANGED msgs
    /\ UNCHANGED <<dbVars, parked, dead, requeues, phase, run, ctx, marked, loopVars,
                   timers, jobs, outcomes, stopping, cancelPC, approval, decisions>>

-----------------------------------------------------------------------------
RunStep ==
    \/ Deliver \/ BeginFail \/ Register \/ StartFail \/ StopEarly \/ Start
    \/ Checkpoint
    \/ \E n \in Nodes : SubmitNode(n)
    \/ TurnLoop
    \/ SelectOk \/ SelectApproval \/ SelectRetry \/ SelectFailure \/ SelectDone
    \/ Suspend \/ FinishStatus \/ FinishMessage

JobStep(j) ==
    \/ JobStart(j) \/ JobSucceeds(j) \/ JobWaits(j) \/ JobFails(j) \/ JobInterrupted(j)
    \/ JobPanics(j)

UserStep ==
    \/ CancelRead \/ CancelSignal \/ CancelWrite
    \/ \E n \in Approvals, yes \in BOOLEAN : ApproveRead(n, yes)
    \/ ApproveWriteNode \/ ApproveWriteStatus \/ ApproveEnqueue

EnvStep == Deadline \/ Sigterm \/ ClosePool \/ Crash \/ Recover

\* Nothing is left to do: no message, no run, no worker, no request.
Quiescent ==
    /\ phase = "idle" /\ jobs = {} /\ stopping = "no"
    /\ (msgs = 0 \/ run = MaxRuns) /\ parked = 0
    /\ approvePC = "idle" /\ cancelPC \in {"new", "done"}

Done == Quiescent /\ UNCHANGED vars

Next ==
    \/ RunStep
    \/ \E j \in jobs : JobStep(j)
    \/ \E n \in timers : TimerFires(n)
    \/ UserStep
    \/ EnvStep
    \/ Done

Spec == Init /\ [][Next]_vars

\* A consumer goes on with the run it is in, workers keep working and timers fire.
Fairness ==
    /\ WF_vars(RunStep)
    /\ WF_vars(\E j \in jobs : JobStep(j))
    /\ WF_vars(\E n \in timers : TimerFires(n))

FairSpec == Spec /\ Fairness

-----------------------------------------------------------------------------
(* Properties. *)

\* What the current run still waits for: node jobs, unread outcomes, timers.
Awaited ==
    {j.node : j \in {k \in jobs : k.run = run}} \cup {o.node : o \in outcomes} \cup timers

\* While runCtx is live and the loop goes on, remaining counts exactly the nodes
\* that are still awaited and the ones that are not submitted yet, so the
\* loop neither ends early nor waits for a node that nobody will report
\* (the double and missing bookkeeping described at scheduler.go:911-916).
RemainingIsExact ==
    phase \in {"loop", "select"} /\ remaining > 0 /\ ctx[run] = "live" =>
        remaining = Cardinality(Nodes \ submitted) + Cardinality(Awaited)

\* The loop never waits in its select when only the deadline could wake it up.
NeverStalled ==
    phase = "select" => Awaited # {} \/ ctx[run] # "live"

\* The main loop neither ends before its nodes nor outlasts them: the counter it
\* runs on and the events that can still wake it up agree.
LoopAccounts == RemainingIsExact /\ NeverStalled

\* A node is handed to the pool only when all its predecessors have a result,
\* in a first run and in a resumed one.
DependencyOrder ==
    \A j \in jobs : j.run = run /\ Registered => Preds(j.node) \subseteq results

\* A node that has succeeded is not executed again: a resumed run starts from the
\* checkpoint, not from the beginning (scheduler.go:908-909).  Met over failures and
\* crashes; not met when workers of the interrupted run are still at work (a timeout,
\* a signal, an approval with a node beside it).  An approval node computes nothing;
\* for it see ApprovalSticks.
NoNodeRedone ==
    [][\A n \in Nodes \ Approvals :
         nstatus[n] = "succeeded" => nstatus'[n] # "running"]_nstatus

\* A task that is recorded as succeeded has succeeded in all its nodes: no branch
\* was silently left out (the hazard described at scheduler.go:960-967).
SucceededMeansAllNodes ==
    tstatus = "succeeded" /\ phase = "idle" =>
        \A n \in Nodes : nstatus[n] = "succeeded"

\* Once an execution has ended its task and its workers have stopped, no node is
\* left pending, running or waiting (scheduler.go:1033-1035 for the cancelled case).
NoDanglingNode ==
    Quiescent /\ tstatus \in Terminal /\ run > 0 /\ (decisions > 0 => approval.yes) =>
        \A n \in Nodes : nstatus[n] \in NodeTerminal

\* The same for a task that a rejected approval has ended.
NoDanglingAfterReject ==
    Quiescent /\ tstatus \in Terminal /\ decisions > 0 /\ ~approval.yes =>
        \A n \in Nodes : nstatus[n] \in NodeTerminal

\* A task the user cancelled stays cancelled (service.go:131-154).
CancelledIsFinal ==
    [][tstatus = "cancelled" => tstatus' = "cancelled"]_tstatus

\* A retry granted for a timeout or a restart is a real attempt: the next run is
\* not failed by the checkpoint of nodes that the abort itself interrupted
\* (scheduler.go:790-791).
RetryIsRealAttempt ==
    requeues > 0 /\ "fail" \notin Faults => firstErr # "resumed"

\* A human approval is never undone by a later write to the node's row
\* (scheduler.go:226: an approved node is succeeded and the task goes on).
ApprovalSticks ==
    [][\A n \in Approvals : nstatus[n] = "succeeded" => nstatus'[n] = "succeeded"]_nstatus

\* Stopping the service sends no task to the dead letter stream: an aborted run
\* is handed over to another instance (scheduler.go:791 and 1124).
ShutdownKeepsTask ==
    Faults \subseteq {"sigterm", "crash"} => dead = 0

\* The retry budget is a budget: a task is handed back for another attempt at
\* most TaskRetry times, then it goes to the dead letter stream.
RetryBudget == requeues <= TaskRetry

\* Every execution comes to an end without any help from the task timeout: the
\* loop is never left waiting for an outcome that nobody sends (the 300 s wait
\* described at scheduler.go:916).
RunsEnd == phase # "idle" ~> phase = "idle"
=============================================================================
