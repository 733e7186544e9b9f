----------------------------- MODULE WorkerPool -----------------------------
(***************************************************************************)
(* The worker pool of internal/worker/pool.go: Submit with back pressure,  *)
(* the workers, and the staged Shutdown that must neither close the job    *)
(* channel under a sender nor wait without end.  Every job is submitted by *)
(* a goroutine of its own, so the state of a job is also the progress of   *)
(* its Submit call.  The order of jobs in the channel is not modelled.     *)
(***************************************************************************)
EXTENDS Naturals, FiniteSets

CONSTANTS
    Workers,   \* worker goroutines
    Jobs,      \* node jobs, one Submit call each
    QueueCap,  \* capacity of the job channel
    Idle, Gone \* a worker without a job, a worker that has returned

ASSUME PoolAssumption ==
    /\ IsFiniteSet(Workers) /\ Workers # {} /\ IsFiniteSet(Jobs)
    /\ Idle \notin Jobs /\ Gone \notin Jobs /\ Idle # Gone
    /\ QueueCap \in Nat \ {0}

VARIABLES
    at,          \* at[j]: progress of the job
    worker,      \* worker[w]: the job it executes, Idle or Gone
    cancelled,   \* jobs whose own execution context is cancelled
    closed,      \* p.closed
    inflight,    \* Submit calls counted by p.inflight
    sendersGone, \* inflight.Wait has returned (channel inflightDone)
    chanClosed,  \* p.jobs is closed
    quit,        \* p.quit is closed
    poolDone,    \* p.poolCtx is cancelled
    shut,        \* progress of Shutdown
    waits        \* full timeouts that Shutdown has waited

vars == <<at, worker, cancelled, closed, inflight, sendersGone, chanClosed, quit,
          poolDone, shut, waits>>

JobStates == {"new", "add", "recheck", "send", "rejected", "queued", "taken",
              "running", "done"}

TypeOK ==
    /\ at \in [Jobs -> JobStates]
    /\ worker \in [Workers -> Jobs \cup {Idle, Gone}]
    /\ cancelled \subseteq Jobs /\ inflight \subseteq Jobs
    /\ closed \in BOOLEAN /\ sendersGone \in BOOLEAN /\ chanClosed \in BOOLEAN
    /\ quit \in BOOLEAN /\ poolDone \in BOOLEAN
    /\ shut \in {"open", "senders", "forced", "drain", "cancel", "last", "returned"}
    /\ waits \in 0..3

Init ==
    /\ at = [j \in Jobs |-> "new"]
    /\ worker = [w \in Workers |-> Idle]
    /\ cancelled = {} /\ inflight = {}
    /\ closed = FALSE /\ sendersGone = FALSE /\ chanClosed = FALSE
    /\ quit = FALSE /\ poolDone = FALSE
    /\ shut = "open" /\ waits = 0

Queued == {j \in Jobs : at[j] = "queued"}
Goto(j, state) == at' = [at EXCEPT ![j] = state]

-----------------------------------------------------------------------------
(* Submit. *)

SubmitCheck(j) ==
    /\ at[j] = "new"
    /\ Goto(j, IF closed THEN "rejected" ELSE "add")
    /\ UNCHANGED <<worker, cancelled, closed, inflight, sendersGone, chanClosed, quit,
                   poolDone, shut, waits>>

SubmitAdd(j) ==
    /\ at[j] = "add"
    /\ inflight' = inflight \cup {j}
    /\ Goto(j, "recheck")
    /\ UNCHANGED <<worker, cancelled, closed, sendersGone, chanClosed, quit, poolDone,
                   shut, waits>>

\* Mutant of SubmitRecheck: closed is not looked at again.
SubmitBlindly(j) ==
    /\ at[j] = "recheck"
    /\ Goto(j, "send")
    /\ UNCHANGED <<worker, cancelled, closed, inflight, sendersGone, chanClosed, quit,
                   poolDone, shut, waits>>

\* The second look at closed; the deferred Done follows a rejection.
SubmitRecheck(j) ==
    /\ at[j] = "recheck"
    /\ Goto(j, IF closed THEN "rejected" ELSE "send")
    /\ inflight' = IF closed THEN inflight \ {j} ELSE inflight
    /\ UNCHANGED <<worker, cancelled, closed, sendersGone, chanClosed, quit, poolDone,
                   shut, waits>>

\* The select: the channel has room.
SubmitSend(j) ==
    /\ at[j] = "send" /\ ~chanClosed
    /\ Cardinality(Queued) < QueueCap
    /\ Goto(j, "queued")
    /\ inflight' = inflight \ {j}
    /\ UNCHANGED <<worker, cancelled, closed, sendersGone, chanClosed, quit, poolDone,
                   shut, waits>>

\* Mutant of SubmitGiveUp: the select does not listen to quit.
SubmitWaits(j) ==
    /\ at[j] = "send"
    /\ poolDone
    /\ Goto(j, "rejected")
    /\ inflight' = inflight \ {j}
    /\ UNCHANGED <<worker, cancelled, closed, sendersGone, chanClosed, quit, poolDone,
                   shut, waits>>

\* The select: quit is closed or poolCtx is done.
SubmitGiveUp(j) ==
    /\ at[j] = "send"
    /\ quit \/ poolDone
    /\ Goto(j, "rejected")
    /\ inflight' = inflight \ {j}
    /\ UNCHANGED <<worker, cancelled, closed, sendersGone, chanClosed, quit, poolDone,
                   shut, waits>>

-----------------------------------------------------------------------------
(* runWorker and execute. *)

WorkerTake(w, j) ==
    /\ worker[w] = Idle /\ at[j] = "queued"
    /\ worker' = [worker EXCEPT ![w] = j]
    /\ Goto(j, "taken")
    /\ UNCHANGED <<cancelled, closed, inflight, sendersGone, chanClosed, quit, poolDone,
                   shut, waits>>

\* registerCancel, then the node runs.
WorkerRegister(w) ==
    /\ worker[w] \in Jobs /\ at[worker[w]] = "taken"
    /\ Goto(worker[w], "running")
    /\ UNCHANGED <<worker, cancelled, closed, inflight, sendersGone, chanClosed, quit,
                   poolDone, shut, waits>>

\* The node returns, fails or panics; OnDone is called in every case.
WorkerFinish(w) ==
    /\ worker[w] \in Jobs /\ at[worker[w]] = "running"
    /\ Goto(worker[w], "done")
    /\ worker' = [worker EXCEPT ![w] = Idle]
    /\ UNCHANGED <<cancelled, closed, inflight, sendersGone, chanClosed, quit, poolDone,
                   shut, waits>>

\* Mutant of WorkerExit: a closed channel is left before it is drained.
WorkerExitEarly(w) ==
    /\ worker[w] = Idle
    /\ quit \/ chanClosed
    /\ worker' = [worker EXCEPT ![w] = Gone]
    /\ UNCHANGED <<at, cancelled, closed, inflight, sendersGone, chanClosed, quit,
                   poolDone, shut, waits>>

\* The select sees quit, or the channel is closed and drained.
WorkerExit(w) ==
    /\ worker[w] = Idle
    /\ quit \/ (chanClosed /\ Queued = {})
    /\ worker' = [worker EXCEPT ![w] = Gone]
    /\ UNCHANGED <<at, cancelled, closed, inflight, sendersGone, chanClosed, quit,
                   poolDone, shut, waits>>

-----------------------------------------------------------------------------
(* Shutdown. *)

\* SIGTERM cancels the parent of poolCtx.
Sigterm ==
    /\ ~poolDone
    /\ poolDone' = TRUE
    /\ UNCHANGED <<at, worker, cancelled, closed, inflight, sendersGone, chanClosed,
                   quit, shut, waits>>

ShutdownBegin ==
    /\ ~closed
    /\ closed' = TRUE
    /\ shut' = "senders"
    /\ UNCHANGED <<at, worker, cancelled, inflight, sendersGone, chanClosed, quit,
                   poolDone, waits>>

\* The goroutine in inflight.Wait: it returns once and for all.
SendersLeave ==
    /\ closed /\ ~sendersGone /\ inflight = {}
    /\ sendersGone' = TRUE
    /\ UNCHANGED <<at, worker, cancelled, closed, inflight, chanClosed, quit, poolDone,
                   shut, waits>>

\* Mutant of SendersTimeout: blocked senders are not woken up.
SendersIgnored ==
    /\ shut = "senders"
    /\ shut' = "forced"
    /\ waits' = waits + 1
    /\ UNCHANGED <<at, worker, cancelled, closed, inflight, sendersGone, chanClosed, quit,
                   poolDone>>

SendersTimeout ==
    /\ shut = "senders"
    /\ quit' = TRUE
    /\ shut' = "forced"
    /\ waits' = waits + 1
    /\ UNCHANGED <<at, worker, cancelled, closed, inflight, sendersGone, chanClosed,
                   poolDone>>

CloseJobs ==
    /\ shut \in {"senders", "forced"} /\ sendersGone
    /\ chanClosed' = TRUE
    /\ shut' = "drain"
    /\ UNCHANGED <<at, worker, cancelled, closed, inflight, sendersGone, quit,
                   poolDone, waits>>

\* p.wg.Wait has returned: Shutdown releases poolCtx and returns.
Drained ==
    /\ shut \in {"drain", "last"}
    /\ \A w \in Workers : worker[w] = Gone
    /\ poolDone' = TRUE
    /\ shut' = "returned"
    /\ UNCHANGED <<at, worker, cancelled, closed, inflight, sendersGone, chanClosed,
                   quit, waits>>

DrainTimeout ==
    /\ shut = "drain"
    /\ quit' = TRUE /\ poolDone' = TRUE
    /\ shut' = "cancel"
    /\ waits' = waits + 1
    /\ UNCHANGED <<at, worker, cancelled, closed, inflight, sendersGone, chanClosed>>

\* cancelRunning: the contexts of the registered executions.
CancelRunning ==
    /\ shut = "cancel"
    /\ cancelled' = cancelled \cup {j \in Jobs : at[j] = "running"}
    /\ shut' = "last"
    /\ UNCHANGED <<at, worker, closed, inflight, sendersGone, chanClosed, quit,
                   poolDone, waits>>

LastTimeout ==
    /\ shut = "last"
    /\ shut' = "returned"
    /\ waits' = waits + 1
    /\ UNCHANGED <<at, worker, cancelled, closed, inflight, sendersGone, chanClosed,
                   quit,
                   poolDone>>

SubmitStep(j) ==
    \/ SubmitCheck(j) \/ SubmitAdd(j) \/ SubmitRecheck(j) \/ SubmitSend(j)
    \/ SubmitGiveUp(j)

WorkerStep(w) ==
    \/ \E j \in Jobs : WorkerTake(w, j)
    \/ WorkerRegister(w) \/ WorkerFinish(w) \/ WorkerExit(w)

ShutdownStep ==
    \/ SendersLeave \/ SendersTimeout \/ CloseJobs \/ Drained \/ DrainTimeout
    \/ CancelRunning \/ LastTimeout

Next ==
    \/ \E j \in Jobs : SubmitStep(j)
    \/ \E w \in Workers : WorkerStep(w)
    \/ Sigterm
    \/ ShutdownBegin
    \/ ShutdownStep

Spec == Init /\ [][Next]_vars

\* Goroutines that can go on do, and timers fire.  Nothing is assumed of the
\* workers: a node may ignore its context and never return.
FairSpec ==
    /\ Spec
    /\ \A j \in Jobs : WF_vars(SubmitStep(j))
    /\ WF_vars(ShutdownStep)

\* Every node returns, so that workers always go on.
NodesReturn == \A w \in Workers : WF_vars(WorkerStep(w))

-----------------------------------------------------------------------------
\* No Submit call is left in its select when the channel is closed, where Go
\* would panic (pool.go:286, "ensure close(jobs) is safe").
NoSendOnClosed == chanClosed => \A j \in Jobs : at[j] # "send"

\* A Shutdown that was not forced has executed every job that Submit accepted
\* (pool.go:274, workers exit after the remaining jobs).
GracefulDrain ==
    shut = "returned" /\ ~quit =>
        \A j \in Jobs : at[j] \notin {"queued", "taken", "running"}

\* A job belongs to exactly one worker while it is executed, and no worker leaves
\* with a job.
OneWorkerPerJob ==
    \A j \in Jobs : at[j] \in {"taken", "running"} <=>
        \E w \in Workers : worker[w] = j /\ \A v \in Workers : worker[v] = j => v = w

\* Nobody is blocked for good: Shutdown returns whatever the nodes do and however many senders
\* are blocked on a full channel (pool.go:277), and as long as nodes return, so does Submit.
NobodyHangs ==
    /\ shut = "senders" ~> shut = "returned"
    /\ NodesReturn => \A j \in Jobs : at[j] = "send" ~> at[j] # "send"

\* After the forced cancellation no node runs on with a live context
\* (pool.go:313, "cancel the ctx of every node in flight").
ForcedCancelReachesAll ==
    shut = "last" => \A j \in Jobs : at[j] = "running" => j \in cancelled

\* Shutdown waits for at most one timeout (the contract at pool.go:323).
WaitsOneTimeout == waits <= 1
=============================================================================
