---------------------------- MODULE InMemoryQueue ----------------------------
(***************************************************************************)
(* The queue main falls back to without Redis (InMemoryQueue of            *)
(* internal/queue/queue.go) between the requests that fill it and the      *)
(* consumers of the scheduler (internal/scheduler/scheduler.go).           *)
(* main never closes it, and it is lost with the process.                  *)
(***************************************************************************)
EXTENDS Integers, Sequences, FiniteSets, SequencesExt

CONSTANTS
    Jobs,      \* jobs, each enqueued once
    Consumers, \* goroutines of consumeLoop
    Size,      \* capacity of the channel
    MaxHanded  \* bound: how often a job is handed back

ASSUME MemoryAssumption ==
    /\ Size \in Nat \ {0} /\ MaxHanded \in Nat
    /\ Consumers \cap {"absent", "waiting", "parked", "settled"} = {}

VARIABLES
    ch,        \* ch
    inflight,  \* the jobs of the map inflight; every delivery has an id of its own
    timers,    \* jobs of the AfterFuncs that have not sent yet
    producer,  \* producer[j]: the call of Enqueue
    consumer,  \* consumer[c]: the job in hand and what becomes of it
    handed,    \* handed[j]: times j was handed back
    settled    \* acknowledged or dropped

memoryVars == <<ch, inflight, timers, producer, consumer, handed, settled>>

NoJob == [pc |-> "idle"]
Hand  == [pc : {"taken", "run", "ack", "drop", "retry", "park"}, job : Jobs]

MemoryTypeOK ==
    /\ ch \in Seq(Jobs) /\ Len(ch) <= Size
    /\ inflight \subseteq Jobs /\ timers \subseteq Jobs /\ settled \subseteq Jobs
    /\ producer \in [Jobs -> {"new", "sent", "refused"}]
    /\ consumer \in [Consumers -> Hand \cup {NoJob}]
    /\ handed \in [Jobs -> 0..MaxHanded]

MemoryInit ==
    /\ ch = <<>> /\ inflight = {} /\ timers = {} /\ settled = {}
    /\ producer = [j \in Jobs |-> "new"]
    /\ consumer = [c \in Consumers |-> NoJob]
    /\ handed = [j \in Jobs |-> 0]

HasRoom == Len(ch) < Size
Free(c) == consumer[c] = NoJob

-----------------------------------------------------------------------------
(* Enqueue: the request waits for room as long as its context lives.       *)

EnqueueJob(j) ==
    /\ producer[j] = "new" /\ HasRoom
    /\ ch' = Append(ch, j)
    /\ producer' = [producer EXCEPT ![j] = "sent"]
    /\ UNCHANGED <<inflight, timers, consumer, handed, settled>>

EnqueueJobGivesUp(j) ==
    /\ producer[j] = "new"
    /\ producer' = [producer EXCEPT ![j] = "refused"]
    /\ UNCHANGED <<ch, inflight, timers, consumer, handed, settled>>

-----------------------------------------------------------------------------
(* Dequeue: the channel first, then, under mu, the map.                    *)

DequeueJob(c) ==
    /\ Free(c) /\ ch # <<>>
    /\ ch' = Tail(ch)
    /\ consumer' = [consumer EXCEPT ![c] = [pc |-> "taken", job |-> Head(ch)]]
    /\ UNCHANGED <<inflight, timers, producer, handed, settled>>

TrackJob(c) ==
    /\ consumer[c].pc = "taken"
    /\ inflight' = inflight \cup {consumer[c].job}
    /\ consumer' = [consumer EXCEPT ![c].pc = "run"]
    /\ UNCHANGED <<ch, timers, producer, handed, settled>>

\* What the execution comes to: the message is acknowledged, dropped as failed, handed back (a busy
\* lock, an error of the engine, a timeout), or left alone while a human decides.
ExecuteJob(c) ==
    /\ consumer[c].pc = "run"
    /\ \E pc \in {"ack", "drop", "retry", "park"} :
         /\ pc = "retry" => handed[consumer[c].job] < MaxHanded
         /\ consumer' = [consumer EXCEPT ![c].pc = pc]
    /\ UNCHANGED <<ch, inflight, timers, producer, handed, settled>>

\* Ack, and nack with no retry left.
SettleJob(c) ==
    /\ consumer[c].pc \in {"ack", "drop"}
    /\ inflight' = inflight \ {consumer[c].job}
    /\ settled' = settled \cup {consumer[c].job}
    /\ consumer' = [consumer EXCEPT ![c] = NoJob]
    /\ UNCHANGED <<ch, timers, producer, handed>>

\* Mutant of HandBack: the consumer sends the job itself.
HandBackSends(c) ==
    /\ consumer[c].pc = "retry" /\ HasRoom
    /\ inflight' = inflight \ {consumer[c].job}
    /\ ch' = Append(ch, consumer[c].job)
    /\ handed' = [handed EXCEPT ![consumer[c].job] = @ + 1]
    /\ consumer' = [consumer EXCEPT ![c] = NoJob]
    /\ UNCHANGED <<timers, producer, settled>>

\* nack and NackAfter: a timer takes the job, whatever becomes of the caller's context.
HandBack(c) ==
    /\ consumer[c].pc = "retry"
    /\ inflight' = inflight \ {consumer[c].job}
    /\ timers' = timers \cup {consumer[c].job}
    /\ handed' = [handed EXCEPT ![consumer[c].job] = @ + 1]
    /\ consumer' = [consumer EXCEPT ![c] = NoJob]
    /\ UNCHANGED <<ch, producer, settled>>

\* A task that waits for an approval keeps its entry.
ParkJob(c) ==
    /\ consumer[c].pc = "park"
    /\ consumer' = [consumer EXCEPT ![c] = NoJob]
    /\ UNCHANGED <<ch, inflight, timers, producer, handed, settled>>

\* The delay is over, and the channel has room.
Resend(j) ==
    /\ j \in timers /\ HasRoom
    /\ timers' = timers \ {j}
    /\ ch' = Append(ch, j)
    /\ UNCHANGED <<inflight, producer, consumer, handed, settled>>

ConsumerStep(c) == DequeueJob(c) \/ TrackJob(c) \/ ExecuteJob(c) \/ SettleJob(c) \/ HandBack(c) \/ ParkJob(c)

MemoryNext ==
    \/ \E j \in Jobs : EnqueueJob(j) \/ EnqueueJobGivesUp(j) \/ Resend(j)
    \/ \E c \in Consumers : ConsumerStep(c)

\* Consumers go on, executions end with the timeout of the task, timers fire.
MemoryFairness ==
    /\ \A c \in Consumers : WF_memoryVars(ConsumerStep(c))
    /\ \A j \in Jobs : WF_memoryVars(Resend(j))

MemorySpec == MemoryInit /\ [][MemoryNext]_memoryVars

-----------------------------------------------------------------------------
(* Properties. *)

Holders(j)  == {c \in Consumers : consumer[c] \in Hand /\ consumer[c].job = j}
Waiting     == Range(ch) \cup timers
IsParked(j) == j \in inflight /\ Holders(j) = {}

\* A job that was accepted is settled in the end or waits for a human: consumers that hand jobs back
\* and requests that wait for room never block each other for good (queue.go:733-772). None of the three is ever taken back, so it is
\* said of all jobs at once.
JobsSettle == <>[]\A j \in Jobs : producer[j] = "sent" => j \in settled \/ IsParked(j)

\* Where a job is, for the promise of the queue.
Where ==
    [j \in Jobs |->
        IF j \in settled THEN "settled"
        ELSE IF j \in Waiting THEN "waiting"
        ELSE IF Holders(j) # {} THEN CHOOSE c \in Holders(j) : TRUE
        ELSE IF j \in inflight THEN "parked"
        ELSE "absent"]

Promise == INSTANCE JobQueue WITH where <- Where

\* The queue keeps the promise of JobQueue.
KeepsPromise == Promise!JobQueueSpec
=============================================================================
