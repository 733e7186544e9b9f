-------------------------- MODULE RedisStreamQueue --------------------------
(***************************************************************************)
(* The task queue of internal/queue/queue.go on a Redis stream: a stream   *)
(* with one consumer group, the pending entries list (PEL) of that group,  *)
(* a ZSET of delayed retries and a dead letter stream.                     *)
(*                                                                         *)
(* Every Redis command is one step; the Go code between two commands of    *)
(* the same goroutine is not atomic, so any other client may act there,    *)
(* and the process may die there.  A stream id is the position of the      *)
(* entry in the history of all XADDs.  Whether a retry is due, and whether *)
(* a pending entry has been idle long enough, is left to nondeterminism.   *)
(***************************************************************************)
EXTENDS Naturals, Sequences, FiniteSets

CONSTANTS
    Tasks,        \* task ids issued by the database
    Producers,    \* goroutines that submit tasks (API handlers)
    Consumers,    \* goroutines that dequeue (and recover at start-up)
    Maintainers,  \* goroutines that reclaim the acknowledged prefix
    DueStamps,    \* millisecond stamps a retry may be scheduled for
    MaxLen,       \* MAXLEN of the stream
    AdmitLimit,   \* admission threshold, 0 when admission is off
    LongIdle,     \* recoverMinIdle exceeds the longest execution
    Faults,       \* the failures this instance admits
    MaxAttempt,   \* bound: re-deliveries of one job
    MaxAdds       \* bound: XADDs to the main stream

ASSUME QueueAssumption ==
    /\ Tasks # {} /\ DueStamps # {}
    /\ MaxLen \in Nat \ {0}
    /\ AdmitLimit \in Nat
    /\ MaxAttempt \in Nat
    /\ MaxAdds \in Nat
    /\ LongIdle \in BOOLEAN
    /\ Faults \subseteq {"crash", "XLEN", "XADD", "ZREM", "ZADD", "XPENDING"}
    /\ Producers \cap Consumers = {}
    /\ Producers \cap Maintainers = {}
    /\ Consumers \cap Maintainers = {}

VARIABLES
    log,            \* history: the job of every XADD to the stream, by id
    present,        \* ids whose entry the stream still stores
    lastDelivered,  \* last-delivered-id of the consumer group
    pel,            \* ids delivered and not acknowledged
    retry,          \* members of the retry ZSET
    dlq,            \* jobs recorded in the dead letter stream
    dlqMissing,     \* message ids recorded there without a payload
    pc,             \* next command of every client
    msg,            \* message id a consumer works on
    hand,           \* retry member a consumer took out of, or puts into, the ZSET
    due,            \* ZRANGE snapshot still to be promoted
    claimed,        \* XAUTOCLAIM reply still to be re-queued
    submit,         \* job a producer is submitting
    mark,           \* id a maintainer computed so far
    offered,        \* tasks for which Enqueue was called
    accepted,       \* tasks for which Enqueue returned nil
    settled,        \* tasks acknowledged after execution
    cut,            \* tasks with an unfinished entry cut off by MAXLEN
    dropped         \* tasks whose promotion ended between ZREM and XADD

streamVars == <<log, present, cut>>
groupVars  == <<lastDelivered, pel>>
storeVars  == <<retry, dlq, dlqMissing>>
localVars  == <<msg, hand, due, claimed, submit, mark>>
ghostVars  == <<offered, accepted, settled, dropped>>
vars == <<streamVars, groupVars, storeVars, pc, localVars, ghostVars>>

Job     == [task : Tasks, attempt : 0..MaxAttempt]
Member  == [job : Job, due : DueStamps]
Clients == Producers \cup Consumers \cup Maintainers
Ids     == 1..Len(log)
NoId    == 0

\* Idle values of the local variables.
NoTask   == CHOOSE t \in Tasks : TRUE
NoMember == [job |-> [task |-> NoTask, attempt |-> 0],
             due |-> CHOOSE d \in DueStamps : TRUE]

ProducerPC   == {"idle", "add"}
ConsumerPC   == {"idle", "zrem", "repost", "unpost", "promoted", "run",
                 "zadd", "bury", "missing", "ack", "reclaim", "reack"}
MaintainerPC == {"idle", "pending", "trim"}

\* An entry whose work is not finished: not delivered yet, or in the PEL.
Unfinished(i) == i > lastDelivered \/ i \in pel

TypeOK ==
    /\ log \in Seq(Job)
    /\ present \subseteq Ids
    /\ lastDelivered \in 0..Len(log)
    /\ pel \subseteq 1..lastDelivered
    /\ retry \subseteq Member
    /\ dlq \subseteq Job
    /\ dlqMissing \subseteq Nat
    /\ pc \in [Clients -> ProducerPC \cup ConsumerPC \cup MaintainerPC]
    /\ msg \in [Consumers -> Nat]
    /\ hand \in [Consumers -> Member]
    /\ due \in [Consumers -> SUBSET Member]
    /\ claimed \in [Consumers -> SUBSET Nat]
    /\ submit \in [Producers -> Tasks]
    /\ mark \in [Maintainers -> Nat]
    /\ offered \subseteq Tasks
    /\ accepted \subseteq Tasks
    /\ settled \subseteq Tasks
    /\ cut \subseteq Tasks
    /\ dropped \subseteq Tasks

Init ==
    /\ log = << >> /\ present = {} /\ lastDelivered = 0 /\ pel = {}
    /\ retry = {} /\ dlq = {} /\ dlqMissing = {}
    /\ pc = [c \in Clients |-> "idle"]
    /\ msg = [c \in Consumers |-> NoId]
    /\ hand = [c \in Consumers |-> NoMember]
    /\ due = [c \in Consumers |-> {}]
    /\ claimed = [c \in Consumers |-> {}]
    /\ submit = [p \in Producers |-> NoTask]
    /\ mark = [m \in Maintainers |-> 0]
    /\ offered = {} /\ accepted = {} /\ settled = {}
    /\ cut = {} /\ dropped = {}

Goto(c, label) == pc' = [pc EXCEPT ![c] = label]

\* The operation is over: the goroutine's locals go out of scope.
Forget(c) ==
    /\ msg' = [msg EXCEPT ![c] = NoId]
    /\ hand' = [hand EXCEPT ![c] = NoMember]

Return(p) ==
    /\ submit' = [submit EXCEPT ![p] = NoTask]
    /\ Goto(p, "idle")

-----------------------------------------------------------------------------
(* Redis commands shared by the operations. *)

\* Bound: an operation that will XADD starts only while the history has room.
Adders == {c \in Producers : pc[c] = "add"}
            \cup {c \in Consumers : pc[c] \in {"repost", "unpost"}}
Committed ==
    Len(log) + Cardinality(Adders)
      + Cardinality({x \in Consumers \X Ids :
                        pc[x[1]] \in {"reclaim", "reack"} /\ x[2] \in claimed[x[1]]})
Room(n) == Committed + n <= MaxAdds

\* xadd: append, then MAXLEN ~ cuts off some of the oldest entries, never
\* below MaxLen of them.
XAdd(job) ==
    LET id  == Len(log) + 1
        all == present \cup {id}
    IN  \E low \in {1} \cup all :
          /\ log' = Append(log, job)
          /\ present' = {i \in all : i >= low}
          /\ low # 1 => Cardinality(present') >= MaxLen
          /\ cut' = cut \cup {log[i].task : i \in {k \in present \ present' :
                                                     Unfinished(k)}}

-----------------------------------------------------------------------------
(* Enqueue: an admission check on XLEN, then XADD. *)

\* Mutant of Admit: the check lets the entry at the limit through.
AdmitAtLimit(p, t) ==
    /\ pc[p] = "idle"
    /\ t \notin offered
    /\ Room(1)
    /\ offered' = offered \cup {t}
    /\ Cardinality(present) <= AdmitLimit
    /\ submit' = [submit EXCEPT ![p] = t]
    /\ Goto(p, "add")
    /\ UNCHANGED <<streamVars, groupVars, storeVars, msg, hand, due,
                   claimed, mark, accepted, settled, dropped>>

Admit(p, t) ==
    /\ pc[p] = "idle"
    /\ t \notin offered
    /\ Room(1)
    /\ offered' = offered \cup {t}
    /\ \/ /\ \/ AdmitLimit = 0
             \/ Cardinality(present) < AdmitLimit
             \/ "XLEN" \in Faults            \* an XLEN error admits
          /\ submit' = [submit EXCEPT ![p] = t]
          /\ Goto(p, "add")
       \/ /\ AdmitLimit # 0                  \* ErrQueueFull
          /\ Cardinality(present) >= AdmitLimit
          /\ UNCHANGED <<submit, pc>>
    /\ UNCHANGED <<streamVars, groupVars, storeVars, msg, hand, due,
                   claimed, mark, accepted, settled, dropped>>

EnqueueAdd(p) ==
    /\ pc[p] = "add"
    /\ XAdd([task |-> submit[p], attempt |-> 0])
    /\ accepted' = accepted \cup {submit[p]}
    /\ Return(p)
    /\ UNCHANGED <<groupVars, storeVars, msg, hand, due, claimed, mark, offered,
                   settled, dropped>>

\* The XADD fails, or its reply is lost after it took effect.
EnqueueFail(p) ==
    /\ "XADD" \in Faults
    /\ pc[p] = "add"
    /\ \/ XAdd([task |-> submit[p], attempt |-> 0])
       \/ UNCHANGED streamVars
    /\ Return(p)
    /\ UNCHANGED <<groupVars, storeVars, msg, hand, due, claimed, mark, ghostVars>>

-----------------------------------------------------------------------------
(* promoteDueRetries, the first part of Dequeue and of Recover. *)

\* ZRANGE of the members that are due.  An empty reply, or an error, changes
\* nothing: the caller goes straight to XREADGROUP or XAUTOCLAIM.
BeginPromote(c, snapshot) ==
    /\ pc[c] = "idle"
    /\ snapshot # {} /\ snapshot \subseteq retry
    /\ due' = [due EXCEPT ![c] = snapshot]
    /\ Goto(c, "zrem")
    /\ UNCHANGED <<streamVars, groupVars, storeVars, ghostVars, msg, hand,
                   claimed, submit, mark>>

\* What remains of the snapshot decides whether the promotion goes on.
PromoteOn(c, rest) ==
    /\ due' = [due EXCEPT ![c] = rest]
    /\ Goto(c, IF rest = {} THEN "promoted" ELSE "zrem")

\* ZREM: whoever removes the member re-posts it; nothing removed, next one.
ZRem(c, m) ==
    /\ pc[c] = "zrem"
    /\ m \in due[c]
    /\ \/ /\ m \in retry
          /\ Room(1)
          /\ retry' = retry \ {m}
          /\ hand' = [hand EXCEPT ![c] = m]
          /\ due' = [due EXCEPT ![c] = @ \ {m}]
          /\ Goto(c, "repost")
       \/ /\ m \notin retry
          /\ PromoteOn(c, due[c] \ {m})
          /\ UNCHANGED <<retry, hand>>
    /\ UNCHANGED <<streamVars, groupVars, dlq, dlqMissing, ghostVars, msg,
                   claimed, submit, mark>>

\* An error of ZREM is taken for a member that is gone already; if only the reply
\* is lost, nobody re-posts it.
ZRemFail(c, m) ==
    /\ "ZREM" \in Faults
    /\ pc[c] = "zrem"
    /\ m \in due[c]
    /\ \/ /\ m \in retry
          /\ retry' = retry \ {m}
          /\ dropped' = dropped \cup {m.job.task}
       \/ UNCHANGED <<retry, dropped>>
    /\ PromoteOn(c, due[c] \ {m})
    /\ UNCHANGED <<streamVars, groupVars, dlq, dlqMissing, msg, hand, claimed, submit,
                   mark, offered, accepted, settled>>

RePost(c) ==
    /\ pc[c] = "repost"
    /\ XAdd(hand[c].job)
    /\ PromoteOn(c, due[c])
    /\ Forget(c)
    /\ UNCHANGED <<groupVars, storeVars, ghostVars, claimed, submit, mark>>

\* The XADD fails, or its reply is lost: the member goes back to the ZSET.
RePostFail(c) ==
    /\ "XADD" \in Faults
    /\ pc[c] = "repost"
    /\ \/ XAdd(hand[c].job)
       \/ UNCHANGED streamVars
    /\ Goto(c, "unpost")
    /\ UNCHANGED <<groupVars, storeVars, localVars, ghostVars>>

\* ZADD back, its error ignored; promoteDueRetries returns the XADD error,
\* which its callers ignore too.
UnPost(c) ==
    /\ pc[c] = "unpost"
    /\ \/ retry' = retry \cup {hand[c]}
       \/ "ZADD" \in Faults /\ UNCHANGED retry
    /\ due' = [due EXCEPT ![c] = {}]
    /\ Goto(c, "promoted")
    /\ Forget(c)
    /\ UNCHANGED <<streamVars, groupVars, dlq, dlqMissing, ghostVars, claimed, submit,
                   mark>>

-----------------------------------------------------------------------------
(* Dequeue, and what the scheduler does with the message. *)

\* XREADGROUP ">" of one entry; nothing to read ends with ErrNoMessage.
XReadGroup(c) ==
    /\ pc[c] \in {"idle", "promoted"}
    /\ \/ /\ \A i \in present : i <= lastDelivered
          /\ Goto(c, "idle")
          /\ UNCHANGED <<groupVars, msg>>
       \/ \E i \in present :
            /\ i > lastDelivered
            /\ \A k \in present : k < i => k <= lastDelivered
            /\ lastDelivered' = i
            /\ pel' = pel \cup {i}
            /\ msg' = [msg EXCEPT ![c] = i]
            /\ Goto(c, "run")
    /\ UNCHANGED <<streamVars, storeVars, ghostVars, hand, due, claimed,
                   submit, mark>>

\* Ack after the work is done.
Ack(c) ==
    /\ pc[c] = "run"
    /\ pel' = pel \ {msg[c]}
    /\ settled' = settled \cup {log[msg[c]].task}
    /\ Goto(c, "idle")
    /\ Forget(c)
    /\ UNCHANGED <<streamVars, lastDelivered, storeVars, due, claimed,
                   submit, mark, offered, accepted, dropped>>

\* nack reads the payload with XRANGE and picks its branch.  A re-delivery
\* with the queue's own back-off advances Attempt, one with the caller's
\* delay (waiting for a lock) does not.
NackRead(c) ==
    /\ pc[c] = "run"
    /\ \/ /\ msg[c] \notin present
          /\ Goto(c, "missing")
          /\ UNCHANGED hand
       \/ /\ msg[c] \in present            \* retryLeft > 0
          /\ \E d \in DueStamps, waiting \in BOOLEAN :
               LET job == log[msg[c]]
                   n   == IF waiting THEN job.attempt ELSE job.attempt + 1
               IN  /\ n <= MaxAttempt
                   /\ hand' = [hand EXCEPT ![c] =
                                 [job |-> [job EXCEPT !.attempt = n], due |-> d]]
          /\ Goto(c, "zadd")
       \/ /\ msg[c] \in present            \* retryLeft <= 0
          /\ \E d \in DueStamps :
               hand' = [hand EXCEPT ![c] = [job |-> log[msg[c]], due |-> d]]
          /\ Goto(c, "bury")
    /\ UNCHANGED <<streamVars, groupVars, storeVars, ghostVars, msg, due,
                   claimed, submit, mark>>

\* Mutant of NackZAdd: the message is acknowledged although ZADD failed.
NackAckAnyway(c) ==
    /\ pc[c] = "zadd"
    /\ Goto(c, "ack")
    /\ UNCHANGED <<streamVars, groupVars, storeVars, localVars, ghostVars>>

\* The retry is scheduled before the message is acknowledged.
NackZAdd(c) ==
    /\ pc[c] = "zadd"
    /\ retry' = retry \cup {hand[c]}
    /\ Goto(c, "ack")
    /\ UNCHANGED <<streamVars, groupVars, dlq, dlqMissing, localVars, ghostVars>>

\* The dead letter is written before the message is acknowledged.
NackBury(c) ==
    /\ pc[c] = "bury"
    /\ dlq' = dlq \cup {hand[c].job}
    /\ Goto(c, "ack")
    /\ UNCHANGED <<streamVars, groupVars, retry, dlqMissing, localVars, ghostVars>>

\* No payload to re-queue: the id goes to the dead letter stream.
NackMissing(c) ==
    /\ pc[c] = "missing"
    /\ dlqMissing' = dlqMissing \cup {msg[c]}
    /\ Goto(c, "ack")
    /\ UNCHANGED <<streamVars, groupVars, retry, dlq, localVars, ghostVars>>

NackAck(c) ==
    /\ pc[c] = "ack"
    /\ pel' = pel \ {msg[c]}
    /\ Goto(c, "idle")
    /\ Forget(c)
    /\ UNCHANGED <<streamVars, lastDelivered, storeVars, due, claimed,
                   submit, mark, ghostVars>>

-----------------------------------------------------------------------------
(* Recover: XAUTOCLAIM, then XADD the copy and XACK the original. *)

\* Messages a live consumer is working on.
InUse ==
    {msg[c] : c \in {d \in Consumers :
                pc[d] \in {"run", "zadd", "bury", "missing", "ack", "reack"}}}
      \cup UNION {claimed[c] : c \in {d \in Consumers :
                                        pc[d] \in {"reclaim", "reack"}}}

\* Mutant of Claimable: messages are claimed whatever their idle time.
ClaimableAtOnce == pel

\* Entries idle for recoverMinIdle.
Claimable == IF LongIdle THEN pel \ InUse ELSE pel

\* XAUTOCLAIM forgets pending ids whose entry is gone and returns the others.
XAutoClaim(c) ==
    /\ pc[c] \in {"idle", "promoted"}
    /\ Room(Cardinality(Claimable \cap present))
    /\ pel' = pel \ (Claimable \ present)
    /\ claimed' = [claimed EXCEPT ![c] = Claimable \cap present]
    /\ Goto(c, IF Claimable \cap present = {} THEN "idle" ELSE "reclaim")
    /\ UNCHANGED <<streamVars, lastDelivered, storeVars, ghostVars, msg, hand,
                   due, submit, mark>>

ReQueue(c) ==
    /\ pc[c] = "reclaim"
    /\ \E i \in claimed[c] :
         /\ \A k \in claimed[c] : i <= k
         /\ XAdd(log[i])
         /\ msg' = [msg EXCEPT ![c] = i]
         /\ claimed' = [claimed EXCEPT ![c] = @ \ {i}]
    /\ Goto(c, "reack")
    /\ UNCHANGED <<groupVars, storeVars, ghostVars, hand, due, submit,
                   mark>>

ReAck(c) ==
    /\ pc[c] = "reack"
    /\ pel' = pel \ {msg[c]}
    /\ Forget(c)
    /\ Goto(c, IF claimed[c] = {} THEN "idle" ELSE "reclaim")
    /\ UNCHANGED <<streamVars, lastDelivered, storeVars, due, claimed,
                   submit, mark, ghostVars>>

-----------------------------------------------------------------------------
(* TrimConsumed: XINFO GROUPS, XPENDING, XTRIM MINID. *)

TrimInfo(m) ==
    /\ pc[m] = "idle"
    /\ lastDelivered # 0
    /\ mark' = [mark EXCEPT ![m] = lastDelivered]
    /\ Goto(m, "pending")
    /\ UNCHANGED <<streamVars, groupVars, storeVars, ghostVars, msg, hand,
                   due, claimed, submit>>

\* Mutant of TrimPending: the position ignores what is pending.
TrimDelivered(m) ==
    /\ pc[m] = "pending"
    /\ mark' = [mark EXCEPT ![m] = @ + 1]
    /\ Goto(m, "trim")
    /\ UNCHANGED <<streamVars, groupVars, storeVars, ghostVars, msg, hand,
                   due, claimed, submit>>

\* The oldest pending id, or the id after last-delivered when nothing is
\* pending; an XPENDING error is treated as "nothing is pending".
TrimPending(m) ==
    /\ pc[m] = "pending"
    /\ \/ \E low \in pel :
            /\ \A i \in pel : low <= i
            /\ mark' = [mark EXCEPT ![m] = low]
       \/ /\ pel = {} \/ "XPENDING" \in Faults
          /\ mark' = [mark EXCEPT ![m] = @ + 1]
    /\ Goto(m, "trim")
    /\ UNCHANGED <<streamVars, groupVars, storeVars, ghostVars, msg, hand,
                   due, claimed, submit>>

XTrimMinID(m) ==
    /\ pc[m] = "trim"
    /\ present' = {i \in present : i >= mark[m]}
    /\ Goto(m, "idle")
    /\ mark' = [mark EXCEPT ![m] = 0]
    /\ UNCHANGED <<log, cut, groupVars, storeVars, ghostVars, msg, hand,
                   due, claimed, submit>>

-----------------------------------------------------------------------------
(* A process dies, or gives up on the error of a command whose effect may   *)
(* or may not have happened; what Redis holds stays.                       *)

\* A retry member between its ZREM and its XADD exists nowhere else.
ConsumerCrash(c) ==
    /\ "crash" \in Faults
    /\ pc[c] # "idle"
    /\ dropped' = IF pc[c] \in {"repost", "unpost"}
                  THEN dropped \cup {hand[c].job.task} ELSE dropped
    /\ Goto(c, "idle")
    /\ Forget(c)
    /\ due' = [due EXCEPT ![c] = {}]
    /\ claimed' = [claimed EXCEPT ![c] = {}]
    /\ UNCHANGED <<streamVars, groupVars, storeVars, submit, mark, offered,
                   accepted, settled>>

ProducerCrash(p) ==
    /\ "crash" \in Faults
    /\ pc[p] # "idle"
    /\ Return(p)
    /\ UNCHANGED <<streamVars, groupVars, storeVars, msg, hand, due, claimed, mark,
                   ghostVars>>

MaintainerCrash(m) ==
    /\ "crash" \in Faults
    /\ pc[m] # "idle"
    /\ Goto(m, "idle")
    /\ mark' = [mark EXCEPT ![m] = 0]
    /\ UNCHANGED <<streamVars, groupVars, storeVars, ghostVars, msg, hand,
                   due, claimed, submit>>

ProducerStep(p) ==
    \/ \E t \in Tasks : Admit(p, t)
    \/ EnqueueAdd(p)
    \/ EnqueueFail(p)
    \/ ProducerCrash(p)

PromoteStep(c) ==
    \/ \E s \in SUBSET retry : BeginPromote(c, s)
    \/ \E m \in due[c] : ZRem(c, m) \/ ZRemFail(c, m)
    \/ RePost(c)
    \/ RePostFail(c)
    \/ UnPost(c)

ConsumerStep(c) ==
    \/ PromoteStep(c)
    \/ XReadGroup(c) \/ Ack(c)
    \/ NackRead(c) \/ NackZAdd(c) \/ NackBury(c) \/ NackMissing(c) \/ NackAck(c)
    \/ XAutoClaim(c) \/ ReQueue(c) \/ ReAck(c)
    \/ ConsumerCrash(c)

MaintainerStep(m) == TrimInfo(m) \/ TrimPending(m) \/ XTrimMinID(m)
                       \/ MaintainerCrash(m)

Next ==
    \/ \E p \in Producers : ProducerStep(p)
    \/ \E c \in Consumers : ConsumerStep(c)
    \/ \E m \in Maintainers : MaintainerStep(m)

Spec == Init /\ [][Next]_vars

-----------------------------------------------------------------------------
(* Properties. *)

\* Messages whose job has already been stored somewhere else and that are
\* about to be acknowledged (nack after ZADD or DLQ XADD, Recover after XADD).
AckPending == {msg[c] : c \in {d \in Consumers : pc[d] \in {"ack", "reack"}}}

\* The job of task t exists in Redis, or in the hands of a promotion, without
\* counting on a message that is about to be acknowledged.
Kept(t) ==
    \/ \E i \in present \ AckPending : Unfinished(i) /\ log[i].task = t
    \/ \E m \in retry : m.job.task = t
    \/ \E j \in dlq : j.task = t
    \/ \E c \in Consumers : /\ pc[c] \in {"repost", "unpost"}
                            /\ hand[c].job.task = t

\* No task is lost silently: a task whose Enqueue succeeded is settled, or kept
\* in the stream, the retry ZSET or the dead letter stream, whatever clients
\* interleave, crash or retry. The only exceptions are an entry cut off by MAXLEN
\* (queue.go:235-240), and a promotion that ends between ZREM and XADD because its
\* process dies or the reply of ZREM is lost (queue.go:579). A promotion whose XADD
\* fails is none: the member is put back so that no message is lost (queue.go:587).
NoSilentLoss ==
    \A t \in accepted : t \in settled \cup cut \cup dropped \/ Kept(t)

\* TrimConsumed deletes only entries that were delivered and acknowledged
\* (queue.go:289-293): an unfinished entry can only leave the stream in a step
\* that adds another one, that is by MAXLEN.
TrimOnlyConsumed ==
    [][\A i \in present \ present' : Unfinished(i) => log' # log]_vars

\* A consumer that finds no payload for its message (the "task lost" branch of
\* nack) is always the victim of MAXLEN, never of TrimConsumed or of another
\* consumer, as long as recoverMinIdle exceeds the longest execution.
MissingMeansCut ==
    \A c \in Consumers :
        pc[c] = "missing" => log[msg[c]].task \in cut

\* No two live consumers work on the same message, as long as recoverMinIdle
\* exceeds the longest execution (queue.go:170-176).
OneConsumerPerMessage ==
    LET Working == {c \in Consumers : pc[c] \in {"run", "zadd", "bury", "missing",
                                                 "ack", "reack"}}
    IN  \A c, d \in Working : c # d => msg[c] # msg[d]

\* A consumer has its message to itself, and what it finds missing was cut off by
\* MAXLEN and by nobody else.
WorkIsUndisturbed == OneConsumerPerMessage /\ MissingMeansCut

\* Entries that are copies of an earlier one (retries and recovered messages),
\* which bypass the admission check.
Readded == {k \in Ids : \E i \in 1..(k - 1) : log[i].task = log[k].task}

\* Back-pressure: the check and the XADD are two commands, so producers racing
\* through the window overshoot AdmitLimit, but by less than their number; only
\* re-delivered work comes on top of that.
AdmissionBound ==
    Cardinality(present) <= AdmitLimit - 1 + Cardinality(Producers)
                              + Cardinality(Readded)

\* With head room of one entry per producer above AdmitLimit, MAXLEN never cuts
\* off unfinished work unless re-delivered work has filled the stream.
FreshWorkNeverCut ==
    cut # {} => Readded # {}

\* The window between XLEN and XADD costs neither more room than planned nor work
\* that was accepted.
BackPressure == AdmissionBound /\ FreshWorkNeverCut
=============================================================================
