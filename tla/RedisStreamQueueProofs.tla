----------------------- MODULE RedisStreamQueueProofs -----------------------
(***************************************************************************)
(* What the Redis queue guarantees for any number of tasks and clients:    *)
(* its type invariant, that TrimConsumed deletes only consumed entries,    *)
(* that no accepted task is lost silently, that a consumer has its message *)
(* to itself and that the admission check bounds the stream.               *)
(***************************************************************************)
EXTENDS RedisStreamQueue, FiniteSetTheorems, TLAPS

-----------------------------------------------------------------------------
(* The inductive invariant. *)

\* A consumer that works on a message works on one that was delivered, carries
\* the job of that message, and finds no payload only when there is none.
ConsumerInv ==
    \A c \in Consumers :
        /\ pc[c] \in {"run", "zadd", "bury", "missing", "ack", "reack"}
             => msg[c] \in 1..lastDelivered
        /\ pc[c] \in {"zadd", "bury"} => hand[c].job.task = log[msg[c]].task
        /\ pc[c] = "missing" => msg[c] \notin present
        /\ claimed[c] \subseteq 1..lastDelivered

\* The position a maintainer computed stays safe until it trims: everything
\* before it has been delivered and, unless XPENDING fails, is not pending.
MaintainerInv ==
    \A m \in Maintainers :
        /\ pc[m] = "pending" => mark[m] <= lastDelivered
        /\ pc[m] = "trim" => /\ mark[m] <= lastDelivered + 1
                             /\ "XPENDING" \notin Faults =>
                                  \A i \in pel : mark[m] <= i

IndInv == TypeOK /\ ConsumerInv /\ MaintainerInv

-----------------------------------------------------------------------------
(* Facts about the helpers. *)

\* The assumption without its part on the faults.
LEMMA Bounds ==
  /\ Tasks # {} /\ DueStamps # {} /\ MaxLen \in Nat \ {0}
  /\ AdmitLimit \in Nat /\ MaxAttempt \in Nat /\ MaxAdds \in Nat /\ LongIdle \in BOOLEAN
  /\ Producers \cap Consumers = {} /\ Producers \cap Maintainers = {}
  /\ Consumers \cap Maintainers = {}
BY QueueAssumption

\* The idle value of a consumer's hand is a member.
LEMMA NoMemberType == NoMember \in Member /\ NoTask \in Tasks
  BY QueueAssumption DEF NoMember, NoTask, Member, Job

\* xadd appends its job under a fresh id, keeps the entry it appends, and
\* records every unfinished entry that MAXLEN takes away.
LEMMA XAddEffect ==
  ASSUME TypeOK, NEW job \in Job, XAdd(job)
  PROVE  /\ log' \in Seq(Job)
         /\ Len(log') = Len(log) + 1
         /\ \A i \in 1..Len(log) : log'[i] = log[i]
         /\ log'[Len(log) + 1] = job
         /\ present' \subseteq present \cup {Len(log) + 1}
         /\ Len(log) + 1 \in present'
         /\ cut \subseteq cut'
         /\ cut' \subseteq Tasks
         /\ \A i \in present \ present' : Unfinished(i) => log[i].task \in cut'
<1>1. PICK low \in {1} \cup present \cup {Len(log) + 1} :
        /\ log' = Append(log, job)
        /\ present' = {i \in present \cup {Len(log) + 1} : i >= low}
        /\ cut' = cut \cup {log[i].task : i \in {k \in present \ present' :
                                                   Unfinished(k)}}
  BY DEF XAdd
<1>2. /\ log \in Seq(Job) /\ Len(log) \in Nat /\ present \subseteq 1..Len(log)
  BY DEF TypeOK, Ids
<1>3. low \in 1..(Len(log) + 1)
  BY <1>2
<1>4. /\ log' \in Seq(Job) /\ Len(log') = Len(log) + 1
      /\ \A i \in 1..Len(log) : log'[i] = log[i]
      /\ log'[Len(log) + 1] = job
  BY <1>1, <1>2
<1>5. \A i \in 1..Len(log) : log[i].task \in Tasks
  <2>1. \A i \in 1..Len(log) : log[i] \in Job
    BY <1>2
  <2> QED
    BY <2>1 DEF Job
<1>6. cut' \subseteq Tasks
  BY <1>1, <1>2, <1>5 DEF TypeOK
<1>7. present' \subseteq present \cup {Len(log) + 1} /\ Len(log) + 1 \in present'
  BY <1>1, <1>2, <1>3
<1> QED
  BY <1>1, <1>4, <1>6, <1>7

-----------------------------------------------------------------------------
(* The inductive invariant is preserved. *)

USE DEF Ids, NoId, ProducerPC, ConsumerPC, MaintainerPC, Clients,
        streamVars, groupVars, storeVars, localVars, ghostVars

\* The invariant holds before any command is issued.
LEMMA InitIndInv == Init => IndInv
<1> SUFFICES ASSUME Init PROVE IndInv
  OBVIOUS
<1> USE DEF Init
<1>1. TypeOK
  BY NoMemberType DEF TypeOK
<1>2. ConsumerInv
  BY DEF ConsumerInv
<1>3. MaintainerInv
  BY QueueAssumption DEF MaintainerInv
<1> QED
  BY <1>1, <1>2, <1>3 DEF IndInv

\* An XADD that leaves the consumer group alone preserves what the invariant
\* says of the stream, of the group and of the clients that do not move.
LEMMA XAddKeeps ==
  ASSUME IndInv, NEW job \in Job, XAdd(job), UNCHANGED groupVars
  PROVE  /\ log' \in Seq(Job)
         /\ present' \subseteq Ids'
         /\ lastDelivered' \in 0..Len(log')
         /\ pel' \subseteq 1..lastDelivered'
         /\ cut' \subseteq Tasks
         /\ \A i \in 1..lastDelivered' : /\ log'[i] = log[i]
                                         /\ i \notin present => i \notin present'
<1>1. /\ log \in Seq(Job) /\ Len(log) \in Nat /\ lastDelivered \in 0..Len(log)
      /\ present \subseteq 1..Len(log) /\ pel \subseteq 1..lastDelivered
  BY DEF IndInv, TypeOK
<1>2. TypeOK
  BY DEF IndInv
<1>3. /\ log' \in Seq(Job) /\ Len(log') = Len(log) + 1
      /\ \A i \in 1..Len(log) : log'[i] = log[i]
      /\ present' \subseteq present \cup {Len(log) + 1}
      /\ cut' \subseteq Tasks
  BY <1>2, XAddEffect
<1>4. lastDelivered' = lastDelivered /\ pel' = pel
  BY DEF groupVars
<1> QED
  BY <1>1, <1>3, <1>4

\* An XADD by a producer preserves it, whatever becomes of the reply.
LEMMA EnqueueInd ==
  ASSUME IndInv, NEW p \in Producers, EnqueueAdd(p) \/ EnqueueFail(p)
  PROVE  IndInv'
<1> USE Bounds
<1>0. TypeOK /\ ConsumerInv /\ MaintainerInv
  BY DEF IndInv
<1>1. [task |-> submit[p], attempt |-> 0] \in Job /\ submit[p] \in Tasks
      /\ NoTask \in Tasks
  BY <1>0, NoMemberType DEF TypeOK, Job
<1>2. /\ pc' = [pc EXCEPT ![p] = "idle"]
      /\ submit' = [submit EXCEPT ![p] = NoTask]
      /\ UNCHANGED <<groupVars, storeVars, msg, hand, due, claimed, mark, offered,
                     settled, dropped>>
      /\ accepted' \subseteq accepted \cup {submit[p]}
  BY DEF EnqueueAdd, EnqueueFail, Return, Goto, ghostVars
<1>3. /\ log' \in Seq(Job) /\ present' \subseteq Ids'
      /\ lastDelivered' \in 0..Len(log') /\ pel' \subseteq 1..lastDelivered'
      /\ cut' \subseteq Tasks
      /\ \A i \in 1..lastDelivered' : /\ log'[i] = log[i]
                                      /\ i \notin present => i \notin present'
  <2>1. CASE XAdd([task |-> submit[p], attempt |-> 0])
    BY <1>1, <1>2, <2>1, XAddKeeps
  <2>2. CASE UNCHANGED streamVars
    BY <1>0, <1>2, <2>2 DEF streamVars, groupVars, TypeOK
  <2> QED
    BY <2>1, <2>2 DEF EnqueueAdd, EnqueueFail
<1>4. TypeOK'
  BY <1>0, <1>1, <1>2, <1>3 DEF TypeOK, groupVars, storeVars, localVars
<1>5. ConsumerInv'
  BY <1>0, <1>2, <1>3 DEF TypeOK, ConsumerInv, groupVars, storeVars, localVars
<1>6. MaintainerInv'
  BY <1>0, <1>2 DEF TypeOK, MaintainerInv, groupVars, localVars
<1> QED
  BY <1>4, <1>5, <1>6 DEF IndInv

\* The other steps of a producer touch neither the stream nor the group.
LEMMA ProducerInd ==
  ASSUME IndInv, NEW p \in Producers, ProducerStep(p)
  PROVE  IndInv'
<1> USE Bounds DEF IndInv, TypeOK, ConsumerInv, MaintainerInv
<1>1. CASE \E t \in Tasks : Admit(p, t)
  <2>1. PICK t \in Tasks : Admit(p, t)
    BY <1>1
  <2>2. /\ pc' \in [Clients -> ProducerPC \cup ConsumerPC \cup MaintainerPC]
        /\ \A c \in Consumers \cup Maintainers : pc'[c] = pc[c]
        /\ submit' \in [Producers -> Tasks]
        /\ offered' \subseteq Tasks
    <3>1. /\ offered' = offered \cup {t}
          /\ \/ /\ submit' = [submit EXCEPT ![p] = t]
                /\ pc' = [pc EXCEPT ![p] = "add"]
             \/ UNCHANGED <<submit, pc>>
      BY <2>1 DEF Admit, Goto
    <3>2. pc' \in [Clients -> ProducerPC \cup ConsumerPC \cup MaintainerPC]
      BY <3>1
    <3>3. \A c \in Consumers \cup Maintainers : pc'[c] = pc[c]
      BY <3>1
    <3>4. submit' \in [Producers -> Tasks]
      BY <3>1
    <3> QED
      BY <3>1, <3>2, <3>3, <3>4
  <2>3. UNCHANGED <<streamVars, groupVars, storeVars, msg, hand, due, claimed, mark,
                    accepted, settled, dropped>>
    BY <2>1 DEF Admit
  <2> QED
    BY <2>2, <2>3
<1>2. CASE EnqueueAdd(p) \/ EnqueueFail(p)
  BY <1>2, EnqueueInd
<1>3. CASE ProducerCrash(p)
  BY <1>3, NoMemberType DEF ProducerCrash, Return, Goto
<1> QED
  BY <1>1, <1>2, <1>3 DEF ProducerStep

\* The promotion of due retries.
LEMMA PromoteInd ==
  ASSUME IndInv, NEW c \in Consumers, PromoteStep(c)
  PROVE  IndInv'
<1> USE Bounds
<1>0. TypeOK /\ ConsumerInv /\ MaintainerInv
  BY DEF IndInv
<1>1. CASE \E s \in SUBSET retry : BeginPromote(c, s)
  BY <1>0, <1>1 DEF BeginPromote, Goto, IndInv, TypeOK, ConsumerInv, MaintainerInv
<1>2. CASE \E m \in due[c] : ZRem(c, m) \/ ZRemFail(c, m)
  <2>1. PICK m \in due[c] : ZRem(c, m) \/ ZRemFail(c, m)
    BY <1>2
  <2>2. m \in Member
    BY <1>0 DEF TypeOK
  <2>3. TypeOK'
    <3>1. /\ due' \in [Consumers -> SUBSET Member]
          /\ hand' \in [Consumers -> Member]
          /\ retry' \subseteq Member
      <4>1. \/ /\ retry' = retry \ {m} /\ hand' = [hand EXCEPT ![c] = m]
               /\ due' = [due EXCEPT ![c] = @ \ {m}]
            \/ /\ retry' \subseteq retry /\ UNCHANGED hand
               /\ due' = [due EXCEPT ![c] = due[c] \ {m}]
        BY <2>1 DEF ZRem, ZRemFail, PromoteOn
      <4>2. retry' \subseteq Member
        BY <1>0, <4>1 DEF TypeOK
      <4>3. hand' \in [Consumers -> Member]
        BY <1>0, <2>2, <4>1 DEF TypeOK
      <4>4. due' = [due EXCEPT ![c] = due[c] \ {m}]
        BY <4>1
      <4>5. due' \in [Consumers -> SUBSET Member]
        BY <1>0, <4>4 DEF TypeOK
      <4> QED
        BY <4>2, <4>3, <4>5
    <3>2. pc' \in [Clients -> ProducerPC \cup ConsumerPC \cup MaintainerPC]
      BY <1>0, <2>1 DEF ZRem, ZRemFail, PromoteOn, Goto, TypeOK
    <3>3. /\ UNCHANGED <<streamVars, groupVars, dlq, dlqMissing, msg, claimed, submit, mark,
                         offered, accepted, settled>>
          /\ dropped' \subseteq Tasks
      <4>1. m.job.task \in Tasks
        BY <2>2 DEF Member, Job
      <4> QED
        BY <1>0, <2>1, <4>1 DEF ZRem, ZRemFail, TypeOK
    <3>4. /\ log' \in Seq(Job) /\ present' \subseteq Ids' /\ cut' \subseteq Tasks
          /\ lastDelivered' \in 0..Len(log') /\ pel' \subseteq 1..lastDelivered'
      BY <1>0, <3>3 DEF TypeOK
    <3>5. /\ dlq' \subseteq Job /\ dlqMissing' \subseteq Nat
          /\ msg' \in [Consumers -> Nat] /\ claimed' \in [Consumers -> SUBSET Nat]
          /\ submit' \in [Producers -> Tasks] /\ mark' \in [Maintainers -> Nat]
          /\ offered' \subseteq Tasks /\ accepted' \subseteq Tasks /\ settled' \subseteq Tasks
      BY <1>0, <3>3 DEF TypeOK
    <3>6. dropped' \subseteq Tasks
      BY <3>3
    <3> HIDE Bounds
    <3> QED
      BY <3>1, <3>2, <3>4, <3>5, <3>6 DEF TypeOK
  <2>4. /\ \E label \in {"repost", "zrem", "promoted"} : Goto(c, label)
        /\ UNCHANGED <<streamVars, groupVars, claimed, msg, mark>>
        /\ \A d \in Consumers \ {c} : hand'[d] = hand[d]
    BY <1>0, <2>1 DEF ZRem, ZRemFail, PromoteOn, TypeOK
  <2>5. /\ pc'[c] \in {"repost", "zrem", "promoted"}
        /\ \A d \in Clients \ {c} : pc'[d] = pc[d]
    BY <1>0, <2>4 DEF Goto, TypeOK
  <2>6. ConsumerInv'
    BY <1>0, <2>4, <2>5 DEF ConsumerInv
  <2>7. MaintainerInv'
    BY <1>0, <2>4, <2>5 DEF MaintainerInv
  <2> QED
    BY <2>3, <2>6, <2>7 DEF IndInv
<1>3. CASE RePost(c) \/ RePostFail(c)
  <2>1. hand[c].job \in Job
    BY <1>0 DEF TypeOK, Member
  <2>2. /\ pc' \in [Clients -> ProducerPC \cup ConsumerPC \cup MaintainerPC]
        /\ \A d \in Clients \ {c} : pc'[d] = pc[d]
        /\ pc'[c] \in {"promoted", "zrem", "unpost"}
        /\ UNCHANGED <<groupVars, storeVars, ghostVars, claimed, submit, mark>>
        /\ due' \in [Consumers -> SUBSET Member]
        /\ \A d \in Consumers \ {c} : msg'[d] = msg[d] /\ hand'[d] = hand[d]
        /\ msg' \in [Consumers -> Nat]
        /\ hand' \in [Consumers -> Member]
    <3>1. CASE RePost(c)
      BY <1>0, <3>1, NoMemberType DEF RePost, PromoteOn, Forget, Goto, TypeOK
    <3>2. CASE RePostFail(c)
      BY <1>0, <3>2 DEF RePostFail, Goto, TypeOK
    <3> QED
      BY <1>3, <3>1, <3>2
  <2>3. /\ log' \in Seq(Job) /\ present' \subseteq Ids'
        /\ lastDelivered' \in 0..Len(log') /\ pel' \subseteq 1..lastDelivered'
        /\ cut' \subseteq Tasks
        /\ \A i \in 1..lastDelivered' : /\ log'[i] = log[i]
                                        /\ i \notin present => i \notin present'
    <3>1. CASE XAdd(hand[c].job)
      BY <2>1, <2>2, <3>1, XAddKeeps
    <3>2. CASE UNCHANGED streamVars
      BY <1>0, <2>2, <3>2 DEF TypeOK
    <3> QED
      BY <1>3, <3>1, <3>2 DEF RePost, RePostFail
  <2>4. TypeOK'
    BY <1>0, <2>2, <2>3 DEF TypeOK
  <2>5. ConsumerInv'
    BY <1>0, <2>2, <2>3 DEF TypeOK, ConsumerInv
  <2>6. MaintainerInv'
    BY <1>0, <2>2 DEF TypeOK, MaintainerInv
  <2> QED
    BY <2>4, <2>5, <2>6 DEF IndInv
<1>4. CASE UnPost(c)
  BY <1>0, <1>4, NoMemberType
     DEF UnPost, Forget, Goto, IndInv, TypeOK, Member, Job, ConsumerInv, MaintainerInv
<1> QED
  BY <1>1, <1>2, <1>3, <1>4 DEF PromoteStep

\* What Goto and Forget do to the client that moves, and to the others.
LEMMA GotoEffect ==
  ASSUME TypeOK, NEW c \in Clients,
         NEW label \in ProducerPC \cup ConsumerPC \cup MaintainerPC, Goto(c, label)
  PROVE  /\ pc' \in [Clients -> ProducerPC \cup ConsumerPC \cup MaintainerPC]
         /\ pc'[c] = label
         /\ \A d \in Clients \ {c} : pc'[d] = pc[d]
<1>1. pc' \in [Clients -> ProducerPC \cup ConsumerPC \cup MaintainerPC]
  BY DEF Goto, TypeOK
<1>2. pc'[c] = label /\ \A d \in Clients \ {c} : pc'[d] = pc[d]
  BY DEF Goto, TypeOK
<1> QED
  BY <1>1, <1>2

LEMMA ForgetEffect ==
  ASSUME TypeOK, NEW c \in Consumers, Forget(c)
  PROVE  /\ msg' \in [Consumers -> Nat]
         /\ hand' \in [Consumers -> Member]
         /\ \A d \in Consumers \ {c} : msg'[d] = msg[d] /\ hand'[d] = hand[d]
<1>1. msg' \in [Consumers -> Nat]
  BY DEF Forget, TypeOK
<1>2. hand' \in [Consumers -> Member]
  BY NoMemberType DEF Forget, TypeOK
<1>3. \A d \in Consumers \ {c} : msg'[d] = msg[d] /\ hand'[d] = hand[d]
  BY DEF Forget, TypeOK
<1> QED
  BY <1>1, <1>2, <1>3

\* XREADGROUP moves last-delivered-id up and puts the entry on the PEL, above
\* every position a maintainer may have computed.
LEMMA XReadGroupInd ==
  ASSUME IndInv, NEW c \in Consumers, XReadGroup(c)
  PROVE  IndInv'
<1> USE Bounds
<1>0. TypeOK /\ ConsumerInv /\ MaintainerInv
  BY DEF IndInv
<1>1. CASE Goto(c, "idle") /\ UNCHANGED <<groupVars, msg>>
  <2>1. UNCHANGED <<streamVars, groupVars, storeVars, ghostVars, localVars>>
    BY <1>1 DEF XReadGroup
  <2>2. /\ pc' \in [Clients -> ProducerPC \cup ConsumerPC \cup MaintainerPC]
        /\ pc'[c] = "idle" /\ \A d \in Clients \ {c} : pc'[d] = pc[d]
    BY <1>0, <1>1, GotoEffect
  <2>3. TypeOK'
    BY <1>0, <2>1, <2>2 DEF TypeOK
  <2>4. ConsumerInv'
    BY <1>0, <2>1, <2>2 DEF ConsumerInv
  <2>5. MaintainerInv'
    BY <1>0, <2>1, <2>2 DEF MaintainerInv
  <2> QED
    BY <2>3, <2>4, <2>5 DEF IndInv
<1>2. ASSUME NEW i \in present, i > lastDelivered, lastDelivered' = i,
             pel' = pel \cup {i}, msg' = [msg EXCEPT ![c] = i], Goto(c, "run")
      PROVE  IndInv'
  <2>1. /\ i \in Nat /\ i \in 1..Len(log) /\ lastDelivered \in Nat
        /\ pel' \subseteq 1..lastDelivered' /\ lastDelivered' \in 0..Len(log)
    BY <1>0, <1>2 DEF TypeOK
  <2>2. UNCHANGED <<streamVars, storeVars, ghostVars, hand, due, claimed, submit, mark>>
    BY DEF XReadGroup
  <2>3. msg' \in [Consumers -> Nat] /\ msg'[c] = i
          /\ \A d \in Consumers \ {c} : msg'[d] = msg[d]
    BY <1>0, <1>2, <2>1 DEF TypeOK
  <2>4. /\ pc' \in [Clients -> ProducerPC \cup ConsumerPC \cup MaintainerPC]
        /\ pc'[c] = "run" /\ \A d \in Clients \ {c} : pc'[d] = pc[d]
    BY <1>0, <1>2, GotoEffect
  <2>5. TypeOK'
    <3>1. /\ log' \in Seq(Job) /\ present' \subseteq Ids' /\ Len(log') = Len(log)
          /\ retry' \subseteq Member /\ dlq' \subseteq Job /\ dlqMissing' \subseteq Nat
      BY <1>0, <2>2 DEF TypeOK
    <3>2. /\ hand' \in [Consumers -> Member] /\ due' \in [Consumers -> SUBSET Member]
          /\ claimed' \in [Consumers -> SUBSET Nat]
          /\ submit' \in [Producers -> Tasks] /\ mark' \in [Maintainers -> Nat]
      BY <1>0, <2>2 DEF TypeOK
    <3>3. /\ offered' \subseteq Tasks /\ accepted' \subseteq Tasks /\ settled' \subseteq Tasks
          /\ cut' \subseteq Tasks /\ dropped' \subseteq Tasks
      BY <1>0, <2>2 DEF TypeOK
    <3>4. /\ msg' \in [Consumers -> Nat]
          /\ pc' \in [Clients -> ProducerPC \cup ConsumerPC \cup MaintainerPC]
          /\ lastDelivered' \in 0..Len(log') /\ pel' \subseteq 1..lastDelivered'
      BY <2>1, <2>3, <2>4, <3>1
    <3> HIDE Bounds
    <3> QED
      BY <3>1, <3>2, <3>3, <3>4 DEF TypeOK
  <2>6. ConsumerInv'
    BY <1>0, <1>2, <2>1, <2>2, <2>3, <2>4 DEF ConsumerInv
  <2>7. MaintainerInv'
    <3>1. i \notin pel /\ \A m \in Maintainers : pc'[m] = pc[m] /\ mark'[m] = mark[m]
      BY <1>0, <1>2, <2>1, <2>2, <2>4 DEF TypeOK, Clients
    <3>2. \A m \in Maintainers : mark[m] \in Nat
      BY <1>0 DEF TypeOK
    <3> QED
      BY <1>0, <1>2, <2>1, <3>1, <3>2 DEF MaintainerInv
  <2> QED
    BY <2>5, <2>6, <2>7 DEF IndInv
<1> QED
  BY <1>1, <1>2 DEF XReadGroup

\* Removing the acknowledged message from the PEL.
LEMMA AckInd ==
  ASSUME IndInv, NEW c \in Consumers, Ack(c) \/ NackAck(c) \/ ReAck(c)
  PROVE  IndInv'
<1> USE Bounds
<1>0. TypeOK /\ ConsumerInv /\ MaintainerInv
  BY DEF IndInv
<1>1. /\ pel' = pel \ {msg[c]}
      /\ UNCHANGED <<streamVars, lastDelivered, storeVars, due, claimed, submit, mark,
                     offered, accepted, dropped>>
      /\ Forget(c)
      /\ Goto(c, "idle") \/ Goto(c, "reclaim")
  BY DEF Ack, NackAck, ReAck
<1>2. settled' \subseteq Tasks
  <2>1. CASE Ack(c)
    <3>1. msg[c] \in 1..Len(log)
      BY <1>0, <2>1 DEF Ack, ConsumerInv, TypeOK
    <3>2. log[msg[c]] \in Job
      BY <1>0, <3>1 DEF TypeOK
    <3> QED
      BY <1>0, <2>1, <3>2 DEF Ack, Job, TypeOK
  <2>2. CASE NackAck(c) \/ ReAck(c)
    BY <1>0, <2>2 DEF NackAck, ReAck, TypeOK
  <2> QED
    BY <2>1, <2>2
<1>3. /\ pc' \in [Clients -> ProducerPC \cup ConsumerPC \cup MaintainerPC]
      /\ pc'[c] \in {"idle", "reclaim"} /\ \A d \in Clients \ {c} : pc'[d] = pc[d]
  BY <1>0, <1>1, GotoEffect
<1>4. /\ msg' \in [Consumers -> Nat] /\ hand' \in [Consumers -> Member]
      /\ \A d \in Consumers \ {c} : msg'[d] = msg[d] /\ hand'[d] = hand[d]
  BY <1>0, <1>1, ForgetEffect
<1>5. TypeOK'
  BY <1>0, <1>1, <1>2, <1>3, <1>4 DEF TypeOK
<1>6. ConsumerInv'
  BY <1>0, <1>1, <1>3, <1>4 DEF ConsumerInv
<1>7. MaintainerInv'
  BY <1>0, <1>1, <1>3 DEF MaintainerInv
<1> QED
  BY <1>5, <1>6, <1>7 DEF IndInv

\* The steps of nack before its acknowledgement.
LEMMA NackInd ==
  ASSUME IndInv, NEW c \in Consumers,
         NackRead(c) \/ NackZAdd(c) \/ NackBury(c) \/ NackMissing(c)
  PROVE  IndInv'
<1> USE Bounds
<1>0. TypeOK /\ ConsumerInv /\ MaintainerInv
  BY DEF IndInv
<1>1. CASE NackRead(c)
  <2>1. msg[c] \in 1..lastDelivered /\ msg[c] \in 1..Len(log)
    BY <1>0, <1>1 DEF NackRead, ConsumerInv, TypeOK
  <2>2. log[msg[c]] \in Job
    BY <1>0, <2>1 DEF TypeOK
  <2>3. \/ /\ msg[c] \notin present /\ Goto(c, "missing") /\ UNCHANGED hand
        \/ \E m \in Member : /\ m.job.task = log[msg[c]].task
                             /\ hand' = [hand EXCEPT ![c] = m]
                             /\ Goto(c, "zadd") \/ Goto(c, "bury")
    <3>1. CASE msg[c] \notin present
      BY <1>1, <3>1 DEF NackRead
    <3>2. ASSUME NEW d \in DueStamps, NEW n \in Nat, n <= MaxAttempt
          PROVE  LET m == [job |-> [log[msg[c]] EXCEPT !.attempt = n], due |-> d]
                 IN  m \in Member /\ m.job.task = log[msg[c]].task
      BY <2>2, <3>2 DEF Member, Job
    <3>3. ASSUME NEW d \in DueStamps
          PROVE  LET m == [job |-> log[msg[c]], due |-> d]
                 IN  m \in Member /\ m.job.task = log[msg[c]].task
      BY <2>2 DEF Member
    <3>4. log[msg[c]].attempt \in Nat /\ log[msg[c]].attempt + 1 \in Nat
      BY <2>2 DEF Job
    <3> QED
      BY <1>1, <3>1, <3>2, <3>3, <3>4 DEF NackRead
  <2>4. UNCHANGED <<streamVars, groupVars, storeVars, ghostVars, msg, due, claimed,
                    submit, mark>>
    BY <1>1 DEF NackRead
  <2>5. /\ pc' \in [Clients -> ProducerPC \cup ConsumerPC \cup MaintainerPC]
        /\ pc'[c] \in {"missing", "zadd", "bury"}
        /\ \A d \in Clients \ {c} : pc'[d] = pc[d]
    BY <1>0, <2>3, GotoEffect
  <2>6. hand' \in [Consumers -> Member]
          /\ \A d \in Consumers \ {c} : hand'[d] = hand[d]
    BY <1>0, <2>3 DEF TypeOK
  <2>7. /\ pc'[c] = "missing" => msg[c] \notin present
        /\ pc'[c] \in {"zadd", "bury"} => hand'[c].job.task = log[msg[c]].task
    BY <1>0, <2>3, GotoEffect DEF TypeOK
  <2>8. TypeOK'
    BY <1>0, <2>4, <2>5, <2>6 DEF TypeOK
  <2>9. ConsumerInv'
    BY <1>0, <2>1, <2>4, <2>5, <2>6, <2>7 DEF ConsumerInv
  <2>10. MaintainerInv'
    BY <1>0, <2>4, <2>5 DEF MaintainerInv
  <2> QED
    BY <2>8, <2>9, <2>10 DEF IndInv
<1>2. CASE NackZAdd(c) \/ NackBury(c) \/ NackMissing(c)
  <2>1. /\ pc[c] \in {"zadd", "bury", "missing"}
        /\ Goto(c, "ack")
        /\ UNCHANGED <<streamVars, groupVars, localVars, ghostVars>>
    BY <1>2 DEF NackZAdd, NackBury, NackMissing
  <2>2. retry' \subseteq Member /\ dlq' \subseteq Job /\ dlqMissing' \subseteq Nat
    BY <1>0, <1>2 DEF NackZAdd, NackBury, NackMissing, TypeOK, Member
  <2>3. /\ pc' \in [Clients -> ProducerPC \cup ConsumerPC \cup MaintainerPC]
        /\ pc'[c] = "ack" /\ \A d \in Clients \ {c} : pc'[d] = pc[d]
    BY <1>0, <2>1, GotoEffect
  <2>4. TypeOK'
    BY <1>0, <2>1, <2>2, <2>3 DEF TypeOK
  <2>5. ConsumerInv'
    BY <1>0, <2>1, <2>3 DEF ConsumerInv
  <2>6. MaintainerInv'
    BY <1>0, <2>1, <2>3 DEF MaintainerInv
  <2> QED
    BY <2>4, <2>5, <2>6 DEF IndInv
<1> QED
  BY <1>1, <1>2

\* The steps of Recover.
LEMMA RecoverInd ==
  ASSUME IndInv, NEW c \in Consumers, XAutoClaim(c) \/ ReQueue(c)
  PROVE  IndInv'
<1> USE Bounds
<1>0. TypeOK /\ ConsumerInv /\ MaintainerInv
  BY DEF IndInv
<1>1. CASE XAutoClaim(c)
  <2> DEFINE got == Claimable \cap present
  <2>1. got \subseteq 1..lastDelivered
    BY <1>0 DEF Claimable, TypeOK
  <2>2. /\ pel' \subseteq pel
        /\ claimed' = [claimed EXCEPT ![c] = got]
        /\ Goto(c, "idle") \/ Goto(c, "reclaim")
        /\ UNCHANGED <<streamVars, lastDelivered, storeVars, ghostVars, msg, hand, due,
                       submit, mark>>
    BY <1>1 DEF XAutoClaim
  <2>3. /\ pc' \in [Clients -> ProducerPC \cup ConsumerPC \cup MaintainerPC]
        /\ pc'[c] \in {"idle", "reclaim"} /\ \A d \in Clients \ {c} : pc'[d] = pc[d]
    BY <1>0, <2>2, GotoEffect
  <2>4. got \subseteq Nat
    BY <1>0, <2>1 DEF TypeOK
  <2>5. claimed' \in [Consumers -> SUBSET Nat]
    BY <1>0, <2>2, <2>4 DEF TypeOK
  <2>6. \A d \in Consumers : claimed'[d] \subseteq 1..lastDelivered
    BY <1>0, <2>1, <2>2 DEF TypeOK, ConsumerInv
  <2> HIDE DEF got
  <2>7. TypeOK'
    BY <1>0, <2>2, <2>3, <2>5 DEF TypeOK
  <2>8. ConsumerInv'
    BY <1>0, <2>2, <2>3, <2>6 DEF ConsumerInv
  <2>9. MaintainerInv'
    BY <1>0, <2>2, <2>3 DEF MaintainerInv
  <2> QED
    BY <2>7, <2>8, <2>9 DEF IndInv
<1>2. CASE ReQueue(c)
  <2>1. PICK i \in claimed[c] : /\ XAdd(log[i])
                               /\ msg' = [msg EXCEPT ![c] = i]
                               /\ claimed' = [claimed EXCEPT ![c] = @ \ {i}]
    BY <1>2 DEF ReQueue
  <2>2. /\ Goto(c, "reack")
        /\ UNCHANGED <<groupVars, storeVars, ghostVars, hand, due, submit, mark>>
    BY <1>2 DEF ReQueue
  <2>3. i \in 1..lastDelivered /\ i \in 1..Len(log) /\ i \in Nat
    BY <1>0, <2>1 DEF ConsumerInv, TypeOK
  <2>4. log[i] \in Job
    BY <1>0, <2>3 DEF TypeOK
  <2>5. /\ log' \in Seq(Job) /\ present' \subseteq Ids'
        /\ lastDelivered' \in 0..Len(log') /\ pel' \subseteq 1..lastDelivered'
        /\ cut' \subseteq Tasks
        /\ \A k \in 1..lastDelivered' : /\ log'[k] = log[k]
                                        /\ k \notin present => k \notin present'
    BY <2>1, <2>2, <2>4, XAddKeeps
  <2>6. /\ pc' \in [Clients -> ProducerPC \cup ConsumerPC \cup MaintainerPC]
        /\ pc'[c] = "reack" /\ \A d \in Clients \ {c} : pc'[d] = pc[d]
    BY <1>0, <2>2, GotoEffect
  <2>7. msg' \in [Consumers -> Nat] /\ msg'[c] = i
          /\ \A d \in Consumers \ {c} : msg'[d] = msg[d]
    BY <1>0, <2>1, <2>3 DEF TypeOK
  <2>8. claimed' \in [Consumers -> SUBSET Nat]
    BY <1>0, <2>1 DEF TypeOK
  <2>9. \A d \in Consumers : claimed'[d] \subseteq 1..lastDelivered
    BY <1>0, <2>1 DEF TypeOK, ConsumerInv
  <2>10. TypeOK'
    BY <1>0, <2>2, <2>5, <2>6, <2>7, <2>8 DEF TypeOK
  <2>11. ConsumerInv'
    BY <1>0, <2>2, <2>3, <2>5, <2>6, <2>7, <2>9 DEF ConsumerInv
  <2>12. MaintainerInv'
    BY <1>0, <2>2, <2>6 DEF MaintainerInv
  <2> QED
    BY <2>10, <2>11, <2>12 DEF IndInv
<1> QED
  BY <1>1, <1>2

\* A crash of a consumer.
LEMMA ConsumerCrashInd ==
  ASSUME IndInv, NEW c \in Consumers, ConsumerCrash(c)
  PROVE  IndInv'
<1> USE Bounds
<1>0. TypeOK /\ ConsumerInv /\ MaintainerInv
  BY DEF IndInv
<1>1. /\ Goto(c, "idle") /\ Forget(c)
      /\ due' = [due EXCEPT ![c] = {}]
      /\ claimed' = [claimed EXCEPT ![c] = {}]
      /\ UNCHANGED <<streamVars, groupVars, storeVars, submit, mark, offered, accepted,
                     settled>>
  BY DEF ConsumerCrash
<1>2. /\ pc' \in [Clients -> ProducerPC \cup ConsumerPC \cup MaintainerPC]
      /\ pc'[c] = "idle" /\ \A d \in Clients \ {c} : pc'[d] = pc[d]
  BY <1>0, <1>1, GotoEffect
<1>3. /\ msg' \in [Consumers -> Nat] /\ hand' \in [Consumers -> Member]
      /\ \A d \in Consumers \ {c} : msg'[d] = msg[d] /\ hand'[d] = hand[d]
  BY <1>0, <1>1, ForgetEffect
<1>4. dropped' \subseteq Tasks
  <2>1. hand[c].job.task \in Tasks
    BY <1>0 DEF TypeOK, Member, Job
  <2> QED
    BY <1>0, <2>1 DEF ConsumerCrash, TypeOK
<1>5. due' \in [Consumers -> SUBSET Member]
  BY <1>0, <1>1 DEF TypeOK
<1>6. claimed' \in [Consumers -> SUBSET Nat]
  BY <1>0, <1>1 DEF TypeOK
<1>7. \A d \in Consumers : claimed'[d] \subseteq 1..lastDelivered
  BY <1>0, <1>1 DEF TypeOK, ConsumerInv
<1>8. TypeOK'
  BY <1>0, <1>1, <1>2, <1>3, <1>4, <1>5, <1>6 DEF TypeOK
<1>9. ConsumerInv'
  BY <1>0, <1>1, <1>2, <1>3, <1>7 DEF ConsumerInv
<1>10. MaintainerInv'
  BY <1>0, <1>1, <1>2 DEF MaintainerInv
<1> QED
  BY <1>8, <1>9, <1>10 DEF IndInv

\* TrimConsumed reads last-delivered-id before it reads the PEL: a position
\* computed from an empty PEL cannot pass an entry delivered in between.
LEMMA MaintainerInd ==
  ASSUME IndInv, NEW m \in Maintainers, MaintainerStep(m)
  PROVE  IndInv'
<1> USE Bounds
<1>0. TypeOK /\ ConsumerInv /\ MaintainerInv
  BY DEF IndInv
<1>1. /\ UNCHANGED <<log, cut, groupVars, storeVars, ghostVars, msg, hand, due, claimed,
                     submit>>
      /\ present' \subseteq present
      /\ Goto(m, "idle") \/ Goto(m, "pending") \/ Goto(m, "trim")
  BY DEF MaintainerStep, TrimInfo, TrimPending, XTrimMinID, MaintainerCrash
<1>2. /\ pc' \in [Clients -> ProducerPC \cup ConsumerPC \cup MaintainerPC]
      /\ \A d \in Clients \ {m} : pc'[d] = pc[d]
  BY <1>0, <1>1, GotoEffect
<1>3. /\ lastDelivered \in Nat /\ pel \subseteq Nat
      /\ \A i \in pel : i <= lastDelivered
      /\ mark[m] \in Nat
  BY <1>0 DEF TypeOK
<1>4. /\ mark' \in [Maintainers -> Nat]
      /\ \A d \in Maintainers \ {m} : mark'[d] = mark[d]
  <2>1. ASSUME NEW k \in Nat, mark' = [mark EXCEPT ![m] = k]
        PROVE  <1>4!:
    BY <1>0, <2>1 DEF TypeOK
  <2> QED
    BY <1>3, <2>1 DEF MaintainerStep, TrimInfo, TrimPending, XTrimMinID, MaintainerCrash
<1>5. pc'[m] = "pending" => mark'[m] <= lastDelivered
  <2>1. CASE TrimInfo(m)
    BY <1>0, <1>3, <2>1 DEF TrimInfo, TypeOK
  <2>2. CASE ~ TrimInfo(m)
    <3>1. pc'[m] # "pending"
      BY <1>0, <2>2, GotoEffect
         DEF MaintainerStep, TrimPending, XTrimMinID, MaintainerCrash
    <3> QED
      BY <3>1
  <2> QED
    BY <2>1, <2>2
<1>6. pc'[m] = "trim" =>
        /\ mark'[m] <= lastDelivered + 1
        /\ "XPENDING" \notin Faults => \A i \in pel : mark'[m] <= i
  <2>1. CASE TrimPending(m)
    <3>1. mark[m] <= lastDelivered
      BY <1>0, <2>1 DEF TrimPending, MaintainerInv
    <3>2. CASE /\ pel = {} \/ "XPENDING" \in Faults
               /\ mark' = [mark EXCEPT ![m] = mark[m] + 1]
      BY <1>0, <1>3, <3>1, <3>2 DEF TypeOK
    <3>3. ASSUME NEW low \in pel, \A i \in pel : low <= i,
                 mark' = [mark EXCEPT ![m] = low]
          PROVE  mark'[m] <= lastDelivered + 1 /\ \A i \in pel : mark'[m] <= i
      BY <1>0, <1>3, <3>3 DEF TypeOK
    <3> QED
      BY <2>1, <3>2, <3>3 DEF TrimPending
  <2>2. CASE ~ TrimPending(m)
    <3>1. pc'[m] # "trim"
      BY <1>0, <2>2, GotoEffect
         DEF MaintainerStep, TrimInfo, XTrimMinID, MaintainerCrash
    <3> QED
      BY <3>1
  <2> QED
    BY <2>1, <2>2
<1>7. TypeOK'
  BY <1>0, <1>1, <1>2, <1>4 DEF TypeOK
<1>8. ConsumerInv'
  BY <1>0, <1>1, <1>2 DEF ConsumerInv
<1>9. MaintainerInv'
  BY <1>0, <1>1, <1>2, <1>4, <1>5, <1>6 DEF MaintainerInv
<1> QED
  BY <1>7, <1>8, <1>9 DEF IndInv

\* Every step preserves the inductive invariant.
LEMMA NextIndInv ==
  ASSUME IndInv, [Next]_vars
  PROVE  IndInv'
<1>1. CASE \E p \in Producers : ProducerStep(p)
  BY <1>1, ProducerInd
<1>2. CASE \E c \in Consumers : ConsumerStep(c)
  BY <1>2, PromoteInd, XReadGroupInd, AckInd, NackInd, RecoverInd, ConsumerCrashInd
     DEF ConsumerStep
<1>3. CASE \E m \in Maintainers : MaintainerStep(m)
  BY <1>3, MaintainerInd
<1>4. CASE UNCHANGED vars
  BY <1>4 DEF vars, IndInv, TypeOK, ConsumerInv, MaintainerInv
<1> QED
  BY <1>1, <1>2, <1>3, <1>4 DEF Next

\* The state of the queue always has its type.
THEOREM TypeCorrect == Spec => []TypeOK
<1>1. IndInv /\ [Next]_vars => IndInv'
  BY NextIndInv
<1>2. IndInv => TypeOK
  BY DEF IndInv
<1> QED
  BY <1>1, <1>2, InitIndInv, PTL DEF Spec

\* TrimConsumed deletes only entries that were delivered and acknowledged, as
\* long as XPENDING answers: what it computed from two separate commands is
\* still safe when XTRIM runs.
THEOREM TrimSafe ==
  ASSUME "XPENDING" \notin Faults
  PROVE  Spec => TrimOnlyConsumed
<1>1. IndInv /\ [Next]_vars => IndInv'
  BY NextIndInv
<1>2. ASSUME IndInv, [Next]_vars
      PROVE  [\A i \in present \ present' : Unfinished(i) => log' # log]_vars
  <2>0. TypeOK /\ ConsumerInv /\ MaintainerInv
    BY <1>2 DEF IndInv
  <2>1. ASSUME NEW job \in Job, XAdd(job)
        PROVE  log' # log
    <3>1. Len(log') = Len(log) + 1 /\ Len(log) \in Nat
      BY <2>0, <2>1, XAddEffect DEF TypeOK
    <3> QED
      BY <3>1
  <2>2. \A p \in Producers : ProducerStep(p) => log' # log \/ present' = present
    <3>1. SUFFICES ASSUME NEW p \in Producers, ProducerStep(p)
                   PROVE  log' # log \/ present' = present
      OBVIOUS
    <3>2. [task |-> submit[p], attempt |-> 0] \in Job
      BY QueueAssumption, <2>0 DEF TypeOK, Job
    <3> QED
      BY <2>1, <3>1, <3>2
         DEF ProducerStep, Admit, EnqueueAdd, EnqueueFail, ProducerCrash, Return
  <2>3. \A c \in Consumers : ConsumerStep(c) => log' # log \/ present' = present
    <3>1. SUFFICES ASSUME NEW c \in Consumers, ConsumerStep(c)
                   PROVE  log' # log \/ present' = present
      OBVIOUS
    <3>2. hand[c].job \in Job
      BY <2>0 DEF TypeOK, Member
    <3>3. \A i \in claimed[c] : log[i] \in Job
      <4>1. \A i \in claimed[c] : i \in 1..Len(log)
        BY <2>0 DEF ConsumerInv, TypeOK
      <4> QED
        BY <2>0, <4>1 DEF TypeOK
    <3>4. CASE PromoteStep(c)
      BY <2>1, <3>2, <3>4
         DEF PromoteStep, BeginPromote, ZRem, ZRemFail, RePost, RePostFail, UnPost
    <3>5. CASE XAutoClaim(c) \/ ReQueue(c) \/ ReAck(c)
      BY <2>1, <3>3, <3>5 DEF XAutoClaim, ReQueue, ReAck
    <3>6. CASE \/ XReadGroup(c) \/ Ack(c) \/ NackRead(c) \/ NackZAdd(c) \/ NackBury(c)
               \/ NackMissing(c) \/ NackAck(c) \/ ConsumerCrash(c)
      BY <3>6 DEF XReadGroup, Ack, NackRead, NackZAdd, NackBury, NackMissing, NackAck,
                  ConsumerCrash
    <3> QED
      BY <3>1, <3>4, <3>5, <3>6 DEF ConsumerStep
  <2>4. \A m \in Maintainers : MaintainerStep(m) =>
          \A i \in present \ present' : ~ Unfinished(i)
    <3>1. SUFFICES ASSUME NEW m \in Maintainers, MaintainerStep(m),
                          NEW i \in present, i \notin present'
                   PROVE  i <= lastDelivered /\ i \notin pel
      BY <2>0 DEF Unfinished, TypeOK
    <3>2. pc[m] = "trim" /\ ~ (i >= mark[m])
      BY <3>1 DEF MaintainerStep, TrimInfo, TrimPending, XTrimMinID, MaintainerCrash
    <3>3. mark[m] <= lastDelivered + 1 /\ \A k \in pel : mark[m] <= k
      BY <2>0, <3>2 DEF MaintainerInv
    <3>4. /\ i \in Nat /\ mark[m] \in Nat /\ lastDelivered \in Nat
      BY <2>0 DEF TypeOK
    <3> QED
      BY <3>2, <3>3, <3>4
  <2>5. CASE UNCHANGED vars
    BY <2>5
  <2> QED
    BY <1>2, <2>2, <2>3, <2>4, <2>5 DEF Next
<1> QED
  BY <1>1, <1>2, InitIndInv, PTL DEF Spec, TrimOnlyConsumed

-----------------------------------------------------------------------------
(* No silent loss. *)

\* Entries the queue can still deliver or recover.
Live == {i \in present \ AckPending : Unfinished(i)}

\* Consumers between the ZREM and the XADD of a promotion.
Holding == {c \in Consumers : pc[c] \in {"repost", "unpost"}}

\* Task t is settled, kept, or a recorded exception.
Safe(t) == t \in settled \cup cut \cup dropped \/ Kept(t)

\* A step that re-establishes safety for each place a job can be in keeps
\* every task safe.
LEMMA SafeStep ==
  ASSUME settled \subseteq settled', cut \subseteq cut', dropped \subseteq dropped',
         dlq \subseteq dlq',
         \A u : (\E i \in Live : log[i].task = u) => Safe(u)',
         \A u : (\E m \in retry : m.job.task = u) => Safe(u)',
         \A u : (\E c \in Holding : hand[c].job.task = u) => Safe(u)',
         NEW t, Safe(t)
  PROVE  Safe(t)'
<1>1. CASE t \in settled \cup cut \cup dropped
  BY <1>1 DEF Safe
<1>2. CASE \E j \in dlq : j.task = t
  BY <1>2 DEF Safe, Kept
<1>3. CASE \/ \E i \in Live : log[i].task = t
           \/ \E m \in retry : m.job.task = t
           \/ \E c \in Holding : hand[c].job.task = t
  BY <1>3
<1> QED
  BY <1>1, <1>2, <1>3 DEF Safe, Kept, Live, Holding

\* Ways to be safe after a step.
LEMMA SafeAfter ==
  ASSUME NEW t
  PROVE  /\ t \in settled' \cup cut' \cup dropped' => Safe(t)'
         /\ \A i \in Live' : log'[i].task = t => Safe(t)'
         /\ \A m \in retry' : m.job.task = t => Safe(t)'
         /\ \A j \in dlq' : j.task = t => Safe(t)'
         /\ \A c \in Holding' : hand'[c].job.task = t => Safe(t)'
<1>1. t \in settled' \cup cut' \cup dropped' => Safe(t)'
  BY DEF Safe
<1>2. \A i \in Live' : log'[i].task = t => Safe(t)'
  BY DEF Safe, Kept, Live
<1>3. \A m \in retry' : m.job.task = t => Safe(t)'
  BY DEF Safe, Kept
<1>4. \A j \in dlq' : j.task = t => Safe(t)'
  BY DEF Safe, Kept
<1>5. \A c \in Holding' : hand'[c].job.task = t => Safe(t)'
  BY DEF Safe, Kept, Holding
<1> QED
  BY <1>1, <1>2, <1>3, <1>4, <1>5

\* An XADD keeps every live entry live or records it as cut, and its new entry
\* is live, because no client can be about to acknowledge a fresh id.
LEMMA XAddLive ==
  ASSUME IndInv, NEW job \in Job, XAdd(job), UNCHANGED groupVars,
         \A i \in AckPending' : i <= lastDelivered
  PROVE  /\ \A i \in Live : i \notin AckPending' =>
                \/ i \in Live' /\ log'[i] = log[i]
                \/ log[i].task \in cut'
         /\ Len(log) + 1 \in Live'
         /\ log'[Len(log) + 1] = job
         /\ cut \subseteq cut'
<1>0. TypeOK
  BY DEF IndInv
<1>1. /\ \A i \in 1..Len(log) : log'[i] = log[i]
      /\ log'[Len(log) + 1] = job
      /\ Len(log) + 1 \in present'
      /\ cut \subseteq cut'
      /\ \A i \in present \ present' : Unfinished(i) => log[i].task \in cut'
  BY <1>0, XAddEffect
<1>2. /\ present \subseteq 1..Len(log) /\ Len(log) \in Nat
      /\ lastDelivered \in 0..Len(log)
  BY <1>0 DEF TypeOK
<1>3. \A i : Unfinished(i)' <=> Unfinished(i)
  BY DEF Unfinished
<1>4. \A i \in Live : i \notin AckPending' =>
        \/ i \in Live' /\ log'[i] = log[i]
        \/ log[i].task \in cut'
  BY <1>1, <1>2, <1>3 DEF Live
<1>5. Unfinished(Len(log) + 1)
  BY <1>2 DEF Unfinished
<1>6. Len(log) + 1 \notin AckPending'
  BY <1>2
<1>7. Len(log) + 1 \in Live'
  BY <1>1, <1>3, <1>5, <1>6 DEF Live
<1> QED
  BY <1>1, <1>4, <1>7

\* A message about to be acknowledged was delivered.
LEMMA AckPendingBound ==
  ASSUME IndInv, IndInv'
  PROVE  /\ \A i \in AckPending : i <= lastDelivered
         /\ \A i \in AckPending' : i <= lastDelivered'
<1>1. \A i \in AckPending : i <= lastDelivered
  BY DEF IndInv, ConsumerInv, AckPending
<1>2. \A i \in AckPending' : i <= lastDelivered'
  BY DEF IndInv, ConsumerInv, AckPending
<1> QED
  BY <1>1, <1>2

\* Steps of producers.
LEMMA ProducerSafe ==
  ASSUME IndInv, IndInv', NEW p \in Producers, ProducerStep(p), NoSilentLoss
  PROVE  NoSilentLoss'
<1> USE Bounds
<1>0. TypeOK
  BY DEF IndInv
<1>1. /\ UNCHANGED <<groupVars, storeVars, msg, hand, settled, dropped>>
      /\ \A c \in Consumers : pc'[c] = pc[c]
  BY <1>0 DEF ProducerStep, Admit, EnqueueAdd, EnqueueFail, ProducerCrash, Return, Goto, TypeOK
<1>2. AckPending' = AckPending /\ Holding' = Holding
  BY <1>1 DEF AckPending, Holding
<1>3. [task |-> submit[p], attempt |-> 0] \in Job
  BY <1>0 DEF TypeOK, Job
<1>4. CASE UNCHANGED streamVars
  <2>1. Live' = Live
    BY <1>1, <1>2, <1>4 DEF Live, Unfinished
  <2>2. \A t : Safe(t) => Safe(t)'
    BY <1>1, <1>2, <1>4, <2>1 DEF Safe, Kept, Live, Holding
  <2>3. accepted' = accepted
    <3>1. CASE EnqueueAdd(p)
      <4>1. Len(log') = Len(log) + 1 /\ Len(log) \in Nat
        BY <1>0, <1>3, <3>1, XAddEffect DEF EnqueueAdd, TypeOK
      <4> QED
        BY <1>4, <4>1
    <3>2. CASE ~ EnqueueAdd(p)
      BY <3>2 DEF ProducerStep, Admit, EnqueueFail, ProducerCrash, Return
    <3> QED
      BY <3>1, <3>2
  <2> QED
    BY <2>2, <2>3 DEF NoSilentLoss, Safe
<1>5. CASE XAdd([task |-> submit[p], attempt |-> 0])
  <2>1. /\ \A i \in Live : (i \in Live' /\ log'[i] = log[i]) \/ log[i].task \in cut'
        /\ Len(log) + 1 \in Live'
        /\ log'[Len(log) + 1] = [task |-> submit[p], attempt |-> 0]
        /\ cut \subseteq cut'
    BY <1>1, <1>2, <1>3, <1>5, XAddLive, AckPendingBound DEF Live
  <2>2. \A u : (\E i \in Live : log[i].task = u) => Safe(u)'
    BY <2>1, SafeAfter
  <2>3. \A u : (\E m \in retry : m.job.task = u) => Safe(u)'
    BY <1>1, SafeAfter
  <2>4. \A u : (\E c \in Holding : hand[c].job.task = u) => Safe(u)'
    BY <1>1, <1>2, SafeAfter
  <2>5. \A t : Safe(t) => Safe(t)'
    BY <1>1, <2>1, <2>2, <2>3, <2>4, SafeStep
  <2>6. \A u : u = submit[p] => Safe(u)'
    BY <2>1, SafeAfter
  <2>7. accepted' \subseteq accepted \cup {submit[p]}
    BY DEF ProducerStep, Admit, EnqueueAdd, EnqueueFail, ProducerCrash, Return
  <2> QED
    BY <2>5, <2>6, <2>7 DEF NoSilentLoss, Safe
<1> QED
  BY <1>4, <1>5 DEF ProducerStep, Admit, EnqueueAdd, EnqueueFail, ProducerCrash, Return

\* How a moving consumer changes the sets the argument is about.
LEMMA ConsumerMoves ==
  ASSUME TypeOK, NEW c \in Consumers,
         NEW label \in ConsumerPC, Goto(c, label),
         \A d \in Consumers \ {c} : msg'[d] = msg[d]
  PROVE  /\ label \notin {"ack", "reack"} => AckPending' \subseteq AckPending
         /\ label \in {"ack", "reack"} => AckPending' \subseteq AckPending \cup {msg'[c]}
         /\ \A d \in Holding : d # c => d \in Holding'
         /\ label \in {"repost", "unpost"} => c \in Holding'
<1>1. pc'[c] = label /\ \A d \in Consumers \ {c} : pc'[d] = pc[d]
  BY GotoEffect
<1> QED
  BY <1>1 DEF AckPending, Holding

\* The promotion: a member is in the ZSET, in the hand of one consumer, in the
\* stream, or recorded as dropped.
LEMMA PromoteSafe ==
  ASSUME IndInv, IndInv', NEW c \in Consumers, PromoteStep(c), NoSilentLoss,
         "ZADD" \notin Faults
  PROVE  NoSilentLoss'
<1> USE Bounds
<1>0. TypeOK
  BY DEF IndInv
<1>1. /\ UNCHANGED <<groupVars, dlq, settled, accepted>>
      /\ dropped \subseteq dropped'
      /\ \A d \in Consumers \ {c} : msg'[d] = msg[d] /\ hand'[d] = hand[d]
  <2>1. CASE \E s \in SUBSET retry : BeginPromote(c, s)
    BY <2>1 DEF BeginPromote
  <2>2. CASE \E m \in due[c] : ZRem(c, m) \/ ZRemFail(c, m)
    BY <1>0, <2>2 DEF ZRem, ZRemFail, TypeOK
  <2>3. CASE RePost(c)
    BY <1>0, <2>3, ForgetEffect DEF RePost
  <2>4. CASE RePostFail(c)
    BY <2>4 DEF RePostFail
  <2>5. CASE UnPost(c)
    BY <1>0, <2>5, ForgetEffect DEF UnPost
  <2> QED
    BY <2>1, <2>2, <2>3, <2>4, <2>5 DEF PromoteStep
<1>2. \E label \in {"zrem", "repost", "unpost", "promoted"} : Goto(c, label)
  BY DEF PromoteStep, BeginPromote, ZRem, ZRemFail, PromoteOn, RePost, RePostFail, UnPost
<1>3. /\ AckPending' \subseteq AckPending
      /\ \A d \in Holding : d # c => d \in Holding'
  BY <1>0, <1>1, <1>2, ConsumerMoves
<1>4. /\ cut \subseteq cut'
      /\ \A i \in Live : (i \in Live' /\ log'[i] = log[i]) \/ log[i].task \in cut'
  <2>1. CASE UNCHANGED streamVars
    BY <1>1, <1>3, <2>1 DEF Live, Unfinished
  <2>2. CASE XAdd(hand[c].job)
    <3>1. hand[c].job \in Job
      BY <1>0 DEF TypeOK, Member
    <3>2. \A i \in AckPending' : i <= lastDelivered
      BY <1>1, AckPendingBound
    <3> QED
      BY <1>1, <1>3, <2>2, <3>1, <3>2, XAddLive DEF Live
  <2> QED
    BY <2>1, <2>2 DEF PromoteStep, BeginPromote, ZRem, ZRemFail, RePost, RePostFail, UnPost
<1>5. \A u : (\E i \in Live : log[i].task = u) => Safe(u)'
  BY <1>4, SafeAfter
<1>6. \A u : (\E m \in retry : m.job.task = u) => Safe(u)'
  <2>1. \A m \in retry : \/ m \in retry' \/ (c \in Holding' /\ hand'[c] = m)
                          \/ m.job.task \in dropped'
    <3>1. CASE \E m \in due[c] : ZRem(c, m) \/ ZRemFail(c, m)
      <4>1. PICK m \in due[c] : ZRem(c, m) \/ ZRemFail(c, m)
        BY <3>1
      <4>2. CASE /\ retry' = retry \ {m} /\ hand' = [hand EXCEPT ![c] = m]
                 /\ Goto(c, "repost")
        <5>1. c \in Holding'
          BY <1>0, <1>1, <4>2, ConsumerMoves
        <5>2. hand'[c] = m
          BY <1>0, <4>2 DEF TypeOK
        <5> QED
          BY <4>2, <5>1, <5>2
      <4>3. CASE retry' = retry
        BY <4>3
      <4>4. CASE retry' = retry \ {m} /\ m.job.task \in dropped'
        BY <4>4
      <4> QED
        BY <4>1, <4>2, <4>3, <4>4 DEF ZRem, ZRemFail
    <3>2. CASE ~ \E m \in due[c] : ZRem(c, m) \/ ZRemFail(c, m)
      BY <3>2 DEF PromoteStep, BeginPromote, RePost, RePostFail, UnPost
    <3> QED
      BY <3>1, <3>2
  <2> QED
    BY <2>1, SafeAfter
<1>7. \A u : (\E d \in Holding : hand[d].job.task = u) => Safe(u)'
  <2>1. ASSUME NEW d \in Holding, d # c, NEW u, hand[d].job.task = u
        PROVE  Safe(u)'
    <3>1. d \in Holding' /\ hand'[d] = hand[d]
      BY <1>1, <1>3, <2>1 DEF Holding
    <3> QED
      BY <2>1, <3>1, SafeAfter
  <2>2. ASSUME c \in Holding, NEW u, hand[c].job.task = u
        PROVE  Safe(u)'
    <3>1. pc[c] \in {"repost", "unpost"}
      BY <2>2 DEF Holding
    <3>2. CASE RePost(c)
      <4>1. hand[c].job \in Job
        BY <1>0 DEF TypeOK, Member
      <4>2. \A i \in AckPending' : i <= lastDelivered
        BY <1>1, AckPendingBound
      <4>3. Len(log) + 1 \in Live' /\ log'[Len(log) + 1] = hand[c].job
        BY <1>1, <3>2, <4>1, <4>2, XAddLive DEF RePost
      <4> QED
        BY <2>2, <4>3, SafeAfter
    <3>3. CASE RePostFail(c)
      <4>1. c \in Holding' /\ hand'[c] = hand[c]
        BY <1>0, <1>1, <3>3, ConsumerMoves DEF RePostFail
      <4> QED
        BY <2>2, <4>1, SafeAfter
    <3>4. CASE UnPost(c)
      <4>1. hand[c] \in retry'
        BY <3>4 DEF UnPost
      <4> QED
        BY <2>2, <4>1, SafeAfter
    <3> QED
      BY <3>1, <3>2, <3>3, <3>4 DEF PromoteStep, BeginPromote, ZRem, ZRemFail
  <2> QED
    BY <2>1, <2>2
<1>8. \A t : Safe(t) => Safe(t)'
  BY <1>1, <1>4, <1>5, <1>6, <1>7, SafeStep
<1> QED
  BY <1>1, <1>8 DEF NoSilentLoss, Safe

\* Delivery, acknowledgement and the steps of nack: the job is stored in the
\* ZSET or in the dead letter stream before its message leaves the PEL.
LEMMA DeliverySafe ==
  ASSUME IndInv, IndInv', NEW c \in Consumers, NoSilentLoss,
         \/ XReadGroup(c) \/ Ack(c) \/ NackRead(c) \/ NackZAdd(c) \/ NackBury(c)
         \/ NackMissing(c) \/ NackAck(c) \/ ReAck(c) \/ ConsumerCrash(c)
  PROVE  NoSilentLoss'
<1> USE Bounds
<1>0. TypeOK /\ ConsumerInv
  BY DEF IndInv
<1>1. UNCHANGED <<streamVars, accepted>>
  BY DEF XReadGroup, Ack, NackRead, NackZAdd, NackBury, NackMissing, NackAck, ReAck,
         ConsumerCrash
<1>2. /\ retry \subseteq retry' /\ dlq \subseteq dlq'
      /\ settled \subseteq settled' /\ dropped \subseteq dropped'
  BY DEF XReadGroup, Ack, NackRead, NackZAdd, NackBury, NackMissing, NackAck, ReAck,
         ConsumerCrash
<1>3. \A d \in Consumers \ {c} : msg'[d] = msg[d] /\ hand'[d] = hand[d]
  <2>1. CASE Ack(c) \/ NackAck(c) \/ ReAck(c) \/ ConsumerCrash(c)
    BY <1>0, <2>1, ForgetEffect DEF Ack, NackAck, ReAck, ConsumerCrash
  <2>2. CASE XReadGroup(c)
    BY <1>0, <2>2 DEF XReadGroup, TypeOK
  <2>3. CASE NackRead(c)
    BY <1>0, <2>3 DEF NackRead, TypeOK
  <2>4. CASE NackZAdd(c) \/ NackBury(c) \/ NackMissing(c)
    BY <2>4 DEF NackZAdd, NackBury, NackMissing
  <2> QED
    BY <2>1, <2>2, <2>3, <2>4
<1>4. \E label \in ConsumerPC : Goto(c, label)
  BY DEF XReadGroup, Ack, NackRead, NackZAdd, NackBury, NackMissing, NackAck, ReAck,
         ConsumerCrash
<1>5. \A d \in Holding : d # c => (d \in Holding' /\ hand'[d] = hand[d])
  BY <1>0, <1>3, <1>4, ConsumerMoves DEF Holding
<1>6. \A u : (\E m \in retry : m.job.task = u) => Safe(u)'
  BY <1>2, SafeAfter
<1>7. \A u : (\E d \in Holding : hand[d].job.task = u) => Safe(u)'
  <2>1. c \in Holding => hand[c].job.task \in dropped'
    BY DEF Holding, XReadGroup, Ack, NackRead, NackZAdd, NackBury, NackMissing, NackAck,
           ReAck, ConsumerCrash
  <2> QED
    BY <1>5, <2>1, SafeAfter
<1>8. \A u : (\E i \in Live : log[i].task = u) => Safe(u)'
  <2>1. CASE NackZAdd(c) \/ NackBury(c)
    <3>1. /\ msg' = msg /\ UNCHANGED groupVars
          /\ Goto(c, "ack")
          /\ hand[c].job.task = log[msg[c]].task
      BY <1>0, <2>1 DEF NackZAdd, NackBury, ConsumerInv
    <3>2. AckPending' \subseteq AckPending \cup {msg[c]}
      BY <1>0, <3>1, ConsumerMoves
    <3>3. \A i \in Live : i \in Live' \/ i = msg[c]
      BY <1>1, <3>1, <3>2 DEF Live, Unfinished
    <3>4. \A u : u = log[msg[c]].task => Safe(u)'
      BY <2>1, <3>1, SafeAfter DEF NackZAdd, NackBury
    <3> QED
      BY <1>1, <3>3, <3>4, SafeAfter
  <2>2. CASE NackMissing(c)
    <3>1. msg' = msg /\ UNCHANGED groupVars /\ Goto(c, "ack") /\ msg[c] \notin present
      BY <1>0, <2>2 DEF NackMissing, ConsumerInv
    <3>2. AckPending' \subseteq AckPending \cup {msg[c]}
      BY <1>0, <3>1, ConsumerMoves
    <3>3. \A i \in Live : i \in Live'
      BY <1>1, <3>1, <3>2 DEF Live, Unfinished
    <3> QED
      BY <1>1, <3>3, SafeAfter
  <2>3. CASE NackAck(c) \/ ReAck(c)
    <3>1. /\ msg[c] \in AckPending /\ pel' = pel \ {msg[c]}
          /\ lastDelivered' = lastDelivered
          /\ Goto(c, "idle") \/ Goto(c, "reclaim")
      BY <2>3 DEF NackAck, ReAck, AckPending
    <3>2. AckPending' \subseteq AckPending
      BY <1>0, <1>3, <3>1, ConsumerMoves
    <3>3. \A i \in Live : i \in Live'
      BY <1>1, <3>1, <3>2 DEF Live, Unfinished
    <3> QED
      BY <1>1, <3>3, SafeAfter
  <2>4. CASE Ack(c)
    <3>1. /\ log[msg[c]].task \in settled' /\ pel' = pel \ {msg[c]}
          /\ lastDelivered' = lastDelivered /\ Goto(c, "idle")
      BY <2>4 DEF Ack
    <3>2. AckPending' \subseteq AckPending
      BY <1>0, <1>3, <3>1, ConsumerMoves
    <3>3. \A i \in Live : i \in Live' \/ i = msg[c]
      BY <1>1, <3>1, <3>2 DEF Live, Unfinished
    <3> QED
      BY <1>1, <3>1, <3>3, SafeAfter
  <2>5. CASE NackRead(c) \/ ConsumerCrash(c)
    <3>1. /\ UNCHANGED groupVars
          /\ \E label \in ConsumerPC \ {"ack", "reack"} : Goto(c, label)
      BY <2>5 DEF NackRead, ConsumerCrash
    <3>2. AckPending' \subseteq AckPending
      BY <1>0, <1>3, <3>1, ConsumerMoves
    <3>3. \A i \in Live : i \in Live'
      BY <1>1, <3>1, <3>2 DEF Live, Unfinished
    <3> QED
      BY <1>1, <3>3, SafeAfter
  <2>6. CASE XReadGroup(c)
    <3>1. Goto(c, "idle") \/ Goto(c, "run")
      BY <2>6 DEF XReadGroup
    <3>2. AckPending' \subseteq AckPending
      BY <1>0, <1>3, <3>1, ConsumerMoves
    <3>3. \A i \in present : Unfinished(i) => Unfinished(i)'
      <4>1. lastDelivered \in Nat /\ present \subseteq Nat
        BY <1>0 DEF TypeOK
      <4>2. CASE UNCHANGED groupVars
        BY <4>2 DEF Unfinished
      <4>3. ASSUME NEW i \in present, i > lastDelivered, lastDelivered' = i,
                   \A k \in present : k < i => k <= lastDelivered, pel' = pel \cup {i}
            PROVE  <3>3!:
        BY <4>1, <4>3 DEF Unfinished
      <4> QED
        BY <2>6, <4>2, <4>3 DEF XReadGroup
    <3>4. \A i \in Live : i \in Live'
      BY <1>1, <3>2, <3>3 DEF Live
    <3> QED
      BY <1>1, <3>4, SafeAfter
  <2> QED
    BY <2>1, <2>2, <2>3, <2>4, <2>5, <2>6
<1>9. \A t : Safe(t) => Safe(t)'
  BY <1>1, <1>2, <1>6, <1>7, <1>8, SafeStep
<1> QED
  BY <1>1, <1>9 DEF NoSilentLoss, Safe

\* Recover: XAUTOCLAIM forgets only pending ids whose entry is gone, and the
\* copy is in the stream before the original leaves the PEL.
LEMMA RecoverSafe ==
  ASSUME IndInv, IndInv', NEW c \in Consumers, NoSilentLoss, XAutoClaim(c) \/ ReQueue(c)
  PROVE  NoSilentLoss'
<1> USE Bounds
<1>0. TypeOK /\ ConsumerInv
  BY DEF IndInv
<1>1. /\ UNCHANGED <<storeVars, ghostVars, hand>>
      /\ \A d \in Consumers \ {c} : msg'[d] = msg[d]
  BY <1>0 DEF XAutoClaim, ReQueue, TypeOK
<1>2. \A d \in Holding : d \in Holding'
  <2>1. c \notin Holding
    BY DEF Holding, XAutoClaim, ReQueue
  <2>2. \E label \in ConsumerPC : Goto(c, label)
    BY DEF XAutoClaim, ReQueue
  <2> QED
    BY <1>0, <1>1, <2>1, <2>2, ConsumerMoves
<1>3. \A u : (\E m \in retry : m.job.task = u) => Safe(u)'
  BY <1>1, SafeAfter
<1>4. \A u : (\E d \in Holding : hand[d].job.task = u) => Safe(u)'
  BY <1>1, <1>2, SafeAfter
<1>5. cut \subseteq cut' /\ \A u : (\E i \in Live : log[i].task = u) => Safe(u)'
  <2>1. CASE XAutoClaim(c)
    <3>1. /\ pel' = pel \ (Claimable \ present)
          /\ UNCHANGED <<streamVars, lastDelivered>>
          /\ Goto(c, "idle") \/ Goto(c, "reclaim")
      BY <2>1 DEF XAutoClaim
    <3>2. AckPending' \subseteq AckPending
      BY <1>0, <1>1, <3>1, ConsumerMoves
    <3>3. \A i \in Live : i \in Live'
      BY <3>1, <3>2 DEF Live, Unfinished
    <3> QED
      BY <3>1, <3>3, SafeAfter
  <2>2. CASE ReQueue(c)
    <3>1. PICK i \in claimed[c] : XAdd(log[i]) /\ msg' = [msg EXCEPT ![c] = i]
      BY <2>2 DEF ReQueue
    <3>2. UNCHANGED groupVars /\ Goto(c, "reack")
      BY <2>2 DEF ReQueue
    <3>3. i \in 1..Len(log) /\ msg'[c] = i
      BY <1>0, <3>1 DEF ConsumerInv, TypeOK
    <3>4. log[i] \in Job
      BY <1>0, <3>3 DEF TypeOK
    <3>5. AckPending' \subseteq AckPending \cup {i}
      BY <1>0, <1>1, <3>2, <3>3, ConsumerMoves
    <3>6. \A k \in AckPending' : k <= lastDelivered
      BY <3>2, AckPendingBound
    <3>7. /\ \A k \in Live : k # i => \/ k \in Live' /\ log'[k] = log[k]
                                     \/ log[k].task \in cut'
          /\ Len(log) + 1 \in Live' /\ log'[Len(log) + 1] = log[i]
          /\ cut \subseteq cut'
      BY <3>1, <3>2, <3>4, <3>5, <3>6, XAddLive DEF Live
    <3>8. \A u : u = log[i].task => Safe(u)'
      BY <3>7, SafeAfter
    <3> QED
      BY <3>7, <3>8, SafeAfter
  <2> QED
    BY <2>1, <2>2
<1>6. \A t : Safe(t) => Safe(t)'
  BY <1>1, <1>3, <1>4, <1>5, SafeStep
<1> QED
  BY <1>1, <1>6 DEF NoSilentLoss, Safe

\* TrimConsumed removes no live entry.
LEMMA MaintainerSafe ==
  ASSUME IndInv, NEW m \in Maintainers, MaintainerStep(m), NoSilentLoss,
         "XPENDING" \notin Faults
  PROVE  NoSilentLoss'
<1> USE Bounds
<1>0. TypeOK /\ MaintainerInv
  BY DEF IndInv
<1>1. /\ UNCHANGED <<log, cut, groupVars, storeVars, ghostVars, msg, hand>>
      /\ \A c \in Consumers : pc'[c] = pc[c]
  BY <1>0 DEF MaintainerStep, TrimInfo, TrimPending, XTrimMinID, MaintainerCrash, Goto,
              TypeOK
<1>2. AckPending' = AckPending /\ Holding' = Holding
  BY <1>1 DEF AckPending, Holding
<1>3. \A i \in Live : i \in present'
  <2>1. CASE XTrimMinID(m)
    <3>1. /\ pc[m] = "trim" /\ mark[m] <= lastDelivered + 1
          /\ \A k \in pel : mark[m] <= k
      BY <1>0, <2>1 DEF XTrimMinID, MaintainerInv
    <3>2. mark[m] \in Nat /\ lastDelivered \in Nat /\ present \subseteq Nat
      BY <1>0 DEF TypeOK
    <3> QED
      BY <2>1, <3>1, <3>2 DEF XTrimMinID, Live, Unfinished
  <2>2. CASE ~ XTrimMinID(m)
    BY <2>2 DEF MaintainerStep, TrimInfo, TrimPending, MaintainerCrash, Live
  <2> QED
    BY <2>1, <2>2
<1>4. \A i \in Live : i \in Live'
  BY <1>1, <1>2, <1>3 DEF Live, Unfinished
<1>5. /\ \A u : (\E i \in Live : log[i].task = u) => Safe(u)'
      /\ \A u : (\E k \in retry : k.job.task = u) => Safe(u)'
      /\ \A u : (\E c \in Holding : hand[c].job.task = u) => Safe(u)'
  BY <1>1, <1>2, <1>4, SafeAfter
<1>6. \A t : Safe(t) => Safe(t)'
  BY <1>1, <1>5, SafeStep
<1> QED
  BY <1>1, <1>6 DEF NoSilentLoss, Safe

\* No accepted task is lost silently, for any number of clients, messages,
\* crashes, failed or half-failed commands, as long as XPENDING answers and the ZADD
\* that puts a retry back does not fail: it is settled, kept, or one of the two
\* recorded exceptions (an entry cut off by MAXLEN, a promotion that ended between
\* ZREM and XADD with its process or with the reply of ZREM).
THEOREM NothingLostSilently ==
  ASSUME "XPENDING" \notin Faults, "ZADD" \notin Faults
  PROVE  Spec => []NoSilentLoss
<1>1. IndInv /\ [Next]_vars => IndInv'
  BY NextIndInv
<1>2. Init => NoSilentLoss
  BY DEF Init, NoSilentLoss
<1>3. ASSUME IndInv, IndInv', NoSilentLoss, [Next]_vars
      PROVE  NoSilentLoss'
  <2>1. CASE \E p \in Producers : ProducerStep(p)
    BY <1>3, <2>1, ProducerSafe
  <2>2. CASE \E c \in Consumers : ConsumerStep(c)
    BY <1>3, <2>2, PromoteSafe, DeliverySafe, RecoverSafe DEF ConsumerStep
  <2>3. CASE \E m \in Maintainers : MaintainerStep(m)
    BY <1>3, <2>3, MaintainerSafe
  <2>4. CASE UNCHANGED vars
    <3>1. \A t : Safe(t) => Safe(t)'
      BY <2>4 DEF vars, Safe, Kept, AckPending, Unfinished
    <3> QED
      BY <1>3, <2>4, <3>1 DEF vars, NoSilentLoss, Safe
  <2> QED
    BY <1>3, <2>1, <2>2, <2>3, <2>4 DEF Next
<1> QED
  BY <1>1, <1>2, <1>3, InitIndInv, PTL DEF Spec

-----------------------------------------------------------------------------
(* A consumer has its message to itself. *)

\* The messages a live consumer works on or has claimed.
Uses(c) ==
    {i \in Nat : \/ /\ pc[c] \in {"run", "zadd", "bury", "missing", "ack", "reack"}
                    /\ i = msg[c]
                 \/ pc[c] \in {"reclaim", "reack"} /\ i \in claimed[c]}

\* What a consumer uses is pending and its own; the message it is about to
\* acknowledge in Recover is no longer among the claimed ones.
UseInv ==
    /\ \A c \in Consumers : Uses(c) \subseteq pel
    /\ \A c, d \in Consumers : c # d => Uses(c) \cap Uses(d) = {}
    /\ \A c \in Consumers : pc[c] = "reack" => msg[c] \notin claimed[c]

\* A pending message has lost its entry only to MAXLEN.
PelInv == \A i \in pel \ present : log[i].task \in cut

\* A step of one consumer keeps UseInv when what it comes to use is pending and
\* used by nobody else, and what others use stays pending.
LEMMA UseStep ==
  ASSUME UseInv, NEW c \in Consumers,
         \A d \in Consumers \ {c} : Uses(d)' = Uses(d) /\ Uses(d) \subseteq pel'
                                      /\ pc'[d] = pc[d] /\ msg'[d] = msg[d]
                                      /\ claimed'[d] = claimed[d],
         Uses(c)' \subseteq pel',
         \A d \in Consumers \ {c} : Uses(c)' \cap Uses(d) = {},
         pc'[c] = "reack" => msg'[c] \notin claimed'[c]
  PROVE  UseInv'
<1>1. \A d \in Consumers : Uses(d)' \subseteq pel'
  OBVIOUS
<1>2. ASSUME NEW d \in Consumers, NEW e \in Consumers, d # e
      PROVE  Uses(d)' \cap Uses(e)' = {}
  BY <1>2 DEF UseInv
<1>3. \A d \in Consumers : pc'[d] = "reack" => msg'[d] \notin claimed'[d]
  BY DEF UseInv
<1> QED
  BY <1>1, <1>2, <1>3 DEF UseInv

\* What is in use, said consumer by consumer.
LEMMA InUseIs ==
  ASSUME TypeOK
  PROVE  \A d \in Consumers : Uses(d) \subseteq InUse
<1>1. SUFFICES ASSUME NEW d \in Consumers, NEW i \in Uses(d) PROVE i \in InUse
  OBVIOUS
<1>2. CASE /\ pc[d] \in {"run", "zadd", "bury", "missing", "ack", "reack"}
           /\ i = msg[d]
  BY <1>2 DEF InUse
<1>3. CASE pc[d] \in {"reclaim", "reack"} /\ i \in claimed[d]
  BY <1>3 DEF InUse
<1> QED
  BY <1>1, <1>2, <1>3 DEF Uses

\* The other consumers do not notice a step of c that leaves their locals alone.
LEMMA UsesOfOthers ==
  ASSUME NEW c \in Consumers,
         \A d \in Consumers \ {c} : /\ pc'[d] = pc[d] /\ msg'[d] = msg[d]
                                    /\ claimed'[d] = claimed[d]
  PROVE  \A d \in Consumers \ {c} : Uses(d)' = Uses(d)
BY DEF Uses

\* Locals of the consumer that moves.
LEMMA LocalsOfOthers ==
  ASSUME TypeOK, NEW c \in Consumers, ConsumerStep(c)
  PROVE  \A d \in Consumers \ {c} : /\ pc'[d] = pc[d] /\ msg'[d] = msg[d]
                                    /\ claimed'[d] = claimed[d]
<1>1. \A d \in Consumers \ {c} : pc'[d] = pc[d]
  BY DEF TypeOK, ConsumerStep, PromoteStep, BeginPromote, ZRem, ZRemFail, PromoteOn, RePost,
         RePostFail, UnPost, XReadGroup, Ack, NackRead, NackZAdd, NackBury, NackMissing,
         NackAck, XAutoClaim, ReQueue, ReAck, ConsumerCrash, Goto
<1>2. \A d \in Consumers \ {c} : msg'[d] = msg[d]
  BY DEF TypeOK, ConsumerStep, PromoteStep, BeginPromote, ZRem, ZRemFail, PromoteOn, RePost,
         RePostFail, UnPost, XReadGroup, Ack, NackRead, NackZAdd, NackBury, NackMissing,
         NackAck, XAutoClaim, ReQueue, ReAck, ConsumerCrash, Forget
<1>3. \A d \in Consumers \ {c} : claimed'[d] = claimed[d]
  BY DEF TypeOK, ConsumerStep, PromoteStep, BeginPromote, ZRem, ZRemFail, PromoteOn, RePost,
         RePostFail, UnPost, XReadGroup, Ack, NackRead, NackZAdd, NackBury, NackMissing,
         NackAck, XAutoClaim, ReQueue, ReAck, ConsumerCrash
<1> QED
  BY <1>1, <1>2, <1>3

\* A step that only narrows what the consumer uses.
LEMMA UseShrinks ==
  ASSUME TypeOK, UseInv, NEW c \in Consumers, ConsumerStep(c),
         Uses(c)' \subseteq Uses(c), pel \ pel' \subseteq Uses(c) \ Uses(c)',
         pc'[c] = "reack" => msg'[c] \notin claimed'[c]
  PROVE  UseInv'
<1>1. \A d \in Consumers \ {c} : /\ pc'[d] = pc[d] /\ msg'[d] = msg[d]
                                 /\ claimed'[d] = claimed[d]
  BY LocalsOfOthers
<1>2. \A d \in Consumers \ {c} : Uses(d)' = Uses(d)
  BY <1>1, UsesOfOthers
<1>3. \A d \in Consumers \ {c} : Uses(d) \subseteq pel /\ Uses(d) \cap Uses(c) = {}
  BY DEF UseInv
<1>4. Uses(c) \subseteq pel
  BY DEF UseInv
<1> QED
  BY <1>1, <1>2, <1>3, <1>4, UseStep

\* Nack, the acknowledgements, the promotion and a crash only narrow it.
LEMMA WorkKeepsUse ==
  ASSUME IndInv, UseInv, NEW c \in Consumers,
         \/ PromoteStep(c) \/ Ack(c) \/ NackRead(c) \/ NackZAdd(c) \/ NackBury(c)
         \/ NackMissing(c) \/ NackAck(c) \/ ReQueue(c) \/ ReAck(c) \/ ConsumerCrash(c)
  PROVE  UseInv'
<1>0. TypeOK /\ ConsumerInv
  BY DEF IndInv
<1>a. pc[c] \in ProducerPC \cup ConsumerPC \cup MaintainerPC /\ msg[c] \in Nat
        /\ claimed[c] \subseteq Nat
  BY <1>0 DEF TypeOK
<1>1. CASE PromoteStep(c)
  <2>1. pc'[c] \in {"zrem", "repost", "unpost", "promoted"} /\ pel' = pel
    BY <1>0, <1>1 DEF TypeOK, PromoteStep, BeginPromote, ZRem, ZRemFail, PromoteOn, RePost,
       RePostFail, UnPost, Goto
  <2>2. Uses(c)' = {}
    BY <2>1 DEF Uses
  <2> QED
    BY <1>0, <1>1, <2>1, <2>2, UseShrinks DEF ConsumerStep
<1>2. CASE Ack(c) \/ NackAck(c)
  <2>1. pc'[c] = "idle" /\ pel' = pel \ {msg[c]} /\ pc[c] \in {"run", "ack"}
    BY <1>0, <1>2 DEF TypeOK, Ack, NackAck, Goto
  <2>2. Uses(c)' = {} /\ msg[c] \in Uses(c)
    BY <1>a, <2>1 DEF Uses
  <2> QED
    BY <1>0, <1>2, <2>1, <2>2, UseShrinks DEF ConsumerStep
<1>3. CASE NackRead(c) \/ NackZAdd(c) \/ NackBury(c) \/ NackMissing(c)
  <2>1. /\ pc[c] \in {"run", "zadd", "bury", "missing"}
        /\ pc'[c] \in {"zadd", "bury", "missing", "ack"}
        /\ UNCHANGED <<msg, claimed, pel>>
    BY <1>0, <1>3 DEF TypeOK, NackRead, NackZAdd, NackBury, NackMissing, Goto
  <2>2. Uses(c)' \subseteq Uses(c)
    BY <2>1 DEF Uses
  <2> QED
    BY <1>0, <1>3, <2>1, <2>2, UseShrinks DEF ConsumerStep
<1>4. CASE ReQueue(c)
  <2>1. PICK i \in claimed[c] : /\ msg' = [msg EXCEPT ![c] = i]
                               /\ claimed' = [claimed EXCEPT ![c] = @ \ {i}]
    BY <1>4 DEF ReQueue
  <2>2. pc[c] = "reclaim" /\ pc'[c] = "reack" /\ pel' = pel
    BY <1>0, <1>4 DEF TypeOK, ReQueue, Goto
  <2>3. msg'[c] = i /\ claimed'[c] = claimed[c] \ {i}
    BY <1>0, <2>1 DEF TypeOK
  <2>4. Uses(c)' \subseteq Uses(c)
    BY <2>1, <2>2, <2>3 DEF Uses
  <2> QED
    BY <1>0, <1>4, <2>2, <2>3, <2>4, UseShrinks DEF ConsumerStep
<1>5. CASE ReAck(c)
  <2>1. /\ pc[c] = "reack" /\ pc'[c] \in {"idle", "reclaim"}
        /\ pel' = pel \ {msg[c]} /\ claimed' = claimed
    BY <1>0, <1>5 DEF TypeOK, ReAck, Goto
  <2>2. msg[c] \notin claimed[c] /\ msg[c] \in Uses(c)
    BY <1>a, <2>1 DEF UseInv, Uses
  <2>3. Uses(c)' \subseteq Uses(c) \ {msg[c]}
    BY <2>1, <2>2 DEF Uses
  <2> QED
    BY <1>0, <1>5, <2>1, <2>2, <2>3, UseShrinks DEF ConsumerStep
<1>6. CASE ConsumerCrash(c)
  <2>1. pc'[c] = "idle" /\ pel' = pel
    BY <1>0, <1>6 DEF TypeOK, ConsumerCrash, Goto
  <2>2. Uses(c)' = {}
    BY <2>1 DEF Uses
  <2> QED
    BY <1>0, <1>6, <2>1, <2>2, UseShrinks DEF ConsumerStep
<1> QED
  BY <1>1, <1>2, <1>3, <1>4, <1>5, <1>6

\* A fresh delivery is used by nobody, because it was not pending.
LEMMA DeliveryKeepsUse ==
  ASSUME IndInv, UseInv, NEW c \in Consumers, XReadGroup(c)
  PROVE  UseInv'
<1>0. TypeOK
  BY DEF IndInv
<1>1. \A d \in Consumers \ {c} : /\ pc'[d] = pc[d] /\ msg'[d] = msg[d]
                                 /\ claimed'[d] = claimed[d]
  BY <1>0, LocalsOfOthers DEF ConsumerStep
<1>2. \A d \in Consumers \ {c} : Uses(d)' = Uses(d)
  BY <1>1, UsesOfOthers
<1>3. CASE Goto(c, "idle") /\ UNCHANGED <<groupVars, msg>>
  <2>1. pc'[c] = "idle" /\ pel' = pel
    BY <1>0, <1>3 DEF TypeOK, Goto
  <2>2. Uses(c)' = {}
    BY <2>1 DEF Uses
  <2> QED
    BY <1>1, <1>2, <2>1, <2>2, UseStep DEF UseInv
<1>4. ASSUME NEW i \in present, i > lastDelivered, pel' = pel \cup {i},
             msg' = [msg EXCEPT ![c] = i], Goto(c, "run")
      PROVE  UseInv'
  <2>1. i \notin pel
    BY <1>0, <1>4 DEF TypeOK
  <2>2. pc'[c] = "run" /\ msg'[c] = i
    BY <1>0, <1>4 DEF TypeOK, Goto
  <2>3. Uses(c)' \subseteq {i}
    BY <2>2 DEF Uses
  <2>4. \A d \in Consumers \ {c} : Uses(d) \subseteq pel
    BY DEF UseInv
  <2> QED
    BY <1>1, <1>2, <1>4, <2>1, <2>2, <2>3, <2>4, UseStep
<1> QED
  BY <1>3, <1>4 DEF XReadGroup

\* With a claim threshold above the longest execution, XAUTOCLAIM takes only
\* what nobody uses.
LEMMA ClaimKeepsUse ==
  ASSUME IndInv, UseInv, NEW c \in Consumers, XAutoClaim(c), LongIdle
  PROVE  UseInv'
<1>0. TypeOK
  BY DEF IndInv
<1>1. \A d \in Consumers \ {c} : /\ pc'[d] = pc[d] /\ msg'[d] = msg[d]
                                 /\ claimed'[d] = claimed[d]
  BY <1>0, LocalsOfOthers DEF ConsumerStep
<1>2. \A d \in Consumers \ {c} : Uses(d)' = Uses(d)
  BY <1>1, UsesOfOthers
<1>3. Claimable = pel \ InUse
  BY DEF Claimable
<1>4. /\ pel' = pel \ (Claimable \ present)
      /\ pc'[c] \in {"idle", "reclaim"}
      /\ claimed'[c] = Claimable \cap present
  BY <1>0 DEF TypeOK, XAutoClaim, Goto
<1>5. Uses(c)' \subseteq Claimable \cap present
  BY <1>4 DEF Uses
<1>6. \A d \in Consumers \ {c} : Uses(d) \subseteq pel /\ Uses(d) \subseteq InUse
  BY <1>0, InUseIs DEF UseInv
<1>7. \A d \in Consumers \ {c} : Uses(d) \subseteq pel' /\ Uses(c)' \cap Uses(d) = {}
  BY <1>3, <1>4, <1>5, <1>6
<1>8. Uses(c)' \subseteq pel'
  BY <1>3, <1>4, <1>5
<1> QED
  BY <1>1, <1>2, <1>4, <1>7, <1>8, UseStep

\* Every step keeps UseInv.
LEMMA NextUseInv ==
  ASSUME IndInv, UseInv, [Next]_vars, LongIdle
  PROVE  UseInv'
<1>0. TypeOK
  BY DEF IndInv
<1>1. ASSUME \A d \in Consumers : pc'[d] = pc[d], UNCHANGED <<msg, claimed, pel>>
      PROVE  UseInv'
  <2>1. \A d \in Consumers : Uses(d)' = Uses(d)
    BY <1>1 DEF Uses
  <2> QED
    BY <1>1, <2>1 DEF UseInv
<1>2. CASE \E p \in Producers : ProducerStep(p)
  BY <1>0, <1>1, <1>2, QueueAssumption
     DEF ProducerStep, Admit, EnqueueAdd, EnqueueFail, ProducerCrash, Return, Goto, TypeOK
<1>3. CASE \E m \in Maintainers : MaintainerStep(m)
  BY <1>0, <1>1, <1>3, QueueAssumption
     DEF MaintainerStep, TrimInfo, TrimPending, XTrimMinID, MaintainerCrash, Goto, TypeOK
<1>4. CASE UNCHANGED vars
  BY <1>1, <1>4 DEF vars
<1>5. CASE \E c \in Consumers : ConsumerStep(c)
  BY <1>5, WorkKeepsUse, DeliveryKeepsUse, ClaimKeepsUse DEF ConsumerStep
<1> QED
  BY <1>2, <1>3, <1>4, <1>5 DEF Next

\* An XADD records what it cuts off.
LEMMA XAddKeepsPel ==
  ASSUME IndInv, PelInv, NEW job \in Job, XAdd(job), UNCHANGED pel
  PROVE  PelInv'
<1>0. TypeOK
  BY DEF IndInv
<1>1. /\ \A i \in 1..Len(log) : log'[i] = log[i]
      /\ cut \subseteq cut'
      /\ \A i \in present \ present' : Unfinished(i) => log[i].task \in cut'
  BY <1>0, XAddEffect
<1>2. pel \subseteq 1..Len(log)
  BY <1>0 DEF TypeOK
<1> QED
  BY <1>1, <1>2 DEF PelInv, Unfinished

\* Every step keeps PelInv: TrimConsumed stays below everything pending, and a
\* delivered entry is there when it is delivered.
LEMMA NextPelInv ==
  ASSUME IndInv, PelInv, [Next]_vars, "XPENDING" \notin Faults
  PROVE  PelInv'
<1>0. TypeOK /\ ConsumerInv /\ MaintainerInv
  BY DEF IndInv
<1>1. ASSUME UNCHANGED streamVars, pel' \subseteq pel
      PROVE  PelInv'
  BY <1>1 DEF PelInv
<1>2. ASSUME NEW p \in Producers, ProducerStep(p)
      PROVE  PelInv'
  <2>1. [task |-> submit[p], attempt |-> 0] \in Job
    BY <1>0, QueueAssumption DEF TypeOK, Job
  <2>2. UNCHANGED pel
    BY <1>2 DEF ProducerStep, Admit, EnqueueAdd, EnqueueFail, ProducerCrash, Return
  <2> QED
    BY <1>1, <1>2, <2>1, <2>2, XAddKeepsPel
       DEF ProducerStep, Admit, EnqueueAdd, EnqueueFail, ProducerCrash, Return
<1>3. ASSUME NEW c \in Consumers, ConsumerStep(c)
      PROVE  PelInv'
  <2>1. CASE RePost(c) \/ RePostFail(c)
    <3>1. hand[c].job \in Job
      BY <1>0 DEF TypeOK, Member
    <3>2. UNCHANGED pel
      BY <2>1 DEF RePost, RePostFail
    <3> QED
      BY <1>1, <2>1, <3>1, <3>2, XAddKeepsPel DEF RePost, RePostFail
  <2>2. CASE ReQueue(c)
    <3>1. \A i \in claimed[c] : log[i] \in Job
      <4>1. \A i \in claimed[c] : i \in 1..Len(log)
        BY <1>0 DEF ConsumerInv, TypeOK
      <4> QED
        BY <1>0, <4>1 DEF TypeOK
    <3>2. UNCHANGED pel
      BY <2>2 DEF ReQueue
    <3> QED
      BY <2>2, <3>1, <3>2, XAddKeepsPel DEF ReQueue
  <2>3. CASE XReadGroup(c)
    BY <2>3 DEF XReadGroup, PelInv
  <2>4. CASE \/ PromoteStep(c) /\ ~ RePost(c) /\ ~ RePostFail(c)
             \/ Ack(c) \/ NackRead(c) \/ NackZAdd(c) \/ NackBury(c) \/ NackMissing(c)
             \/ NackAck(c) \/ XAutoClaim(c) \/ ReAck(c) \/ ConsumerCrash(c)
    BY <1>1, <2>4 DEF PromoteStep, BeginPromote, ZRem, ZRemFail, UnPost, Ack, NackRead, NackZAdd,
       NackBury, NackMissing, NackAck, XAutoClaim, ReAck, ConsumerCrash
  <2> QED
    BY <1>3, <2>1, <2>2, <2>3, <2>4 DEF ConsumerStep, PromoteStep
<1>4. ASSUME NEW m \in Maintainers, MaintainerStep(m)
      PROVE  PelInv'
  <2>1. CASE XTrimMinID(m)
    <3>1. \A i \in pel : mark[m] <= i
      BY <1>0, <2>1 DEF XTrimMinID, MaintainerInv
    <3>2. mark[m] \in Nat /\ pel \subseteq Nat
      BY <1>0 DEF TypeOK
    <3>3. \A i \in pel : i \in present => i \in present'
      BY <2>1, <3>1, <3>2 DEF XTrimMinID
    <3> QED
      BY <2>1, <3>3 DEF XTrimMinID, PelInv
  <2>2. CASE ~ XTrimMinID(m)
    BY <1>1, <1>4, <2>2 DEF MaintainerStep, TrimInfo, TrimPending, MaintainerCrash
  <2> QED
    BY <2>1, <2>2
<1>5. CASE UNCHANGED vars
  BY <1>1, <1>5 DEF vars
<1> QED
  BY <1>2, <1>3, <1>4, <1>5 DEF Next

\* A consumer has its message to itself, whatever other consumers, recoveries
\* and crashes do, and a message without a payload is MAXLEN's doing: as long as
\* recoverMinIdle exceeds the longest execution and XPENDING answers.
THEOREM Undisturbed ==
  ASSUME LongIdle, "XPENDING" \notin Faults
  PROVE  Spec => []WorkIsUndisturbed
<1>1. IndInv /\ [Next]_vars => IndInv'
  BY NextIndInv
<1>2. IndInv /\ UseInv /\ [Next]_vars => UseInv'
  BY NextUseInv
<1>3. IndInv /\ PelInv /\ [Next]_vars => PelInv'
  BY NextPelInv
<1>4. Init => UseInv /\ PelInv
  <2>1. Init => \A c \in Consumers : Uses(c) = {}
    BY DEF Init, Uses
  <2> QED
    BY <2>1 DEF Init, UseInv, PelInv
<1>5. IndInv /\ UseInv /\ PelInv => WorkIsUndisturbed
  <2> SUFFICES ASSUME IndInv, UseInv, PelInv PROVE WorkIsUndisturbed
    OBVIOUS
  <2>1. TypeOK /\ ConsumerInv
    BY DEF IndInv
  <2>2. ASSUME NEW c \in Consumers,
               pc[c] \in {"run", "zadd", "bury", "missing", "ack", "reack"}
        PROVE  msg[c] \in Uses(c)
    BY <2>1, <2>2 DEF Uses, TypeOK
  <2>3. OneConsumerPerMessage
    BY <2>2 DEF OneConsumerPerMessage, UseInv
  <2>4. MissingMeansCut
    BY <2>1, <2>2 DEF MissingMeansCut, UseInv, PelInv, ConsumerInv
  <2> QED
    BY <2>3, <2>4 DEF WorkIsUndisturbed
<1> QED
  BY <1>1, <1>2, <1>3, <1>4, <1>5, InitIndInv, PTL DEF Spec

-----------------------------------------------------------------------------
(* Back-pressure. *)

\* Tasks that already have an entry in the history of the stream.
Logged(t) == \E i \in Ids : log[i].task = t

\* Only work that was in the stream before waits for a retry or is re-posted.
RetryInv ==
    /\ \A m \in retry : Logged(m.job.task)
    /\ \A c \in Consumers : pc[c] \in {"repost", "unpost", "zadd"}
                              => Logged(hand[c].job.task)

\* Producers between the admission check and the XADD.
Adding == {p \in Producers : pc[p] = "add"}

\* Entries that passed the admission check, and those that are going to be
\* added, stay below the limit by less than one per producer.
FreshBound ==
    Cardinality(present \ Readded) + Cardinality(Adding)
      <= AdmitLimit - 1 + Cardinality(Producers)

\* The history only grows: what is logged or re-added stays so.
LEMMA HistoryGrows ==
  ASSUME TypeOK, NEW job \in Job, XAdd(job)
  PROVE  /\ \A t : Logged(t) => Logged(t)'
         /\ Readded \subseteq Readded'
         /\ Logged(job.task) => Len(log) + 1 \in Readded'
<1>1. /\ Len(log') = Len(log) + 1 /\ Len(log) \in Nat
      /\ \A i \in 1..Len(log) : log'[i] = log[i]
      /\ log'[Len(log) + 1] = job
  BY XAddEffect DEF TypeOK
<1>2. \A t : Logged(t) => Logged(t)'
  BY <1>1 DEF Logged
<1>3. Readded \subseteq Readded'
  BY <1>1 DEF Readded
<1>4. ASSUME Logged(job.task) PROVE Len(log) + 1 \in Readded'
  <2>1. PICK i \in 1..Len(log) : log[i].task = job.task
    BY <1>4 DEF Logged
  <2> QED
    BY <1>1, <2>1 DEF Readded
<1> QED
  BY <1>2, <1>3, <1>4

\* Only the three kinds of XADD change the stream's history.
LEMMA WhoAdds ==
  ASSUME IndInv, [Next]_vars
  PROVE  \/ log' = log /\ present' \subseteq present /\ cut' = cut
         \/ \E p \in Producers : /\ EnqueueAdd(p) \/ EnqueueFail(p)
                                 /\ XAdd([task |-> submit[p], attempt |-> 0])
         \/ \E c \in Consumers : /\ RePost(c) \/ RePostFail(c)
                                 /\ XAdd(hand[c].job)
         \/ \E c \in Consumers : ReQueue(c) /\ \E i \in claimed[c] : XAdd(log[i])
<1>1. ASSUME NEW p \in Producers, ProducerStep(p)
      PROVE  \/ log' = log /\ present' \subseteq present /\ cut' = cut
             \/ /\ EnqueueAdd(p) \/ EnqueueFail(p)
                /\ XAdd([task |-> submit[p], attempt |-> 0])
  BY <1>1 DEF ProducerStep, Admit, EnqueueAdd, EnqueueFail, ProducerCrash, Return
<1>2. ASSUME NEW c \in Consumers, ConsumerStep(c)
      PROVE  \/ log' = log /\ present' \subseteq present /\ cut' = cut
             \/ (RePost(c) \/ RePostFail(c)) /\ XAdd(hand[c].job)
             \/ ReQueue(c) /\ \E i \in claimed[c] : XAdd(log[i])
  <2>1. CASE RePost(c) \/ RePostFail(c)
    BY <2>1 DEF RePost, RePostFail
  <2>2. CASE ReQueue(c)
    BY <2>2 DEF ReQueue
  <2>3. CASE ~ (RePost(c) \/ RePostFail(c) \/ ReQueue(c))
    BY <1>2, <2>3 DEF ConsumerStep, PromoteStep, BeginPromote, ZRem, ZRemFail, UnPost, XReadGroup,
       Ack, NackRead, NackZAdd, NackBury, NackMissing, NackAck, XAutoClaim, ReAck,
       ConsumerCrash
  <2> QED
    BY <2>1, <2>2, <2>3
<1>3. ASSUME NEW m \in Maintainers, MaintainerStep(m)
      PROVE  log' = log /\ present' \subseteq present /\ cut' = cut
  BY <1>3 DEF MaintainerStep, TrimInfo, TrimPending, XTrimMinID, MaintainerCrash
<1>4. CASE UNCHANGED vars
  BY <1>4 DEF vars
<1> QED
  BY <1>1, <1>2, <1>3, <1>4 DEF Next

\* The jobs that are added have their type.
LEMMA AddedJobs ==
  ASSUME IndInv
  PROVE  /\ \A p \in Producers : [task |-> submit[p], attempt |-> 0] \in Job
         /\ \A c \in Consumers : hand[c].job \in Job
         /\ \A c \in Consumers : \A i \in claimed[c] : i \in Ids /\ log[i] \in Job
<1>0. TypeOK /\ ConsumerInv
  BY DEF IndInv
<1>1. \A p \in Producers : [task |-> submit[p], attempt |-> 0] \in Job
  BY <1>0, QueueAssumption DEF TypeOK, Job
<1>2. \A c \in Consumers : hand[c].job \in Job
  BY <1>0 DEF TypeOK, Member
<1>3. \A c \in Consumers : \A i \in claimed[c] : i \in Ids
  BY <1>0 DEF ConsumerInv, TypeOK
<1>4. \A i \in Ids : log[i] \in Job
  BY <1>0 DEF TypeOK
<1> QED
  BY <1>1, <1>2, <1>3, <1>4

\* The log never forgets a task, whoever moves.
LEMMA LoggedStays ==
  ASSUME IndInv, [Next]_vars
  PROVE  (\A t : Logged(t) => Logged(t)') /\ Readded \subseteq Readded'
<1>0. TypeOK
  BY DEF IndInv
<1>1. CASE log' = log
  BY <1>1 DEF Logged, Readded
<1>2. CASE \E job \in Job : XAdd(job)
  BY <1>0, <1>2, HistoryGrows
<1> QED
  BY <1>1, <1>2, WhoAdds, AddedJobs

\* Every step keeps RetryInv.
LEMMA NextRetryInv ==
  ASSUME IndInv, RetryInv, [Next]_vars
  PROVE  RetryInv'
<1>0. TypeOK /\ ConsumerInv
  BY DEF IndInv
<1>1. \A t : Logged(t) => Logged(t)'
  BY LoggedStays
<1>2. ASSUME UNCHANGED <<retry, hand>>, \A c \in Consumers : pc'[c] = pc[c]
      PROVE  RetryInv'
  BY <1>1, <1>2 DEF RetryInv
<1>3. ASSUME NEW p \in Producers, ProducerStep(p)
      PROVE  RetryInv'
  <2>1. UNCHANGED <<retry, hand>>
    BY <1>3 DEF ProducerStep, Admit, EnqueueAdd, EnqueueFail, ProducerCrash, Return
  <2>2. \A c \in Consumers : pc'[c] = pc[c]
    BY <1>0, <1>3, QueueAssumption
       DEF ProducerStep, Admit, EnqueueAdd, EnqueueFail, ProducerCrash, Return, Goto, TypeOK
  <2> QED
    BY <1>2, <2>1, <2>2
<1>4. ASSUME NEW m \in Maintainers, MaintainerStep(m)
      PROVE  RetryInv'
  <2>1. UNCHANGED <<retry, hand>>
    BY <1>4 DEF MaintainerStep, TrimInfo, TrimPending, XTrimMinID, MaintainerCrash
  <2>2. \A c \in Consumers : pc'[c] = pc[c]
    BY <1>0, <1>4, QueueAssumption DEF MaintainerStep, TrimInfo, TrimPending, XTrimMinID,
       MaintainerCrash, Goto, TypeOK
  <2> QED
    BY <1>2, <2>1, <2>2
<1>5. CASE UNCHANGED vars
  BY <1>2, <1>5 DEF vars
<1>6. ASSUME NEW c \in Consumers, ConsumerStep(c)
      PROVE  RetryInv'
  <2>1. \A d \in Consumers \ {c} : pc'[d] = pc[d]
    BY <1>0, <1>6, LocalsOfOthers
  <2>2. \A d \in Consumers \ {c} : hand'[d] = hand[d]
    BY <1>0, <1>6 DEF TypeOK, ConsumerStep, PromoteStep, BeginPromote, ZRem, ZRemFail, RePost,
       RePostFail, UnPost, XReadGroup, Ack, NackRead, NackZAdd, NackBury, NackMissing,
       NackAck, XAutoClaim, ReQueue, ReAck, ConsumerCrash, Forget
  <2>3. ASSUME \A m \in retry' : Logged(m.job.task),
               pc'[c] \in {"repost", "unpost", "zadd"} => Logged(hand'[c].job.task)
        PROVE  RetryInv'
    BY <1>1, <2>1, <2>2, <2>3 DEF RetryInv
  <2>4. CASE \E m \in due[c] : ZRem(c, m) \/ ZRemFail(c, m)
    <3>1. PICK m \in due[c] : ZRem(c, m) \/ ZRemFail(c, m)
      BY <2>4
    <3>2. CASE /\ m \in retry /\ retry' = retry \ {m}
               /\ hand' = [hand EXCEPT ![c] = m]
      <4>1. hand'[c] = m
        BY <1>0, <3>2 DEF TypeOK
      <4> QED
        BY <2>3, <3>2, <4>1 DEF RetryInv
    <3>3. CASE PromoteOn(c, due[c] \ {m}) /\ retry' \subseteq retry /\ UNCHANGED hand
      <4>1. pc'[c] \in {"promoted", "zrem"}
        BY <1>0, <3>3 DEF PromoteOn, Goto, TypeOK
      <4> QED
        BY <2>3, <3>3, <4>1 DEF RetryInv
    <3> QED
      BY <3>1, <3>2, <3>3 DEF ZRem, ZRemFail
  <2>5. CASE NackRead(c)
    <3>1. msg[c] \in Ids /\ log[msg[c]] \in Job
      BY <1>0, <2>5 DEF NackRead, ConsumerInv, TypeOK
    <3>2. Logged(log[msg[c]].task)
      BY <3>1 DEF Logged
    <3>3. ASSUME pc'[c] = "zadd"
          PROVE  \E m \in Member : m.job.task = log[msg[c]].task /\ hand'[c] = m
      <4>1. ASSUME NEW d \in DueStamps, NEW waiting \in BOOLEAN,
                   LET job == log[msg[c]]
                       n   == IF waiting THEN job.attempt ELSE job.attempt + 1
                   IN  /\ n <= MaxAttempt
                       /\ hand' = [hand EXCEPT ![c] =
                                     [job |-> [job EXCEPT !.attempt = n], due |-> d]]
            PROVE  \E m \in Member : m.job.task = log[msg[c]].task /\ hand'[c] = m
        <5> DEFINE n == IF waiting THEN log[msg[c]].attempt
                        ELSE log[msg[c]].attempt + 1
                   m == [job |-> [log[msg[c]] EXCEPT !.attempt = n], due |-> d]
        <5>1. n \in 0..MaxAttempt
          BY <3>1, <4>1, QueueAssumption DEF Job
        <5>2. m \in Member /\ m.job.task = log[msg[c]].task
          BY <3>1, <5>1 DEF Member, Job
        <5>3. hand'[c] = m
          BY <1>0, <4>1 DEF TypeOK
        <5> QED
          BY <5>2, <5>3
      <4>2. Goto(c, "missing") \/ Goto(c, "bury") => pc'[c] # "zadd"
        BY <1>0 DEF Goto, TypeOK
      <4> QED
        BY <2>5, <3>3, <4>1, <4>2 DEF NackRead
    <3>4. pc'[c] \in {"missing", "zadd", "bury"} /\ retry' = retry
      BY <1>0, <2>5 DEF NackRead, Goto, TypeOK
    <3> QED
      BY <2>3, <3>2, <3>3, <3>4 DEF RetryInv
  <2>6. CASE NackZAdd(c) \/ UnPost(c)
    <3>1. retry' \subseteq retry \cup {hand[c]} /\ pc[c] \in {"zadd", "unpost"}
      BY <2>6 DEF NackZAdd, UnPost
    <3>2. pc'[c] \in {"ack", "promoted"}
      BY <1>0, <2>6 DEF NackZAdd, UnPost, Goto, TypeOK
    <3> QED
      BY <2>3, <3>1, <3>2 DEF RetryInv
  <2>7. CASE RePostFail(c)
    BY <1>0, <2>3, <2>7 DEF RePostFail, RetryInv
  <2>8. CASE \/ \E s \in SUBSET retry : BeginPromote(c, s)
             \/ RePost(c) \/ XReadGroup(c) \/ Ack(c) \/ NackBury(c) \/ NackMissing(c)
             \/ NackAck(c) \/ XAutoClaim(c) \/ ReQueue(c) \/ ReAck(c)
             \/ ConsumerCrash(c)
    <3>1. retry' = retry
      BY <2>8 DEF BeginPromote, RePost, XReadGroup, Ack, NackBury, NackMissing, NackAck,
         XAutoClaim, ReQueue, ReAck, ConsumerCrash
    <3>2. pc'[c] \notin {"repost", "unpost", "zadd"}
      BY <1>0, <2>8 DEF BeginPromote, RePost, PromoteOn, XReadGroup, Ack, NackBury,
         NackMissing, NackAck, XAutoClaim, ReQueue, ReAck, ConsumerCrash, Goto, TypeOK
    <3> QED
      BY <2>3, <3>1, <3>2 DEF RetryInv
  <2> QED
    BY <1>6, <2>4, <2>5, <2>6, <2>7, <2>8 DEF ConsumerStep, PromoteStep
<1> QED
  BY <1>3, <1>4, <1>5, <1>6 DEF Next

\* The stored entries and the producers are finitely many.
LEMMA Finite ==
  ASSUME TypeOK, IsFiniteSet(Producers)
  PROVE  IsFiniteSet(present) /\ IsFiniteSet(Adding)
<1>1. IsFiniteSet(1..Len(log)) /\ present \in SUBSET (1..Len(log))
  BY FS_Interval DEF TypeOK
<1>2. Adding \in SUBSET Producers
  BY DEF Adding
<1> QED
  BY <1>1, <1>2, FS_Subset

\* An entry that comes and a producer that is done leave the sum as it was.
LEMMA FreshAdded ==
  ASSUME NEW S, NEW T, NEW k, NEW A, NEW B, NEW p, IsFiniteSet(S), IsFiniteSet(A),
         T \subseteq S \cup {k}, B = A \ {p}, p \in A
  PROVE  Cardinality(T) + Cardinality(B) <= Cardinality(S) + Cardinality(A)
<1>0. Cardinality(S) \in Nat
  BY FS_CardinalityType
<1>1. IsFiniteSet(S \cup {k}) /\ Cardinality(S \cup {k}) <= Cardinality(S) + 1
  <2>1. Cardinality(S \cup {k}) = IF k \in S THEN Cardinality(S) ELSE Cardinality(S) + 1
    BY FS_AddElement
  <2>2. IsFiniteSet(S \cup {k})
    BY FS_AddElement
  <2> QED
    BY <1>0, <2>1, <2>2
<1>2. IsFiniteSet(T) /\ Cardinality(T) <= Cardinality(S) + 1 /\ Cardinality(T) \in Nat
  <2>1. T \in SUBSET (S \cup {k})
    OBVIOUS
  <2>2. IsFiniteSet(T) /\ Cardinality(T) <= Cardinality(S \cup {k})
    BY <1>1, <2>1, FS_Subset
  <2>3. Cardinality(T) \in Nat /\ Cardinality(S \cup {k}) \in Nat
    BY <1>1, <2>2, FS_CardinalityType
  <2> QED
    BY <1>0, <1>1, <2>2, <2>3
<1>3. Cardinality(B) = Cardinality(A) - 1 /\ Cardinality(A) \in Nat
  BY FS_RemoveElement, FS_CardinalityType
<1> QED
  BY <1>0, <1>1, <1>2, <1>3

\* Fewer fresh entries and fewer producers on their way.
LEMMA FreshShrinks ==
  ASSUME NEW S, NEW T \in SUBSET S, NEW A, NEW B \in SUBSET A,
         IsFiniteSet(S), IsFiniteSet(A)
  PROVE  Cardinality(T) + Cardinality(B) <= Cardinality(S) + Cardinality(A)
<1>1. IsFiniteSet(T) /\ Cardinality(T) <= Cardinality(S)
  BY FS_Subset
<1>2. IsFiniteSet(B) /\ Cardinality(B) <= Cardinality(A)
  BY FS_Subset
<1>3. /\ Cardinality(S) \in Nat /\ Cardinality(T) \in Nat
      /\ Cardinality(A) \in Nat /\ Cardinality(B) \in Nat
  BY <1>1, <1>2, FS_CardinalityType
<1> QED
  BY <1>1, <1>2, <1>3

\* What a step does to the set of producers on their way to the XADD.
LEMMA AddingMoves ==
  ASSUME IndInv, [Next]_vars
  PROVE  \/ Adding' \subseteq Adding
         \/ \E p \in Producers, t \in Tasks : Admit(p, t) /\ log' = log
                                               /\ present' = present
<1>0. TypeOK
  BY DEF IndInv
<1>1. ASSUME NEW p \in Producers, ProducerStep(p)
      PROVE  \/ Adding' \subseteq Adding
             \/ \E t \in Tasks : Admit(p, t) /\ log' = log /\ present' = present
  <2>1. CASE \E t \in Tasks : Admit(p, t)
    BY <2>1 DEF Admit
  <2>2. CASE EnqueueAdd(p) \/ EnqueueFail(p) \/ ProducerCrash(p)
    BY <1>0, <2>2 DEF EnqueueAdd, EnqueueFail, ProducerCrash, Return, Goto, TypeOK, Adding
  <2> QED
    BY <1>1, <2>1, <2>2 DEF ProducerStep
<1>2. ASSUME NEW c \in Consumers, ConsumerStep(c)
      PROVE  Adding' \subseteq Adding
  <2>1. \A p \in Producers : pc'[p] = pc[p]
    BY <1>0, <1>2, QueueAssumption DEF TypeOK, ConsumerStep, PromoteStep, BeginPromote,
       ZRem, ZRemFail, PromoteOn, RePost, RePostFail, UnPost, XReadGroup, Ack, NackRead, NackZAdd,
       NackBury, NackMissing, NackAck, XAutoClaim, ReQueue, ReAck, ConsumerCrash, Goto
  <2> QED
    BY <2>1 DEF Adding
<1>3. ASSUME NEW m \in Maintainers, MaintainerStep(m)
      PROVE  Adding' \subseteq Adding
  <2>1. \A p \in Producers : pc'[p] = pc[p]
    BY <1>0, <1>3, QueueAssumption DEF TypeOK, MaintainerStep, TrimInfo, TrimPending,
       XTrimMinID, MaintainerCrash, Goto
  <2> QED
    BY <2>1 DEF Adding
<1>4. CASE UNCHANGED vars
  BY <1>4 DEF vars, Adding
<1> QED
  BY <1>1, <1>2, <1>3, <1>4 DEF Next

\* An entry that was added again was logged before.
LEMMA CopiesAreReadded ==
  ASSUME IndInv, RetryInv, NEW c \in Consumers, RePost(c) \/ RePostFail(c) \/ ReQueue(c),
         \/ (RePost(c) \/ RePostFail(c)) /\ XAdd(hand[c].job)
         \/ ReQueue(c) /\ \E i \in claimed[c] : XAdd(log[i])
  PROVE  /\ present' \subseteq present \cup {Len(log) + 1}
         /\ Len(log) + 1 \in Readded'
<1>0. TypeOK
  BY DEF IndInv
<1>1. CASE (RePost(c) \/ RePostFail(c)) /\ XAdd(hand[c].job)
  <2>1. Logged(hand[c].job.task) /\ hand[c].job \in Job
    BY <1>1, AddedJobs DEF RePost, RePostFail, RetryInv
  <2> QED
    BY <1>0, <1>1, <2>1, HistoryGrows, XAddEffect
<1>2. CASE ReQueue(c) /\ \E i \in claimed[c] : XAdd(log[i])
  <2>1. PICK i \in claimed[c] : XAdd(log[i])
    BY <1>2
  <2>2. i \in Ids /\ log[i] \in Job
    BY <2>1, AddedJobs
  <2>3. Logged(log[i].task)
    BY <2>2 DEF Logged
  <2> QED
    BY <1>0, <2>1, <2>2, <2>3, HistoryGrows, XAddEffect
<1> QED
  BY <1>1, <1>2

\* Every step keeps the bound on fresh entries: the admission check leaves room
\* for the producers that passed it before, because there are only so many.
LEMMA NextFreshBound ==
  ASSUME IndInv, RetryInv, FreshBound, [Next]_vars,
         AdmitLimit > 0, "XLEN" \notin Faults, IsFiniteSet(Producers)
  PROVE  FreshBound'
<1>0. TypeOK
  BY DEF IndInv
<1>1. IsFiniteSet(present) /\ IsFiniteSet(Adding)
  BY <1>0, Finite
<1>2. /\ IsFiniteSet(present \ Readded) /\ Cardinality(present \ Readded) \in Nat
      /\ Cardinality(Adding) \in Nat /\ Cardinality(Producers) \in Nat
      /\ AdmitLimit \in Nat
  BY <1>1, FS_Difference, FS_CardinalityType, QueueAssumption
<1>3. Readded \subseteq Readded'
  BY LoggedStays
<1>4. ASSUME Cardinality((present \ Readded)') + Cardinality(Adding')
               <= Cardinality(present \ Readded) + Cardinality(Adding),
             Cardinality((present \ Readded)') \in Nat, Cardinality(Adding') \in Nat
      PROVE  FreshBound'
  BY <1>2, <1>4 DEF FreshBound
<1>5. ASSUME (present \ Readded)' \subseteq present \ Readded, Adding' \subseteq Adding
      PROVE  FreshBound'
  <2>1. /\ (present \ Readded)' \in SUBSET (present \ Readded)
        /\ Adding' \in SUBSET Adding
    BY <1>5
  <2>2. Cardinality((present \ Readded)') \in Nat /\ Cardinality(Adding') \in Nat
    BY <1>1, <1>2, <2>1, FS_Subset, FS_CardinalityType
  <2> QED
    BY <1>1, <1>2, <1>4, <2>1, <2>2, FreshShrinks
<1>6. ASSUME NEW p \in Producers, NEW t \in Tasks, Admit(p, t),
             log' = log, present' = present
      PROVE  FreshBound'
  <2>1. Readded' = Readded
    BY <1>6 DEF Readded
  <2>2. CASE UNCHANGED pc
    BY <1>6, <2>1, <2>2 DEF FreshBound, Adding
  <2>3. CASE Cardinality(present) < AdmitLimit
    <3>1. Adding' \in SUBSET Producers
      BY DEF Adding
    <3>2. Cardinality(Adding') <= Cardinality(Producers) /\ Cardinality(Adding') \in Nat
      BY <3>1, FS_Subset, FS_CardinalityType
    <3>3. Cardinality(present \ Readded) <= Cardinality(present)
      BY <1>1, FS_Subset
    <3>4. Cardinality(present) \in Nat
      BY <1>1, FS_CardinalityType
    <3>5. Cardinality((present \ Readded)') = Cardinality(present \ Readded)
      BY <1>6, <2>1
    <3> QED
      BY <1>2, <2>3, <3>2, <3>3, <3>4, <3>5 DEF FreshBound
  <2> QED
    BY <1>2, <1>6, <2>2, <2>3 DEF Admit
<1>7. ASSUME log' = log /\ present' \subseteq present, Adding' \subseteq Adding
      PROVE  FreshBound'
  BY <1>3, <1>5, <1>7
<1>8. ASSUME NEW p \in Producers, EnqueueAdd(p) \/ EnqueueFail(p),
             XAdd([task |-> submit[p], attempt |-> 0])
      PROVE  FreshBound'
  <2>1. present' \subseteq present \cup {Len(log) + 1}
    BY <1>0, <1>8, AddedJobs, XAddEffect
  <2>2. p \in Adding /\ Adding' = Adding \ {p}
    BY <1>0, <1>8 DEF EnqueueAdd, EnqueueFail, Return, Goto, TypeOK, Adding
  <2>3. (present \ Readded)' \subseteq (present \ Readded) \cup {Len(log) + 1}
    BY <1>3, <2>1
  <2>4. Cardinality((present \ Readded)') + Cardinality(Adding')
               <= Cardinality(present \ Readded) + Cardinality(Adding)
    BY <1>1, <1>2, <2>2, <2>3, FreshAdded
  <2>5. IsFiniteSet((present \ Readded) \cup {Len(log) + 1})
    BY <1>2, FS_AddElement
  <2>6. Cardinality((present \ Readded)') \in Nat
    BY <2>3, <2>5, FS_Subset, FS_CardinalityType
  <2>7. Cardinality(Adding') \in Nat
    BY <1>1, <2>2, FS_RemoveElement, FS_CardinalityType
  <2> QED
    BY <1>4, <2>4, <2>6, <2>7
<1>9. ASSUME NEW c \in Consumers, RePost(c) \/ RePostFail(c) \/ ReQueue(c),
             \/ (RePost(c) \/ RePostFail(c)) /\ XAdd(hand[c].job)
             \/ ReQueue(c) /\ \E i \in claimed[c] : XAdd(log[i])
      PROVE  FreshBound'
  <2>1. present' \subseteq present \cup {Len(log) + 1} /\ Len(log) + 1 \in Readded'
    BY <1>9, CopiesAreReadded
  <2>2. (present \ Readded)' \subseteq present \ Readded
    BY <1>3, <2>1
  <2>3. Adding' \subseteq Adding
    <3>1. \A p \in Producers : pc'[p] = pc[p]
      BY <1>0, <1>9, QueueAssumption
         DEF TypeOK, RePost, PromoteOn, RePostFail, ReQueue, Goto
    <3> QED
      BY <3>1 DEF Adding
  <2> QED
    BY <1>5, <2>2, <2>3
<1> QED
  BY <1>6, <1>7, <1>8, <1>9, AddingMoves, WhoAdds

\* With that head room MAXLEN cuts nothing off as long as nothing was re-added.
LEMMA NextNothingCut ==
  ASSUME IndInv, RetryInv, FreshBound, FreshWorkNeverCut, [Next]_vars,
         AdmitLimit > 0, IsFiniteSet(Producers),
         MaxLen >= AdmitLimit - 1 + Cardinality(Producers)
  PROVE  FreshWorkNeverCut'
<1> SUFFICES ASSUME Readded' = {} PROVE cut' = {}
  BY DEF FreshWorkNeverCut
<1>0. TypeOK
  BY DEF IndInv
<1>1. Readded = {} /\ cut = {}
  BY LoggedStays DEF FreshWorkNeverCut
<1>2. CASE cut' = cut
  BY <1>1, <1>2
<1>3. ASSUME NEW c \in Consumers, RePost(c) \/ RePostFail(c) \/ ReQueue(c),
             \/ (RePost(c) \/ RePostFail(c)) /\ XAdd(hand[c].job)
             \/ ReQueue(c) /\ \E i \in claimed[c] : XAdd(log[i])
      PROVE  FALSE
  BY <1>3, CopiesAreReadded
<1>4. ASSUME NEW p \in Producers, EnqueueAdd(p) \/ EnqueueFail(p),
             XAdd([task |-> submit[p], attempt |-> 0])
      PROVE  cut' = {}
  <2> DEFINE id == Len(log) + 1
             all == present \cup {id}
  <2>1. PICK low \in {1} \cup all :
          /\ present' = {i \in all : i >= low}
          /\ low # 1 => Cardinality(present') >= MaxLen
          /\ cut' = cut \cup {log[i].task : i \in {k \in present \ present' :
                                                     Unfinished(k)}}
    BY <1>4 DEF XAdd
  <2>2. IsFiniteSet(present) /\ IsFiniteSet(Adding) /\ p \in Adding
    BY <1>0, <1>4, Finite DEF Adding, EnqueueAdd, EnqueueFail, Return
  <2>3. Cardinality(Adding) \in Nat \ {0}
    <3>1. Adding # {}
      BY <2>2
    <3> QED
      BY <2>2, <3>1, FS_EmptySet, FS_CardinalityType
  <2>4. IsFiniteSet(all) /\ Cardinality(all) <= Cardinality(present) + 1
    <3>1. Cardinality(present) \in Nat
      BY <2>2, FS_CardinalityType
    <3>2. IsFiniteSet(all)
      BY <2>2, FS_AddElement
    <3>3. Cardinality(all) = IF id \in present THEN Cardinality(present)
                             ELSE Cardinality(present) + 1
      BY <2>2, FS_AddElement
    <3> HIDE DEF all
    <3> QED
      BY <3>1, <3>2, <3>3
  <2>5. present \ Readded = present
    BY <1>1
  <2>6. Cardinality(all) <= MaxLen
    <3>1. /\ Cardinality(present) \in Nat /\ Cardinality(all) \in Nat
          /\ Cardinality(Producers) \in Nat /\ AdmitLimit \in Nat /\ MaxLen \in Nat
      BY <2>2, <2>4, FS_CardinalityType, QueueAssumption
    <3>2. Cardinality(present) + Cardinality(Adding)
            <= AdmitLimit - 1 + Cardinality(Producers)
      BY <2>5 DEF FreshBound
    <3> HIDE DEF all
    <3> QED
      BY <2>3, <2>4, <3>1, <3>2
  <2>7. present \subseteq present'
    <3>1. CASE low = 1
      <4>1. present \subseteq Nat \ {0}
        BY <1>0 DEF TypeOK
      <4> QED
        BY <2>1, <3>1, <4>1
    <3>2. CASE low # 1
      <4>1. present' \in SUBSET all
        BY <2>1
      <4>2. Cardinality(present') <= Cardinality(all) /\ Cardinality(present') \in Nat
              /\ Cardinality(all) \in Nat /\ MaxLen \in Nat
        BY <2>4, <4>1, FS_Subset, FS_CardinalityType, QueueAssumption
      <4>3. Cardinality(present') >= MaxLen
        BY <2>1, <3>2
      <4>4. Cardinality(present') = Cardinality(all)
        <5> HIDE DEF all
        <5> QED
          BY <2>6, <4>2, <4>3
      <4>5. present' = all
        BY <2>4, <4>1, <4>4, FS_Subset
      <4> QED
        BY <4>5
    <3> QED
      BY <3>1, <3>2
  <2> QED
    BY <1>1, <2>1, <2>7
<1> QED
  BY <1>2, <1>3, <1>4, WhoAdds

\* Back-pressure holds for any number of producers: the stored entries exceed the
\* admission limit by less than one per producer and by what is re-delivered,
\* and with that much head room below MAXLEN unfinished work is cut off only
\* after work was re-delivered.
THEOREM BackPressureHolds ==
  ASSUME AdmitLimit > 0, "XLEN" \notin Faults, IsFiniteSet(Producers),
         MaxLen >= AdmitLimit - 1 + Cardinality(Producers)
  PROVE  Spec => []BackPressure
<1>1. IndInv /\ [Next]_vars => IndInv'
  BY NextIndInv
<1>2. IndInv /\ RetryInv /\ [Next]_vars => RetryInv'
  BY NextRetryInv
<1>3. IndInv /\ RetryInv /\ FreshBound /\ [Next]_vars => FreshBound'
  BY NextFreshBound
<1>4. IndInv /\ RetryInv /\ FreshBound /\ FreshWorkNeverCut /\ [Next]_vars
        => FreshWorkNeverCut'
  BY NextNothingCut
<1>5. Init => RetryInv /\ FreshBound /\ FreshWorkNeverCut
  <2> SUFFICES ASSUME Init PROVE RetryInv /\ FreshBound /\ FreshWorkNeverCut
    OBVIOUS
  <2>1. RetryInv /\ FreshWorkNeverCut
    BY DEF Init, RetryInv, FreshWorkNeverCut
  <2>2. present \ Readded = {} /\ Adding = {}
    BY DEF Init, Adding
  <2>3. Cardinality(Producers) \in Nat /\ AdmitLimit \in Nat /\ Cardinality({}) = 0
    <3>1. Cardinality({}) = 0
      BY FS_EmptySet
    <3>2. Cardinality(Producers) \in Nat
      BY FS_CardinalityType
    <3> QED
      BY <3>1, <3>2, QueueAssumption
  <2>4. Cardinality(present \ Readded) = 0 /\ Cardinality(Adding) = 0
    BY <2>2, <2>3
  <2>5. FreshBound
    BY <2>3, <2>4 DEF FreshBound
  <2> QED
    BY <2>1, <2>5
<1>6. IndInv /\ FreshBound /\ FreshWorkNeverCut => BackPressure
  <2> SUFFICES ASSUME IndInv, FreshBound, FreshWorkNeverCut PROVE AdmissionBound
    BY DEF BackPressure
  <2>0. TypeOK
    BY DEF IndInv
  <2>1. IsFiniteSet(present) /\ IsFiniteSet(Adding)
    BY <2>0, Finite
  <2>2. IsFiniteSet(Readded)
    <3>1. IsFiniteSet(Ids) /\ Readded \in SUBSET Ids
      BY <2>0, FS_Interval DEF TypeOK, Readded
    <3> QED
      BY <3>1, FS_Subset
  <2>3. IsFiniteSet(present \ Readded) /\ IsFiniteSet(present \cap Readded)
    BY <2>1, FS_Difference, FS_Intersection
  <2>4. Cardinality(present \ Readded)
          = Cardinality(present) - Cardinality(present \cap Readded)
    BY <2>1, FS_Difference
  <2>5. Cardinality(present \cap Readded) <= Cardinality(Readded)
    BY <2>2, FS_Intersection
  <2>6. /\ Cardinality(present) \in Nat /\ Cardinality(Readded) \in Nat
        /\ Cardinality(present \cap Readded) \in Nat /\ Cardinality(Adding) \in Nat
        /\ Cardinality(Producers) \in Nat /\ AdmitLimit \in Nat
    BY <2>1, <2>2, <2>3, FS_CardinalityType, QueueAssumption
  <2> QED
    BY <2>4, <2>5, <2>6 DEF FreshBound, AdmissionBound
<1> QED
  BY <1>1, <1>2, <1>3, <1>4, <1>5, <1>6, InitIndInv, PTL DEF Spec

=============================================================================
