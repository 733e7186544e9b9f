------------------------ MODULE InMemoryQueueProofs ------------------------
(***************************************************************************)
(* The queue within the process implements JobQueue, for any jobs, any     *)
(* consumers and any capacity: no job is in two places at once, and none   *)
(* leaves before it is settled.  A step of the queue moves one job, or     *)
(* only changes how it is kept, and then the promise sees nothing of it.   *)
(***************************************************************************)
EXTENDS InMemoryQueue, TLAPS

Queued == Range(ch)

TypesOK ==
    /\ ch \in Seq(Jobs)
    /\ inflight \subseteq Jobs /\ timers \subseteq Jobs /\ settled \subseteq Jobs
    /\ producer \in [Jobs -> {"new", "sent", "refused"}]
    /\ consumer \in [Consumers -> Hand \cup {NoJob}]

\* A job is in one place of the channel, with a timer, with one consumer or settled.
OnePlace ==
    /\ \A i, k \in 1..Len(ch) : ch[i] = ch[k] => i = k
    /\ Queued \cap timers = {} /\ settled \cap Waiting = {}
    /\ \A c \in Consumers : consumer[c] \in Hand => consumer[c].job \notin Waiting \cup settled
    /\ \A c, d \in Consumers :
           consumer[c] \in Hand /\ consumer[d] \in Hand /\ consumer[c].job = consumer[d].job => c = d

\* A job is nowhere before it is sent, and in the map as soon as its execution begins.
KnownJobs ==
    /\ \A j \in Jobs : producer[j] # "sent" =>
           j \notin Waiting \cup settled \cup inflight /\ Holders(j) = {}
    /\ \A c \in Consumers : consumer[c] \in Hand /\ consumer[c].pc # "taken" =>
           consumer[c].job \in inflight

MemoryInv == TypesOK /\ OnePlace /\ KnownJobs

-----------------------------------------------------------------------------
(* The channel. *)

\* The elements of a sequence, by their places.
LEMMA Elements == ASSUME NEW S, NEW s \in Seq(S) PROVE Range(s) = {s[i] : i \in 1..Len(s)}
BY DEF Range

\* Appending adds one element.
LEMMA Appended ==
    ASSUME NEW s \in Seq(Jobs), NEW j \in Jobs
    PROVE  Append(s, j) \in Seq(Jobs) /\ Range(Append(s, j)) = Range(s) \cup {j}
<1>1. /\ Append(s, j) \in Seq(Jobs) /\ Len(s) \in Nat /\ Len(Append(s, j)) = Len(s) + 1
      /\ \A i \in 1..Len(s) : Append(s, j)[i] = s[i]
      /\ Append(s, j)[Len(s) + 1] = j
  OBVIOUS
<1>2. Range(s) = {s[i] : i \in 1..Len(s)}
  BY Elements
<1>3. Range(Append(s, j)) = {Append(s, j)[i] : i \in 1..Len(s) + 1}
  BY <1>1, Elements
<1> QED
  BY <1>1, <1>2, <1>3

\* A sequence without repetitions stays one when a new element is appended.
LEMMA AppendedOnce ==
    ASSUME NEW s \in Seq(Jobs), NEW j \in Jobs, j \notin Range(s),
           \A i, k \in 1..Len(s) : s[i] = s[k] => i = k
    PROVE  \A i, k \in 1..Len(Append(s, j)) : Append(s, j)[i] = Append(s, j)[k] => i = k
BY DEF Range

\* Taking the head of a sequence without repetitions removes it for good.
LEMMA Taken ==
    ASSUME NEW s \in Seq(Jobs), s # <<>>, \A i, k \in 1..Len(s) : s[i] = s[k] => i = k
    PROVE  /\ Head(s) \in Jobs /\ Tail(s) \in Seq(Jobs) /\ Head(s) \in Range(s)
           /\ Range(Tail(s)) = Range(s) \ {Head(s)}
           /\ \A i, k \in 1..Len(Tail(s)) : Tail(s)[i] = Tail(s)[k] => i = k
<1>1. Len(s) \in Nat /\ Len(s) > 0 /\ Head(s) = s[1] /\ Len(Tail(s)) = Len(s) - 1
  OBVIOUS
<1>2. \A i \in 1..Len(Tail(s)) : Tail(s)[i] = s[i + 1]
  OBVIOUS
<1>3. Head(s) \in Jobs /\ Tail(s) \in Seq(Jobs) /\ Head(s) \in Range(s)
  BY <1>1 DEF Range
<1>4. \A i, k \in 1..Len(Tail(s)) : Tail(s)[i] = Tail(s)[k] => i = k
  BY <1>1, <1>2
<1>5. Range(s) = {s[i] : i \in 1..Len(s)}
  BY Elements
<1>6. Range(Tail(s)) = {Tail(s)[i] : i \in 1..Len(Tail(s))}
  <2> DEFINE t == Tail(s)
  <2>1. t \in Seq(Jobs)
    BY <1>3
  <2> HIDE DEF t
  <2>2. Range(t) = {t[i] : i \in 1..Len(t)}
    BY <2>1, Elements
  <2> QED
    BY <2>2 DEF t
<1>7. ASSUME NEW i \in 1..Len(Tail(s)) PROVE Tail(s)[i] \in Range(s) \ {Head(s)}
  <2>1. i + 1 \in 1..Len(s) /\ i + 1 # 1 /\ 1 \in 1..Len(s)
    BY <1>1
  <2> QED
    BY <1>1, <1>2, <1>5, <2>1
<1>8. ASSUME NEW i \in 1..Len(s), s[i] # Head(s) PROVE s[i] \in Range(Tail(s))
  <2>1. i # 1
    BY <1>1, <1>8
  <2>2. i - 1 \in 1..Len(Tail(s)) /\ (i - 1) + 1 = i
    BY <1>1, <2>1
  <2>3. s[i] = Tail(s)[i - 1]
    BY <1>2, <2>2
  <2> QED
    BY <1>6, <2>2, <2>3
<1>9. Range(Tail(s)) = Range(s) \ {Head(s)}
  BY <1>5, <1>6, <1>7, <1>8
<1> QED
  BY <1>3, <1>4, <1>9

\* A consumer that is not idle holds a job.
LEMMA InHand ==
    ASSUME TypesOK, NEW c \in Consumers, consumer[c].pc # "idle"
    PROVE  consumer[c] \in Hand /\ consumer[c].job \in Jobs
BY DEF TypesOK, Hand, NoJob

\* The idle consumer's job is no job.
LEMMA NobodyHolds == NoJob \notin Hand
BY DEF NoJob, Hand

-----------------------------------------------------------------------------
(* The invariant. *)

\* A producer's job goes to the channel once.
LEMMA Enqueues == ASSUME MemoryInv, NEW j \in Jobs, EnqueueJob(j) PROVE MemoryInv'
<1>1. /\ producer[j] = "new" /\ ch' = Append(ch, j)
      /\ producer' = [producer EXCEPT ![j] = "sent"]
      /\ UNCHANGED <<inflight, timers, consumer, handed, settled>>
  BY DEF EnqueueJob
<1>2. j \notin Waiting \cup settled \cup inflight /\ Holders(j) = {} /\ j \notin Queued
  BY <1>1 DEF MemoryInv, KnownJobs, Waiting, Queued
<1>3. ch' \in Seq(Jobs) /\ Queued' = Queued \cup {j} /\ Waiting' = Waiting \cup {j}
  BY <1>1, Appended DEF MemoryInv, TypesOK, Queued, Waiting
<1>4. \A i, k \in 1..Len(ch') : ch'[i] = ch'[k] => i = k
  BY <1>1, <1>2, AppendedOnce DEF MemoryInv, TypesOK, OnePlace, Queued
<1>5. \A c \in Consumers : consumer[c] \in Hand => consumer[c].job # j
  BY <1>2 DEF Holders
<1>6. TypesOK'
  BY <1>1, <1>3 DEF MemoryInv, TypesOK
<1>7. OnePlace'
  BY <1>1, <1>2, <1>3, <1>4, <1>5 DEF MemoryInv, OnePlace, Waiting, Queued
<1>8. KnownJobs'
  BY <1>1, <1>3 DEF MemoryInv, KnownJobs, TypesOK, Holders
<1> QED
  BY <1>6, <1>7, <1>8 DEF MemoryInv

\* A producer that gives up leaves nothing.
LEMMA GivesUp == ASSUME MemoryInv, NEW j \in Jobs, EnqueueJobGivesUp(j) PROVE MemoryInv'
<1>1. /\ producer[j] = "new" /\ producer' = [producer EXCEPT ![j] = "refused"]
      /\ UNCHANGED <<ch, inflight, timers, consumer, handed, settled>>
  BY DEF EnqueueJobGivesUp
<1>2. TypesOK'
  BY <1>1 DEF MemoryInv, TypesOK
<1>3. OnePlace'
  BY <1>1 DEF MemoryInv, OnePlace, Waiting, Queued
<1>4. KnownJobs'
  BY <1>1 DEF MemoryInv, KnownJobs, TypesOK, Holders, Waiting
<1> QED
  BY <1>2, <1>3, <1>4 DEF MemoryInv

\* A timer's job goes back to the channel and is waiting all along.
LEMMA Resends == ASSUME MemoryInv, NEW j \in Jobs, Resend(j) PROVE MemoryInv' /\ Waiting' = Waiting
<1>1. /\ j \in timers /\ ch' = Append(ch, j) /\ timers' = timers \ {j}
      /\ UNCHANGED <<inflight, producer, consumer, handed, settled>>
  BY DEF Resend
<1>2. j \notin Queued
  BY <1>1 DEF MemoryInv, OnePlace
<1>3. ch' \in Seq(Jobs) /\ Queued' = Queued \cup {j} /\ Waiting' = Waiting
  BY <1>1, Appended DEF MemoryInv, TypesOK, Queued, Waiting
<1>4. \A i, k \in 1..Len(ch') : ch'[i] = ch'[k] => i = k
  BY <1>1, <1>2, AppendedOnce DEF MemoryInv, TypesOK, OnePlace, Queued
<1>5. TypesOK'
  BY <1>1, <1>3 DEF MemoryInv, TypesOK
<1>6. OnePlace'
  BY <1>1, <1>2, <1>3, <1>4 DEF MemoryInv, OnePlace
<1>7. KnownJobs'
  BY <1>1, <1>3 DEF MemoryInv, KnownJobs, TypesOK, Holders
<1> QED
  BY <1>3, <1>5, <1>6, <1>7 DEF MemoryInv

\* A consumer takes the oldest waiting job.
LEMMA Dequeues ==
    ASSUME MemoryInv, NEW c \in Consumers, DequeueJob(c)
    PROVE  MemoryInv' /\ Waiting' = Waiting \ {Head(ch)} /\ Head(ch) \in Waiting \cap Jobs
<1> DEFINE j == Head(ch)
           h == [pc |-> "taken", job |-> j]
<1>1. /\ consumer[c] = NoJob /\ ch # <<>> /\ ch' = Tail(ch)
      /\ consumer' = [consumer EXCEPT ![c] = h]
      /\ UNCHANGED <<inflight, timers, producer, handed, settled>>
  BY DEF DequeueJob, Free
<1>2. /\ j \in Jobs /\ ch' \in Seq(Jobs) /\ j \in Queued /\ Queued' = Queued \ {j}
      /\ \A i, k \in 1..Len(ch') : ch'[i] = ch'[k] => i = k
  BY <1>1, Taken DEF MemoryInv, TypesOK, OnePlace, Queued
<1>3. h \in Hand /\ h.job = j /\ h.pc = "taken"
  BY <1>2 DEF Hand
<1> HIDE DEF h, j
<1>4. j \in Waiting /\ j \notin timers /\ j \notin settled /\ Waiting' = Waiting \ {j}
  BY <1>1, <1>2 DEF MemoryInv, OnePlace, Waiting, Queued
<1>5. TypesOK'
  BY <1>1, <1>2, <1>3 DEF MemoryInv, TypesOK
<1>6. consumer'[c] = h /\ \A d \in Consumers \ {c} : consumer'[d] = consumer[d]
  BY <1>1 DEF MemoryInv, TypesOK
<1>7. \A d \in Consumers : consumer[d] \in Hand => consumer[d].job # j
  BY <1>4 DEF MemoryInv, OnePlace
<1>8. OnePlace'
  <2>1. Queued' \cap timers' = {} /\ settled' \cap Waiting' = {}
    BY <1>1, <1>2, <1>4 DEF MemoryInv, OnePlace
  <2>2. \A d \in Consumers : consumer'[d] \in Hand => consumer'[d].job \notin Waiting' \cup settled'
    BY <1>1, <1>3, <1>4, <1>6 DEF MemoryInv, OnePlace
  <2>3. \A d, e \in Consumers :
           consumer'[d] \in Hand /\ consumer'[e] \in Hand /\ consumer'[d].job = consumer'[e].job => d = e
    BY <1>3, <1>6, <1>7 DEF MemoryInv, OnePlace
  <2> QED
    BY <1>2, <2>1, <2>2, <2>3 DEF OnePlace
<1>9. KnownJobs'
  <2>1. producer[j] = "sent"
    BY <1>2, <1>4 DEF MemoryInv, KnownJobs
  <2>2. ASSUME NEW i \in Jobs, producer'[i] # "sent"
        PROVE  i \notin Waiting' \cup settled' \cup inflight' /\ Holders(i)' = {}
    <3>1. i # j /\ i \notin Waiting \cup settled \cup inflight /\ Holders(i) = {}
      BY <1>1, <2>1, <2>2 DEF MemoryInv, KnownJobs
    <3> QED
      BY <1>1, <1>3, <1>4, <1>6, <3>1 DEF Holders
  <2>3. \A d \in Consumers : consumer'[d] \in Hand /\ consumer'[d].pc # "taken" => consumer'[d].job \in inflight'
    BY <1>1, <1>3, <1>6 DEF MemoryInv, KnownJobs
  <2> QED
    BY <2>2, <2>3 DEF KnownJobs
<1> QED
  BY <1>2, <1>4, <1>5, <1>8, <1>9 DEF MemoryInv, j

\* A consumer goes on with the job it has.
GoesOn(c) ==
    /\ consumer[c].pc # "idle"
    /\ \E pc \in {"run", "ack", "drop", "retry", "park"} : consumer' = [consumer EXCEPT ![c].pc = pc]
    /\ inflight' = inflight \cup {consumer[c].job}
    /\ UNCHANGED <<ch, timers, producer, settled>>

\* Tracking and executing a job keep it in the same hand.
LEMMA GoingOn ==
    ASSUME MemoryInv, NEW c \in Consumers, TrackJob(c) \/ ExecuteJob(c)
    PROVE  GoesOn(c)
<1>1. CASE TrackJob(c)
  BY <1>1 DEF TrackJob, GoesOn
<1>2. CASE ExecuteJob(c)
  <2>1. consumer[c] \in Hand /\ consumer[c].pc = "run"
    BY <1>2, InHand DEF ExecuteJob, MemoryInv
  <2>2. consumer[c].job \in inflight
    BY <2>1 DEF MemoryInv, KnownJobs
  <2>3. \E pc \in {"ack", "drop", "retry", "park"} : consumer' = [consumer EXCEPT ![c].pc = pc]
    BY <1>2 DEF ExecuteJob
  <2> QED
    BY <1>2, <2>1, <2>2, <2>3 DEF ExecuteJob, GoesOn
<1> QED
  BY <1>1, <1>2

\* Such a step moves no job.
LEMMA Goes ==
    ASSUME MemoryInv, NEW c \in Consumers, GoesOn(c)
    PROVE  MemoryInv' /\ \A i \in Jobs : Holders(i)' = Holders(i)
<1>1. consumer[c] \in Hand /\ consumer[c].job \in Jobs
  BY InHand DEF MemoryInv, GoesOn
<1>2. PICK pc \in {"run", "ack", "drop", "retry", "park"} : consumer' = [consumer EXCEPT ![c].pc = pc]
  BY DEF GoesOn
<1> DEFINE h == [consumer[c] EXCEPT !.pc = pc]
<1>3. h \in Hand /\ h.job = consumer[c].job
  BY <1>1 DEF Hand
<1>4. consumer' = [consumer EXCEPT ![c] = h]
  BY <1>2 DEF MemoryInv, TypesOK
<1> HIDE DEF h
<1>5. consumer'[c] = h /\ \A d \in Consumers \ {c} : consumer'[d] = consumer[d]
  BY <1>4 DEF MemoryInv, TypesOK
<1>6. UNCHANGED <<ch, timers, producer, settled>> /\ inflight' = inflight \cup {consumer[c].job}
  BY DEF GoesOn
<1>7. \A i \in Jobs : Holders(i)' = Holders(i)
  BY <1>1, <1>3, <1>5 DEF Holders
<1>8. TypesOK'
  BY <1>1, <1>3, <1>4, <1>6 DEF MemoryInv, TypesOK
<1>9. OnePlace'
  <2>1. \A d \in Consumers : consumer'[d] \in Hand <=> consumer[d] \in Hand
    BY <1>1, <1>3, <1>5
  <2>2. \A d \in Consumers : consumer[d] \in Hand => consumer'[d].job = consumer[d].job
    BY <1>3, <1>5
  <2> QED
    BY <1>6, <2>1, <2>2 DEF MemoryInv, OnePlace, Queued, Waiting
<1>10. KnownJobs'
  <2>1. ASSUME NEW i \in Jobs, producer'[i] # "sent"
        PROVE  i \notin Waiting' \cup settled' \cup inflight' /\ Holders(i)' = {}
    <3>1. i \notin Waiting \cup settled \cup inflight /\ Holders(i) = {}
      BY <1>6, <2>1 DEF MemoryInv, KnownJobs
    <3>2. i # consumer[c].job
      BY <1>1, <3>1 DEF Holders
    <3> QED
      BY <1>6, <1>7, <3>1, <3>2 DEF Waiting
  <2>2. \A d \in Consumers : consumer'[d] \in Hand /\ consumer'[d].pc # "taken" => consumer'[d].job \in inflight'
    BY <1>3, <1>5, <1>6 DEF MemoryInv, KnownJobs
  <2> QED
    BY <2>1, <2>2 DEF KnownJobs
<1> QED
  BY <1>7, <1>8, <1>9, <1>10 DEF MemoryInv

\* A consumer lets its job go: it is settled, with a timer, or only in the map.
LetsGo(c, j) ==
    /\ consumer[c] \in Hand /\ consumer[c].job = j /\ consumer[c].pc # "taken"
    /\ consumer' = [consumer EXCEPT ![c] = NoJob]
    /\ UNCHANGED <<ch, producer>>
    /\ \/ inflight' = inflight \ {j} /\ settled' = settled \cup {j} /\ timers' = timers
       \/ inflight' = inflight \ {j} /\ timers' = timers \cup {j} /\ settled' = settled
       \/ UNCHANGED <<inflight, timers, settled>>

\* A settled, returned or parked job leaves the hand that held it.
LEMMA LettingGo ==
    ASSUME MemoryInv, NEW c \in Consumers, SettleJob(c) \/ HandBack(c) \/ ParkJob(c)
    PROVE  LetsGo(c, consumer[c].job)
<1>1. consumer[c] \in Hand /\ consumer[c].pc # "taken"
  BY InHand DEF SettleJob, HandBack, ParkJob, MemoryInv
<1> QED
  BY <1>1 DEF SettleJob, HandBack, ParkJob, LetsGo

\* Such a step lets exactly one job go.
LEMMA Lets ==
    ASSUME MemoryInv, NEW c \in Consumers, NEW j, LetsGo(c, j)
    PROVE  /\ MemoryInv' /\ j \in Jobs /\ j \in inflight /\ j \notin Waiting \cup settled
           /\ Holders(j) = {c} /\ Holders(j)' = {}
           /\ \A i \in Jobs \ {j} : Holders(i)' = Holders(i)
<1>1. consumer[c] \in Hand /\ consumer[c].job = j /\ consumer[c].pc # "taken" /\ j \in Jobs
  BY DEF LetsGo, Hand
<1>2. j \in inflight /\ j \notin Waiting \cup settled
  BY <1>1 DEF MemoryInv, KnownJobs, OnePlace
<1>3. consumer'[c] = NoJob /\ \A d \in Consumers \ {c} : consumer'[d] = consumer[d]
  BY DEF LetsGo, MemoryInv, TypesOK
<1>4. Holders(j) = {c}
  BY <1>1 DEF Holders, MemoryInv, OnePlace
<1>5. Holders(j)' = {}
  BY <1>1, <1>3, <1>4, NobodyHolds DEF Holders
<1>6. \A i \in Jobs \ {j} : Holders(i)' = Holders(i)
  BY <1>1, <1>3, NobodyHolds DEF Holders
<1>7. TypesOK'
  BY <1>1, <1>2 DEF MemoryInv, TypesOK, LetsGo
<1>8. Queued' = Queued /\ j \notin Queued /\ Queued \subseteq Waiting
  BY <1>2 DEF LetsGo, Queued, Waiting
<1>9. Waiting' \subseteq Waiting \cup {j} /\ settled' \subseteq settled \cup {j}
      /\ (j \in Waiting' => j \notin settled') /\ timers' \subseteq timers \cup {j}
  BY <1>2 DEF LetsGo, Waiting
<1>10. OnePlace'
  <2>1. Queued' \cap timers' = {} /\ settled' \cap Waiting' = {}
    BY <1>2, <1>8, <1>9 DEF MemoryInv, OnePlace
  <2>2. \A i, k \in 1..Len(ch') : ch'[i] = ch'[k] => i = k
    BY DEF LetsGo, MemoryInv, OnePlace
  <2>3. ASSUME NEW d \in Consumers, consumer'[d] \in Hand
        PROVE  d # c /\ consumer'[d] = consumer[d] /\ consumer[d].job # j
    BY <1>1, <1>3, <2>3, NobodyHolds DEF MemoryInv, OnePlace
  <2>4. \A d \in Consumers : consumer'[d] \in Hand => consumer'[d].job \notin Waiting' \cup settled'
    BY <1>9, <2>3 DEF MemoryInv, OnePlace
  <2>5. \A d, e \in Consumers :
           consumer'[d] \in Hand /\ consumer'[e] \in Hand /\ consumer'[d].job = consumer'[e].job => d = e
    BY <2>3 DEF MemoryInv, OnePlace
  <2> QED
    BY <2>1, <2>2, <2>4, <2>5 DEF OnePlace
<1>11. KnownJobs'
  <2>1. producer[j] = "sent"
    BY <1>1, <1>4 DEF MemoryInv, KnownJobs
  <2>2. ASSUME NEW i \in Jobs, producer'[i] # "sent"
        PROVE  i \notin Waiting' \cup settled' \cup inflight' /\ Holders(i)' = {}
    <3>1. i # j /\ i \notin Waiting \cup settled \cup inflight /\ Holders(i) = {}
      BY <2>1, <2>2 DEF MemoryInv, KnownJobs, LetsGo
    <3>2. inflight' \subseteq inflight
      BY DEF LetsGo
    <3> QED
      BY <1>6, <1>9, <3>1, <3>2
  <2>3. ASSUME NEW d \in Consumers, consumer'[d] \in Hand, consumer'[d].pc # "taken"
        PROVE  consumer'[d].job \in inflight'
    <3>1. d # c /\ consumer'[d] = consumer[d] /\ consumer[d].job # j
      BY <1>1, <1>3, <2>3, NobodyHolds DEF MemoryInv, OnePlace
    <3>2. consumer[d].job \in inflight
      BY <2>3, <3>1 DEF MemoryInv, KnownJobs
    <3> QED
      BY <3>1, <3>2 DEF LetsGo
  <2> QED
    BY <2>2, <2>3 DEF KnownJobs
<1> QED
  BY <1>1, <1>2, <1>4, <1>5, <1>6, <1>7, <1>10, <1>11 DEF MemoryInv

-----------------------------------------------------------------------------
(* The refinement. *)

\* Where a job is, seen from the abstract queue.
LEMMA WhereOf ==
    ASSUME NEW j \in Jobs
    PROVE  Where[j] = IF j \in settled THEN "settled"
                      ELSE IF j \in Waiting THEN "waiting"
                      ELSE IF Holders(j) # {} THEN CHOOSE c \in Holders(j) : TRUE
                      ELSE IF j \in inflight THEN "parked"
                      ELSE "absent"
BY DEF Where

\* What decides where a job is.
LEMMA Unmoved ==
    ASSUME NEW j \in Jobs, j \in settled' <=> j \in settled, j \in Waiting' <=> j \in Waiting,
           Holders(j)' = Holders(j), Holders(j) # {} \/ (j \in inflight' <=> j \in inflight)
    PROVE  Where'[j] = Where[j]
BY DEF Where

\* A step that moves job j to w, and no other.
LEMMA Moved ==
    ASSUME NEW j \in Jobs, NEW w, Where'[j] = w, \A i \in Jobs \ {j} : Where'[i] = Where[i]
    PROVE  Where' = [Where EXCEPT ![j] = w]
<1>1. Where' = [i \in Jobs |-> Where'[i]] /\ Where = [i \in Jobs |-> Where[i]]
  BY DEF Where
<1> QED
  BY <1>1

\* The abstract queue stutters when no job moves.
LEMMA Stays == ASSUME \A j \in Jobs : Where'[j] = Where[j] PROVE Where' = Where
<1>1. Where' = [i \in Jobs |-> Where'[i]] /\ Where = [i \in Jobs |-> Where[i]]
  BY DEF Where
<1> QED
  BY <1>1

\* Enqueueing puts one job, or nothing.
LEMMA MapsRequest ==
    ASSUME MemoryInv, NEW j \in Jobs, EnqueueJob(j) \/ EnqueueJobGivesUp(j) \/ Resend(j)
    PROVE  MemoryInv' /\ (Promise!Put(j) \/ Where' = Where)
<1>1. Holders(j)' = Holders(j) /\ \A i \in Jobs : Holders(i)' = Holders(i)
  BY DEF EnqueueJob, EnqueueJobGivesUp, Resend, Holders
<1>2. inflight' = inflight /\ settled' = settled
  BY DEF EnqueueJob, EnqueueJobGivesUp, Resend
<1>3. CASE EnqueueJob(j)
  <2>1. Waiting' = Waiting \cup {j}
    BY <1>3, Appended DEF EnqueueJob, Waiting, MemoryInv, TypesOK
  <2>2. producer[j] # "sent"
    BY <1>3 DEF EnqueueJob
  <2>3. j \notin Waiting \cup settled \cup inflight /\ Holders(j) = {}
    BY <2>2 DEF MemoryInv, KnownJobs
  <2>4. Where[j] = "absent"
    BY <2>3, WhereOf
  <2>5. Where'[j] = "waiting"
    BY <1>2, <2>1, <2>3 DEF Where
  <2>6. ASSUME NEW i \in Jobs \ {j} PROVE Where'[i] = Where[i]
    BY <1>1, <1>2, <2>1, Unmoved
  <2>7. Where' = [Where EXCEPT ![j] = "waiting"]
    BY <2>5, <2>6, Moved
  <2> QED
    BY <1>3, <2>4, <2>7, Enqueues DEF Promise!Put
<1>4. CASE EnqueueJobGivesUp(j)
  <2>1. Waiting' = Waiting
    BY <1>4 DEF EnqueueJobGivesUp, Waiting
  <2>2. ASSUME NEW i \in Jobs PROVE Where'[i] = Where[i]
    BY <1>1, <1>2, <2>1, Unmoved
  <2> QED
    BY <1>4, <2>2, Stays, GivesUp
<1>5. CASE Resend(j)
  <2>1. Waiting' = Waiting /\ MemoryInv'
    BY <1>5, Resends
  <2>2. ASSUME NEW i \in Jobs PROVE Where'[i] = Where[i]
    BY <1>1, <1>2, <2>1, Unmoved
  <2> QED
    BY <2>1, <2>2, Stays
<1> QED
  BY <1>3, <1>4, <1>5

\* Dequeueing takes one job for this consumer.
LEMMA MapsDequeue ==
    ASSUME MemoryInv, NEW c \in Consumers, DequeueJob(c)
    PROVE  MemoryInv' /\ \E j \in Jobs : Promise!Take(j, c)
<1>1. PICK j : j = Head(ch)
  OBVIOUS
<1> DEFINE h == [pc |-> "taken", job |-> j]
<1>2. MemoryInv' /\ Waiting' = Waiting \ {j} /\ j \in Waiting /\ j \in Jobs
  BY <1>1, Dequeues
<1>3. consumer' = [consumer EXCEPT ![c] = h] /\ consumer[c] = NoJob /\ UNCHANGED <<inflight, settled>>
  BY <1>1 DEF DequeueJob, Free
<1>4. h \in Hand /\ h.job = j
  BY <1>2 DEF Hand
<1> HIDE DEF h
<1>5. consumer'[c] = h /\ \A d \in Consumers \ {c} : consumer'[d] = consumer[d]
  BY <1>3 DEF MemoryInv, TypesOK
<1>6. j \notin settled /\ \A d \in Consumers : consumer[d] \in Hand => consumer[d].job # j
  BY <1>2 DEF MemoryInv, OnePlace
<1>7. Holders(j)' = {c}
  BY <1>4, <1>5, <1>6 DEF Holders
<1>8. \A i \in Jobs \ {j} : Holders(i)' = Holders(i)
  BY <1>3, <1>4, <1>5, NobodyHolds DEF Holders
<1>9. Where[j] = "waiting"
  BY <1>2, <1>6, WhereOf
<1>10. Where'[j] = c
  BY <1>2, <1>3, <1>6, <1>7 DEF Where
<1>11. ASSUME NEW i \in Jobs \ {j} PROVE Where'[i] = Where[i]
  BY <1>2, <1>3, <1>8, Unmoved
<1>12. Where' = [Where EXCEPT ![j] = c]
  BY <1>2, <1>10, <1>11, Moved
<1> QED
  BY <1>2, <1>9, <1>12 DEF Promise!Take

\* Working on a job is no step of the abstract queue.
LEMMA MapsGoing ==
    ASSUME MemoryInv, NEW c \in Consumers, TrackJob(c) \/ ExecuteJob(c)
    PROVE  MemoryInv' /\ Where' = Where
<1>1. GoesOn(c)
  BY GoingOn
<1>2. MemoryInv' /\ \A i \in Jobs : Holders(i)' = Holders(i)
  BY <1>1, Goes
<1>3. consumer[c] \in Hand
  BY <1>1, InHand DEF GoesOn, MemoryInv
<1>4. settled' = settled /\ Waiting' = Waiting /\ inflight' = inflight \cup {consumer[c].job}
  BY <1>1 DEF GoesOn, Waiting
<1>5. ASSUME NEW i \in Jobs PROVE Where'[i] = Where[i]
  <2>1. c \in Holders(consumer[c].job)
    BY <1>3 DEF Holders
  <2> QED
    BY <1>2, <1>4, <2>1, Unmoved
<1> QED
  BY <1>2, <1>5, Stays

\* Letting a job go returns it.
LEMMA MapsLetting ==
    ASSUME MemoryInv, NEW c \in Consumers, SettleJob(c) \/ HandBack(c) \/ ParkJob(c)
    PROVE  MemoryInv' /\ \E j \in Jobs : Promise!Return(j)
<1>1. PICK j : j = consumer[c].job
  OBVIOUS
<1>2. LetsGo(c, j)
  BY <1>1, LettingGo
<1>3. /\ MemoryInv' /\ j \in Jobs /\ j \in inflight /\ j \notin Waiting \cup settled
      /\ Holders(j) = {c} /\ Holders(j)' = {}
      /\ \A i \in Jobs \ {j} : Holders(i)' = Holders(i)
  BY <1>2, Lets
<1>4. Where[j] = c
  BY <1>3, WhereOf
<1>5. Where'[j] \in {"settled", "waiting", "parked"}
  <2>1. CASE settled' = settled \cup {j}
    BY <1>3, <2>1 DEF Where
  <2>2. CASE settled' = settled /\ timers' = timers \cup {j}
    <3>1. j \in Waiting'
      BY <2>2 DEF Waiting
    <3> QED
      BY <1>3, <2>2, <3>1 DEF Where
  <2>3. CASE settled' = settled /\ timers' = timers /\ inflight' = inflight
    <3>1. Waiting' = Waiting
      BY <1>2, <2>3 DEF LetsGo, Waiting
    <3> QED
      BY <1>3, <2>3, <3>1 DEF Where
  <2> QED
    BY <1>2, <2>1, <2>2, <2>3 DEF LetsGo
<1>6. ASSUME NEW i \in Jobs \ {j} PROVE Where'[i] = Where[i]
  <2>1. (i \in settled' <=> i \in settled) /\ (i \in Waiting' <=> i \in Waiting)
        /\ (i \in inflight' <=> i \in inflight)
    BY <1>2 DEF LetsGo, Waiting
  <2> QED
    BY <1>3, <2>1, Unmoved
<1>7. Where' = [Where EXCEPT ![j] = Where'[j]]
  BY <1>3, <1>6, Moved
<1> QED
  BY <1>3, <1>4, <1>5, <1>7 DEF Promise!Return

\* Every step is one of the abstract queue, or none.
LEMMA MapsStep ==
    ASSUME MemoryInv, [MemoryNext]_memoryVars
    PROVE  MemoryInv' /\ (Promise!JobQueueNext \/ Where' = Where)
<1>1. CASE UNCHANGED memoryVars
  <2>1. MemoryInv'
    BY <1>1 DEF memoryVars, MemoryInv, TypesOK, OnePlace, KnownJobs, Holders, Waiting, Queued
  <2>2. Where' = Where
    BY <1>1 DEF memoryVars, Where, Holders, Waiting
  <2> QED
    BY <2>1, <2>2
<1>2. CASE \E j \in Jobs : EnqueueJob(j) \/ EnqueueJobGivesUp(j) \/ Resend(j)
  BY <1>2, MapsRequest DEF Promise!JobQueueNext
<1>3. CASE \E c \in Consumers : ConsumerStep(c)
  <2>1. PICK c \in Consumers : ConsumerStep(c)
    BY <1>3
  <2>2. CASE DequeueJob(c)
    BY <2>2, MapsDequeue DEF Promise!JobQueueNext
  <2>3. CASE TrackJob(c) \/ ExecuteJob(c)
    BY <2>3, MapsGoing
  <2>4. CASE SettleJob(c) \/ HandBack(c) \/ ParkJob(c)
    BY <2>4, MapsLetting DEF Promise!JobQueueNext
  <2> QED
    BY <2>1, <2>2, <2>3, <2>4 DEF ConsumerStep
<1> QED
  BY <1>1, <1>2, <1>3 DEF MemoryNext

\* In the beginning no job is anywhere.
LEMMA MapsInit == MemoryInit => MemoryInv /\ Promise!JobQueueInit
<1> SUFFICES ASSUME MemoryInit PROVE MemoryInv /\ Promise!JobQueueInit
  OBVIOUS
<1>1. Queued = {} /\ Waiting = {} /\ ch \in Seq(Jobs) /\ Len(ch) = 0
  BY DEF MemoryInit, Queued, Waiting, Range
<1>2. \A j \in Jobs : Holders(j) = {}
  BY NobodyHolds DEF MemoryInit, Holders
<1>3. TypesOK
  BY <1>1 DEF MemoryInit, TypesOK
<1>4. OnePlace
  BY <1>1, NobodyHolds DEF MemoryInit, OnePlace
<1>5. KnownJobs
  BY <1>1, <1>2, NobodyHolds DEF MemoryInit, KnownJobs
<1>6. \A j \in Jobs : Where[j] = "absent"
  BY <1>1, <1>2, WhereOf DEF MemoryInit
<1>7. Promise!JobQueueInit
  BY <1>6 DEF Promise!JobQueueInit, Where
<1> QED
  BY <1>3, <1>4, <1>5, <1>7 DEF MemoryInv

\* The queue within the process keeps the promise of JobQueue: a job is with one consumer at a
\* time, and it leaves only when it is settled.
THEOREM PromiseKept == MemorySpec => KeepsPromise
<1>1. MemoryInit => MemoryInv /\ Promise!JobQueueInit
  BY MapsInit
<1>2. MemoryInv /\ [MemoryNext]_memoryVars => MemoryInv' /\ [Promise!JobQueueNext]_Where
  BY MapsStep
<1> QED
  BY <1>1, <1>2, PTL DEF MemorySpec, KeepsPromise, Promise!JobQueueSpec
=============================================================================
