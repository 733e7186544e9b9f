------------------------------ MODULE JobQueue ------------------------------
(***************************************************************************)
(* What the scheduler relies on in a queue within the process              *)
(* (the interface Queue of internal/queue/queue.go without crashes): a job *)
(* is with one consumer at a time, and leaves only when it is settled.     *)
(***************************************************************************)
EXTENDS Naturals

CONSTANTS Jobs, Consumers

VARIABLE where   \* where[j]: "absent", "waiting", its consumer, "parked" or "settled"

JobQueueInit == where = [j \in Jobs |-> "absent"]

Put(j) == where[j] = "absent" /\ where' = [where EXCEPT ![j] = "waiting"]

Take(j, c) == where[j] = "waiting" /\ where' = [where EXCEPT ![j] = c]

\* Acknowledged or dropped, handed back, or left with an approval.
Return(j) ==
    /\ where[j] \in Consumers
    /\ \E w \in {"settled", "waiting", "parked"} : where' = [where EXCEPT ![j] = w]

JobQueueNext == \E j \in Jobs : Put(j) \/ Return(j) \/ \E c \in Consumers : Take(j, c)

JobQueueSpec == JobQueueInit /\ [][JobQueueNext]_where
=============================================================================
