--------------------------- MODULE ExecutionLock ---------------------------
(***************************************************************************)
(* What WorkflowLock promises to executeTask (the interface in             *)
(* internal/scheduler/wflock.go, and its in-process implementation         *)
(* MemoryWorkflowLock): a task is executed by at most one consumer, the    *)
(* one that holds the lock.  A holder that goes away may leave the lock    *)
(* behind for a while.                                                     *)
(***************************************************************************)
CONSTANTS Clients, Nobody

VARIABLES
    holder,  \* the consumer the lock belongs to, or Nobody
    active   \* consumers between Acquire and the end of release

vars == <<holder, active>>

Init == holder = Nobody /\ active = {}

Acquire(c) ==
    /\ holder = Nobody
    /\ holder' = c
    /\ active' = active \cup {c}

\* The release reaches the lock, or is lost with its holder.
Release(c) ==
    /\ c \in active
    /\ active' = active \ {c}
    /\ holder' \in {Nobody, holder}

\* A lock left behind is freed.
Free ==
    /\ holder \notin active
    /\ holder' = Nobody
    /\ UNCHANGED active

Next == Free \/ \E c \in Clients : Acquire(c) \/ Release(c)

Spec == Init /\ [][Next]_vars
=============================================================================
