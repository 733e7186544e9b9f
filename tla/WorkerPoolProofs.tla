-------------------------- MODULE WorkerPoolProofs --------------------------
(***************************************************************************)
(* Proofs about WorkerPool, for any number of workers and senders and any  *)
(* capacity.  SenderInv is the argument behind close(jobs): whoever passes *)
(* the second look at closed is counted in inflight, and once Wait has     *)
(* returned nobody passes it any more.  WorkerInv adds which worker holds  *)
(* which job and why a worker has left.                                    *)
(***************************************************************************)
EXTENDS WorkerPool, TLAPS

SenderInv ==
    /\ shut # "open" => closed
    /\ sendersGone => closed
    /\ chanClosed => sendersGone
    /\ \A j \in Jobs : at[j] \in {"recheck", "send"} => j \in inflight
    /\ sendersGone => \A j \in Jobs : at[j] # "send"

WorkerInv ==
    /\ \A j \in Jobs : at[j] \in {"taken", "running"} => \E w \in Workers : worker[w] = j
    /\ \A w \in Workers : worker[w] \in Jobs => at[worker[w]] \in {"taken", "running"}
    /\ \A v, w \in Workers : worker[v] = worker[w] /\ worker[v] \in Jobs => v = w
    /\ \A w \in Workers : worker[w] = Gone /\ ~quit =>
         chanClosed /\ \A j \in Jobs : at[j] # "queued"
    /\ shut \in {"forced", "cancel", "last"} => quit
    /\ shut = "returned" /\ ~quit => \A w \in Workers : worker[w] = Gone

WaitInv ==
    /\ shut \in {"open", "senders"} => waits = 0
    /\ shut \in {"forced", "drain"} => waits <= 1
    /\ shut \in {"cancel", "last"} => waits <= 2

IndInv == TypeOK /\ WaitInv /\ SenderInv /\ WorkerInv

\* IndInv is inductive.
LEMMA Inductive == Spec => []IndInv
<1> USE PoolAssumption DEF IndInv, TypeOK, WaitInv, JobStates, SenderInv, WorkerInv
<1>1. Init => IndInv
  <2> SUFFICES ASSUME Init
               PROVE  IndInv
    OBVIOUS
  <2>1. /\ \A j \in Jobs : at[j] = "new"
        /\ \A w \in Workers : worker[w] = Idle
    BY DEF Init
  <2>2. TypeOK
    <3>1. at \in [Jobs -> JobStates] /\ worker \in [Workers -> Jobs \cup {Idle, Gone}]
      BY DEF Init
    <3>2. cancelled \subseteq Jobs /\ inflight \subseteq Jobs
      BY DEF Init
    <3>3. /\ closed \in BOOLEAN /\ sendersGone \in BOOLEAN /\ chanClosed \in BOOLEAN
          /\ quit \in BOOLEAN /\ poolDone \in BOOLEAN
      BY Zenon DEF Init
    <3>4. shut = "open" /\ waits \in 0..3
      BY SMT DEF Init
    <3> QED
      BY <3>1, <3>2, <3>3, <3>4
  <2>3. WaitInv /\ SenderInv
    BY <2>1 DEF Init
  <2>4. WorkerInv
    BY <2>1 DEF Init
  <2> QED
    BY <2>2, <2>3, <2>4
<1>2. IndInv /\ [Next]_vars => IndInv'
  <2> SUFFICES ASSUME IndInv, [Next]_vars
               PROVE  IndInv'
    OBVIOUS
  <2>1. ASSUME NEW j \in Jobs, SubmitCheck(j)
        PROVE  IndInv'
    BY <2>1 DEF SubmitCheck, Goto
  <2>2. ASSUME NEW j \in Jobs, SubmitAdd(j)
        PROVE  IndInv'
    BY <2>2 DEF SubmitAdd, Goto
  <2>3. ASSUME NEW j \in Jobs, SubmitRecheck(j)
        PROVE  IndInv'
    BY <2>3 DEF SubmitRecheck, Goto
  <2>4. ASSUME NEW j \in Jobs, SubmitSend(j)
        PROVE  IndInv'
    BY <2>4 DEF SubmitSend, Goto
  <2>5. ASSUME NEW j \in Jobs, SubmitGiveUp(j)
        PROVE  IndInv'
    BY <2>5 DEF SubmitGiveUp, Goto
  <2>6. ASSUME NEW w \in Workers, NEW j \in Jobs, WorkerTake(w, j)
        PROVE  IndInv'
    BY <2>6 DEF WorkerTake, Goto
  <2>7. ASSUME NEW w \in Workers, WorkerRegister(w)
        PROVE  IndInv'
    BY <2>7 DEF WorkerRegister, Goto
  <2>8. ASSUME NEW w \in Workers, WorkerFinish(w)
        PROVE  IndInv'
    BY <2>8 DEF WorkerFinish, Goto
  <2>9. ASSUME NEW w \in Workers, WorkerExit(w)
        PROVE  IndInv'
    BY <2>9 DEF WorkerExit, Queued
  <2>10. CASE Sigterm
    BY <2>10 DEF Sigterm
  <2>11. CASE ShutdownBegin
    BY <2>11 DEF ShutdownBegin
  <2>12. CASE SendersLeave
    BY <2>12 DEF SendersLeave
  <2>13. CASE SendersTimeout
    BY <2>13 DEF SendersTimeout
  <2>14. CASE CloseJobs
    BY <2>14 DEF CloseJobs
  <2>15. CASE Drained
    BY <2>15 DEF Drained
  <2>16. CASE DrainTimeout
    BY <2>16 DEF DrainTimeout
  <2>17. CASE CancelRunning
    BY <2>17 DEF CancelRunning
  <2>18. CASE LastTimeout
    BY <2>18 DEF LastTimeout
  <2>19. CASE UNCHANGED vars
    BY <2>19 DEF vars
  <2> QED
    BY <2>1, <2>2, <2>3, <2>4, <2>5, <2>6, <2>7, <2>8, <2>9, <2>10, <2>11, <2>12, <2>13,
       <2>14, <2>15, <2>16, <2>17, <2>18, <2>19
    DEF Next, SubmitStep, WorkerStep, ShutdownStep
<1> QED
  BY <1>1, <1>2, PTL DEF Spec

\* The job channel is never closed under a sender.
THEOREM CloseIsSafe == Spec => []NoSendOnClosed
<1>1. IndInv => NoSendOnClosed
  BY DEF IndInv, SenderInv, NoSendOnClosed
<1> QED
  BY <1>1, Inductive, PTL

\* A Shutdown that was not forced leaves no accepted job behind.
THEOREM ShutdownDrains == Spec => []GracefulDrain
<1>1. IndInv => GracefulDrain
  <2> SUFFICES ASSUME IndInv, shut = "returned", ~quit, NEW j \in Jobs
               PROVE  at[j] \notin {"queued", "taken", "running"}
    BY DEF GracefulDrain
  <2>1. \A w \in Workers : worker[w] = Gone
    BY DEF IndInv, WorkerInv
  <2>2. at[j] # "queued"
    BY <2>1, PoolAssumption DEF IndInv, WorkerInv
  <2>3. at[j] \notin {"taken", "running"}
    BY <2>1, PoolAssumption DEF IndInv, WorkerInv
  <2> QED
    BY <2>2, <2>3
<1> QED
  BY <1>1, Inductive, PTL

\* Every executed job has exactly one worker.
THEOREM JobsAreExclusive == Spec => []OneWorkerPerJob
<1>1. IndInv => OneWorkerPerJob
  BY PoolAssumption DEF IndInv, TypeOK, WorkerInv, OneWorkerPerJob
<1> QED
  BY <1>1, Inductive, PTL
=============================================================================
