---------------------- MODULE RedisWorkflowLockProofs ----------------------
(***************************************************************************)
(* Proofs about RedisWorkflowLock.  TokenInv says that a token belongs to  *)
(* one client and holds under every fault; it makes the compare-and-delete *)
(* release safe.  HolderInv ties the clients between SET NX and the end of *)
(* their release to the stored key while no fault has happened, and gives  *)
(* mutual exclusion and the refinement.                                    *)
(***************************************************************************)
EXTENDS RedisWorkflowLock, TLAPS

\* Tokens are drawn from a counter and never shared; whoever has passed the local
\* check has drawn one.
TokenInv ==
    /\ TypeOK
    /\ \A c \in Clients : token[c] <= tokens
    /\ \A c, e \in Clients : token[c] = token[e] /\ token[c] # 0 => c = e
    /\ \A c \in Clients : pc[c] \in {"setnx", "mark", "run", "del"} => token[c] # 0

\* TypeOK and TokenInv hold of every reachable state, whatever faults happen.
LEMMA TokenInvariant == Spec => []TokenInv
<1>1. Init => TokenInv
  BY LockAssumption DEF Init, TokenInv, TypeOK, Steps
<1>2. TokenInv /\ [Next]_vars => TokenInv'
  <2> SUFFICES ASSUME TokenInv, [Next]_vars
               PROVE  TokenInv'
    OBVIOUS
  <2> USE LockAssumption DEF TokenInv, TypeOK, Steps
  <2>1. ASSUME NEW c \in Clients, CheckLocal(c)
        PROVE  TokenInv'
    BY <2>1 DEF CheckLocal, Goto
  <2>2. ASSUME NEW c \in Clients, SetNX(c)
        PROVE  TokenInv'
    BY <2>2 DEF SetNX, Goto
  <2>3. ASSUME NEW c \in Clients, SetNXBusy(c)
        PROVE  TokenInv'
    BY <2>3 DEF SetNXBusy, Goto
  <2>4. ASSUME NEW c \in Clients, SetNXError(c)
        PROVE  TokenInv'
    <3>1. token' = token /\ tokens' = tokens /\ local' = local /\ calm' \in BOOLEAN
      BY <2>4 DEF SetNXError
    <3>2. lock' \in {lock, token[c]} /\ owner' \in {owner, c}
      BY <2>4 DEF SetNXError
    <3>3. pc' = [pc EXCEPT ![c] = "free"]
      BY <2>4 DEF SetNXError, Goto
    <3>4. TypeOK'
      BY <3>1, <3>2, <3>3
    <3>5. \A e \in Clients : pc'[e] \in {"setnx", "mark", "run", "del"} => pc[e] = pc'[e]
      BY <3>3
    <3> QED
      BY <3>1, <3>4, <3>5
  <2>5. ASSUME NEW c \in Clients, MarkLocal(c)
        PROVE  TokenInv'
    BY <2>5 DEF MarkLocal, Goto
  <2>6. ASSUME NEW c \in Clients, Release(c)
        PROVE  TokenInv'
    BY <2>6 DEF Release, Goto
  <2>7. ASSUME NEW c \in Clients, ReleaseNothing(c)
        PROVE  TokenInv'
    BY <2>7 DEF ReleaseNothing, Goto
  <2>8. ASSUME NEW c \in Clients, DelScript(c)
        PROVE  TokenInv'
    BY <2>8 DEF DelScript, Goto
  <2>9. ASSUME NEW c \in Clients, DelLost(c)
        PROVE  TokenInv'
    BY <2>9 DEF DelLost, Goto
  <2>10. CASE Expire
    BY <2>10 DEF Expire
  <2>11. ASSUME NEW i \in Instances, Crash(i)
         PROVE  TokenInv'
    BY <2>11 DEF Crash
  <2>12. CASE UNCHANGED vars
    BY <2>12 DEF vars
  <2> QED
    BY <2>1, <2>2, <2>3, <2>4, <2>5, <2>6, <2>7, <2>8, <2>9, <2>10, <2>11, <2>12
    DEF Next, Step
<1> QED
  BY <1>1, <1>2, PTL DEF Spec

\* A lock is only ever taken away by its owner or by the TTL, even when executions
\* outlast the TTL and Redis fails (the compare-and-delete of delScript).
THEOREM ReleaseSafe == Spec => OnlyOwnerReleases
<1>1. ASSUME TokenInv, [Next]_vars, NEW c \in Clients, NEW e \in Clients,
             Holding(c), lock = token[c], lock' # lock, pc'[e] # pc[e]
      PROVE  e = c
  <2>0. lock # 0
    BY <1>1 DEF Holding, TokenInv
  <2>1. ASSUME NEW f \in Clients, Step(f)
        PROVE  e = c
    <3>1. pc[f] = "del" /\ lock = token[f] /\ pc' = [pc EXCEPT ![f] = "idle"]
      BY <1>1, <2>0, <2>1 DEF Step, CheckLocal, SetNX, SetNXBusy, SetNXError, MarkLocal,
                              Release, ReleaseNothing, DelScript, DelLost, Goto
    <3>2. f = c
      BY <3>1, <1>1, <2>0 DEF TokenInv
    <3>3. e = f
      BY <3>1, <1>1 DEF TokenInv, TypeOK
    <3> QED
      BY <3>2, <3>3
  <2>2. CASE Expire
    BY <2>2, <1>1 DEF Expire
  <2>3. ASSUME NEW i \in Instances, Crash(i)
        PROVE  e = c
    BY <2>3, <1>1 DEF Crash
  <2>4. CASE UNCHANGED vars
    BY <2>4, <1>1 DEF vars
  <2> QED
    BY <2>1, <2>2, <2>3, <2>4, <1>1 DEF Next
<1>2. TokenInv /\ [Next]_vars =>
        [\A c, e \in Clients :
           (Holding(c) /\ lock = token[c] /\ lock' # lock /\ pc'[e] # pc[e]) => e = c]_vars
  BY <1>1
<1> QED
  BY <1>2, TokenInvariant, PTL DEF Spec, OnlyOwnerReleases

\* Until the first fault whoever holds the lock is its recorded owner and has its
\* token stored, and nobody executes without a lock.
HolderInv ==
    calm =>
      /\ lock = 0 <=> owner = Nobody
      /\ \A c \in Clients : Holding(c) => owner = c /\ lock = token[c]
      /\ \A c \in Clients : pc[c] # "free"

IndInv == TokenInv /\ HolderInv

\* HolderInv is inductive relative to TokenInv, whatever faults happen.
LEMMA HolderInvariant == Spec => []IndInv
<1>1. Init => HolderInv
  BY LockAssumption DEF Init, HolderInv, Holding
<1>2. TokenInv /\ HolderInv /\ [Next]_vars => HolderInv'
  <2> SUFFICES ASSUME TokenInv, HolderInv, [Next]_vars
               PROVE  HolderInv'
    OBVIOUS
  <2> USE LockAssumption DEF TokenInv, TypeOK, Steps, HolderInv, Holding
  <2>1. ASSUME NEW c \in Clients, CheckLocal(c)
        PROVE  HolderInv'
    BY <2>1 DEF CheckLocal, Goto
  <2>2. ASSUME NEW c \in Clients, SetNX(c)
        PROVE  HolderInv'
    <3>1. calm => \A e \in Clients : ~Holding(e)
      BY <2>2 DEF SetNX
    <3> QED
      BY <2>2, <3>1 DEF SetNX, Goto
  <2>3. ASSUME NEW c \in Clients, SetNXBusy(c)
        PROVE  HolderInv'
    BY <2>3 DEF SetNXBusy, Goto
  <2>4. ASSUME NEW c \in Clients, SetNXError(c)
        PROVE  HolderInv'
    BY <2>4 DEF SetNXError
  <2>5. ASSUME NEW c \in Clients, MarkLocal(c)
        PROVE  HolderInv'
    BY <2>5 DEF MarkLocal, Goto
  <2>6. ASSUME NEW c \in Clients, Release(c)
        PROVE  HolderInv'
    BY <2>6 DEF Release, Goto
  <2>7. ASSUME NEW c \in Clients, ReleaseNothing(c)
        PROVE  HolderInv'
    BY <2>7 DEF ReleaseNothing, Goto
  <2>8. ASSUME NEW c \in Clients, DelScript(c)
        PROVE  HolderInv'
    <3>1. calm => \A e \in Clients : Holding(e) => e = c
      BY <2>8 DEF DelScript
    <3> QED
      BY <2>8, <3>1 DEF DelScript, Goto
  <2>9. ASSUME NEW c \in Clients, DelLost(c)
        PROVE  HolderInv'
    BY <2>9 DEF DelLost, Goto
  <2>10. CASE Expire
    BY <2>10 DEF Expire, InUse
  <2>11. ASSUME NEW i \in Instances, Crash(i)
         PROVE  HolderInv'
    BY <2>11 DEF Crash
  <2>12. CASE UNCHANGED vars
    BY <2>12 DEF vars
  <2> QED
    BY <2>1, <2>2, <2>3, <2>4, <2>5, <2>6, <2>7, <2>8, <2>9, <2>10, <2>11, <2>12
    DEF Next, Step
<1> QED
  BY <1>1, <1>2, TokenInvariant, PTL DEF Spec, IndInv

\* Until a Redis command fails or an execution outlasts the TTL, a task is never
\* executed by two consumers at once, for any number of instances and consumers.
THEOREM Exclusive == Spec => []MutualExclusion
<1>1. IndInv => MutualExclusion
  BY DEF IndInv, HolderInv, Holding, MutualExclusion, Executing
<1> QED
  BY <1>1, HolderInvariant, PTL

\* The Redis lock implements the lock the interface promises, until the first fault
\* ends the promise.
THEOREM Implements == Spec => Refinement
<1> DEFINE Active == {c \in Clients : calm /\ Holding(c)}
           Owner == IF calm THEN owner ELSE Nobody
<1>1. Init => Abstract!Init
  BY DEF Init, Abstract!Init, Holding
<1>2. IndInv /\ [Next]_vars => [Abstract!Next]_(Abstract!vars)
  <2> SUFFICES ASSUME IndInv, [Next]_vars
               PROVE  Abstract!Next \/ UNCHANGED Abstract!vars
    OBVIOUS
  <2> USE LockAssumption DEF IndInv, TokenInv, TypeOK, Steps, HolderInv, Holding
  <2>1. ASSUME NEW c \in Clients,
               CheckLocal(c) \/ SetNXBusy(c) \/ MarkLocal(c) \/ Release(c) \/ ReleaseNothing(c)
        PROVE  UNCHANGED Abstract!vars
    <3>1. Owner' = Owner
      BY <2>1 DEF CheckLocal, SetNXBusy, MarkLocal, Release, ReleaseNothing
    <3>2. Active' = Active
      BY <2>1 DEF CheckLocal, SetNXBusy, MarkLocal, Release, ReleaseNothing, Goto
    <3> QED
      BY <3>1, <3>2 DEF Abstract!vars
  <2>2. ASSUME NEW c \in Clients, SetNX(c)
        PROVE  Abstract!Next \/ UNCHANGED Abstract!vars
    <3>1. CASE calm
      <4>1. Owner = Nobody /\ Owner' = c
        BY <2>2, <3>1 DEF SetNX
      <4>2. Active' = Active \cup {c}
        BY <2>2, <3>1 DEF SetNX, Goto
      <4> QED
        BY <4>1, <4>2 DEF Abstract!Acquire, Abstract!Next
    <3>2. CASE ~calm
      BY <2>2, <3>2 DEF SetNX, Abstract!vars
    <3> QED
      BY <3>1, <3>2
  <2>3. ASSUME NEW c \in Clients, DelScript(c) \/ DelLost(c)
        PROVE  Abstract!Next \/ UNCHANGED Abstract!vars
    <3>1. CASE calm
      <4>1. c \in Active /\ Owner' \in {Nobody, Owner}
        BY <2>3, <3>1 DEF DelScript, DelLost
      <4>2. Active' = Active \ {c}
        BY <2>3, <3>1 DEF DelScript, DelLost, Goto
      <4> QED
        BY <4>1, <4>2 DEF Abstract!Release, Abstract!Next
    <3>2. CASE ~calm
      BY <2>3, <3>2 DEF DelScript, DelLost, Abstract!vars
    <3> QED
      BY <3>1, <3>2
  <2>4. ASSUME calm' = FALSE
        PROVE  Abstract!Next \/ UNCHANGED Abstract!vars
    <3>1. Active' = {} /\ Owner' = Nobody
      BY <2>4
    <3>2. CASE \E c \in Active : TRUE
      <4>1. PICK c \in Active : TRUE
        BY <3>2
      <4>2. Active \ {c} = {}
        BY <4>1
      <4> QED
        BY <3>1, <4>1, <4>2 DEF Abstract!Release, Abstract!Next
    <3>3. CASE Active = {}
      BY <3>1, <3>3 DEF Abstract!Free, Abstract!Next
    <3> QED
      BY <3>2, <3>3
  <2>5. CASE Expire /\ calm'
    <3>1. Owner \notin Active /\ Owner' = Nobody
      BY <2>5 DEF Expire, InUse
    <3>2. Active' = Active
      BY <2>5 DEF Expire
    <3> QED
      BY <3>1, <3>2 DEF Abstract!Next, Abstract!Free
  <2>6. ASSUME NEW i \in Instances, Crash(i)
        PROVE  Abstract!Next \/ UNCHANGED Abstract!vars
    <3>1. Owner' = Owner
      BY <2>6 DEF Crash
    <3>2. CASE \E c \in Active : Home[c] = i
      <4>1. PICK c \in Active : Home[c] = i
        BY <3>2
      <4>2. Active' = Active \ {c}
        BY <2>6, <4>1 DEF Crash
      <4> QED
        BY <3>1, <4>1, <4>2 DEF Abstract!Next, Abstract!Release
    <3>3. CASE \A c \in Active : Home[c] # i
      <4>1. Active' = Active
        BY <2>6, <3>3 DEF Crash
      <4> QED
        BY <3>1, <4>1 DEF Abstract!vars
    <3> QED
      BY <3>2, <3>3
  <2>7. CASE UNCHANGED vars
    BY <2>7 DEF vars, Abstract!vars
  <2>8. ASSUME NEW c \in Clients, SetNXError(c)
        PROVE  calm' = FALSE
    BY <2>8 DEF SetNXError
  <2> QED
    BY <2>1, <2>2, <2>3, <2>4, <2>5, <2>6, <2>7, <2>8 DEF Next, Step, TypeOK, Expire
<1> QED
  BY <1>1, <1>2, HolderInvariant, PTL DEF Spec, Refinement, Abstract!Spec
=============================================================================
