------------------------ MODULE MCRedisStreamQueue ------------------------
(***************************************************************************)
(* Instances of the Redis queue for TLC: sets of model values and the      *)
(* symmetries between them.                                                *)
(***************************************************************************)
EXTENDS RedisStreamQueue, TLC

\* Clients of one kind are interchangeable.
ClientSymmetry == Permutations(Consumers) \cup Permutations(Producers)

\* So are the tasks, but one of them also marks idle variables, which rules a symmetry set out.
\* Instead that one is submitted first.
Submitted == IF offered = {} THEN {NoTask} ELSE Tasks

OrderedNext ==
    \/ \E p \in Producers :
         \/ \E t \in Submitted : Admit(p, t)
         \/ EnqueueAdd(p)
         \/ EnqueueFail(p)
         \/ ProducerCrash(p)
    \/ \E c \in Consumers : ConsumerStep(c)
    \/ \E m \in Maintainers : MaintainerStep(m)

OrderedSpec == Init /\ [][OrderedNext]_vars
=============================================================================
