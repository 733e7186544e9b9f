------------------------ MODULE MCRedisWorkflowLock ------------------------
(***************************************************************************)
(* Two instances for TLC, one with two consumers and one with one.         *)
(***************************************************************************)
EXTENDS RedisWorkflowLock, TLC

CONSTANTS i1, i2, c1, c2, c3

TwoOne == (c1 :> i1) @@ (c2 :> i1) @@ (c3 :> i2)
=============================================================================
