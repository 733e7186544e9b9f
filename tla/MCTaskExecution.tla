-------------------------- MODULE MCTaskExecution --------------------------
(***************************************************************************)
(* Workflows for TLC.  Gated is a fork and a join behind an approval,      *)
(* Chain a node two levels down, Pair a single dependency for the run with *)
(* many faults.                                                            *)
(***************************************************************************)
EXTENDS TaskExecution, TLC

CONSTANTS a, b, c, d, g

\* a feeds g, g feeds b and c, both feed d.
Gated == (a :> {g}) @@ (g :> {b, c}) @@ (b :> {d}) @@ (c :> {d}) @@ (d :> {})

\* a feeds b, b feeds c.
Chain == (a :> {b}) @@ (b :> {c}) @@ (c :> {})

\* b feeds c.
Pair == (b :> {c}) @@ (c :> {})

NoRetry  == [n \in Nodes |-> 0]
OneRetry == [n \in Nodes |-> IF n = b THEN 1 ELSE 0]
AllRetry == [n \in Nodes |-> 1]
=============================================================================
