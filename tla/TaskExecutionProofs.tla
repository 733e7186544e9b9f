------------------------ MODULE TaskExecutionProofs ------------------------
(***************************************************************************)
(* Proofs that nodes are executed in the order of the DAG and that the     *)
(* loop ends exactly when its nodes are accounted for, for any workflow,   *)
(* any faults and any number of runs and decisions.  The loop looks only   *)
(* at its counters: inDegree is tied to the results because a node of the  *)
(* current run has at most one job, outcome or timer, so that no result is *)
(* counted twice; remaining is tied to the same jobs, outcomes and timers, *)
(* and the DAG has a first node among those that are not submitted.        *)
(*                                                                         *)
(* The last part proves what the rows of task_nodes and the final status   *)
(* say: they are the only thing that a run leaves to the next one, and     *)
(* what the next run makes of them is right as long as no node has been    *)
(* executed before its predecessors succeeded and no row is skipped        *)
(* without a failed one that is still there.                               *)
(***************************************************************************)
EXTENDS TaskExecution, FiniteSetTheorems, WellFoundedInduction, TLAPS

\* What the proof needs of the types.
Shapes ==
    /\ run \in 0..MaxRuns
    /\ jobs \subseteq Job /\ \A j \in jobs : j.run <= run
    /\ outcomes \subseteq Outcome
    /\ timers \subseteq Nodes /\ submitted \subseteq Nodes /\ results \subseteq submitted
    /\ inDegree \in [Nodes -> Int]

\* The jobs of the current run.
Current == {j \in jobs : j.run = run}

\* The counters tell how many predecessors have no result yet.
Counted == \A n \in Nodes : inDegree[n] = Cardinality(Preds(n) \ results)

\* A run begins with nothing in hand.
CleanStart ==
    /\ ~Registered \/ phase \in {"start", "resume"} =>
           results = {} /\ submitted = {} /\ outcomes = {} /\ timers = {}
    /\ phase \in {"start", "resume"} => Current = {}
    /\ phase = "begin" => run < MaxRuns
    /\ Registered => run > 0

\* n is given to the loop, has no result yet, and all its predecessors have one.
InWork(n) == n \in submitted \ results /\ Preds(n) \subseteq results

OneToken ==
    Registered =>
        /\ \A j \in Current : InWork(j.node) /\ j.node \notin timers
        /\ \A o \in outcomes : InWork(o.node) /\ o.node \notin timers
        /\ \A n \in timers : InWork(n)
        /\ \A j, k \in Current : j.node = k.node => j = k
        /\ \A o, p \in outcomes : o.node = p.node => o = p
        /\ \A j \in Current, o \in outcomes : j.node # o.node

OrderInv == Shapes /\ Counted /\ CleanStart /\ OneToken

-----------------------------------------------------------------------------
(* Facts about the DAG. *)

\* A node has finitely many predecessors, all of them nodes.
LEMMA PredsFinite == ASSUME NEW n PROVE IsFiniteSet(Preds(n)) /\ Preds(n) \subseteq Nodes
<1>1. Preds(n) \subseteq Nodes
  BY DEF Preds
<1> QED
  BY <1>1, ExecutionAssumption, FS_Subset

\* What is awaited of a node is a natural number, and zero only if nothing is.
LEMMA AwaitedOf ==
    ASSUME NEW n, NEW R
    PROVE  /\ IsFiniteSet(Preds(n) \ R) /\ Cardinality(Preds(n) \ R) \in Nat
           /\ Cardinality(Preds(n) \ R) = 0 => Preds(n) \subseteq R
<1>1. IsFiniteSet(Preds(n) \ R)
  BY PredsFinite, FS_Difference
<1>2. Cardinality(Preds(n) \ R) \in Nat
  BY <1>1, FS_CardinalityType
<1>3. Cardinality(Preds(n) \ R) = 0 => Preds(n) \ R = {}
  BY <1>1, FS_EmptySet
<1> QED
  BY <1>1, <1>2, <1>3

\* One result more takes one from the counters of its successors and of nobody else.
LEMMA OneResultMore ==
    ASSUME NEW n \in Nodes, NEW m \in Nodes, NEW R, m \notin R
    PROVE  Cardinality(Preds(n) \ (R \cup {m})) =
               IF n \in Edges[m] THEN Cardinality(Preds(n) \ R) - 1
               ELSE Cardinality(Preds(n) \ R)
<1>1. m \in Preds(n) <=> n \in Edges[m]
  BY DEF Preds
<1>2. CASE n \in Edges[m]
  <2>1. m \in Preds(n) \ R /\ Preds(n) \ (R \cup {m}) = (Preds(n) \ R) \ {m}
    BY <1>1, <1>2
  <2> QED
    BY <1>2, <2>1, AwaitedOf, FS_RemoveElement
<1>3. CASE n \notin Edges[m]
  <2>1. Preds(n) \ (R \cup {m}) = Preds(n) \ R
    BY <1>1, <1>3
  <2> QED
    BY <1>3, <2>1
<1> QED
  BY <1>2, <1>3

\* The checkpoint counts a whole set of results at once.
LEMMA ManyResults ==
    ASSUME NEW n, NEW R
    PROVE  Cardinality(Preds(n)) - Cardinality(Preds(n) \cap R) = Cardinality(Preds(n) \ R)
<1>1. IsFiniteSet(Preds(n)) /\ IsFiniteSet(Preds(n) \cap R) /\ IsFiniteSet(Preds(n) \ R)
  BY PredsFinite, AwaitedOf, FS_Subset
<1>2. Preds(n) = (Preds(n) \cap R) \cup (Preds(n) \ R) /\ (Preds(n) \cap R) \cap (Preds(n) \ R) = {}
  OBVIOUS
<1>3. Cardinality(Preds(n)) = Cardinality(Preds(n) \cap R) + Cardinality(Preds(n) \ R)
                              - Cardinality((Preds(n) \cap R) \cap (Preds(n) \ R))
  BY <1>1, <1>2, FS_Union
<1>4. Cardinality((Preds(n) \cap R) \cap (Preds(n) \ R)) = 0
  BY <1>2, FS_EmptySet
<1>5. Cardinality(Preds(n) \cap R) \in Nat /\ Cardinality(Preds(n) \ R) \in Nat
  BY <1>1, FS_CardinalityType
<1> QED
  BY <1>3, <1>4, <1>5

-----------------------------------------------------------------------------
(* The steps. *)

\* Steps that give the loop nothing new: they keep the nodes in work or take some of them back.
LEMMA QuietOK ==
    ASSUME OrderInv,
           UNCHANGED <<run, jobs, timers, results, inDegree>>, outcomes' \subseteq outcomes,
           submitted \subseteq submitted', submitted' \subseteq Nodes,
           submitted' = submitted \/ phase' = "loop",
           Registered' <=> Registered,
           phase' \in {"start", "resume"} => phase \in {"start", "resume"},
           phase' = "begin" => phase = "begin" \/ run < MaxRuns
    PROVE  OrderInv'
<1>1. Shapes'
  BY DEF OrderInv, Shapes
<1>2. Counted'
  BY DEF OrderInv, Counted
<1>3. CleanStart'
  BY DEF OrderInv, CleanStart, Current, Registered
<1>4. OneToken'
  BY DEF OrderInv, OneToken, Current, InWork
<1> QED
  BY <1>1, <1>2, <1>3, <1>4 DEF OrderInv

\* The end of a run leaves nothing behind but jobs that report to nobody.
LEMMA ReturnOK == ASSUME OrderInv, Return, jobs' \subseteq jobs, run' = run PROVE OrderInv'
<1>1. results' = {} /\ submitted' = {} /\ outcomes' = {} /\ timers' = {} /\ phase' = "idle"
      /\ inDegree' = DagInDegree
  BY DEF Return
<1>2. ASSUME NEW n \in Nodes
      PROVE  DagInDegree[n] = Cardinality(Preds(n) \ {}) /\ DagInDegree[n] \in Int
  <2>1. Preds(n) \ {} = Preds(n)
    OBVIOUS
  <2>2. Cardinality(Preds(n) \ {}) \in Nat
    BY AwaitedOf
  <2>3. DagInDegree[n] = Cardinality(Preds(n))
    BY DEF DagInDegree
  <2> QED
    BY <2>1, <2>2, <2>3
<1>3. DagInDegree \in [Nodes -> Int]
  BY <1>2 DEF DagInDegree
<1>4. Shapes'
  BY <1>1, <1>3 DEF OrderInv, Shapes
<1>5. Counted'
  BY <1>1, <1>2 DEF Counted
<1> QED
  BY <1>1, <1>4, <1>5 DEF OrderInv, CleanStart, OneToken, Registered

\* A new run finds no job of its own: those of earlier runs bear earlier numbers.
LEMMA RegisterOK == ASSUME OrderInv, Register PROVE OrderInv'
<1>1. /\ phase = "begin" /\ run' = run + 1 /\ phase' = "start"
      /\ UNCHANGED <<jobs, outcomes, timers, submitted, results, inDegree>>
  BY DEF Register, loopVars
<1>2. run \in Int /\ run' \in 0..MaxRuns
  BY <1>1, ExecutionAssumption DEF OrderInv, Shapes, CleanStart
<1>3. \A j \in jobs : j.run \in Int /\ j.run <= run
  BY DEF OrderInv, Shapes, Job
<1>4. Current' = {} /\ \A j \in jobs' : j.run <= run'
  BY <1>1, <1>2, <1>3 DEF Current
<1>5. Shapes'
  BY <1>1, <1>2, <1>4 DEF OrderInv, Shapes
<1>6. Counted' /\ outcomes' = {} /\ timers' = {} /\ results' = {} /\ submitted' = {}
  BY <1>1 DEF OrderInv, Counted, CleanStart, Registered
<1>7. run' > 0
  BY <1>1, ExecutionAssumption DEF OrderInv, Shapes
<1>8. CleanStart'
  BY <1>1, <1>4, <1>6, <1>7 DEF CleanStart
<1>9. OneToken'
  BY <1>4, <1>6 DEF OneToken
<1> QED
  BY <1>5, <1>6, <1>8, <1>9 DEF OrderInv

\* The checkpoint counts its succeeded rows, and nothing is in work yet.
LEMMA CheckpointOK == ASSUME OrderInv, Checkpoint PROVE OrderInv'
<1>1. PICK rows \in Rows :
         LET With(v) == {n \in Nodes : rows[n] = v}
             below   == Descendants(With("failed") \cup With("skipped"))
             verdict == With("succeeded") \cup With("failed") \cup With("skipped")
         IN  /\ submitted' = verdict \cup below
             /\ results' = With("succeeded")
             /\ inDegree' = [n \in Nodes |->
                   inDegree[n] - Cardinality(Preds(n) \cap With("succeeded"))]
  BY DEF Checkpoint
<1> DEFINE R == {n \in Nodes : rows[n] = "succeeded"}
<1>2. /\ results' = R /\ R \subseteq submitted' /\ submitted' \subseteq Nodes
      /\ inDegree' = [n \in Nodes |-> inDegree[n] - Cardinality(Preds(n) \cap R)]
  BY <1>1 DEF Descendants
<1>3. /\ phase = "resume" /\ phase' = "loop"
      /\ UNCHANGED <<run, jobs, outcomes, timers>>
  BY DEF Checkpoint
<1> HIDE DEF R
<1>4. results = {} /\ outcomes = {} /\ timers = {} /\ Current = {}
  BY <1>3 DEF OrderInv, CleanStart
<1>5. ASSUME NEW n \in Nodes
      PROVE  inDegree'[n] = Cardinality(Preds(n) \ R) /\ inDegree'[n] \in Int
  <2>1. Preds(n) \ {} = Preds(n)
    OBVIOUS
  <2>2. inDegree[n] = Cardinality(Preds(n))
    BY <1>4, <2>1 DEF OrderInv, Counted
  <2>3. inDegree'[n] = Cardinality(Preds(n)) - Cardinality(Preds(n) \cap R)
    BY <1>2, <2>2
  <2>4. Cardinality(Preds(n) \ R) \in Nat
    BY AwaitedOf
  <2>5. Cardinality(Preds(n)) - Cardinality(Preds(n) \cap R) = Cardinality(Preds(n) \ R)
    BY ManyResults
  <2> QED
    BY <2>3, <2>4, <2>5
<1>6. inDegree' \in [Nodes -> Int]
  BY <1>2, <1>5
<1>7. Shapes'
  BY <1>2, <1>3, <1>6 DEF OrderInv, Shapes
<1>8. Counted'
  BY <1>2, <1>5 DEF Counted
<1>9. CleanStart'
  BY <1>3 DEF OrderInv, CleanStart, Registered
<1>10. OneToken'
  BY <1>3, <1>4 DEF OneToken, Current
<1> QED
  BY <1>7, <1>8, <1>9, <1>10 DEF OrderInv

\* A new job or timer of a node that has no other of its kinds.
LEMMA SubmitOK == ASSUME OrderInv, NEW n \in Nodes, SubmitNode(n) PROVE OrderInv'
<1>1. /\ phase = "loop" /\ n \notin submitted /\ inDegree[n] = 0
      /\ UNCHANGED <<phase, run, inDegree, results, timers, outcomes>>
  BY DEF SubmitNode, Ready
<1>2. CASE submitted' = submitted \cup {n} \cup SkipSet({n}) /\ jobs' = jobs
  <2>1. submitted' \subseteq Nodes
    BY <1>2 DEF SkipSet, Descendants, OrderInv, Shapes
  <2> QED
    BY <1>1, <1>2, <2>1, QuietOK DEF Registered
<1>3. CASE /\ jobs' = jobs \cup {[node |-> n, run |-> run, started |-> FALSE]}
           /\ submitted' = submitted \cup {n}
  <2> DEFINE k == [node |-> n, run |-> run, started |-> FALSE]
  <2>1. run \in 1..MaxRuns
    <3>1. run > 0 /\ run \in 0..MaxRuns
      BY <1>1 DEF OrderInv, CleanStart, Shapes, Registered
    <3> QED
      BY <3>1, ExecutionAssumption
  <2>2. k \in Job /\ k.run = run /\ k.node = n
    BY <2>1 DEF Job
  <2> HIDE DEF k
  <2>3. jobs' = jobs \cup {k}
    BY <1>3 DEF k
  <2>4. Current' = Current \cup {k}
    BY <1>1, <2>2, <2>3 DEF Current
  <2>5. Preds(n) \subseteq results
    BY <1>1, AwaitedOf DEF OrderInv, Counted
  <2>6. n \notin results /\ n \notin timers /\ (\A j \in Current : j.node # n)
        /\ (\A o \in outcomes : o.node # n)
    BY <1>1 DEF OrderInv, Shapes, OneToken, Registered, InWork
  <2>7. InWork(n)'
    BY <1>1, <1>3, <2>5, <2>6 DEF InWork
  <2>8. \A m : InWork(m) => InWork(m)'
    BY <1>1, <1>3 DEF InWork
  <2>9. Shapes'
    BY <1>1, <1>3, <2>1, <2>2, <2>3 DEF OrderInv, Shapes
  <2>10. Counted' /\ CleanStart'
    BY <1>1 DEF OrderInv, Counted, CleanStart, Registered
  <2>11. OneToken'
    BY <1>1, <2>2, <2>4, <2>6, <2>7, <2>8 DEF OrderInv, OneToken, Registered
  <2> QED
    BY <2>9, <2>10, <2>11 DEF OrderInv
<1> QED
  BY <1>2, <1>3 DEF SubmitNode

\* A result is counted once, and its node has nothing else in work.
LEMMA SelectOkOK == ASSUME OrderInv, SelectOk PROVE OrderInv'
<1>1. PICK o \in outcomes :
         /\ outcomes' = outcomes \ {o}
         /\ results' = results \cup {o.node}
         /\ inDegree' = [n \in Nodes |-> IF n \in Edges[o.node] THEN inDegree[n] - 1
                                         ELSE inDegree[n]]
  BY DEF SelectOk
<1>2. /\ phase = "select" /\ phase' = "loop"
      /\ UNCHANGED <<run, submitted, timers, jobs>>
  BY DEF SelectOk
<1> DEFINE m == o.node
<1>3. m \in Nodes /\ m \in submitted \ results
  BY <1>2 DEF OrderInv, OneToken, Registered, InWork, Shapes, Outcome
<1>4. (\A j \in Current : j.node # m) /\ m \notin timers /\ (\A p \in outcomes' : p.node # m)
  BY <1>1, <1>2 DEF OrderInv, OneToken, Registered
<1> HIDE DEF m
<1>5. results' = results \cup {m} /\ Current' = Current
  BY <1>1, <1>2 DEF m, Current
<1>6. ASSUME NEW n \in Nodes
      PROVE  inDegree'[n] = Cardinality(Preds(n) \ results') /\ inDegree'[n] \in Int
  <2>1. inDegree[n] = Cardinality(Preds(n) \ results) /\ inDegree[n] \in Int
    BY DEF OrderInv, Counted, Shapes
  <2>2. inDegree'[n] = IF n \in Edges[m] THEN inDegree[n] - 1 ELSE inDegree[n]
    BY <1>1 DEF m
  <2> QED
    BY <1>3, <1>5, <2>1, <2>2, OneResultMore
<1>7. inDegree' \in [Nodes -> Int]
  BY <1>1, <1>6
<1>8. Shapes'
  BY <1>1, <1>2, <1>3, <1>5, <1>7 DEF OrderInv, Shapes
<1>9. Counted'
  BY <1>6 DEF Counted
<1>10. CleanStart'
  BY <1>2 DEF OrderInv, CleanStart, Registered
<1>11. \A n : InWork(n) /\ n # m => InWork(n)'
  BY <1>2, <1>5 DEF InWork
<1>12. OneToken'
  BY <1>1, <1>2, <1>4, <1>5, <1>11 DEF OrderInv, OneToken, Registered
<1> QED
  BY <1>8, <1>9, <1>10, <1>12 DEF OrderInv

\* An outcome turns into a timer.
LEMMA SelectRetryOK == ASSUME OrderInv, SelectRetry PROVE OrderInv'
<1>1. PICK o \in outcomes : outcomes' = outcomes \ {o} /\ timers' = timers \cup {o.node}
  BY DEF SelectRetry
<1>2. /\ phase = "select" /\ phase' = "loop"
      /\ UNCHANGED <<run, submitted, results, inDegree, jobs>>
  BY DEF SelectRetry
<1>3. o.node \in Nodes /\ InWork(o.node) /\ o.node \notin timers
      /\ (\A j \in Current : j.node # o.node) /\ (\A p \in outcomes' : p.node # o.node)
  BY <1>1, <1>2 DEF OrderInv, OneToken, Registered, Shapes, Outcome
<1>4. Shapes'
  BY <1>1, <1>2, <1>3 DEF OrderInv, Shapes
<1>5. Counted' /\ CleanStart' /\ Current' = Current
  BY <1>2 DEF OrderInv, Counted, CleanStart, Registered, Current
<1>6. \A n : InWork(n) => InWork(n)'
  BY <1>2 DEF InWork
<1>7. OneToken'
  BY <1>1, <1>2, <1>3, <1>5, <1>6 DEF OrderInv, OneToken, Registered
<1> QED
  BY <1>4, <1>5, <1>7 DEF OrderInv

\* A worker marks its job as started; the node stays in work.
LEMMA JobStartOK == ASSUME OrderInv, NEW j \in jobs, JobStart(j) PROVE OrderInv'
<1>1. /\ jobs' = (jobs \ {j}) \cup {[j EXCEPT !.started = TRUE]}
      /\ UNCHANGED <<phase, run, submitted, inDegree, results, timers, outcomes>>
  BY DEF JobStart, loopVars
<1>2. PICK k : k = [j EXCEPT !.started = TRUE]
  OBVIOUS
<1>3. jobs' = (jobs \ {j}) \cup {k} /\ k \in Job /\ k.node = j.node /\ k.run = j.run
      /\ j.run <= run
  BY <1>1, <1>2 DEF OrderInv, Shapes, Job
<1>4. Shapes'
  BY <1>1, <1>3 DEF OrderInv, Shapes
<1>5. Counted'
  BY <1>1 DEF OrderInv, Counted
<1>6. Current' = IF j.run = run THEN (Current \ {j}) \cup {k} ELSE Current
  BY <1>1, <1>3 DEF Current
<1>7. j.run = run => j \in Current
  BY DEF Current
<1>8. CleanStart'
  BY <1>1, <1>6, <1>7 DEF OrderInv, CleanStart, Registered
<1>9. \A n : InWork(n) => InWork(n)'
  BY <1>1 DEF InWork
<1>10. OneToken'
  BY <1>1, <1>3, <1>6, <1>7, <1>9 DEF OrderInv, OneToken, Registered
<1> QED
  BY <1>4, <1>5, <1>8, <1>10 DEF OrderInv

\* A job of the current run turns into its outcome; one of an earlier run reports to nobody.
LEMMA JobEndOK ==
    ASSUME OrderInv, NEW j \in jobs, NEW s, NEW kind \in {"ok", "error", "approval"},
           JobEnd(j, s, kind)
    PROVE  OrderInv'
<1>1. /\ jobs' = jobs \ {j}
      /\ UNCHANGED <<phase, run, submitted, inDegree, results, timers>>
  BY DEF JobEnd, loopVars
<1>2. Current' = Current \ {j} /\ (j.run = run => j \in Current)
  BY <1>1 DEF Current
<1>3. Counted'
  BY <1>1 DEF OrderInv, Counted
<1>4. \A n : InWork(n) => InWork(n)'
  BY <1>1 DEF InWork
<1>5. CASE Registered /\ j.run = run
  <2>1. PICK o : o = [node |-> j.node, kind |-> kind]
    OBVIOUS
  <2>2. outcomes' = outcomes \cup {o} /\ o.node = j.node
    BY <1>5, <2>1 DEF JobEnd
  <2>3. o \in Outcome
    BY <2>1 DEF OrderInv, Shapes, Job, Outcome
  <2>4. Shapes'
    BY <1>1, <2>2, <2>3 DEF OrderInv, Shapes
  <2>5. j \in Current /\ phase \notin {"start", "resume"}
    BY <1>2, <1>5 DEF OrderInv, CleanStart
  <2>6. CleanStart'
    BY <1>1, <1>5, <2>5 DEF OrderInv, CleanStart, Registered
  <2>7. /\ InWork(j.node) /\ j.node \notin timers
        /\ (\A k \in Current' : k.node # j.node) /\ (\A p \in outcomes : p.node # j.node)
    BY <1>2, <1>5, <2>5 DEF OrderInv, OneToken
  <2>8. OneToken'
    BY <1>1, <1>2, <1>4, <1>5, <2>2, <2>7 DEF OrderInv, OneToken
  <2> QED
    BY <1>3, <2>4, <2>6, <2>8 DEF OrderInv
<1>6. CASE ~(Registered /\ j.run = run)
  <2>1. outcomes' = outcomes
    BY <1>6 DEF JobEnd
  <2>2. Shapes'
    BY <1>1, <2>1 DEF OrderInv, Shapes
  <2>3. CleanStart'
    BY <1>1, <1>2, <2>1 DEF OrderInv, CleanStart, Registered
  <2>4. OneToken'
    BY <1>1, <1>2, <1>4, <2>1 DEF OrderInv, OneToken, Registered
  <2> QED
    BY <1>3, <2>2, <2>3, <2>4 DEF OrderInv
<1> QED
  BY <1>5, <1>6

\* A timer that fires turns into a job, or into nothing on a run that is over.
LEMMA TimerOK == ASSUME OrderInv, NEW n \in timers, TimerFires(n) PROVE OrderInv'
<1>1. /\ timers' = timers \ {n}
      /\ UNCHANGED <<phase, run, submitted, inDegree, results, outcomes>>
  BY DEF TimerFires, loopVars
<1>2. Registered /\ phase \notin {"start", "resume"} /\ n \in Nodes
  BY DEF OrderInv, CleanStart, Shapes
<1>3. CleanStart'
  BY <1>1, <1>2 DEF OrderInv, CleanStart, Registered
<1>4. Counted'
  BY <1>1 DEF OrderInv, Counted
<1>5. \A m : InWork(m) => InWork(m)'
  BY <1>1 DEF InWork
<1>6. InWork(n) /\ (\A j \in Current : j.node # n) /\ (\A o \in outcomes : o.node # n)
  BY <1>2 DEF OrderInv, OneToken
<1>7. CASE jobs' = jobs
  <2>1. Current' = Current
    BY <1>1, <1>7 DEF Current
  <2>2. Shapes'
    BY <1>1, <1>7 DEF OrderInv, Shapes
  <2>3. OneToken'
    BY <1>1, <1>5, <2>1 DEF OrderInv, OneToken, Registered
  <2> QED
    BY <1>3, <1>4, <2>2, <2>3 DEF OrderInv
<1>8. CASE jobs' = jobs \cup {[node |-> n, run |-> run, started |-> FALSE]}
  <2>1. PICK k : k = [node |-> n, run |-> run, started |-> FALSE]
    OBVIOUS
  <2>2. run > 0 /\ run \in 0..MaxRuns
    BY <1>2 DEF OrderInv, CleanStart, Shapes
  <2>3. run \in 1..MaxRuns
    BY <2>2, ExecutionAssumption
  <2>4. k \in Job /\ k.run = run /\ k.node = n /\ jobs' = jobs \cup {k}
    BY <1>2, <1>8, <2>1, <2>3 DEF Job
  <2>5. Current' = Current \cup {k}
    BY <1>1, <2>4 DEF Current
  <2>6. Shapes'
    BY <1>1, <2>2, <2>4 DEF OrderInv, Shapes
  <2>7. OneToken'
    BY <1>1, <1>2, <1>5, <1>6, <2>4, <2>5 DEF OrderInv, OneToken
  <2> QED
    BY <1>3, <1>4, <2>6, <2>7 DEF OrderInv
<1> QED
  BY <1>7, <1>8 DEF TimerFires

-----------------------------------------------------------------------------
(* The invariant and the property. *)

\* It holds before the first delivery.
LEMMA InitOK == Init => OrderInv
<1> SUFFICES ASSUME Init PROVE OrderInv
  OBVIOUS
<1>1. /\ results = {} /\ submitted = {} /\ outcomes = {} /\ timers = {} /\ jobs = {}
      /\ phase = "idle" /\ run = 0 /\ inDegree = DagInDegree
  BY DEF Init
<1>2. ASSUME NEW n \in Nodes
      PROVE  DagInDegree[n] = Cardinality(Preds(n) \ {}) /\ DagInDegree[n] \in Int
  <2>1. Preds(n) \ {} = Preds(n)
    OBVIOUS
  <2>2. Cardinality(Preds(n) \ {}) \in Nat
    BY AwaitedOf
  <2>3. DagInDegree[n] = Cardinality(Preds(n))
    BY DEF DagInDegree
  <2> QED
    BY <2>1, <2>2, <2>3
<1>3. DagInDegree \in [Nodes -> Int]
  BY <1>2 DEF DagInDegree
<1>4. Shapes
  BY <1>1, <1>3, ExecutionAssumption DEF Shapes
<1>5. Counted
  BY <1>1, <1>2 DEF Counted
<1> QED
  BY <1>1, <1>4, <1>5 DEF OrderInv, CleanStart, OneToken, Registered

\* Every step of a run keeps it.
LEMMA RunStepOK == ASSUME OrderInv, RunStep PROVE OrderInv'
<1>1. CASE Deliver
  BY <1>1, QuietOK DEF Deliver, loopVars, Registered, OrderInv, Shapes
<1>2. CASE BeginFail
  BY <1>2, ReturnOK DEF BeginFail
<1>3. CASE Register
  BY <1>3, RegisterOK
<1>4. CASE StartFail
  BY <1>4, ReturnOK DEF StartFail
<1>5. CASE StopEarly
  BY <1>5, ReturnOK DEF StopEarly
<1>6. CASE Start
  BY <1>6, QuietOK DEF Start, loopVars, Registered, OrderInv, Shapes
<1>7. CASE Checkpoint
  BY <1>7, CheckpointOK
<1>8. CASE \E n \in Nodes : SubmitNode(n)
  BY <1>8, SubmitOK
<1>9. CASE TurnLoop
  BY <1>9, QuietOK DEF TurnLoop, loopVars, Registered, OrderInv, Shapes
<1>10. CASE SelectOk
  BY <1>10, SelectOkOK
<1>11. CASE SelectApproval
  BY <1>11, QuietOK DEF SelectApproval, Registered, OrderInv, Shapes
<1>12. CASE SelectRetry
  BY <1>12, SelectRetryOK
<1>13. CASE SelectFailure
  <2>1. PICK o \in outcomes : /\ outcomes' = outcomes \ {o}
                              /\ submitted' = submitted \cup SkipSet({o.node})
    BY <1>13 DEF SelectFailure
  <2>2. SkipSet({o.node}) \subseteq Nodes
    BY DEF SkipSet, Descendants
  <2>3. submitted' \subseteq Nodes
    BY <2>1, <2>2 DEF OrderInv, Shapes
  <2> QED
    BY <1>13, <2>1, <2>3, QuietOK DEF SelectFailure, Registered
<1>14. CASE SelectDone
  BY <1>14, QuietOK DEF SelectDone, Registered, OrderInv, Shapes
<1>15. CASE Suspend
  BY <1>15, ReturnOK DEF Suspend
<1>16. CASE FinishStatus
  BY <1>16, QuietOK DEF FinishStatus, loopVars, Registered, OrderInv, Shapes
<1>17. CASE FinishMessage
  BY <1>17, ReturnOK DEF FinishMessage
<1> QED
  BY <1>1, <1>2, <1>3, <1>4, <1>5, <1>6, <1>7, <1>8, <1>9, <1>10, <1>11, <1>12, <1>13, <1>14,
     <1>15, <1>16, <1>17 DEF RunStep

\* So does every step of a worker.
LEMMA JobStepOK == ASSUME OrderInv, NEW j \in jobs, JobStep(j) PROVE OrderInv'
<1>1. CASE JobStart(j)
  BY <1>1, JobStartOK
<1>2. CASE JobSucceeds(j)
  BY <1>2, JobEndOK DEF JobSucceeds
<1>3. CASE JobWaits(j)
  BY <1>3, JobEndOK DEF JobWaits
<1>4. CASE JobFails(j)
  BY <1>4, JobEndOK DEF JobFails
<1>5. CASE JobInterrupted(j)
  BY <1>5, JobEndOK DEF JobInterrupted
<1>6. CASE JobPanics(j)
  BY <1>6, JobEndOK DEF JobPanics
<1> QED
  BY <1>1, <1>2, <1>3, <1>4, <1>5, <1>6 DEF JobStep

\* The requests of the user and the environment do not reach the loop's own state, but for a
\* crash, which ends it.
LEMMA OutsideOK == ASSUME OrderInv, UserStep \/ EnvStep \/ Done PROVE OrderInv'
<1>1. CASE Crash
  <2>1. PICK lost \in SUBSET {j \in jobs : j.run < run} :
            jobs' = {j \in jobs : j.run < run} \ lost
    BY <1>1 DEF Crash
  <2>2. jobs' \subseteq jobs
    BY <2>1
  <2> QED
    BY <1>1, <2>2, ReturnOK DEF Crash
<1>2. CASE UserStep \/ Deadline \/ Sigterm \/ ClosePool \/ Recover \/ Done
  <2>1. UNCHANGED <<phase, run, jobs, timers, outcomes, loopVars>>
    BY <1>2 DEF UserStep, CancelRead, CancelSignal, CancelWrite, ApproveRead, ApproveWriteNode,
         ApproveWriteStatus, ApproveEnqueue, Deadline, Sigterm, ClosePool, Recover, Done, vars
  <2> QED
    BY <2>1, QuietOK DEF loopVars, Registered, OrderInv, Shapes
<1> QED
  BY <1>1, <1>2 DEF EnvStep

\* The invariant implies the property.
LEMMA OrderOfInv == OrderInv => DependencyOrder
BY DEF OrderInv, OneToken, InWork, Current, DependencyOrder

\* Every step keeps the invariant.
LEMMA OrderStep == ASSUME OrderInv, [Next]_vars PROVE OrderInv'
<1>1. CASE RunStep
  BY <1>1, RunStepOK
<1>2. CASE \E j \in jobs : JobStep(j)
  BY <1>2, JobStepOK
<1>3. CASE \E n \in timers : TimerFires(n)
  BY <1>3, TimerOK
<1>4. CASE UserStep \/ EnvStep \/ Done
  BY <1>4, OutsideOK
<1>5. CASE UNCHANGED vars
  BY <1>5, QuietOK DEF vars, loopVars, Registered, OrderInv, Shapes
<1> QED
  BY <1>1, <1>2, <1>3, <1>4, <1>5 DEF Next

\* A node is handed to the pool only when all its predecessors have a result, in every DAG, run
\* and resumed run (readyNodes and submitReady of scheduler.go).
THEOREM Order == Spec => []DependencyOrder
<1>1. Init => OrderInv
  BY InitOK
<1>2. OrderInv /\ [Next]_vars => OrderInv'
  BY OrderStep
<1>3. OrderInv => DependencyOrder
  BY OrderOfInv
<1> QED
  BY <1>1, <1>2, <1>3, PTL DEF Spec

-----------------------------------------------------------------------------
(* The counter of the loop: the invariant, and facts it needs. *)

\* The loop is going on.
Looping == phase \in {"loop", "select"}

\* Nodes that have not been submitted yet.
Open == Nodes \ submitted

\* What the proof needs of the contexts: a stopping process has none that is live.
Contexts ==
    /\ ctx \in [1..MaxRuns -> {"live", "cancelled", "deadline"}]
    /\ stopping # "no" /\ Registered => ctx[run] # "live"

\* The counter never falls short of what is to come; on a runCtx that is done it may exceed it.
Balance ==
    Looping =>
        /\ remaining \in Nat
        /\ phase = "select" => remaining > 0
        /\ remaining > 0 =>
              /\ remaining >= Cardinality(Open) + Cardinality(Awaited)
              /\ ctx[run] = "live" => remaining = Cardinality(Open) + Cardinality(Awaited)

\* Nobody waits for a node that will not report: its successors are given up with it.
GivenUp ==
    Looping /\ remaining > 0 /\ ctx[run] = "live" =>
        \A m \in submitted \ (results \cup Awaited) : Edges[m] \subseteq submitted

LoopInv == Contexts /\ Balance /\ GivenUp /\ NeverStalled

\* What lies below a set of nodes is closed under the edges, those of the set included.
LEMMA BelowIsClosed ==
    ASSUME NEW S \in SUBSET Nodes, NEW n \in S \cup Descendants(S)
    PROVE  Edges[n] \subseteq Descendants(S)
<1> SUFFICES ASSUME NEW m \in Edges[n] PROVE m \in Descendants(S)
  OBVIOUS
<1>1. n \in Nodes
  BY DEF Descendants
<1>2. m \in Nodes
  BY <1>1, ExecutionAssumption
<1>3. ASSUME NEW C \in SUBSET Nodes, \A k \in S : Edges[k] \subseteq C,
             \A k \in C : Edges[k] \subseteq C
      PROVE  m \in C
  BY <1>3 DEF Descendants
<1> QED
  BY <1>2, <1>3 DEF Descendants

\* What lies below a successor lies below the node, and the successor does not lie below itself.
LEMMA BelowSuccessor ==
    ASSUME NEW p \in Nodes, NEW m \in Edges[p]
    PROVE  /\ m \in Descendants({p}) /\ m \notin Descendants({m})
           /\ Descendants({m}) \subseteq Descendants({p})
<1>1. m \in Nodes /\ m \notin Descendants({m})
  BY ExecutionAssumption
<1>2. m \in Descendants({p})
  BY BelowIsClosed
<1>3. ASSUME NEW d \in Descendants({m}) PROVE d \in Descendants({p})
  <2>1. ASSUME NEW C \in SUBSET Nodes, \A k \in {p} : Edges[k] \subseteq C,
               \A k \in C : Edges[k] \subseteq C
        PROVE  d \in C
    <3>1. m \in C
      BY <2>1
    <3>2. \A k \in {m} : Edges[k] \subseteq C
      BY <2>1, <3>1
    <3> QED
      BY <2>1, <3>2 DEF Descendants
  <2>2. d \in Nodes
    BY DEF Descendants
  <2> QED
    BY <2>1, <2>2 DEF Descendants
<1> QED
  BY <1>1, <1>2, <1>3

\* Every non-empty set of nodes has one without a predecessor in the set.
LEMMA HasFirst ==
    ASSUME NEW S \in SUBSET Nodes, S # {}
    PROVE  \E m \in S : \A p \in S : m \notin Edges[p]
<1> DEFINE Rest(n) == Nodes \ Descendants({n})
           T == {Rest(n) : n \in S}
           R == StrictSubsetOrdering(Nodes)
<1>1. T \subseteq FiniteSubsetsOf(Nodes) /\ T # {}
  <2>1. \A n \in S : Rest(n) \in SUBSET Nodes /\ IsFiniteSet(Rest(n))
    BY ExecutionAssumption, FS_Subset
  <2> QED
    BY <2>1 DEF FiniteSubsetsOf
<1>2. IsWellFoundedOn(R, FiniteSubsetsOf(Nodes))
  BY FS_StrictSubsetOrderingWellFounded
<1>3. PICK x \in T : \A y \in T : ~ (<<y, x>> \in R)
  <2> HIDE DEF T, R
  <2> QED
    BY <1>1, <1>2, WFMin
<1>4. PICK m \in S : x = Rest(m)
  OBVIOUS
<1>5. ASSUME NEW p \in S, m \in Edges[p] PROVE FALSE
  <2>1. /\ m \in Descendants({p}) /\ m \notin Descendants({m})
        /\ Descendants({m}) \subseteq Descendants({p})
    BY <1>5, BelowSuccessor
  <2>2. Rest(p) \subseteq Rest(m) /\ Rest(p) # Rest(m)
    BY <2>1
  <2>3. <<Rest(p), Rest(m)>> \in R
    BY <2>2 DEF StrictSubsetOrdering
  <2>4. Rest(p) \in T
    OBVIOUS
  <2> QED
    BY <1>3, <1>4, <2>3, <2>4
<1> QED
  BY <1>5

\* What is open and what is awaited are finite sets apart from each other.
LEMMA OpenAwaited ==
    ASSUME OrderInv, Registered
    PROVE  /\ Awaited \subseteq submitted /\ Awaited \subseteq Nodes /\ Open \subseteq Nodes
           /\ IsFiniteSet(Awaited) /\ Cardinality(Awaited) \in Nat
           /\ IsFiniteSet(Open) /\ Cardinality(Open) \in Nat
<1>1. Awaited \subseteq submitted
  BY DEF OrderInv, OneToken, Awaited, Current, InWork
<1>2. Awaited \subseteq Nodes /\ Open \subseteq Nodes
  BY <1>1 DEF OrderInv, Shapes, Open
<1>3. IsFiniteSet(Awaited) /\ IsFiniteSet(Open)
  BY <1>2, FS_Subset, ExecutionAssumption
<1> QED
  BY <1>1, <1>2, <1>3, FS_CardinalityType

\* Taking a finite set out of another.
LEMMA TakeOut ==
    ASSUME NEW S, NEW T \in SUBSET S, IsFiniteSet(S)
    PROVE  /\ Cardinality(T) \in Nat /\ Cardinality(S) \in Nat /\ Cardinality(S \ T) \in Nat
           /\ Cardinality(S \ T) = Cardinality(S) - Cardinality(T)
<1>1. S \cap T = T
  OBVIOUS
<1>2. IsFiniteSet(T) /\ IsFiniteSet(S \ T)
  BY FS_Subset
<1>3. Cardinality(S \ T) = Cardinality(S) - Cardinality(S \cap T)
  BY FS_Difference
<1> QED
  BY <1>1, <1>2, <1>3, FS_CardinalityType

\* What is skipped with a node is open and not the node itself.
LEMMA SkipIsOpen ==
    ASSUME NEW n \in Nodes
    PROVE  /\ SkipSet({n}) \subseteq Open /\ n \notin SkipSet({n})
           /\ IsFiniteSet(Open)
<1>1. n \notin Descendants({n})
  BY ExecutionAssumption
<1>2. Open \subseteq Nodes /\ SkipSet({n}) \subseteq Open /\ n \notin SkipSet({n})
  BY <1>1 DEF SkipSet, Open, Descendants
<1> QED
  BY <1>2, FS_Subset, ExecutionAssumption

-----------------------------------------------------------------------------
(* The steps of the loop. *)

\* Outside of the loop nothing is claimed of the counter.
LEMMA OutOfLoop == ASSUME ~Looping', Contexts' PROVE LoopInv'
BY DEF LoopInv, Balance, GivenUp, NeverStalled, Looping

\* The end of a run ends its context.
LEMMA ReturnLoop == ASSUME OrderInv, LoopInv, Return PROVE LoopInv'
<1>1. phase' = "idle" /\ ~Registered'
  BY DEF Return, Registered
<1>2. ctx' \in [1..MaxRuns -> {"live", "cancelled", "deadline"}]
  BY DEF Return, LoopInv, Contexts
<1> QED
  BY <1>1, <1>2, OutOfLoop DEF Contexts, Looping

\* Steps that do not touch the loop's own state: while the context is live the same nodes are
\* awaited, afterwards some may be dropped.
LEMMA LoopKept ==
    ASSUME OrderInv, LoopInv, OrderInv', Contexts',
           UNCHANGED <<phase, run, submitted, results, remaining>>,
           Awaited' \subseteq Awaited,
           ctx'[run] = "live" => ctx[run] = "live" /\ Awaited' = Awaited
    PROVE  LoopInv'
<1>1. CASE ~Looping
  <2>1. ~Looping'
    BY <1>1 DEF Looping
  <2> QED
    BY <2>1, OutOfLoop
<1>2. CASE Looping
  <2>1. Registered /\ Registered' /\ Looping'
    BY <1>2 DEF Looping, Registered
  <2>2. Open' = Open
    BY DEF Open
  <2>3. /\ IsFiniteSet(Awaited) /\ Cardinality(Awaited) \in Nat /\ Cardinality(Open) \in Nat
        /\ Cardinality(Awaited') \in Nat
    BY <2>1, OpenAwaited, FS_Subset, FS_CardinalityType
  <2>4. Cardinality(Awaited') <= Cardinality(Awaited)
    BY <2>3, FS_Subset
  <2>5. Balance'
    BY <1>2, <2>2, <2>3, <2>4 DEF LoopInv, Balance
  <2>6. GivenUp'
    BY <1>2 DEF LoopInv, GivenUp
  <2>7. NeverStalled'
    BY DEF LoopInv, NeverStalled
  <2> QED
    BY <2>5, <2>6, <2>7 DEF LoopInv
<1> QED
  BY <1>1, <1>2

\* The checkpoint begins the loop with nothing in hand; what it gives up is closed under the edges.
LEMMA CheckpointLoop == ASSUME OrderInv, LoopInv, OrderInv', Checkpoint PROVE LoopInv'
<1>1. PICK rows \in Rows :
         LET With(v) == {n \in Nodes : rows[n] = v}
             below   == Descendants(With("failed") \cup With("skipped"))
             verdict == With("succeeded") \cup With("failed") \cup With("skipped")
         IN  /\ submitted' = verdict \cup below
             /\ remaining' = Cardinality(Nodes) - Cardinality(verdict \cup below)
             /\ results' = With("succeeded")
  BY DEF Checkpoint
<1> DEFINE G == {n \in Nodes : rows[n] = "failed"} \cup {n \in Nodes : rows[n] = "skipped"}
<1>2. /\ submitted' = results' \cup G \cup Descendants(G)
      /\ remaining' = Cardinality(Nodes) - Cardinality(submitted')
  <2>1. results' \cup G \cup Descendants(G) =
          ({n \in Nodes : rows[n] = "succeeded"} \cup {n \in Nodes : rows[n] = "failed"}
             \cup {n \in Nodes : rows[n] = "skipped"}) \cup Descendants(G)
    BY <1>1
  <2> QED
    BY <1>1, <2>1
<1>3. G \in SUBSET Nodes
  OBVIOUS
<1> HIDE DEF G
<1>4. /\ phase = "resume" /\ phase' = "loop"
      /\ UNCHANGED <<run, ctx, stopping, jobs, outcomes, timers>>
  BY DEF Checkpoint
<1>5. Awaited' = {} /\ Cardinality(Awaited') = 0
  <2>1. outcomes = {} /\ timers = {} /\ Current = {}
    BY <1>4 DEF OrderInv, CleanStart
  <2> QED
    BY <1>4, <2>1, FS_EmptySet DEF Awaited, Current
<1>6. submitted' \in SUBSET Nodes
  BY DEF OrderInv, Shapes
<1>7. /\ Cardinality(Open') = Cardinality(Nodes) - Cardinality(submitted')
      /\ Cardinality(Open') \in Nat
  BY <1>6, TakeOut, ExecutionAssumption DEF Open
<1>8. Contexts'
  BY <1>4 DEF LoopInv, Contexts, Registered
<1>9. Balance'
  BY <1>2, <1>4, <1>5, <1>7 DEF Balance
<1>10. GivenUp'
  <2>1. \A m \in G \cup Descendants(G) : Edges[m] \subseteq Descendants(G)
    BY <1>3, BelowIsClosed
  <2> QED
    BY <1>2, <2>1 DEF GivenUp
<1>11. NeverStalled'
  BY <1>4 DEF NeverStalled
<1> QED
  BY <1>8, <1>9, <1>10, <1>11 DEF LoopInv

\* A submitted node moves from the open ones to the awaited ones; a rejected one is given up with
\* everything below it, on a process that is stopping.
LEMMA SubmitLoop ==
    ASSUME OrderInv, LoopInv, OrderInv', NEW n \in Nodes, SubmitNode(n) PROVE LoopInv'
<1>1. /\ phase = "loop" /\ phase' = "loop" /\ remaining > 0 /\ n \in Open
      /\ UNCHANGED <<run, ctx, stopping, results, timers, outcomes>>
  BY DEF SubmitNode, Ready, Open
<1>2. Looping /\ Looping' /\ Registered /\ Registered'
  BY <1>1 DEF Looping, Registered
<1>3. /\ remaining \in Nat /\ remaining >= Cardinality(Open) + Cardinality(Awaited)
      /\ ctx[run] = "live" => remaining = Cardinality(Open) + Cardinality(Awaited)
  BY <1>1, <1>2 DEF LoopInv, Balance
<1>4. /\ Awaited \subseteq submitted
      /\ IsFiniteSet(Awaited) /\ Cardinality(Awaited) \in Nat
      /\ IsFiniteSet(Open) /\ Cardinality(Open) \in Nat
  BY <1>2, OpenAwaited
<1>5. Contexts' /\ NeverStalled'
  BY <1>1, <1>2 DEF LoopInv, Contexts, NeverStalled
<1>6. CASE /\ jobs' = jobs \cup {[node |-> n, run |-> run, started |-> FALSE]}
           /\ submitted' = submitted \cup {n}
           /\ remaining' = remaining
  <2>1. Awaited' = Awaited \cup {n} /\ n \notin Awaited
    <3>1. PICK k : k = [node |-> n, run |-> run, started |-> FALSE]
      OBVIOUS
    <3>2. jobs' = jobs \cup {k} /\ k.node = n /\ k.run = run
      BY <1>6, <3>1
    <3>3. Awaited' = Awaited \cup {n}
      BY <1>1, <3>2 DEF Awaited
    <3> QED
      BY <1>1, <1>4, <3>3 DEF Open
  <2>2. Open' = Open \ {n}
    BY <1>6 DEF Open
  <2>3. /\ Cardinality(Awaited') = Cardinality(Awaited) + 1
        /\ Cardinality(Open') = Cardinality(Open) - 1
    BY <1>1, <1>4, <2>1, <2>2, FS_AddElement, FS_RemoveElement
  <2>4. Balance'
    BY <1>1, <1>2, <1>3, <1>4, <1>6, <2>3 DEF Balance
  <2>5. GivenUp'
    BY <1>1, <1>2, <1>6, <2>1 DEF LoopInv, GivenUp
  <2> QED
    BY <1>5, <2>4, <2>5 DEF LoopInv
<1>7. CASE /\ stopping # "no" /\ jobs' = jobs
           /\ submitted' = submitted \cup {n} \cup SkipSet({n})
           /\ remaining' = remaining - 1 - Cardinality(SkipSet({n}))
  <2> DEFINE K == SkipSet({n})
  <2>1. K \subseteq Open /\ n \notin K
    BY SkipIsOpen
  <2> HIDE DEF K
  <2>2. Awaited' = Awaited
    BY <1>1, <1>7 DEF Awaited
  <2>3. Open' = (Open \ K) \ {n} /\ n \in Open \ K
    BY <1>1, <1>7, <2>1 DEF Open, K
  <2>4. /\ Cardinality(K) \in Nat /\ Cardinality(Open \ K) = Cardinality(Open) - Cardinality(K)
        /\ IsFiniteSet(Open \ K)
    BY <1>4, <2>1, TakeOut, FS_Subset
  <2>5. Cardinality(Open') = Cardinality(Open) - Cardinality(K) - 1
    BY <2>3, <2>4, FS_RemoveElement
  <2>6. remaining' = remaining - 1 - Cardinality(K)
    BY <1>7 DEF K
  <2>7. Cardinality(Open') \in Nat
    <3>1. IsFiniteSet(Open')
      BY <2>3, <2>4, FS_RemoveElement
    <3> QED
      BY <3>1, FS_CardinalityType
  <2>8. ctx'[run'] # "live"
    BY <1>1, <1>2, <1>7 DEF LoopInv, Contexts
  <2>9. Balance'
    BY <1>1, <1>3, <1>4, <2>2, <2>4, <2>5, <2>6, <2>7, <2>8 DEF Balance
  <2>10. GivenUp'
    BY <2>8 DEF GivenUp
  <2> QED
    BY <1>5, <2>9, <2>10 DEF LoopInv
<1> QED
  BY <1>6, <1>7 DEF SubmitNode

\* The loop waits only with something to wait for: the first open node would be ready otherwise.
LEMMA TurnLoopLoop == ASSUME OrderInv, LoopInv, OrderInv', TurnLoop PROVE LoopInv'
<1>1. /\ phase = "loop" /\ phase' = IF remaining = 0 THEN "finish" ELSE "select"
      /\ remaining = 0 \/ Ready = {}
      /\ UNCHANGED <<run, ctx, stopping, submitted, results, remaining, inDegree, jobs, timers,
                     outcomes>>
  BY DEF TurnLoop, loopVars
<1>2. Looping /\ Registered /\ Registered' /\ Open' = Open /\ Awaited' = Awaited
  BY <1>1 DEF Looping, Registered, Open, Awaited
<1>3. Contexts'
  BY <1>1, <1>2 DEF LoopInv, Contexts
<1>4. CASE remaining = 0
  BY <1>1, <1>3, <1>4, OutOfLoop DEF Looping
<1>5. CASE remaining # 0
  <2>1. remaining \in Nat /\ remaining > 0 /\ phase' = "select" /\ Looping' /\ Ready = {}
    BY <1>1, <1>2, <1>5 DEF LoopInv, Balance, Looping
  <2>2. Balance'
    BY <1>1, <1>2, <2>1 DEF LoopInv, Balance
  <2>3. GivenUp'
    BY <1>1, <1>2, <2>1 DEF LoopInv, GivenUp
  <2>4. ASSUME Awaited = {}, ctx[run] = "live" PROVE FALSE
    <3>1. Cardinality(Awaited) = 0 /\ remaining = Cardinality(Open) + Cardinality(Awaited)
          /\ Cardinality(Open) \in Nat
      BY <1>2, <2>1, <2>4, FS_EmptySet, OpenAwaited DEF LoopInv, Balance
    <3>2. Open # {}
      <4>1. ASSUME Open = {} PROVE FALSE
        <5>1. Cardinality(Open) = 0
          BY <4>1, FS_EmptySet
        <5> QED
          BY <2>1, <3>1, <5>1
      <4> QED
        BY <4>1
    <3>3. PICK m \in Open : \A p \in Open : m \notin Edges[p]
      <4>1. Open \in SUBSET Nodes
        BY DEF Open
      <4> QED
        BY <3>2, <4>1, HasFirst
    <3>4. m \in Nodes /\ m \notin submitted /\ inDegree[m] # 0
      BY <2>1 DEF Open, Ready
    <3>5. PICK p \in Preds(m) : p \notin results
      <4>1. Preds(m) \ results # {}
        BY <3>4, FS_EmptySet DEF OrderInv, Counted
      <4> QED
        BY <4>1
    <3>6. p \in Nodes /\ m \in Edges[p]
      BY DEF Preds
    <3>7. CASE p \in submitted
      BY <1>2, <2>1, <2>4, <3>4, <3>5, <3>6, <3>7 DEF LoopInv, GivenUp
    <3>8. CASE p \notin submitted
      BY <3>3, <3>6, <3>8 DEF Open
    <3> QED
      BY <3>7, <3>8
  <2>5. NeverStalled'
    BY <1>1, <1>2, <2>4 DEF NeverStalled
  <2> QED
    BY <1>3, <2>2, <2>3, <2>5 DEF LoopInv
<1> QED
  BY <1>4, <1>5

\* An outcome that is read for good: its node is awaited no longer, and is nowhere else.
LEMMA OutcomeRead ==
    ASSUME OrderInv, Registered, NEW o \in outcomes, outcomes' = outcomes \ {o},
           UNCHANGED <<run, jobs, timers>>
    PROVE  /\ o.node \in Nodes /\ o.node \in submitted \ results
           /\ o.node \in Awaited /\ Awaited' = Awaited \ {o.node}
<1>1. /\ InWork(o.node) /\ o.node \notin timers
      /\ (\A j \in Current : j.node # o.node) /\ (\A p \in outcomes' : p.node # o.node)
  BY DEF OrderInv, OneToken
<1>2. o.node \in Nodes /\ o.node \in submitted \ results
  BY <1>1 DEF OrderInv, Shapes, Outcome, InWork
<1>3. o.node \in Awaited
  BY DEF Awaited
<1>4. Awaited' = Awaited \ {o.node}
  BY <1>1 DEF Awaited, Current
<1> QED
  BY <1>2, <1>3, <1>4

\* A result takes one from the counter and one from what is awaited.
LEMMA SelectOkLoop == ASSUME OrderInv, LoopInv, SelectOk PROVE LoopInv'
<1>1. PICK o \in outcomes : outcomes' = outcomes \ {o} /\ results' = results \cup {o.node}
  BY DEF SelectOk
<1>2. /\ phase = "select" /\ phase' = "loop" /\ remaining' = remaining - 1
      /\ UNCHANGED <<run, ctx, stopping, submitted, timers, jobs>>
  BY DEF SelectOk
<1>3. Looping /\ Looping' /\ Registered /\ Registered' /\ Open' = Open
  BY <1>2 DEF Looping, Registered, Open
<1>4. o.node \in Awaited /\ Awaited' = Awaited \ {o.node}
  BY <1>1, <1>2, <1>3, OutcomeRead
<1>5. /\ IsFiniteSet(Awaited) /\ Cardinality(Awaited) \in Nat /\ Cardinality(Open) \in Nat
      /\ Cardinality(Awaited') = Cardinality(Awaited) - 1
  BY <1>3, <1>4, OpenAwaited, FS_RemoveElement
<1>6. Contexts' /\ NeverStalled'
  BY <1>2, <1>3 DEF LoopInv, Contexts, NeverStalled
<1>7. Balance'
  BY <1>2, <1>3, <1>5 DEF LoopInv, Balance
<1>8. GivenUp'
  BY <1>1, <1>2, <1>3, <1>4, <1>7 DEF LoopInv, GivenUp, Balance
<1> QED
  BY <1>6, <1>7, <1>8 DEF LoopInv

\* A retried node is still awaited, now by its timer.
LEMMA SelectRetryLoop == ASSUME OrderInv, LoopInv, SelectRetry PROVE LoopInv'
<1>1. PICK o \in outcomes : outcomes' = outcomes \ {o} /\ timers' = timers \cup {o.node}
  BY DEF SelectRetry
<1>2. /\ phase = "select" /\ phase' = "loop"
      /\ UNCHANGED <<run, ctx, stopping, submitted, results, remaining, jobs>>
  BY DEF SelectRetry
<1>3. Looping /\ Looping' /\ Registered /\ Registered' /\ Open' = Open
  BY <1>2 DEF Looping, Registered, Open
<1>4. Awaited' = Awaited
  BY <1>1, <1>2 DEF Awaited
<1>5. Contexts' /\ NeverStalled'
  BY <1>2, <1>3 DEF LoopInv, Contexts, NeverStalled
<1>6. Balance' /\ GivenUp'
  BY <1>2, <1>3, <1>4 DEF LoopInv, Balance, GivenUp
<1> QED
  BY <1>5, <1>6 DEF LoopInv

\* A node that failed for good leaves with everything open below it.
LEMMA SelectFailureLoop == ASSUME OrderInv, LoopInv, OrderInv', SelectFailure PROVE LoopInv'
<1>1. PICK o \in outcomes :
         /\ outcomes' = outcomes \ {o}
         /\ submitted' = submitted \cup SkipSet({o.node})
         /\ remaining' = remaining - 1 - Cardinality(SkipSet({o.node}))
  BY DEF SelectFailure
<1>2. /\ phase = "select" /\ phase' = "loop"
      /\ UNCHANGED <<run, ctx, stopping, results, timers, jobs>>
  BY DEF SelectFailure
<1>3. Looping /\ Looping' /\ Registered /\ Registered'
  BY <1>2 DEF Looping, Registered
<1> DEFINE m == o.node
           K == SkipSet({m})
<1>4. m \in Nodes /\ m \in submitted /\ m \in Awaited /\ Awaited' = Awaited \ {m}
  BY <1>1, <1>2, <1>3, OutcomeRead
<1>5. submitted' = submitted \cup K /\ remaining' = remaining - 1 - Cardinality(K)
  BY <1>1
<1>6. K \subseteq Open
  BY <1>4, SkipIsOpen
<1>7. K = Descendants({m}) \ submitted
  BY DEF SkipSet
<1> HIDE DEF m, K
<1>8. /\ IsFiniteSet(Awaited) /\ Cardinality(Awaited) \in Nat
      /\ IsFiniteSet(Open) /\ Cardinality(Open) \in Nat
  BY <1>3, OpenAwaited
<1>9. Cardinality(Awaited') = Cardinality(Awaited) - 1
  BY <1>4, <1>8, FS_RemoveElement
<1>10. /\ Cardinality(Open') = Cardinality(Open) - Cardinality(K) /\ Cardinality(K) \in Nat
       /\ Cardinality(Open') \in Nat
  <2>1. Open' = Open \ K
    BY <1>5 DEF Open
  <2> QED
    BY <1>6, <1>8, <2>1, TakeOut
<1>11. Cardinality(Awaited') \in Nat
  <2>1. IsFiniteSet(Awaited')
    BY <1>4, <1>8, FS_RemoveElement
  <2> QED
    BY <2>1, FS_CardinalityType
<1>12. Contexts' /\ NeverStalled'
  BY <1>2, <1>3 DEF LoopInv, Contexts, NeverStalled
<1>13. /\ remaining \in Nat /\ remaining > 0
       /\ remaining >= Cardinality(Open) + Cardinality(Awaited)
       /\ ctx[run] = "live" => remaining = Cardinality(Open) + Cardinality(Awaited)
  BY <1>2, <1>3 DEF LoopInv, Balance
<1>14. Balance'
  BY <1>2, <1>5, <1>8, <1>9, <1>10, <1>11, <1>13 DEF Balance
<1>15. GivenUp'
  <2>1. \A k \in {m} \cup Descendants({m}) : Edges[k] \subseteq submitted'
    BY <1>4, <1>5, <1>7, BelowIsClosed
  <2>2. ctx[run] = "live" =>
            \A k \in submitted \ (results \cup Awaited) : Edges[k] \subseteq submitted'
    BY <1>3, <1>5, <1>13 DEF LoopInv, GivenUp
  <2> QED
    BY <1>2, <1>4, <1>5, <1>7, <2>1, <2>2 DEF GivenUp
<1> QED
  BY <1>12, <1>14, <1>15 DEF LoopInv

\* An approval or a context that is done ends the loop.
LEMMA LoopLeft ==
    ASSUME OrderInv, LoopInv, SelectApproval \/ SelectDone PROVE LoopInv'
<1>1. /\ phase = "select" /\ phase' = "loop" /\ remaining' = 0
      /\ UNCHANGED <<run, ctx, stopping>>
  BY DEF SelectApproval, SelectDone
<1>2. Contexts'
  BY <1>1 DEF LoopInv, Contexts, Registered
<1> QED
  BY <1>1, <1>2 DEF LoopInv, Balance, GivenUp, NeverStalled

-----------------------------------------------------------------------------
(* Workers, timers and the outside. *)

\* The started job stands for the same node.
LEMMA JobStartLoop ==
    ASSUME OrderInv, LoopInv, OrderInv', NEW j \in jobs, JobStart(j) PROVE LoopInv'
<1>1. /\ jobs' = (jobs \ {j}) \cup {[j EXCEPT !.started = TRUE]}
      /\ UNCHANGED <<phase, run, ctx, stopping, submitted, results, remaining, timers, outcomes>>
  BY DEF JobStart, loopVars
<1>2. PICK k : k = [j EXCEPT !.started = TRUE]
  OBVIOUS
<1>3. jobs' = (jobs \ {j}) \cup {k} /\ k.node = j.node /\ k.run = j.run
  BY <1>1, <1>2 DEF OrderInv, Shapes, Job
<1>4. Awaited' = Awaited
  BY <1>1, <1>3 DEF Awaited
<1>5. Contexts'
  BY <1>1 DEF LoopInv, Contexts, Registered
<1> QED
  BY <1>1, <1>4, <1>5, LoopKept

\* A job of the current run is awaited as an outcome from then on.
LEMMA JobEndLoop ==
    ASSUME OrderInv, LoopInv, OrderInv', NEW j \in jobs, NEW s, NEW kind, JobEnd(j, s, kind)
    PROVE  LoopInv'
<1>1. /\ jobs' = jobs \ {j}
      /\ UNCHANGED <<phase, run, ctx, stopping, submitted, results, remaining, timers>>
  BY DEF JobEnd, loopVars
<1>2. Contexts'
  BY <1>1 DEF LoopInv, Contexts, Registered
<1>3. CASE ~Registered
  <2>1. ~Looping'
    BY <1>1, <1>3 DEF Registered, Looping
  <2> QED
    BY <1>2, <2>1, OutOfLoop
<1>4. CASE Registered /\ j.run = run
  <2>1. PICK o : o = [node |-> j.node, kind |-> kind]
    OBVIOUS
  <2>2. outcomes' = outcomes \cup {o} /\ o.node = j.node
    BY <1>4, <2>1 DEF JobEnd
  <2>3. Awaited' = Awaited
    BY <1>1, <1>4, <2>2 DEF Awaited
  <2> QED
    BY <1>1, <1>2, <2>3, LoopKept
<1>5. CASE j.run # run
  <2>1. outcomes' = outcomes
    BY <1>5 DEF JobEnd
  <2>2. Awaited' = Awaited
    BY <1>1, <1>5, <2>1 DEF Awaited
  <2> QED
    BY <1>1, <1>2, <2>2, LoopKept
<1> QED
  BY <1>3, <1>4, <1>5

\* A timer becomes a job, or nothing on a context that is done.
LEMMA TimerLoop ==
    ASSUME OrderInv, LoopInv, OrderInv', NEW n \in timers, TimerFires(n) PROVE LoopInv'
<1>1. /\ timers' = timers \ {n}
      /\ jobs' = IF ctx[run] = "live"
                 THEN jobs \cup {[node |-> n, run |-> run, started |-> FALSE]} ELSE jobs
      /\ UNCHANGED <<phase, run, ctx, stopping, submitted, results, remaining, outcomes>>
  BY DEF TimerFires, loopVars
<1>2. Contexts'
  BY <1>1 DEF LoopInv, Contexts, Registered
<1>3. CASE ctx[run] = "live"
  <2>1. PICK k : k = [node |-> n, run |-> run, started |-> FALSE]
    OBVIOUS
  <2>2. jobs' = jobs \cup {k} /\ k.node = n /\ k.run = run
    BY <1>1, <1>3, <2>1
  <2>3. Awaited' = Awaited
    BY <1>1, <2>2 DEF Awaited
  <2> QED
    BY <1>1, <1>2, <2>3, LoopKept
<1>4. CASE ctx[run] # "live"
  <2>1. Awaited' \subseteq Awaited
    BY <1>1, <1>4 DEF Awaited
  <2> QED
    BY <1>1, <1>2, <1>4, <2>1, LoopKept
<1> QED
  BY <1>3, <1>4

\* Requests and the environment only end contexts, or the run as a whole.
LEMMA OutsideLoop ==
    ASSUME OrderInv, LoopInv, OrderInv', UserStep \/ EnvStep \/ Done PROVE LoopInv'
<1>1. CASE Crash
  BY <1>1, ReturnLoop DEF Crash
<1>2. CASE UserStep \/ Deadline \/ Sigterm \/ ClosePool \/ Recover \/ Done
  <2>1. UNCHANGED <<phase, run, jobs, timers, outcomes, loopVars>>
    BY <1>2 DEF UserStep, CancelRead, CancelSignal, CancelWrite, ApproveRead, ApproveWriteNode,
         ApproveWriteStatus, ApproveEnqueue, Deadline, Sigterm, ClosePool, Recover, Done, vars
  <2>2. Awaited' = Awaited /\ UNCHANGED <<submitted, results, remaining>>
        /\ Registered' = Registered
    BY <2>1 DEF Awaited, loopVars, Registered
  <2>3. Registered => run \in 1..MaxRuns
    <3>1. Registered => run > 0 /\ run \in 0..MaxRuns
      BY DEF OrderInv, CleanStart, Shapes
    <3> QED
      BY <3>1, ExecutionAssumption
  <2>4. \/ ctx' = ctx
        \/ Registered /\ ctx' = [ctx EXCEPT ![run] = "cancelled"]
        \/ Registered /\ ctx' = [ctx EXCEPT ![run] = "deadline"]
    BY <1>2 DEF UserStep, CancelRead, CancelSignal, CancelWrite, ApproveRead, ApproveWriteNode,
         ApproveWriteStatus, ApproveEnqueue, Deadline, Sigterm, ClosePool, Recover, Done, vars
  <2>5. ctx' \in [1..MaxRuns -> {"live", "cancelled", "deadline"}]
    BY <2>4 DEF LoopInv, Contexts
  <2>6. Registered => (ctx'[run] = "live" => ctx[run] = "live")
    BY <2>3, <2>4 DEF LoopInv, Contexts
  <2>7. stopping' # "no" /\ Registered => ctx'[run] # "live"
    <3>1. CASE Sigterm
      BY <2>3, <3>1 DEF Sigterm, LoopInv, Contexts
    <3>2. CASE UserStep \/ Deadline \/ ClosePool \/ Recover \/ Done
      <4>1. stopping' # "no" => stopping # "no"
        BY <3>2 DEF UserStep, CancelRead, CancelSignal, CancelWrite, ApproveRead,
             ApproveWriteNode, ApproveWriteStatus, ApproveEnqueue, Deadline, ClosePool, Recover,
             Done, vars
      <4> QED
        BY <2>6, <4>1 DEF LoopInv, Contexts
    <3> QED
      BY <1>2, <3>1, <3>2
  <2>8. Contexts'
    BY <2>1, <2>2, <2>5, <2>7 DEF Contexts
  <2>9. CASE Registered
    BY <2>1, <2>2, <2>6, <2>8, <2>9, LoopKept
  <2>10. CASE ~Registered
    <3>1. ~Looping'
      BY <2>1, <2>10 DEF Registered, Looping
    <3> QED
      BY <2>8, <3>1, OutOfLoop
  <2> QED
    BY <2>9, <2>10
<1> QED
  BY <1>1, <1>2 DEF EnvStep

\* Every step of a run keeps the account.
LEMMA RunStepLoop == ASSUME OrderInv, LoopInv, OrderInv', RunStep PROVE LoopInv'
<1>1. CASE Deliver \/ Register \/ Start \/ FinishStatus
  <2>1. ~Looping' /\ UNCHANGED <<ctx, stopping>>
    BY <1>1 DEF Deliver, Register, Start, FinishStatus, Looping
  <2>2. stopping # "no" => FinishStatus \/ ~Registered'
    BY <1>1 DEF Deliver, Register, Start
  <2>3. FinishStatus => Registered /\ run' = run
    BY DEF FinishStatus, Registered
  <2>4. Contexts'
    BY <2>1, <2>2, <2>3 DEF LoopInv, Contexts
  <2> QED
    BY <2>1, <2>4, OutOfLoop
<1>2. CASE BeginFail \/ StartFail \/ StopEarly \/ Suspend \/ FinishMessage
  BY <1>2, ReturnLoop DEF BeginFail, StartFail, StopEarly, Suspend, FinishMessage
<1>3. CASE Checkpoint
  BY <1>3, CheckpointLoop
<1>4. CASE \E n \in Nodes : SubmitNode(n)
  BY <1>4, SubmitLoop
<1>5. CASE TurnLoop
  BY <1>5, TurnLoopLoop
<1>6. CASE SelectOk
  BY <1>6, SelectOkLoop
<1>7. CASE SelectApproval \/ SelectDone
  BY <1>7, LoopLeft
<1>8. CASE SelectRetry
  BY <1>8, SelectRetryLoop
<1>9. CASE SelectFailure
  BY <1>9, SelectFailureLoop
<1> QED
  BY <1>1, <1>2, <1>3, <1>4, <1>5, <1>6, <1>7, <1>8, <1>9 DEF RunStep

\* So does every step of a worker.
LEMMA JobStepLoop ==
    ASSUME OrderInv, LoopInv, OrderInv', NEW j \in jobs, JobStep(j) PROVE LoopInv'
<1>1. CASE JobStart(j)
  BY <1>1, JobStartLoop
<1>2. CASE \E s \in NodeStatus, kind \in {"ok", "error", "approval"} : JobEnd(j, s, kind)
  BY <1>2, JobEndLoop
<1>3. CASE JobPanics(j)
  BY <1>3, JobEndLoop DEF JobPanics
<1>4. JobSucceeds(j) \/ JobWaits(j) \/ JobFails(j) \/ JobInterrupted(j) =>
          \E s \in NodeStatus, kind \in {"ok", "error", "approval"} : JobEnd(j, s, kind)
  BY DEF JobSucceeds, JobWaits, JobFails, JobInterrupted, NodeStatus
<1> QED
  BY <1>1, <1>2, <1>3, <1>4 DEF JobStep

\* The exact account of the property is the one on a live context.
LEMMA AccountsOfInv == LoopInv => LoopAccounts
BY DEF LoopInv, Balance, Looping, Open, LoopAccounts, RemainingIsExact

\* Both hold before the first delivery.
LEMMA LoopInit == Init => OrderInv /\ LoopInv
<1> SUFFICES ASSUME Init PROVE OrderInv /\ LoopInv
  OBVIOUS
<1>1. phase = "idle" /\ stopping = "no" /\ ctx = [r \in 1..MaxRuns |-> "live"]
  BY DEF Init
<1> QED
  BY <1>1, InitOK DEF LoopInv, Contexts, Balance, GivenUp, NeverStalled, Looping

\* Every step keeps the order and the account.
LEMMA LoopStep == ASSUME OrderInv, LoopInv, [Next]_vars PROVE OrderInv' /\ LoopInv'
<1>1. OrderInv'
  BY OrderStep
<1>2. CASE RunStep
  BY <1>1, <1>2, RunStepLoop
<1>3. CASE \E j \in jobs : JobStep(j)
  BY <1>1, <1>3, JobStepLoop
<1>4. CASE \E n \in timers : TimerFires(n)
  BY <1>1, <1>4, TimerLoop
<1>5. CASE UserStep \/ EnvStep \/ Done
  BY <1>1, <1>5, OutsideLoop
<1>6. CASE UNCHANGED vars
  <2>1. UNCHANGED <<phase, run, ctx, stopping, submitted, results, remaining, jobs, timers,
                    outcomes>>
    BY <1>6 DEF vars, loopVars
  <2>2. Awaited' = Awaited /\ Contexts'
    BY <2>1 DEF LoopInv, Contexts, Awaited, Registered
  <2> QED
    BY <1>1, <2>1, <2>2, LoopKept
<1> QED
  BY <1>1, <1>2, <1>3, <1>4, <1>5, <1>6 DEF Next

\* The loop ends when its nodes are accounted for and not before, and never waits for a node that
\* nobody will report (main loop and skipDownstream of scheduler.go), in every DAG, for all faults
\* and in every resumed run.
THEOREM Accounts == Spec => []LoopAccounts
<1>1. Init => OrderInv /\ LoopInv
  BY LoopInit
<1>2. OrderInv /\ LoopInv /\ [Next]_vars => OrderInv' /\ LoopInv'
  BY LoopStep
<1>3. LoopInv => LoopAccounts
  BY AccountsOfInv
<1> QED
  BY <1>1, <1>2, <1>3, PTL DEF Spec

-----------------------------------------------------------------------------
(* The rows and the task: the checkpoint tells the truth about the run.    *)

\* The run is in its loop or past it: results holds what it relies on.
Underway == phase \in {"loop", "select", "finish", "settle"}

\* The nodes whose success the scheduler relies on, now or when it replays the checkpoint.
Relied == IF Underway THEN results ELSE {n \in Nodes : nstatus[n] = "succeeded"}

\* Rows of nodes that have been executed, or are being executed.
Touched == {"succeeded", "failed", "running", "waiting"}

\* Nodes the run has dealt with and no longer waits for.
Settled == submitted \ Awaited

\* Nothing interrupts a run but a crash, and no user cancels the task.
Uninterrupted ==
    /\ stopping = "no" /\ cancelPC = "new" /\ tstatus # "cancelled"
    /\ Registered => ctx[run] = "live"
    /\ \A r \in 1..MaxRuns : r > run => ctx[r] = "live"

\* Workers work for the current run only, and only during its loop.
OwnJobs == (\A j \in jobs : j.run = run) /\ (jobs # {} => Looping)

\* The loop ends with everything submitted and nothing awaited, or for an approval.
CleanEnd ==
    phase \in {"finish", "settle"} \/ (Looping /\ remaining = 0) =>
        Awaited = {} /\ (Open = {} \/ firstErr = "approval")

\* A node is executed only after its predecessors have succeeded for good.
Grounded ==
    /\ nstatus \in [Nodes -> NodeStatus]
    /\ \A n \in Nodes : nstatus[n] \in Touched => Preds(n) \subseteq Relied

\* Rows, results and outcomes tell the same.
RowsAgree ==
    /\ Underway => \A n \in results : nstatus[n] = "succeeded"
    /\ Looping => \A n \in Nodes \ Approvals :
           nstatus[n] = "succeeded" =>
               n \in results \/ \E o \in outcomes : o.node = n /\ o.kind = "ok"
    /\ \A o \in outcomes :
           /\ o.kind = "ok" => o.node \notin Approvals /\ nstatus[o.node] = "succeeded"
           /\ o.kind = "error" => o.node \notin Approvals /\ nstatus[o.node] = "failed"
           /\ o.kind = "approval" => o.node \in Approvals

\* What the run has dealt with is recorded.
Recorded ==
    Underway /\ firstErr # "approval" =>
        \A n \in Settled : nstatus[n] \in {"succeeded", "failed", "skipped"}

\* A failed row, in a run one that the run has taken notice of.
Culprit(f) == nstatus[f] = "failed" /\ (Underway => f \in Settled)

\* Nothing is skipped without a failure.
Caused == (\E n \in Nodes : nstatus[n] = "skipped") => \E f \in Nodes : Culprit(f)

\* The first error stands for a failed node, or for an approval all of whose predecessors succeeded.
ErrorsTold ==
    Underway =>
        /\ firstErr \in {"nil", "approval", "node", "resumed"}
        /\ firstErr = "nil" => \A f \in Nodes : ~Culprit(f)
        /\ firstErr \in {"node", "resumed"} => \E f \in Nodes : Culprit(f)
        /\ firstErr = "approval" => remaining = 0 /\ phase \in {"loop", "finish"}

\* The one decision is written once, to a node whose predecessors have all succeeded.
OneDecision ==
    /\ decisions \in Nat
    /\ approvePC # "idle" => decisions > 0 /\ approval.node \in Approvals
    /\ \A p \in Approvals :
           /\ nstatus[p] \in {"succeeded", "failed"} => decisions > 0 /\ approvePC # "node"
           /\ \/ tstatus = "waiting" \/ approvePC # "idle"
              \/ Underway /\ firstErr = "approval"
              => Preds(p) \subseteq Relied

\* Not a task that a human rejected.
NotRejected == decisions > 0 => approval.yes

\* A final status is the last word on all rows, between runs and until the next one begins.
FinalRows ==
    /\ tstatus = "succeeded" =>
           /\ phase \in {"idle", "begin", "start", "settle"}
           /\ \A n \in Nodes : nstatus[n] = "succeeded"
    /\ tstatus = "failed" /\ NotRejected =>
           /\ phase \in {"idle", "begin", "start", "settle"}
           /\ \A n \in Nodes : nstatus[n] \in {"succeeded", "failed", "skipped"}

LedgerInv ==
    /\ Uninterrupted /\ OwnJobs /\ CleanEnd /\ Grounded /\ RowsAgree /\ Recorded
    /\ Caused /\ ErrorsTold /\ OneDecision /\ FinalRows

\* The approval node, if there is one, is the only one and runs alone.
OneGate ==
    \A p \in Approvals :
        /\ Approvals = {p}
        /\ \A n \in Nodes : n = p \/ n \in Descendants({p}) \/ p \in Descendants({n})

\* Under what the theorems below hold: nodes fail and are retried, processes crash and the queue
\* refuses, but the run is not interrupted otherwise; there is one gate at most and one decision.
\* Beyond that the code does leave branches out and rows behind (see the README).
Tame == OneGate /\ MaxDecisions <= 1 /\ Faults \subseteq {"fail", "crash", "full"}

\* What is given up below nodes without a result is given up whole: nothing there has all its
\* predecessors among the results.
LEMMA NotBelow ==
    ASSUME NEW F \in SUBSET Nodes, \A n \in F : Preds(n) \subseteq F,
           NEW S \in SUBSET Nodes, S \cap F = {}, NEW m \in Descendants(S), Preds(m) \subseteq F
    PROVE  FALSE
<1> DEFINE C == {k \in Nodes : ~ (Preds(k) \subseteq F)}
<1>1. ASSUME NEW n \in Nodes \ F PROVE Edges[n] \subseteq C
  <2>1. Edges[n] \subseteq Nodes
    BY ExecutionAssumption
  <2>2. \A e \in Edges[n] : n \in Preds(e)
    BY DEF Preds
  <2> QED
    BY <2>1, <2>2
<1>2. \A n \in C : n \in Nodes \ F
  OBVIOUS
<1>3. m \in C
  BY <1>1, <1>2 DEF Descendants
<1> QED
  BY <1>3

\* Nothing lies below nothing.
LEMMA NothingBelow == Descendants({}) = {}
<1> SUFFICES ASSUME NEW m \in Descendants({}) PROVE FALSE
  OBVIOUS
<1>1. {} \in SUBSET Nodes
  OBVIOUS
<1> QED
  BY <1>1 DEF Descendants

\* What the scheduler relies on is closed under the predecessors.
LEMMA ReliedClosed ==
    ASSUME OrderInv, LedgerInv
    PROVE  /\ Relied \in SUBSET Nodes
           /\ \A n \in Relied : nstatus[n] = "succeeded" /\ Preds(n) \subseteq Relied
<1>1. Relied \in SUBSET Nodes
  BY DEF Relied, OrderInv, Shapes
<1>2. \A n \in Relied : nstatus[n] = "succeeded"
  BY DEF Relied, LedgerInv, RowsAgree
<1> QED
  BY <1>1, <1>2 DEF LedgerInv, Grounded, Touched

\* During the loop the run, its workers and its context are in order.
LEMMA InLoop ==
    ASSUME OrderInv, LoopInv, LedgerInv, Looping
    PROVE  /\ Registered /\ Underway /\ ctx[run] = "live" /\ Current = jobs /\ Relied = results
           /\ \A j \in jobs : j.node \in Nodes /\ InWork(j.node) /\ j.node \in Awaited
           /\ \A n \in Awaited : n \in Nodes /\ InWork(n)
           /\ IsFiniteSet(Awaited) /\ Cardinality(Awaited) \in Nat
           /\ IsFiniteSet(Open) /\ Cardinality(Open) \in Nat /\ Awaited \subseteq submitted
           /\ remaining \in Nat
           /\ remaining > 0 => remaining = Cardinality(Open) + Cardinality(Awaited)
<1>1. Registered /\ Underway /\ Relied = results
  BY DEF Looping, Registered, Underway, Relied
<1>2. ctx[run] = "live" /\ Current = jobs
  BY <1>1 DEF LedgerInv, Uninterrupted, OwnJobs, Current
<1>3. \A n \in Awaited : n \in Nodes /\ InWork(n)
  <2>1. \A n \in Awaited : InWork(n)
    BY <1>1, <1>2 DEF Awaited, OrderInv, OneToken, Current
  <2> QED
    BY <1>1, <2>1, OpenAwaited
<1>4. \A j \in jobs : j.node \in Awaited
  BY <1>2 DEF Awaited, Current
<1>5. remaining \in Nat /\ (remaining > 0 => remaining = Cardinality(Open) + Cardinality(Awaited))
  BY <1>2 DEF LoopInv, Balance
<1> QED
  BY <1>1, <1>2, <1>3, <1>4, <1>5, OpenAwaited

\* Two nodes in work are not one below the other.
LEMMA SideBySide ==
    ASSUME OrderInv, LedgerInv, Underway, NEW m \in Nodes, NEW k \in Nodes,
           m \notin results, Preds(k) \subseteq results
    PROVE  k \notin Descendants({m})
<1>1. results \in SUBSET Nodes /\ \A n \in results : Preds(n) \subseteq results
  BY ReliedClosed DEF Relied
<1>2. {m} \in SUBSET Nodes /\ {m} \cap results = {}
  OBVIOUS
<1> QED
  BY <1>1, <1>2, NotBelow

\* Steps that neither write a row nor give the run a result or a verdict.
LEMMA SameRows ==
    ASSUME OrderInv, LedgerInv, UNCHANGED <<nstatus, results, firstErr>>, Settled' = Settled,
           Underway' <=> Underway
    PROVE  /\ Relied' = Relied /\ Grounded' /\ Recorded' /\ Caused'
           /\ \A f \in Nodes : Culprit(f)' <=> Culprit(f)
<1>1. Relied' = Relied
  BY DEF Relied
<1>2. \A f \in Nodes : Culprit(f)' <=> Culprit(f)
  BY DEF Culprit
<1>3. Grounded'
  BY <1>1 DEF LedgerInv, Grounded
<1>4. Recorded'
  BY DEF LedgerInv, Recorded
<1>5. Caused'
  BY <1>2 DEF LedgerInv, Caused
<1> QED
  BY <1>1, <1>2, <1>3, <1>4, <1>5

\* Steps outside of the loop's own state, and of the rows.
LEMMA Elsewhere ==
    ASSUME OrderInv, LoopInv, LedgerInv,
           UNCHANGED <<nstatus, results, submitted, firstErr, remaining, outcomes, jobs, timers,
                       run>>,
           Underway' <=> Underway, phase' = phase \/ ~Underway,
           Uninterrupted', OneDecision', FinalRows'
    PROVE  LedgerInv'
<1>1. Awaited' = Awaited /\ Settled' = Settled /\ Open' = Open
  BY DEF Awaited, Settled, Open
<1>2. Grounded' /\ Recorded' /\ Caused' /\ \A f \in Nodes : Culprit(f)' <=> Culprit(f)
  BY <1>1, SameRows
<1>3. Looping' <=> Looping
  BY DEF Looping, Underway
<1>4. OwnJobs'
  BY <1>3 DEF LedgerInv, OwnJobs
<1>5. CleanEnd'
  BY <1>1, <1>3 DEF LedgerInv, CleanEnd, Underway
<1>6. RowsAgree'
  BY <1>3 DEF LedgerInv, RowsAgree
<1>7. ErrorsTold'
  BY <1>2 DEF LedgerInv, ErrorsTold
<1> QED
  BY <1>2, <1>4, <1>5, <1>6, <1>7 DEF LedgerInv

\* What a step does to the one decision when it leaves it, the rows and what is relied on alone.
LEMMA DecisionKept ==
    ASSUME LedgerInv, UNCHANGED <<nstatus, approvePC, approval, decisions>>, Relied' = Relied,
           tstatus' = "waiting" => tstatus = "waiting",
           Underway' /\ firstErr' = "approval" => Underway /\ firstErr = "approval"
    PROVE  OneDecision'
BY DEF LedgerInv, OneDecision

\* A message is taken, a run registered and started.
LEMMA BeginLedger ==
    ASSUME OrderInv, LoopInv, LedgerInv, Deliver \/ Register \/ Start PROVE LedgerInv'
<1>1. /\ UNCHANGED <<nstatus, results, submitted, firstErr, remaining, outcomes, jobs, timers,
                     stopping, ctx, cancelPC, approvePC, approval, decisions>>
      /\ ~Underway /\ ~Underway'
      /\ tstatus' = tstatus \/ tstatus' = "running"
  BY DEF Deliver, Register, Start, Underway, loopVars, dbVars, userVars
<1>2. jobs = {} /\ outcomes = {} /\ timers = {} /\ Relied' = Relied /\ ~Looping /\ ~Looping'
  <2>1. ~Looping /\ ~Looping'
    BY <1>1 DEF Looping, Underway
  <2>2. outcomes = {} /\ timers = {}
    BY DEF OrderInv, CleanStart, Deliver, Register, Start, Registered
  <2>3. Relied' = Relied
    BY <1>1 DEF Relied
  <2> QED
    BY <2>1, <2>2, <2>3 DEF LedgerInv, OwnJobs
<1>3. Uninterrupted'
  <2>1. CASE Register
    <3>1. run' = run + 1 /\ run \in Nat /\ run < MaxRuns /\ ~Registered
      BY <2>1, ExecutionAssumption DEF Register, OrderInv, Shapes, CleanStart, Registered
    <3>2. run' \in 1..MaxRuns /\ run' > run /\ \A r \in 1..MaxRuns : r > run' => r > run
      BY <3>1, ExecutionAssumption
    <3> QED
      BY <1>1, <2>1, <3>2 DEF LedgerInv, Uninterrupted, Register, dbVars
  <2>2. CASE Deliver \/ Start
    BY <1>1, <2>2 DEF LedgerInv, Uninterrupted, Deliver, Start, Registered, dbVars
  <2> QED
    BY <2>1, <2>2
<1>4. OneDecision'
  BY <1>1, <1>2, DecisionKept
<1>5. FinalRows'
  BY <1>1 DEF LedgerInv, FinalRows, NotRejected, Deliver, Register, Start, dbVars
<1>6. OwnJobs' /\ CleanEnd' /\ RowsAgree'
  BY <1>1, <1>2 DEF OwnJobs, CleanEnd, RowsAgree, Underway
<1>7. Settled' = Settled /\ Awaited' = {}
  BY <1>1, <1>2 DEF Settled, Awaited
<1>8. Grounded' /\ Recorded' /\ Caused'
  BY <1>1, <1>7, SameRows
<1>9. ErrorsTold'
  BY <1>1 DEF ErrorsTold
<1> QED
  BY <1>3, <1>4, <1>5, <1>6, <1>8, <1>9 DEF LedgerInv

\* The run ends, or crashes: what it relied on has been recorded.
LEMMA ReturnLedger ==
    ASSUME OrderInv, LoopInv, LedgerInv, Return, jobs' = {}, stopping' = "no",
           UNCHANGED <<nstatus, run, cancelPC, approvePC, approval, decisions>>,
           tstatus' = tstatus \/ (tstatus' = "waiting" /\ Underway /\ firstErr = "approval")
    PROVE  LedgerInv'
<1>1. /\ phase' = "idle" /\ ~Registered' /\ ~Underway' /\ ~Looping'
      /\ outcomes' = {} /\ submitted' = {}
  BY DEF Return, Registered, Underway, Looping
<1>2. \A n \in Relied : n \in Relied'
  BY <1>1, ReliedClosed DEF Relied
<1>3. Uninterrupted'
  <2>1. \A r \in 1..MaxRuns : r > run => ctx'[r] = ctx[r]
    <3>1. \A r \in 1..MaxRuns : r > run => r # run
      BY ExecutionAssumption DEF OrderInv, Shapes
    <3>2. ctx' = ctx \/ ctx' = [ctx EXCEPT ![run] = "cancelled"]
      BY DEF Return
    <3> QED
      BY <3>1, <3>2 DEF LoopInv, Contexts
  <2> QED
    BY <1>1, <2>1 DEF LedgerInv, Uninterrupted
<1>4. OwnJobs' /\ CleanEnd' /\ RowsAgree' /\ Recorded' /\ ErrorsTold'
  BY <1>1 DEF OwnJobs, CleanEnd, RowsAgree, Recorded, ErrorsTold
<1>5. Grounded' /\ OneDecision'
  BY <1>1, <1>2 DEF LedgerInv, Grounded, OneDecision
<1>6. Caused'
  BY <1>1 DEF LedgerInv, Caused, Culprit
<1>7. FinalRows'
  BY <1>1 DEF LedgerInv, FinalRows, NotRejected
<1> QED
  BY <1>3, <1>4, <1>5, <1>6, <1>7 DEF LedgerInv

\* A finished run leaves no worker behind, a crash takes its workers with it.
LEMMA EndLedger ==
    ASSUME OrderInv, LoopInv, LedgerInv, Suspend \/ FinishMessage \/ Crash PROVE LedgerInv'
<1>1. jobs' = {}
  <2>1. CASE Crash
    <3>1. PICK lost \in SUBSET {j \in jobs : j.run < run} :
              jobs' = {j \in jobs : j.run < run} \ lost
      BY <2>1 DEF Crash
    <3>2. \A j \in jobs : ~ (j.run < run)
      BY DEF LedgerInv, OwnJobs, OrderInv, Shapes
    <3> QED
      BY <3>1, <3>2
  <2>2. CASE Suspend \/ FinishMessage
    BY <2>2 DEF Suspend, FinishMessage, LedgerInv, OwnJobs, Looping
  <2> QED
    BY <2>1, <2>2
<1>2. Return /\ stopping' = "no"
      /\ UNCHANGED <<nstatus, run, cancelPC, approvePC, approval, decisions>>
      /\ (tstatus' = tstatus \/ (tstatus' = "waiting" /\ Underway /\ firstErr = "approval"))
  BY DEF Suspend, FinishMessage, Crash, dbVars, userVars, Underway, LedgerInv, Uninterrupted
<1> QED
  BY <1>1, <1>2, ReturnLedger

\* Messages and requests: the queue is not looked at, the decision is taken once.
LEMMA RequestLedger ==
    ASSUME Tame, OrderInv, LoopInv, LedgerInv,
           \/ Recover \/ ApproveWriteStatus \/ ApproveEnqueue \/ Done
           \/ \E n \in Approvals, yes \in BOOLEAN : ApproveRead(n, yes)
    PROVE  LedgerInv'
<1>1. /\ UNCHANGED <<nstatus, results, submitted, firstErr, remaining, outcomes, jobs, timers,
                     stopping, ctx, cancelPC, run, phase>>
      /\ tstatus' # "waiting" \/ tstatus' = tstatus
      /\ tstatus' \in {tstatus, "pending", "failed"}
  BY DEF Recover, ApproveWriteStatus, ApproveEnqueue, ApproveRead, Done, vars, dbVars, loopVars,
     userVars
<1>2. Relied' = Relied /\ (Underway' <=> Underway) /\ (Registered' <=> Registered)
  BY <1>1 DEF Relied, Underway, Registered
<1>3. Uninterrupted'
  BY <1>1, <1>2 DEF LedgerInv, Uninterrupted
<1>4. OneDecision' /\ FinalRows'
  <2>1. CASE \E n \in Approvals, yes \in BOOLEAN : ApproveRead(n, yes)
    <3>1. PICK n \in Approvals, yes \in BOOLEAN : ApproveRead(n, yes)
      BY <2>1
    <3>2. /\ tstatus = "waiting" /\ tstatus' = "waiting" /\ decisions < MaxDecisions
          /\ decisions' = decisions + 1
          /\ approval' = [node |-> n, yes |-> yes] /\ approvePC' = "node"
      BY <3>1 DEF ApproveRead, dbVars
    <3>3. decisions \in Nat /\ MaxDecisions \in Nat /\ decisions = 0
      BY <3>2, ExecutionAssumption DEF Tame, LedgerInv, OneDecision
    <3> QED
      BY <1>1, <1>2, <3>2, <3>3 DEF LedgerInv, OneDecision, FinalRows
  <2>2. CASE ApproveWriteStatus
    <3>1. /\ UNCHANGED <<approval, decisions>> /\ approvePC = "status" /\ approvePC' # "node"
          /\ tstatus' = IF approval.yes THEN "pending" ELSE "failed"
      BY <2>2 DEF ApproveWriteStatus
    <3>2. decisions \in Nat /\ decisions > 0
      BY <3>1 DEF LedgerInv, OneDecision
    <3> QED
      BY <1>1, <1>2, <3>1, <3>2 DEF LedgerInv, OneDecision, FinalRows, NotRejected
  <2>3. CASE Recover \/ ApproveEnqueue \/ Done
    <3>1. /\ UNCHANGED <<tstatus, approval, decisions>>
          /\ approvePC' = approvePC \/ (approvePC' = "idle" /\ approvePC = "enqueue")
      BY <2>3 DEF Recover, ApproveEnqueue, Done, vars, dbVars, userVars
    <3> QED
      BY <1>1, <1>2, <3>1 DEF LedgerInv, OneDecision, FinalRows, NotRejected
  <2> QED
    BY <2>1, <2>2, <2>3
<1> QED
  BY <1>1, <1>2, <1>3, <1>4, Elsewhere

\* The loop looks whether it is over.
LEMMA TurnLedger == ASSUME OrderInv, LoopInv, LedgerInv, TurnLoop PROVE LedgerInv'
<1>1. /\ phase = "loop" /\ phase' = IF remaining = 0 THEN "finish" ELSE "select"
      /\ UNCHANGED <<tstatus, nstatus, run, ctx, results, submitted, firstErr, remaining, outcomes,
                     jobs, timers, stopping, cancelPC, approvePC, approval, decisions>>
  BY DEF TurnLoop, loopVars, dbVars, userVars
<1>2. Looping /\ Underway /\ Underway' /\ Registered /\ Registered'
  BY <1>1 DEF Looping, Underway, Registered
<1>3. Awaited' = Awaited /\ Settled' = Settled /\ Open' = Open
  BY <1>1 DEF Awaited, Settled, Open
<1>4. /\ Relied' = Relied /\ Grounded' /\ Recorded' /\ Caused'
      /\ \A f \in Nodes : Culprit(f)' <=> Culprit(f)
  BY <1>1, <1>2, <1>3, SameRows
<1>5. CleanEnd'
  BY <1>1, <1>2, <1>3 DEF LedgerInv, CleanEnd, Looping
<1>6. OwnJobs'
  <2>1. phase' = "finish" => jobs = {}
    BY <1>1, <1>2, InLoop DEF LedgerInv, CleanEnd
  <2> QED
    BY <1>1, <2>1 DEF LedgerInv, OwnJobs, Looping
<1>7. Uninterrupted' /\ RowsAgree'
  BY <1>1, <1>2 DEF LedgerInv, Uninterrupted, RowsAgree, Looping
<1>8. ErrorsTold'
  BY <1>1, <1>2, <1>4 DEF LedgerInv, ErrorsTold
<1>9. OneDecision'
  BY <1>1, <1>2, <1>4, DecisionKept
<1>10. FinalRows'
  BY <1>1 DEF LedgerInv, FinalRows, NotRejected
<1> QED
  BY <1>4, <1>5, <1>6, <1>7, <1>8, <1>9, <1>10 DEF LedgerInv

\* The final status: at the end of the loop every node has a row that is final.
LEMMA FinishLedger == ASSUME Tame, OrderInv, LoopInv, LedgerInv, FinishStatus PROVE LedgerInv'
<1>1. /\ phase = "finish" /\ phase' = "settle" /\ firstErr # "approval"
      /\ tstatus' = FinalStatus
      /\ UNCHANGED <<nstatus, run, ctx, results, submitted, firstErr, remaining, outcomes,
                     jobs, timers, stopping, cancelPC, approvePC, approval, decisions>>
  BY DEF FinishStatus, loopVars, userVars, Tame
<1>2. ~Looping /\ ~Looping' /\ Underway /\ Underway' /\ Registered /\ Registered'
  BY <1>1 DEF Looping, Underway, Registered
<1>3. Awaited' = Awaited /\ Settled' = Settled /\ Open' = Open
  BY <1>1 DEF Awaited, Settled, Open
<1>4. /\ Relied' = Relied /\ Grounded' /\ Recorded' /\ Caused'
      /\ \A f \in Nodes : Culprit(f)' <=> Culprit(f)
  BY <1>1, <1>2, <1>3, SameRows
<1>5. Settled = Nodes
  BY <1>1 DEF LedgerInv, CleanEnd, Settled, Open, OrderInv, Shapes
<1>6. \A n \in Nodes : nstatus[n] \in {"succeeded", "failed", "skipped"}
  BY <1>1, <1>2, <1>5 DEF LedgerInv, Recorded
<1>7. firstErr \in {"nil", "node", "resumed"}
      /\ (firstErr = "nil" => \A n \in Nodes : nstatus[n] = "succeeded")
  <2>1. firstErr = "nil" => \A f \in Nodes : nstatus[f] # "failed"
    BY <1>2, <1>5 DEF LedgerInv, ErrorsTold, Culprit
  <2>2. firstErr = "nil" => \A f \in Nodes : nstatus[f] # "skipped"
    BY <2>1 DEF LedgerInv, Caused, Culprit
  <2> QED
    BY <1>1, <1>2, <1>6, <2>1, <2>2 DEF LedgerInv, ErrorsTold
<1>8. tstatus' = IF firstErr = "nil" THEN "succeeded" ELSE "failed"
  BY <1>1, <1>7 DEF FinalStatus
<1>9. FinalRows'
  BY <1>1, <1>6, <1>7, <1>8 DEF FinalRows
<1>10. Uninterrupted' /\ OwnJobs' /\ RowsAgree'
  BY <1>1, <1>2, <1>8 DEF LedgerInv, Uninterrupted, OwnJobs, RowsAgree
<1>11. CleanEnd'
  BY <1>1, <1>2, <1>3 DEF LedgerInv, CleanEnd
<1>12. ErrorsTold'
  BY <1>1, <1>2, <1>4, <1>7 DEF LedgerInv, ErrorsTold
<1>13. OneDecision'
  BY <1>1, <1>2, <1>4, <1>8, DecisionKept
<1> QED
  BY <1>4, <1>9, <1>10, <1>11, <1>12, <1>13 DEF LedgerInv

\* The loop hands a node to the pool.
LEMMA SubmitLedger ==
    ASSUME OrderInv, LoopInv, LedgerInv, NEW n \in Nodes, SubmitNode(n) PROVE LedgerInv'
<1>1. /\ phase = "loop" /\ phase' = "loop" /\ remaining > 0 /\ n \in Nodes \ submitted
      /\ UNCHANGED <<tstatus, nstatus, run, ctx, results, firstErr, remaining, outcomes,
                     timers, stopping, cancelPC, approvePC, approval, decisions>>
      /\ jobs' = jobs \cup {[node |-> n, run |-> run, started |-> FALSE]}
      /\ submitted' = submitted \cup {n}
  BY DEF SubmitNode, Ready, userVars, LedgerInv, Uninterrupted
<1>2. /\ Looping /\ Looping' /\ Underway /\ Underway' /\ Registered /\ Registered'
  BY <1>1 DEF Looping, Underway, Registered
<1>3. PICK k : k = [node |-> n, run |-> run, started |-> FALSE]
  OBVIOUS
<1>4. jobs' = jobs \cup {k} /\ k.node = n /\ k.run = run
  BY <1>1, <1>3
<1>5. Awaited' = Awaited \cup {n}
  BY <1>1, <1>4 DEF Awaited
<1>6. Settled' = Settled
  BY <1>1, <1>5 DEF Settled
<1>7. /\ Relied' = Relied /\ Grounded' /\ Recorded' /\ Caused'
      /\ \A f \in Nodes : Culprit(f)' <=> Culprit(f)
  BY <1>1, <1>2, <1>6, SameRows
<1>8. OwnJobs'
  BY <1>1, <1>2, <1>4 DEF LedgerInv, OwnJobs
<1>9. CleanEnd'
  BY <1>1, <1>2, InLoop DEF CleanEnd
<1>10. Uninterrupted' /\ RowsAgree'
  BY <1>1, <1>2 DEF LedgerInv, Uninterrupted, RowsAgree
<1>11. ErrorsTold'
  BY <1>1, <1>2, <1>7 DEF LedgerInv, ErrorsTold
<1>12. OneDecision'
  BY <1>1, <1>2, <1>7, DecisionKept
<1>13. FinalRows'
  BY <1>1 DEF LedgerInv, FinalRows, NotRejected
<1> QED
  BY <1>7, <1>8, <1>9, <1>10, <1>11, <1>12, <1>13 DEF LedgerInv

\* A retried node goes on being awaited, by way of a timer and of a new job.
LEMMA RetryLedger ==
    ASSUME OrderInv, LoopInv, LedgerInv,
           SelectRetry \/ \E n \in timers : TimerFires(n)
    PROVE  LedgerInv'
<1>1. /\ UNCHANGED <<tstatus, nstatus, run, ctx, results, submitted, firstErr, remaining,
                     stopping, cancelPC, approvePC, approval, decisions>>
      /\ outcomes' \subseteq outcomes
      /\ \A o \in outcomes \ outcomes' : o.kind = "error"
  BY DEF SelectRetry, TimerFires, dbVars, loopVars, userVars
<1>2. Looping /\ Looping' /\ Underway /\ Underway' /\ Registered /\ Registered'
      /\ (phase' = phase \/ (phase = "select" /\ phase' = "loop"))
  <2>1. CASE SelectRetry
    BY <2>1 DEF SelectRetry, Looping, Underway, Registered
  <2>2. CASE \E n \in timers : TimerFires(n)
    <3>1. PICK n \in timers : TimerFires(n)
      BY <2>2
    <3>2. n \in Awaited /\ phase' = phase
      BY <3>1 DEF Awaited, TimerFires
    <3>3. phase \in {"loop", "select"}
      <4>1. phase \notin {"finish", "settle"}
        BY <3>2 DEF LedgerInv, CleanEnd
      <4> QED
        BY <3>1, <4>1 DEF OrderInv, CleanStart, Registered
    <3> QED
      BY <3>2, <3>3 DEF Looping, Underway, Registered
  <2> QED
    BY <2>1, <2>2
<1>3. Awaited' = Awaited /\ \A j \in jobs' : j.run = run
  <2>1. CASE SelectRetry
    <3>1. PICK o \in outcomes : outcomes' = outcomes \ {o} /\ timers' = timers \cup {o.node}
      BY <2>1 DEF SelectRetry
    <3>2. jobs' = jobs
      BY <2>1 DEF SelectRetry
    <3> QED
      BY <1>1, <3>1, <3>2 DEF Awaited, LedgerInv, OwnJobs
  <2>2. CASE \E n \in timers : TimerFires(n)
    <3>1. PICK n \in timers : TimerFires(n)
      BY <2>2
    <3>2. PICK k : k = [node |-> n, run |-> run, started |-> FALSE]
      OBVIOUS
    <3>3. /\ timers' = timers \ {n} /\ jobs' = jobs \cup {k} /\ outcomes' = outcomes
          /\ k.node = n /\ k.run = run
      BY <1>2, <3>1, <3>2, InLoop DEF TimerFires
    <3> QED
      BY <1>1, <3>3 DEF Awaited, LedgerInv, OwnJobs
  <2> QED
    BY <2>1, <2>2
<1>4. Settled' = Settled /\ Open' = Open
  BY <1>1, <1>3 DEF Settled, Open
<1>5. /\ Relied' = Relied /\ Grounded' /\ Recorded' /\ Caused'
      /\ \A f \in Nodes : Culprit(f)' <=> Culprit(f)
  BY <1>1, <1>2, <1>4, SameRows
<1>6. Uninterrupted' /\ OwnJobs'
  BY <1>1, <1>2, <1>3 DEF LedgerInv, Uninterrupted, OwnJobs
<1>7. CleanEnd'
  BY <1>1, <1>2, <1>3, <1>4 DEF LedgerInv, CleanEnd, Looping
<1>8. RowsAgree'
  BY <1>1, <1>2 DEF LedgerInv, RowsAgree
<1>9. ErrorsTold'
  BY <1>1, <1>2, <1>5 DEF LedgerInv, ErrorsTold, Looping
<1>10. OneDecision'
  BY <1>1, <1>2, <1>5, DecisionKept
<1>11. FinalRows'
  BY <1>1, <1>2 DEF LedgerInv, FinalRows, NotRejected, Looping
<1> QED
  BY <1>5, <1>6, <1>7, <1>8, <1>9, <1>10, <1>11 DEF LedgerInv

\* The last one: when the counter runs out with a set of open nodes and one awaited, they were all.
LEMMA LastOne ==
    ASSUME OrderInv, LoopInv, LedgerInv, phase = "select", NEW m \in Awaited, NEW K \in SUBSET Open,
           remaining - 1 - Cardinality(K) = 0
    PROVE  Awaited = {m} /\ Open = K
<1>1. Looping
  BY DEF Looping
<1>2. /\ remaining = Cardinality(Open) + Cardinality(Awaited)
      /\ IsFiniteSet(Awaited) /\ Cardinality(Awaited) \in Nat
      /\ IsFiniteSet(Open) /\ Cardinality(Open) \in Nat
  BY <1>1, InLoop DEF LoopInv, Balance
<1>3. Cardinality(K) \in Nat /\ Cardinality(Open \ K) = Cardinality(Open) - Cardinality(K)
      /\ Cardinality(Open \ K) \in Nat /\ IsFiniteSet(Open \ K)
  BY <1>2, TakeOut, FS_Subset
<1>4. Cardinality(Awaited \ {m}) = Cardinality(Awaited) - 1 /\ IsFiniteSet(Awaited \ {m})
  BY <1>2, FS_RemoveElement
<1>5. Cardinality(Awaited \ {m}) \in Nat
  BY <1>4, FS_CardinalityType
<1>6. Cardinality(Open \ K) = 0 /\ Cardinality(Awaited \ {m}) = 0
  BY <1>2, <1>3, <1>4, <1>5
<1>7. Open \ K = {} /\ Awaited \ {m} = {}
  BY <1>3, <1>4, <1>6, FS_EmptySet
<1> QED
  BY <1>7

\* A node succeeded: the run relies on its result from now on.
LEMMA SelectOkLedger == ASSUME OrderInv, LoopInv, LedgerInv, SelectOk PROVE LedgerInv'
<1>1. PICK o \in outcomes :
         o.kind = "ok" /\ outcomes' = outcomes \ {o} /\ results' = results \cup {o.node}
  BY DEF SelectOk
<1>2. /\ phase = "select" /\ phase' = "loop" /\ remaining' = remaining - 1
      /\ UNCHANGED <<tstatus, nstatus, run, ctx, submitted, firstErr, jobs, timers, stopping,
                     cancelPC, approvePC, approval, decisions>>
  BY DEF SelectOk, dbVars, userVars
<1>3. Looping /\ Looping' /\ Underway /\ Underway' /\ Registered /\ Registered'
  BY <1>2 DEF Looping, Underway, Registered
<1> DEFINE m == o.node
<1>4. /\ m \in Nodes /\ m \in submitted \ results /\ m \in Awaited /\ Awaited' = Awaited \ {m}
      /\ m \notin Approvals /\ nstatus[m] = "succeeded" /\ results' = results \cup {m}
  BY <1>1, <1>2, <1>3, OutcomeRead DEF LedgerInv, RowsAgree
<1>5. \A p \in outcomes : p.node = m => p = o
  BY <1>3 DEF OrderInv, OneToken
<1> HIDE DEF m
<1>6. Relied = results /\ Relied' = results'
  BY <1>3 DEF Relied
<1>7. Settled' = Settled \cup {m} /\ Open' = Open
  BY <1>2, <1>4 DEF Settled, Open
<1>8. Grounded'
  BY <1>2, <1>4, <1>6 DEF LedgerInv, Grounded
<1>9. \A f \in Nodes : Culprit(f)' <=> Culprit(f)
  BY <1>2, <1>3, <1>4, <1>7 DEF Culprit
<1>10. Recorded' /\ Caused'
  BY <1>2, <1>3, <1>4, <1>7, <1>9 DEF LedgerInv, Recorded, Caused
<1>11. firstErr # "approval"
  <2>1. remaining > 0
    BY <1>2, <1>3 DEF LoopInv, Balance
  <2> QED
    BY <1>2, <1>3, <2>1 DEF LedgerInv, ErrorsTold
<1>12. ErrorsTold'
  BY <1>2, <1>3, <1>9, <1>11 DEF LedgerInv, ErrorsTold
<1>13. CleanEnd'
  <2>1. CASE remaining' = 0
    <3>1. {} \in SUBSET Open /\ Cardinality({}) = 0 /\ remaining - 1 - 0 = remaining - 1
      BY FS_EmptySet, <1>3, InLoop
    <3>2. Awaited = {m} /\ Open = {}
      BY <1>2, <1>4, <2>1, <3>1, LastOne
    <3> QED
      BY <1>4, <1>7, <3>2 DEF CleanEnd
  <2>2. CASE remaining' # 0
    BY <1>2, <2>2 DEF CleanEnd
  <2> QED
    BY <2>1, <2>2
<1>14. Uninterrupted' /\ OwnJobs'
  BY <1>2, <1>3 DEF LedgerInv, Uninterrupted, OwnJobs
<1>15. RowsAgree'
  BY <1>1, <1>2, <1>3, <1>4, <1>5 DEF LedgerInv, RowsAgree, m
<1>16. OneDecision'
  BY <1>2, <1>3, <1>4, <1>6 DEF LedgerInv, OneDecision
<1>17. FinalRows'
  BY <1>2 DEF LedgerInv, FinalRows, NotRejected
<1> QED
  BY <1>8, <1>10, <1>12, <1>13, <1>14, <1>15, <1>16, <1>17 DEF LedgerInv

\* A node waits for a human: with one gate nothing else is in work, and nothing has failed.
LEMMA SelectApprovalLedger ==
    ASSUME Tame, OrderInv, LoopInv, LedgerInv, SelectApproval PROVE LedgerInv'
<1>1. PICK o \in outcomes : o.kind = "approval" /\ outcomes' = outcomes \ {o}
  BY DEF SelectApproval
<1>2. /\ phase = "select" /\ phase' = "loop" /\ remaining' = 0
      /\ firstErr' = IF firstErr = "nil" THEN "approval" ELSE firstErr
      /\ UNCHANGED <<tstatus, nstatus, run, ctx, submitted, results, jobs, timers, stopping,
                     cancelPC, approvePC, approval, decisions>>
  BY DEF SelectApproval, dbVars, userVars
<1>3. Looping /\ Looping' /\ Underway /\ Underway' /\ Registered /\ Registered'
  BY <1>2 DEF Looping, Underway, Registered
<1> DEFINE m == o.node
<1>4. /\ m \in Nodes /\ m \in submitted \ results /\ m \in Awaited /\ Awaited' = Awaited \ {m}
      /\ m \in Approvals
  BY <1>1, <1>2, <1>3, OutcomeRead DEF LedgerInv, RowsAgree
<1> HIDE DEF m
<1>5. Preds(m) \subseteq results /\ Approvals = {m} /\ Relied = results /\ Relied' = results
  BY <1>2, <1>3, <1>4, InLoop DEF Relied, InWork, Tame, OneGate
<1>6. ASSUME NEW k \in Nodes, k \notin results, Preds(k) \subseteq results PROVE k = m
  BY <1>3, <1>4, <1>5, <1>6, SideBySide DEF Tame, OneGate
<1>7. Awaited' = {}
  BY <1>3, <1>4, <1>6, InLoop DEF InWork
<1>8. \A f \in Nodes : ~Culprit(f)
  <2>1. ASSUME NEW f \in Nodes, Culprit(f) PROVE FALSE
    <3>1. nstatus[f] = "failed" /\ f \in Settled
      BY <1>3, <2>1 DEF Culprit
    <3>2. Preds(f) \subseteq results /\ f \notin results
      BY <1>3, <1>5, <3>1 DEF LedgerInv, Grounded, Touched, RowsAgree
    <3> QED
      BY <1>4, <1>6, <3>1, <3>2 DEF Settled
  <2> QED
    BY <2>1
<1>9. firstErr' = "approval"
  <2>1. remaining > 0
    BY <1>2, <1>3 DEF LoopInv, Balance
  <2> QED
    BY <1>2, <1>3, <1>8, <2>1 DEF LedgerInv, ErrorsTold
<1>10. \A n \in Nodes : nstatus[n] # "skipped"
  BY <1>8 DEF LedgerInv, Caused
<1>11. Grounded' /\ Caused' /\ Recorded' /\ ErrorsTold' /\ CleanEnd'
  BY <1>2, <1>3, <1>5, <1>7, <1>9, <1>10
     DEF LedgerInv, Grounded, Caused, Recorded, ErrorsTold, CleanEnd
<1>12. Uninterrupted' /\ OwnJobs'
  BY <1>2, <1>3 DEF LedgerInv, Uninterrupted, OwnJobs
<1>13. RowsAgree'
  BY <1>1, <1>2, <1>3 DEF LedgerInv, RowsAgree
<1>14. OneDecision'
  BY <1>2, <1>5 DEF LedgerInv, OneDecision
<1>15. FinalRows'
  BY <1>2 DEF LedgerInv, FinalRows, NotRejected
<1> QED
  BY <1>11, <1>12, <1>13, <1>14, <1>15 DEF LedgerInv

\* A node failed for good: what is skipped below it has not been touched.
LEMMA SelectFailureLedger == ASSUME OrderInv, LoopInv, LedgerInv, SelectFailure PROVE LedgerInv'
<1>1. PICK o \in outcomes :
         /\ o.kind = "error" /\ outcomes' = outcomes \ {o}
         /\ submitted' = submitted \cup SkipSet({o.node})
         /\ remaining' = remaining - 1 - Cardinality(SkipSet({o.node}))
         /\ nstatus' = [n \in Nodes |-> IF n \in SkipSet({o.node}) THEN "skipped" ELSE nstatus[n]]
  BY DEF SelectFailure
<1>2. /\ phase = "select" /\ phase' = "loop"
      /\ firstErr' = IF firstErr = "nil" THEN "node" ELSE firstErr
      /\ UNCHANGED <<tstatus, run, ctx, results, jobs, timers, stopping,
                     cancelPC, approvePC, approval, decisions>>
  BY DEF SelectFailure, userVars
<1>3. Looping /\ Looping' /\ Underway /\ Underway' /\ Registered /\ Registered'
  BY <1>2 DEF Looping, Underway, Registered
<1> DEFINE m == o.node
           K == SkipSet({m})
<1>4. /\ m \in Nodes /\ m \in submitted \ results /\ m \in Awaited /\ Awaited' = Awaited \ {m}
      /\ m \notin Approvals /\ nstatus[m] = "failed"
  BY <1>1, <1>2, <1>3, OutcomeRead DEF LedgerInv, RowsAgree
<1>5. /\ submitted' = submitted \cup K /\ remaining' = remaining - 1 - Cardinality(K)
      /\ nstatus' = [n \in Nodes |-> IF n \in K THEN "skipped" ELSE nstatus[n]]
  BY <1>1
<1>6. K \subseteq Open /\ m \notin K /\ K = Descendants({m}) \ submitted
  BY <1>4, SkipIsOpen DEF SkipSet
<1>7. \A p \in outcomes' : p \in outcomes /\ p.node # m
  BY <1>1, <1>3 DEF OrderInv, OneToken
<1> HIDE DEF m, K
<1>8. Relied = results /\ Relied' = results'
  BY <1>3 DEF Relied
<1>9. \A n \in K : nstatus[n] \notin Touched
  <2>1. ASSUME NEW n \in K, nstatus[n] \in Touched PROVE FALSE
    <3>1. n \in Nodes /\ Preds(n) \subseteq results /\ n \in Descendants({m})
      BY <1>6, <1>8, <2>1 DEF LedgerInv, Grounded, Open
    <3> QED
      BY <1>3, <1>4, <3>1, SideBySide
  <2> QED
    BY <2>1
<1>10. \A n \in Nodes \ K : nstatus'[n] = nstatus[n]
  BY <1>5
<1>11. \A n \in K : nstatus'[n] = "skipped" /\ n \in Nodes \ submitted
  BY <1>5, <1>6 DEF Open
<1>12. Settled' = Settled \cup {m} \cup K /\ Open' = Open \ K
  <2>1. Awaited \subseteq submitted
    BY <1>3, InLoop
  <2> QED
    BY <1>4, <1>5, <1>6, <2>1 DEF Settled, Open
<1>13. Grounded'
  <2>1. nstatus' \in [Nodes -> NodeStatus]
    BY <1>5 DEF LedgerInv, Grounded, NodeStatus
  <2>2. \A n \in Nodes : nstatus'[n] \in Touched => nstatus[n] \in Touched
    BY <1>10, <1>11 DEF Touched
  <2> QED
    BY <1>2, <1>8, <2>1, <2>2 DEF LedgerInv, Grounded
<1>14. \E f \in Nodes : Culprit(f)'
  <2>1. nstatus'[m] = "failed" /\ m \in Settled'
    BY <1>4, <1>6, <1>10, <1>12
  <2> QED
    BY <1>4, <2>1 DEF Culprit
<1>15. firstErr # "approval"
  <2>1. remaining > 0
    BY <1>2, <1>3 DEF LoopInv, Balance
  <2> QED
    BY <1>2, <1>3, <2>1 DEF LedgerInv, ErrorsTold
<1>16. Caused' /\ ErrorsTold'
  <2>1. firstErr' \in {"node", "resumed"}
    BY <1>2, <1>3, <1>15 DEF LedgerInv, ErrorsTold
  <2> QED
    BY <1>14, <2>1 DEF Caused, ErrorsTold
<1>17. Recorded'
  <2>1. Settled \subseteq Nodes
    BY DEF OrderInv, Shapes, Settled
  <2>2. \A n \in Settled \cup {m} : nstatus[n] \in {"succeeded", "failed", "skipped"} /\ n \in Nodes
    BY <1>3, <1>4, <1>15, <2>1 DEF LedgerInv, Recorded
  <2>3. \A n \in Settled' : nstatus'[n] \in {"succeeded", "failed", "skipped"}
    BY <1>10, <1>11, <1>12, <2>2
  <2> QED
    BY <2>3 DEF Recorded
<1>18. CleanEnd'
  <2>1. CASE remaining' = 0
    <3>1. Awaited = {m} /\ Open = K
      BY <1>2, <1>4, <1>5, <1>6, <2>1, LastOne
    <3> QED
      BY <1>4, <1>12, <3>1 DEF CleanEnd
  <2>2. CASE remaining' # 0
    BY <1>2, <2>2 DEF CleanEnd
  <2> QED
    BY <2>1, <2>2
<1>19. Uninterrupted' /\ OwnJobs'
  BY <1>2, <1>3 DEF LedgerInv, Uninterrupted, OwnJobs
<1>20. RowsAgree'
  <2>1. \A n \in Nodes : nstatus'[n] = "succeeded" <=> nstatus[n] = "succeeded"
    BY <1>9, <1>10, <1>11 DEF Touched
  <2>2. \A n \in Nodes : nstatus[n] = "failed" => nstatus'[n] = "failed"
    BY <1>9, <1>10 DEF Touched
  <2>3. \A p \in outcomes : p.node \in Nodes
    BY DEF OrderInv, Shapes, Outcome
  <2>4. results \subseteq Nodes
    BY DEF OrderInv, Shapes
  <2>5. \A n \in Nodes : (\E p \in outcomes : p.node = n /\ p.kind = "ok") =>
            \E p \in outcomes' : p.node = n /\ p.kind = "ok"
    BY <1>1
  <2> QED
    BY <1>2, <1>3, <1>7, <2>1, <2>2, <2>3, <2>4, <2>5 DEF LedgerInv, RowsAgree
<1>21. OneDecision'
  <2>1. \A p \in Approvals : p \in Nodes
    BY ExecutionAssumption
  <2>2. \A n \in Nodes : nstatus'[n] \in {"succeeded", "failed"} => nstatus'[n] = nstatus[n]
    BY <1>10, <1>11
  <2>3. firstErr' # "approval"
    BY <1>2, <1>15
  <2> QED
    BY <1>2, <1>8, <2>1, <2>2, <2>3 DEF LedgerInv, OneDecision
<1>22. FinalRows'
  BY <1>2, <1>3 DEF LedgerInv, FinalRows, NotRejected
<1> QED
  BY <1>13, <1>16, <1>17, <1>18, <1>19, <1>20, <1>21, <1>22 DEF LedgerInv

\* The checkpoint relies on exactly the rows that have succeeded, and skips nothing touched.
LEMMA CheckpointLedger ==
    ASSUME Tame, OrderInv, LoopInv, LedgerInv, OrderInv', LoopInv', Checkpoint PROVE LedgerInv'
<1> DEFINE With(s) == {n \in Nodes : nstatus[n] = s}
           S       == With("failed") \cup With("skipped")
           below   == Descendants(S)
           verdict == With("succeeded") \cup With("failed") \cup With("skipped")
<1>1. /\ phase = "resume" /\ phase' = "loop"
      /\ UNCHANGED <<tstatus, run, ctx, jobs, timers, outcomes, stopping, cancelPC, approvePC,
                     approval, decisions>>
  BY DEF Checkpoint, userVars
<1>2. Registered /\ Registered' /\ ~Underway /\ Underway' /\ ~Looping /\ Looping'
  BY <1>1 DEF Looping, Underway, Registered
<1>3. Rows = {nstatus}
  BY <1>2 DEF Rows, LedgerInv, Uninterrupted, Tame
<1>4. /\ submitted' = verdict \cup below
      /\ remaining' = Cardinality(Nodes) - Cardinality(verdict \cup below)
      /\ results' = With("succeeded")
      /\ firstErr' = IF With("failed") = {} THEN "nil" ELSE "resumed"
      /\ \E over \in SUBSET (below \cap verdict) :
           nstatus' = [n \in Nodes |-> IF n \in (below \ verdict) \cup over
                                       THEN "skipped" ELSE nstatus[n]]
  BY <1>3 DEF Checkpoint
<1>5. Relied = With("succeeded") /\ Relied' = With("succeeded")
  BY <1>2, <1>4 DEF Relied
<1>6. jobs' = {} /\ outcomes' = {} /\ timers' = {} /\ Awaited' = {}
  <2>1. jobs = {}
    BY <1>2 DEF LedgerInv, OwnJobs
  <2>2. outcomes = {} /\ timers = {}
    BY <1>1 DEF OrderInv, CleanStart
  <2> QED
    BY <1>1, <2>1, <2>2 DEF Awaited
<1>7. \A n \in below : n \in Nodes /\ nstatus[n] \notin Touched
  <2>1. /\ Relied \in SUBSET Nodes /\ (\A n \in Relied : Preds(n) \subseteq Relied)
        /\ S \in SUBSET Nodes /\ S \cap Relied = {}
    BY <1>5, ReliedClosed
  <2>2. below \subseteq Nodes
    BY DEF Descendants
  <2>3. ASSUME NEW n \in below, nstatus[n] \in Touched PROVE FALSE
    <3>1. Preds(n) \subseteq Relied
      BY <2>2, <2>3 DEF LedgerInv, Grounded
    <3> HIDE DEF S
    <3> QED
      BY <2>1, <3>1, NotBelow
  <2> QED
    BY <2>2, <2>3
<1>8. below \cap verdict \subseteq With("skipped")
  BY <1>7 DEF Touched
<1>9. \A n \in Nodes : nstatus'[n] = IF n \in below THEN "skipped" ELSE nstatus[n]
  <2>1. PICK over \in SUBSET (below \cap verdict) :
           nstatus' = [n \in Nodes |-> IF n \in (below \ verdict) \cup over
                                       THEN "skipped" ELSE nstatus[n]]
    BY <1>4
  <2>2. ASSUME NEW n \in Nodes
        PROVE  nstatus'[n] = IF n \in below THEN "skipped" ELSE nstatus[n]
    <3>1. nstatus'[n] = IF n \in (below \ verdict) \cup over THEN "skipped" ELSE nstatus[n]
      BY <2>1
    <3>2. n \in below /\ n \in verdict => nstatus[n] = "skipped"
      BY <1>8
    <3>3. n \in over => n \in below /\ n \in verdict
      OBVIOUS
    <3> HIDE DEF below, verdict
    <3> QED
      BY <3>1, <3>2, <3>3
  <2> QED
    BY <2>2
<1>10. nstatus' \in [Nodes -> NodeStatus]
  <2>1. nstatus \in [Nodes -> NodeStatus]
    BY DEF LedgerInv, Grounded
  <2> HIDE DEF below, verdict
  <2> QED
    BY <1>4, <2>1 DEF NodeStatus
<1>11. \A n \in Nodes : nstatus[n] \in Touched => nstatus'[n] = nstatus[n]
  BY <1>7, <1>9
<1>12. \A n \in Nodes : nstatus'[n] # "skipped" => nstatus'[n] = nstatus[n]
  BY <1>9
<1>13. \A n \in Nodes : nstatus'[n] = "skipped" => nstatus[n] = "skipped" \/ n \in below
  BY <1>9
<1>14. Settled' = verdict \cup below
  BY <1>4, <1>6 DEF Settled
<1>15. With("failed") = {} => \A n \in Nodes : nstatus'[n] # "skipped"
  <2>1. ASSUME With("failed") = {} PROVE \A n \in Nodes : nstatus[n] # "skipped"
    BY <2>1 DEF LedgerInv, Caused, Culprit
  <2>2. ASSUME With("failed") = {} PROVE below = {}
    <3>1. S = {}
      BY <2>1, <2>2
    <3> QED
      BY <3>1, NothingBelow
  <2> QED
    BY <1>13, <2>1, <2>2
<1>16. \A f \in Nodes : nstatus[f] = "failed" => nstatus'[f] = "failed" /\ f \in Settled'
  BY <1>11, <1>14 DEF Touched
<1>17. Caused' /\ ErrorsTold'
  <2>1. With("failed") # {} => \E f \in Nodes : Culprit(f)'
    BY <1>16 DEF Culprit
  <2>2. With("failed") = {} => \A f \in Nodes : ~ Culprit(f)'
    BY <1>12 DEF Culprit
  <2> QED
    BY <1>4, <1>15, <2>1, <2>2 DEF Caused, ErrorsTold
<1>18. Recorded'
  <2>1. \A n \in below : nstatus'[n] = "skipped"
    BY <1>7, <1>9
  <2>2. \A n \in verdict : n \in Nodes /\ nstatus[n] \in {"succeeded", "failed", "skipped"}
    OBVIOUS
  <2> HIDE DEF below, verdict
  <2> QED
    BY <1>9, <1>14, <2>1, <2>2 DEF Recorded
<1>19. CleanEnd'
  <2>1. ASSUME remaining' = 0 PROVE Open' = {}
    <3>1. submitted' \in SUBSET Nodes
      BY DEF OrderInv, Shapes
    <3>2. remaining' = Cardinality(Nodes) - Cardinality(submitted')
      BY <1>4
    <3>3. /\ Cardinality(submitted') \in Nat /\ Cardinality(Nodes) \in Nat
          /\ Cardinality(Nodes \ submitted') = Cardinality(Nodes) - Cardinality(submitted')
      BY <3>1, TakeOut, ExecutionAssumption
    <3>4. Cardinality(Nodes \ submitted') = 0 /\ IsFiniteSet(Nodes \ submitted')
      BY <2>1, <3>2, <3>3, FS_Subset, ExecutionAssumption
    <3> QED
      BY <3>4, FS_EmptySet DEF Open
  <2> QED
    BY <1>1, <1>6, <2>1 DEF CleanEnd
<1>20. Grounded'
  <2>1. \A n \in Nodes : nstatus'[n] \in Touched => nstatus[n] \in Touched
    BY <1>12 DEF Touched
  <2> QED
    BY <1>5, <1>10, <2>1 DEF LedgerInv, Grounded
<1>21. Uninterrupted' /\ OwnJobs'
  BY <1>1, <1>2, <1>6 DEF LedgerInv, Uninterrupted, OwnJobs
<1>22. RowsAgree'
  BY <1>4, <1>6, <1>11, <1>12 DEF RowsAgree, Touched
<1>23. OneDecision'
  <2>1. \A p \in Approvals : p \in Nodes
    BY ExecutionAssumption
  <2>2. \A n \in Nodes : nstatus'[n] \in {"succeeded", "failed"} => nstatus'[n] = nstatus[n]
    BY <1>12
  <2>3. firstErr' # "approval"
    BY <1>4
  <2> QED
    BY <1>1, <1>5, <2>1, <2>2, <2>3 DEF LedgerInv, OneDecision
<1>24. FinalRows'
  BY <1>1 DEF LedgerInv, FinalRows, NotRejected
<1> QED
  BY <1>17, <1>18, <1>19, <1>20, <1>21, <1>22, <1>23, <1>24 DEF LedgerInv

\* A write to the row of a node in work: the run does not rely on it, and it caused nothing yet.
LEMMA RowInWork ==
    ASSUME OrderInv, LoopInv, LedgerInv, Looping, Looping', NEW m \in Awaited, NEW s \in Touched,
           nstatus' = [nstatus EXCEPT ![m] = s],
           UNCHANGED <<results, firstErr, remaining, phase>>, Settled' = Settled,
           m \in Approvals => s \notin {"succeeded", "failed"},
           UNCHANGED <<tstatus, approvePC, approval, decisions>>
    PROVE  /\ m \in Nodes /\ m \notin results /\ Grounded' /\ Recorded' /\ Caused' /\ ErrorsTold'
           /\ OneDecision' /\ FinalRows'
           /\ \A n \in Nodes : nstatus'[n] = IF n = m THEN s ELSE nstatus[n]
<1>1. /\ m \in Nodes /\ m \notin results /\ Preds(m) \subseteq results /\ m \notin Settled
      /\ Underway /\ Underway' /\ Relied = results /\ Relied' = results
  BY InLoop DEF InWork, Settled, Underway, Looping, Relied
<1>2. /\ nstatus' \in [Nodes -> NodeStatus]
      /\ \A n \in Nodes : nstatus'[n] = IF n = m THEN s ELSE nstatus[n]
  BY <1>1 DEF LedgerInv, Grounded, NodeStatus, Touched
<1>3. Grounded'
  BY <1>1, <1>2 DEF LedgerInv, Grounded
<1>4. \A f \in Nodes : Culprit(f)' <=> Culprit(f)
  BY <1>1, <1>2 DEF Culprit
<1>5. Recorded'
  <2>1. Settled \subseteq Nodes
    BY DEF OrderInv, Shapes, Settled
  <2> QED
    BY <1>1, <1>2, <2>1 DEF LedgerInv, Recorded
<1>6. Caused' /\ ErrorsTold'
  BY <1>1, <1>2, <1>4 DEF LedgerInv, Caused, ErrorsTold, Touched
<1>7. OneDecision'
  BY <1>1, <1>2, ExecutionAssumption DEF LedgerInv, OneDecision
<1>8. FinalRows'
  BY DEF LedgerInv, FinalRows, NotRejected, Looping
<1> QED
  BY <1>1, <1>2, <1>3, <1>5, <1>6, <1>7, <1>8

\* A worker starts on its node.
LEMMA JobStartLedger ==
    ASSUME OrderInv, LoopInv, LedgerInv, NEW j \in jobs, JobStart(j) PROVE LedgerInv'
<1>1. /\ jobs' = (jobs \ {j}) \cup {[j EXCEPT !.started = TRUE]}
      /\ nstatus' = [nstatus EXCEPT ![j.node] = "running"]
      /\ UNCHANGED <<tstatus, phase, run, ctx, submitted, results, firstErr, remaining, timers,
                     outcomes, stopping, cancelPC, approvePC, approval, decisions>>
  BY DEF JobStart, loopVars, userVars
<1>2. /\ Looping /\ Looping' /\ Registered /\ Registered'
  BY <1>1 DEF LedgerInv, OwnJobs, Looping, Registered
<1>3. PICK k : k = [j EXCEPT !.started = TRUE]
  OBVIOUS
<1>4. jobs' = (jobs \ {j}) \cup {k} /\ k.node = j.node /\ k.run = j.run
  BY <1>1, <1>3 DEF OrderInv, Shapes, Job
<1>5. Awaited' = Awaited /\ Settled' = Settled /\ Open' = Open
  BY <1>1, <1>4 DEF Awaited, Settled, Open
<1>6. PICK m : m = j.node
  OBVIOUS
<1>7. m \in Awaited /\ (\A o \in outcomes : o.node # m)
  BY <1>2, <1>6, InLoop DEF OrderInv, OneToken
<1>8. /\ m \in Nodes /\ m \notin results /\ Grounded' /\ Recorded' /\ Caused' /\ ErrorsTold'
      /\ OneDecision' /\ FinalRows'
      /\ \A n \in Nodes : nstatus'[n] = IF n = m THEN "running" ELSE nstatus[n]
  BY <1>1, <1>2, <1>5, <1>6, <1>7, RowInWork DEF Touched
<1>9. Uninterrupted' /\ OwnJobs'
  BY <1>1, <1>2, <1>4 DEF LedgerInv, Uninterrupted, OwnJobs
<1>10. CleanEnd'
  BY <1>1, <1>2, <1>5 DEF LedgerInv, CleanEnd
<1>11. RowsAgree'
  <2>1. results \subseteq Nodes /\ \A o \in outcomes : o.node \in Nodes
    BY DEF OrderInv, Shapes, Outcome
  <2>2. \A n \in results' : nstatus'[n] = "succeeded"
    BY <1>1, <1>2, <1>8, <2>1 DEF LedgerInv, RowsAgree, Underway, Looping
  <2>3. \A n \in Nodes \ Approvals : nstatus'[n] = "succeeded" =>
            n \in results' \/ \E o \in outcomes' : o.node = n /\ o.kind = "ok"
    BY <1>1, <1>2, <1>8 DEF LedgerInv, RowsAgree
  <2>4. \A o \in outcomes : nstatus'[o.node] = nstatus[o.node]
    BY <1>7, <1>8, <2>1
  <2> QED
    BY <1>1, <2>2, <2>3, <2>4 DEF LedgerInv, RowsAgree
<1> QED
  BY <1>8, <1>9, <1>10, <1>11 DEF LedgerInv

\* A worker is done with its node: the row and the outcome tell the same.
LEMMA JobEndLedger ==
    ASSUME OrderInv, LoopInv, LedgerInv, NEW j \in jobs, NEW s, NEW kind, JobEnd(j, s, kind),
           \/ j.node \notin Approvals /\ s = "succeeded" /\ kind = "ok"
           \/ j.node \notin Approvals /\ s = "failed" /\ kind = "error"
           \/ j.node \in Approvals /\ s = "waiting" /\ kind = "approval"
    PROVE  LedgerInv'
<1>1. /\ jobs' = jobs \ {j} /\ nstatus' = [nstatus EXCEPT ![j.node] = s]
      /\ UNCHANGED <<tstatus, phase, run, ctx, submitted, results, firstErr, remaining, timers,
                     stopping, cancelPC, approvePC, approval, decisions>>
  BY DEF JobEnd, loopVars, userVars
<1>2. /\ Looping /\ Looping' /\ Registered /\ Registered' /\ j.run = run
  BY <1>1 DEF LedgerInv, OwnJobs, Looping, Registered
<1>3. PICK m : m = j.node
  OBVIOUS
<1>4. PICK o : o = [node |-> m, kind |-> kind]
  OBVIOUS
<1>5. outcomes' = outcomes \cup {o} /\ o.node = m /\ o.kind = kind
  BY <1>2, <1>3, <1>4 DEF JobEnd
<1>6. Awaited' = Awaited
  BY <1>1, <1>2, <1>3, <1>5 DEF Awaited
<1>7. Settled' = Settled /\ Open' = Open
  BY <1>1, <1>6 DEF Settled, Open
<1>8. m \in Awaited /\ (\A p \in outcomes : p.node # m) /\ s \in Touched
  BY <1>2, <1>3, InLoop DEF OrderInv, OneToken, Touched
<1>9. /\ m \in Nodes /\ m \notin results /\ Grounded' /\ Recorded' /\ Caused' /\ ErrorsTold'
      /\ OneDecision' /\ FinalRows'
      /\ \A n \in Nodes : nstatus'[n] = IF n = m THEN s ELSE nstatus[n]
  BY <1>1, <1>2, <1>3, <1>7, <1>8, RowInWork
<1>10. Uninterrupted' /\ OwnJobs'
  BY <1>1, <1>2 DEF LedgerInv, Uninterrupted, OwnJobs
<1>11. CleanEnd'
  BY <1>1, <1>2, <1>6, <1>7 DEF LedgerInv, CleanEnd
<1>12. RowsAgree'
  <2>1. results \subseteq Nodes /\ \A p \in outcomes : p.node \in Nodes
    BY DEF OrderInv, Shapes, Outcome
  <2>2. \A n \in results' : nstatus'[n] = "succeeded"
    BY <1>1, <1>2, <1>9, <2>1 DEF LedgerInv, RowsAgree, Underway, Looping
  <2>3. \A n \in Nodes \ Approvals : nstatus'[n] = "succeeded" =>
            n \in results' \/ \E p \in outcomes' : p.node = n /\ p.kind = "ok"
    <3>1. m \notin Approvals /\ nstatus'[m] = "succeeded" => kind = "ok"
      BY <1>3, <1>9
    <3> QED
      BY <1>1, <1>2, <1>5, <1>9, <3>1 DEF LedgerInv, RowsAgree
  <2>4. \A p \in outcomes : nstatus'[p.node] = nstatus[p.node]
    BY <1>8, <1>9, <2>1
  <2>5. nstatus'[m] = s
    BY <1>9
  <2> QED
    BY <1>1, <1>3, <1>5, <2>2, <2>3, <2>4, <2>5 DEF LedgerInv, RowsAgree
<1> QED
  BY <1>9, <1>10, <1>11, <1>12 DEF LedgerInv

\* The decision reaches the row of the gate: nothing in hand depends on what it said before.
LEMMA DecisionLedger ==
    ASSUME Tame, OrderInv, LoopInv, LedgerInv, ApproveWriteNode PROVE LedgerInv'
<1> DEFINE s == IF approval.yes THEN "succeeded" ELSE "failed"
<1>1. /\ approvePC = "node" /\ approvePC' = "status"
      /\ nstatus' = [nstatus EXCEPT ![approval.node] = s]
      /\ UNCHANGED <<tstatus, phase, run, ctx, jobs, submitted, results, firstErr, remaining,
                     timers, outcomes, stopping, cancelPC, approval, decisions>>
  BY DEF ApproveWriteNode, loopVars
<1>2. PICK m : m = approval.node
  OBVIOUS
<1>3. /\ m \in Approvals /\ m \in Nodes /\ nstatus[m] \notin {"succeeded", "failed"}
      /\ Preds(m) \subseteq Relied /\ decisions \in Nat /\ decisions > 0
  BY <1>1, <1>2, ExecutionAssumption DEF LedgerInv, OneDecision
<1>4. /\ nstatus' \in [Nodes -> NodeStatus]
      /\ \A n \in Nodes : nstatus'[n] = IF n = m THEN s ELSE nstatus[n]
  BY <1>1, <1>2, <1>3 DEF LedgerInv, Grounded, NodeStatus
<1>5. Awaited' = Awaited /\ Settled' = Settled /\ Open' = Open
      /\ (Underway' <=> Underway) /\ (Looping' <=> Looping) /\ (Registered' <=> Registered)
  BY <1>1 DEF Awaited, Settled, Open, Underway, Looping, Registered
<1>6. \A n \in Relied : n \in Relied' /\ n # m
  BY <1>1, <1>3, <1>4, <1>5, ReliedClosed DEF Relied
<1>7. Grounded'
  BY <1>3, <1>4, <1>6 DEF LedgerInv, Grounded
<1>8. Underway /\ m \in Settled => firstErr # "nil"
  <2>1. ASSUME Underway, m \in Settled, firstErr = "nil" PROVE FALSE
    <3>1. nstatus[m] = "skipped"
      BY <1>3, <2>1 DEF LedgerInv, Recorded
    <3> QED
      BY <1>3, <2>1, <3>1 DEF LedgerInv, Caused, ErrorsTold
  <2> QED
    BY <2>1
<1>9. \A f \in Nodes : Culprit(f) => Culprit(f)'
  BY <1>3, <1>4, <1>5 DEF Culprit
<1>10. \A f \in Nodes : Culprit(f)' => Culprit(f) \/ f = m
  BY <1>4, <1>5 DEF Culprit
<1>11. Caused'
  <2>1. \A n \in Nodes : nstatus'[n] = "skipped" => nstatus[n] = "skipped"
    BY <1>4
  <2> QED
    BY <1>9, <2>1 DEF LedgerInv, Caused
<1>12. ErrorsTold'
  <2>1. Underway' /\ firstErr' = "nil" => ~ Culprit(m)'
    BY <1>1, <1>3, <1>5, <1>8 DEF Culprit
  <2>2. Underway' /\ firstErr' = "nil" => \A f \in Nodes : ~ Culprit(f)'
    BY <1>1, <1>5, <1>10, <2>1 DEF LedgerInv, ErrorsTold
  <2>3. Underway' /\ firstErr' \in {"node", "resumed"} => \E f \in Nodes : Culprit(f)'
    BY <1>1, <1>5, <1>9 DEF LedgerInv, ErrorsTold
  <2> QED
    BY <1>1, <1>5, <2>2, <2>3 DEF LedgerInv, ErrorsTold
<1>13. Recorded'
  <2>1. Settled \subseteq Nodes
    BY DEF OrderInv, Shapes, Settled
  <2> QED
    BY <1>1, <1>4, <1>5, <2>1 DEF LedgerInv, Recorded
<1>14. RowsAgree'
  <2>1. results \subseteq Nodes /\ (\A o \in outcomes : o.node \in Nodes)
    BY DEF OrderInv, Shapes, Outcome
  <2>2. Underway => m \notin results
    BY <1>6 DEF Relied
  <2> QED
    BY <1>1, <1>3, <1>4, <1>5, <2>1, <2>2 DEF LedgerInv, RowsAgree
<1>15. Uninterrupted' /\ OwnJobs' /\ CleanEnd'
  BY <1>1, <1>5 DEF LedgerInv, Uninterrupted, OwnJobs, CleanEnd
<1>16. OneDecision'
  <2>1. \A p \in Approvals : p \in Nodes
    BY ExecutionAssumption
  <2> QED
    BY <1>1, <1>2, <1>3, <1>4, <1>6, <2>1 DEF LedgerInv, OneDecision
<1>17. FinalRows'
  BY <1>1, <1>3, <1>4 DEF LedgerInv, FinalRows, NotRejected
<1> QED
  BY <1>7, <1>11, <1>12, <1>13, <1>14, <1>15, <1>16, <1>17 DEF LedgerInv

-----------------------------------------------------------------------------
(* The ledger as a whole, and what it says of a task that has ended. *)

\* It holds before the first delivery.
LEMMA LedgerInit == Tame /\ Init => LedgerInv
<1> SUFFICES ASSUME Tame, Init PROVE LedgerInv
  OBVIOUS
<1>1. /\ phase = "idle" /\ run = 0 /\ nstatus = [n \in Nodes |-> "pending"] /\ tstatus = "pending"
      /\ jobs = {} /\ outcomes = {} /\ stopping = "no" /\ cancelPC = "new" /\ approvePC = "idle"
      /\ decisions = 0 /\ ctx = [r \in 1..MaxRuns |-> "live"]
  BY DEF Init
<1>2. ~Registered /\ ~Underway /\ ~Looping
  BY <1>1 DEF Registered, Underway, Looping
<1>3. \A n \in Nodes : nstatus[n] = "pending"
  BY <1>1
<1>4. Uninterrupted /\ OwnJobs /\ CleanEnd /\ Recorded /\ ErrorsTold /\ FinalRows
  BY <1>1, <1>2 DEF Uninterrupted, OwnJobs, CleanEnd, Recorded, ErrorsTold, FinalRows
<1>5. Grounded /\ Caused
  BY <1>1, <1>3 DEF Grounded, Caused, Touched, NodeStatus
<1>6. RowsAgree /\ OneDecision
  BY <1>1, <1>2, <1>3, ExecutionAssumption DEF RowsAgree, OneDecision
<1> QED
  BY <1>4, <1>5, <1>6 DEF LedgerInv

\* Every step of a run, with the order and the account already known to be kept, keeps it.
LEMMA RunStepLedger ==
    ASSUME Tame, OrderInv, LoopInv, LedgerInv, OrderInv', LoopInv', RunStep PROVE LedgerInv'
<1>1. CASE Deliver \/ Register \/ Start
  BY <1>1, BeginLedger
<1>2. ~ (BeginFail \/ StartFail \/ StopEarly)
  BY DEF BeginFail, StartFail, StopEarly, Tame, LedgerInv, Uninterrupted
<1>3. CASE Checkpoint
  BY <1>3, CheckpointLedger
<1>4. CASE \E n \in Nodes : SubmitNode(n)
  BY <1>4, SubmitLedger
<1>5. CASE TurnLoop
  BY <1>5, TurnLedger
<1>6. CASE SelectOk
  BY <1>6, SelectOkLedger
<1>7. CASE SelectApproval
  BY <1>7, SelectApprovalLedger
<1>8. CASE SelectRetry
  BY <1>8, RetryLedger
<1>9. CASE SelectFailure
  BY <1>9, SelectFailureLedger
<1>10. ~SelectDone
  BY DEF SelectDone, Registered, LedgerInv, Uninterrupted
<1>11. CASE Suspend \/ FinishMessage
  BY <1>11, EndLedger
<1>12. CASE FinishStatus
  BY <1>12, FinishLedger
<1> QED
  BY <1>1, <1>2, <1>3, <1>4, <1>5, <1>6, <1>7, <1>8, <1>9, <1>10, <1>11, <1>12 DEF RunStep

\* So does every step of a worker.
LEMMA JobStepLedger ==
    ASSUME Tame, OrderInv, LoopInv, LedgerInv, NEW j \in jobs, JobStep(j) PROVE LedgerInv'
<1>1. CASE JobStart(j)
  BY <1>1, JobStartLedger
<1>2. CASE JobSucceeds(j)
  BY <1>2, JobEndLedger DEF JobSucceeds
<1>3. CASE JobWaits(j)
  BY <1>3, JobEndLedger DEF JobWaits
<1>4. CASE JobFails(j)
  BY <1>4, JobEndLedger DEF JobFails
<1>5. ~ (JobInterrupted(j) \/ JobPanics(j))
  <2>1. ctx[j.run] = "live"
    BY InLoop DEF LedgerInv, OwnJobs
  <2> QED
    BY <2>1 DEF JobInterrupted, JobPanics, Tame
<1> QED
  BY <1>1, <1>2, <1>3, <1>4, <1>5 DEF JobStep

\* So does everything else.
LEMMA LedgerStep ==
    ASSUME Tame, OrderInv, LoopInv, LedgerInv, [Next]_vars PROVE LedgerInv'
<1>1. OrderInv' /\ LoopInv'
  BY LoopStep
<1>2. CASE RunStep
  BY <1>1, <1>2, RunStepLedger
<1>3. CASE \E j \in jobs : JobStep(j)
  BY <1>3, JobStepLedger
<1>4. CASE \E n \in timers : TimerFires(n)
  BY <1>4, RetryLedger
<1>5. CASE UserStep
  <2>1. ~ (CancelRead \/ CancelSignal \/ CancelWrite)
    BY DEF CancelRead, CancelSignal, CancelWrite, Tame, LedgerInv, Uninterrupted
  <2>2. CASE ApproveWriteNode
    BY <2>2, DecisionLedger
  <2>3. CASE \/ ApproveWriteStatus \/ ApproveEnqueue
             \/ \E n \in Approvals, yes \in BOOLEAN : ApproveRead(n, yes)
    BY <2>3, RequestLedger
  <2> QED
    BY <1>5, <2>1, <2>2, <2>3 DEF UserStep
<1>6. CASE EnvStep
  <2>1. ~ (Deadline \/ Sigterm \/ ClosePool)
    BY DEF Deadline, Sigterm, ClosePool, Tame, LedgerInv, Uninterrupted
  <2>2. CASE Crash
    BY <2>2, EndLedger
  <2>3. CASE Recover
    BY <2>3, RequestLedger
  <2> QED
    BY <1>6, <2>1, <2>2, <2>3 DEF EnvStep
<1>7. CASE Done
  BY <1>7, RequestLedger
<1>8. CASE UNCHANGED vars
  <2>1. UNCHANGED <<nstatus, tstatus, results, submitted, firstErr, remaining, outcomes, jobs,
                    timers, run, ctx, stopping, cancelPC, approvePC, approval, decisions, phase>>
    BY <1>8 DEF vars, dbVars, loopVars, userVars
  <2>2. (Underway' <=> Underway) /\ (Registered' <=> Registered)
    BY <2>1 DEF Underway, Registered
  <2>3. Relied' = Relied
    BY <2>1, <2>2 DEF Relied
  <2>4. Uninterrupted' /\ OneDecision' /\ FinalRows'
    BY <2>1, <2>2, <2>3, DecisionKept
       DEF LedgerInv, Uninterrupted, FinalRows, NotRejected
  <2> QED
    BY <2>1, <2>2, <2>4, Elsewhere
<1> QED
  BY <1>2, <1>3, <1>4, <1>5, <1>6, <1>7, <1>8 DEF Next

\* All three parts together are inductive.
LEMMA LedgerInductive ==
    ASSUME Tame
    PROVE  /\ Init => OrderInv /\ LoopInv /\ LedgerInv
           /\ OrderInv /\ LoopInv /\ LedgerInv /\ [Next]_vars =>
                  OrderInv' /\ LoopInv' /\ LedgerInv'
<1>1. Init => OrderInv /\ LoopInv /\ LedgerInv
  BY LoopInit, LedgerInit
<1>2. OrderInv /\ LoopInv /\ LedgerInv /\ [Next]_vars => OrderInv' /\ LoopInv' /\ LedgerInv'
  BY LoopStep, LedgerStep
<1> QED
  BY <1>1, <1>2

\* A task that is recorded as succeeded has succeeded in all its nodes: through failures and their
\* retries, crashes at any point and the runs that resume from the checkpoint, and through an
\* approval that every node is above or below, no branch is silently left out (skipDownstream and
\* the checkpoint of scheduler.go).  Under other faults one may be: Tame excludes them.
THEOREM NothingLeftOut == ASSUME Tame PROVE Spec => []SucceededMeansAllNodes
<1>1. LedgerInv => SucceededMeansAllNodes
  BY DEF LedgerInv, FinalRows, SucceededMeansAllNodes
<1> QED
  BY <1>1, LedgerInductive, PTL DEF Spec

\* Once a task that nobody rejected has ended, every node has a final row, whichever nodes failed and
\* wherever processes crashed before (finish and skipDownstream of scheduler.go); under panics, a
\* signal or faults of the database, which Tame excludes, one may be left without.
THEOREM AllRowsFinal == ASSUME Tame PROVE Spec => []NoDanglingNode
<1>1. LedgerInv => NoDanglingNode
  <2> SUFFICES ASSUME LedgerInv, tstatus \in Terminal, NotRejected
               PROVE  \A n \in Nodes : nstatus[n] \in NodeTerminal
    BY DEF NoDanglingNode, NotRejected
  <2>1. tstatus \in {"succeeded", "failed"}
    BY DEF LedgerInv, Uninterrupted, Terminal
  <2> QED
    BY <2>1 DEF LedgerInv, FinalRows, NodeTerminal
<1> QED
  BY <1>1, LedgerInductive, PTL DEF Spec

\* A worker never starts on a node that has succeeded.
LEMMA NotRedone ==
    ASSUME OrderInv, LoopInv, LedgerInv, [Next]_vars
    PROVE  [\A n \in Nodes \ Approvals :
              nstatus[n] = "succeeded" => nstatus'[n] # "running"]_nstatus
<1> SUFFICES ASSUME NEW n \in Nodes \ Approvals, nstatus[n] = "succeeded",
                    nstatus'[n] = "running"
             PROVE  FALSE
  OBVIOUS
<1>1. CASE \E j \in jobs : JobStep(j)
  <2>1. PICK j \in jobs : JobStep(j)
    BY <1>1
  <2>2. Looping /\ j.node \in Nodes /\ InWork(j.node) /\ Current = jobs /\ Registered
    BY InLoop DEF LedgerInv, OwnJobs
  <2>3. nstatus[n] = "succeeded" => n # j.node \/ ~ JobStart(j)
    <3>1. ASSUME n = j.node PROVE FALSE
      <4>1. n \notin results
        BY <2>2, <3>1 DEF InWork
      <4>2. PICK o \in outcomes : o.node = n
        BY <2>2, <4>1 DEF LedgerInv, RowsAgree
      <4> QED
        BY <2>2, <3>1, <4>2 DEF OrderInv, OneToken
    <3> QED
      BY <3>1
  <2>4. nstatus \in [Nodes -> NodeStatus]
    BY DEF LedgerInv, Grounded
  <2>5. n # j.node => nstatus'[n] = nstatus[n]
    BY <2>1, <2>2, <2>4 DEF JobStep, JobStart, JobSucceeds, JobWaits, JobFails, JobInterrupted,
       JobPanics, JobEnd
  <2>6. n = j.node /\ ~ JobStart(j) => nstatus'[n] # "running"
    BY <2>1, <2>2, <2>4 DEF JobStep, JobSucceeds, JobWaits, JobFails, JobInterrupted, JobPanics,
       JobEnd
  <2> QED
    BY <2>3, <2>5, <2>6
<1>2. CASE ~ \E j \in jobs : JobStep(j)
  <2>1. nstatus'[n] \in {nstatus[n], "skipped", "cancelled", "succeeded", "failed"}
    <3>1. nstatus \in [Nodes -> NodeStatus]
      BY DEF LedgerInv, Grounded
    <3>2. CASE RunStep
      BY <3>1, <3>2 DEF RunStep, Deliver, BeginFail, Register, StartFail, StopEarly, Start,
         Checkpoint, SubmitNode, TurnLoop, SelectOk, SelectApproval, SelectRetry, SelectFailure,
         SelectDone, Suspend, FinishStatus, FinishMessage, dbVars
    <3>3. CASE \E m \in timers : TimerFires(m)
      BY <3>3 DEF TimerFires, dbVars
    <3>4. CASE UserStep
      BY <3>1, <3>4 DEF UserStep, CancelRead, CancelSignal, CancelWrite, ApproveRead,
         ApproveWriteNode, ApproveWriteStatus, ApproveEnqueue, dbVars
    <3>5. CASE EnvStep \/ Done \/ UNCHANGED vars
      BY <3>5 DEF EnvStep, Deadline, Sigterm, ClosePool, Crash, Recover, Done, vars, dbVars
    <3> QED
      BY <1>2, <3>2, <3>3, <3>4, <3>5 DEF Next
  <2> QED
    BY <2>1
<1> QED
  BY <1>1, <1>2

\* As long as nodes fail, processes crash and the queue refuses, but nothing else goes wrong, a node
\* that has succeeded is not executed again, neither within a run nor by a run that resumes after a
\* crash or an approval (the checkpoint of scheduler.go).  Tame is essential: after a timeout, a
\* signal, a fault of the database, or a suspension beside a running node, a worker of the earlier
\* run may write its row after the next run has read it, and the node is executed twice.
THEOREM DoneOnce == ASSUME Tame PROVE Spec => NoNodeRedone
<1>1. OrderInv /\ LoopInv /\ LedgerInv /\ [Next]_vars =>
          [\A n \in Nodes \ Approvals :
             nstatus[n] = "succeeded" => nstatus'[n] # "running"]_nstatus
  BY NotRedone
<1> QED
  BY <1>1, LedgerInductive, PTL DEF Spec, NoNodeRedone
=============================================================================
