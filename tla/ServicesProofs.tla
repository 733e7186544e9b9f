--------------------------- MODULE ServicesProofs ---------------------------
(***************************************************************************)
(* Proofs about the services around the scheduler: the requests that       *)
(* create tasks, the hub of their events, the parts of a supervisor node,  *)
(* the cache of workflows and the runtimes of agents.  They share one      *)
(* module and nothing else: each part names its own invariant.             *)
(***************************************************************************)
EXTENDS TaskRequests, EventHub, AgentRegistry, WorkflowCache, AgentTeam,
        FiniteSetTheorems, SequenceTheorems, TLAPS

-----------------------------------------------------------------------------
(* The requests that create tasks. *)

Buckets == {"user", "tasks"}

\* The request that created a counter is the only one that can be in its set-up.
Watched(b) ==
    bucket[b].n > 0 /\ ~bucket[b].ttl =>
        /\ bucket[b].by \in Requests
        /\ InWindowSetup(bucket[b].by, b) \/ req[bucket[b].by].gone

\* A live request deletes its counter only after the one glitch the code allows for.
DelInv == \A r \in Requests : req[r].at = "del" => req[r].gone \/ glitches >= 1

CounterInv ==
    /\ bucket \in [Buckets -> [n : Nat, ttl : BOOLEAN, by : Requests \cup {"none"}]]
    /\ req \in [Requests -> Handler]
    /\ glitches \in 0..MaxGlitches
    /\ \A b \in Buckets : Watched(b)
    /\ DelInv

\* A step that moves one request on and leaves the counters and the others alone.
LEMMA HandlerMoves ==
    ASSUME CounterInv, NEW r \in Requests, NEW h \in Handler, req' = [req EXCEPT ![r] = h],
           h.at = "del" => req[r].at = "del", req[r].gone => h.gone, bucket' = bucket, glitches' \in 0..MaxGlitches,
           glitches' >= glitches, \A b \in Buckets : bucket[b].by = r => bucket[b].n = 0 \/ bucket[b].ttl \/ h.gone
    PROVE  CounterInv'
<1>1. req' \in [Requests -> Handler]
  BY DEF CounterInv
<1>2. ASSUME NEW b \in Buckets PROVE Watched(b)'
  <2>1. Watched(b)
    BY DEF CounterInv
  <2> QED
    BY <2>1 DEF Watched, InWindowSetup, CounterInv
<1>3. DelInv'
  BY RequestsAssumption DEF CounterInv, DelInv
<1> QED
  BY <1>1, <1>2, <1>3 DEF CounterInv

\* Failed commands of live requests are counted.
LEMMA SpendCounts ==
    ASSUME CounterInv, NEW r \in Requests, NEW a, NEW z, NEW o \in Outcomes(r, a, z), Spend(r, o)
    PROVE  /\ glitches' \in 0..MaxGlitches /\ glitches' >= glitches
           /\ o # "ok" /\ ~req[r].gone => glitches' = glitches + 1 /\ glitches < MaxGlitches
           /\ o = "lost" /\ ~req[r].gone => z \in Faults
           /\ o \in {"ok", "error", "lost"}
BY RequestsAssumption DEF CounterInv, Outcomes, Spend

\* A request at another command than EXPIRE and DEL of its window owes no counter anything.
LEMMA NothingOwed ==
    ASSUME CounterInv, NEW r \in Requests, req[r].at = "incr" \/ req[r].pc \notin Buckets
    PROVE  \A b \in Buckets : bucket[b].by = r => bucket[b].n = 0 \/ bucket[b].ttl \/ req[r].gone
BY DEF CounterInv, Watched, InWindowSetup, Buckets

\* What the handlers do to a request.
LEMMA Handlers ==
    ASSUME NEW h \in Handler
    PROVE  /\ \A pc \in {"user", "tasks", "admit", "insert", "enqueue", "mark", "over"} :
                  [h EXCEPT !.pc = pc, !.at = "incr"] \in Handler
           /\ \A st \in {"none", "201", "429", "503", "500"} :
                  /\ [h EXCEPT !.pc = "over", !.reply = st] \in Handler
                  /\ [h EXCEPT !.pc = "mark", !.reply = st] \in Handler
                  /\ [h EXCEPT !.pc = "over", !.gone = TRUE, !.reply = st] \in Handler
           /\ \A at \in {"incr", "expire", "del"} : [h EXCEPT !.at = at] \in Handler
           /\ [h EXCEPT !.pc = "over"] \in Handler /\ [h EXCEPT !.gone = TRUE] \in Handler
BY DEF Handler

\* The result of the limiter, whatever its callers make of it.
LEMMA UndecidedMoves ==
    ASSUME CounterInv, NEW r \in Requests, NEW b \in Buckets, Undecided(r, b) \/ Allowed(r, b) \/ Rejected(r)
    PROVE  \E h \in Handler :
               /\ req' = [req EXCEPT ![r] = h] /\ h.gone = req[r].gone
               /\ h.at = "del" => req[r].at = "del"
<1>1. req[r] \in Handler
  BY DEF CounterInv
<1>2. CASE Rejected(r)
  <2> DEFINE h == [req[r] EXCEPT !.pc = "over", !.reply = "429"]
  <2>1. h \in Handler
    BY <1>1, Handlers
  <2>2. h.gone = req[r].gone /\ h.at = req[r].at
    BY <1>1 DEF Handler
  <2>3. req' = [req EXCEPT ![r] = h]
    BY <1>2 DEF Rejected, Answer, CounterInv
  <2> QED
    BY <2>1, <2>2, <2>3
<1>3. CASE Allowed(r, b)
  <2> DEFINE h == [req[r] EXCEPT !.pc = IF b = "user" THEN "tasks" ELSE "admit", !.at = "incr"]
  <2>1. h \in Handler
    BY <1>1, Handlers
  <2>2. h.gone = req[r].gone /\ h.at = "incr"
    BY <1>1 DEF Handler
  <2>3. req' = [req EXCEPT ![r] = h]
    BY <1>3 DEF Allowed, Go, CounterInv
  <2> QED
    BY <2>1, <2>2, <2>3
<1> QED
  BY <1>2, <1>3 DEF Undecided

\* One more request counted in a bucket.
LEMMA CountedUp ==
    ASSUME NEW c \in [n : Nat, ttl : BOOLEAN, by : Requests \cup {"none"}], NEW x \in Nat,
           NEW y \in Requests \cup {"none"}
    PROVE  LET k == [c EXCEPT !.n = x, !.by = y]
           IN  /\ k \in [n : Nat, ttl : BOOLEAN, by : Requests \cup {"none"}]
               /\ k.n = x /\ k.by = y /\ k.ttl = c.ttl
OBVIOUS

\* INCR: the first of a window is the one that has to set its TTL.
LEMMA IncrHeals ==
    ASSUME CounterInv, "reply" \notin Faults, NEW r \in Requests, NEW b \in Buckets, Incr(r, b)
    PROVE  CounterInv'
<1>1. PICK o \in Redis(r) :
         /\ Spend(r, o)
         /\ bucket' = [bucket EXCEPT ![b] =
                IF o = "error" THEN bucket[b]
                ELSE [bucket[b] EXCEPT !.n = bucket[b].n + 1,
                                       !.by = IF bucket[b].n = 0 THEN r ELSE bucket[b].by]]
         /\ CASE o # "ok" -> Undecided(r, b)
              [] o = "ok" /\ bucket'[b].n = 1 -> req' = [req EXCEPT ![r].at = "expire"]
              [] OTHER ->
                   IF bucket'[b].n <= Limit[b] THEN Allowed(r, b) ELSE Rejected(r)
  BY DEF Incr
<1>a. bucket' = [bucket EXCEPT ![b] =
          IF o = "error" THEN bucket[b]
          ELSE [bucket[b] EXCEPT !.n = bucket[b].n + 1, !.by = IF bucket[b].n = 0 THEN r ELSE bucket[b].by]]
  BY <1>1
<1>b. /\ o # "ok" => Undecided(r, b)
      /\ o = "ok" /\ bucket'[b].n = 1 => req' = [req EXCEPT ![r] = [req[r] EXCEPT !.at = "expire"]]
      /\ o = "ok" /\ bucket'[b].n # 1 => Allowed(r, b) \/ Rejected(r)
  BY <1>1
<1>2. /\ glitches' \in 0..MaxGlitches /\ glitches' >= glitches /\ o \in {"ok", "error", "lost"}
      /\ o = "lost" => req[r].gone
  BY <1>1, SpendCounts DEF Redis
<1>3. req[r].pc = b /\ req[r].at = "incr" /\ req[r] \in Handler
  BY DEF Incr, CounterInv
<1>4. \A c \in Buckets : bucket[c].by = r => bucket[c].n = 0 \/ bucket[c].ttl \/ req[r].gone
  BY <1>3, NothingOwed
<1>5. CASE o = "error"
  <2>1. PICK h \in Handler : req' = [req EXCEPT ![r] = h] /\ h.gone = req[r].gone
                             /\ (h.at = "del" => req[r].at = "del")
    BY <1>1, <1>5, UndecidedMoves
  <2>2. bucket' = bucket
    BY <1>a, <1>5 DEF CounterInv
  <2> QED
    BY <1>2, <1>4, <2>1, <2>2, HandlerMoves
<1>6. CASE o # "error"
  <2> DEFINE x == bucket[b].n + 1
             y == IF bucket[b].n = 0 THEN r ELSE bucket[b].by
             k == [bucket[b] EXCEPT !.n = x, !.by = y]
  <2>1. bucket' = [bucket EXCEPT ![b] = k]
    BY <1>a, <1>6
  <2>2. /\ bucket[b] \in [n : Nat, ttl : BOOLEAN, by : Requests \cup {"none"}]
        /\ bucket[b].n \in Nat /\ x \in Nat /\ y \in Requests \cup {"none"}
    BY DEF CounterInv
  <2>3. /\ k \in [n : Nat, ttl : BOOLEAN, by : Requests \cup {"none"}]
        /\ k.n = x /\ k.ttl = bucket[b].ttl /\ k.by = y
    <3> HIDE DEF x, y
    <3> QED
      BY <2>2, CountedUp
  <2> HIDE DEF k
  <2>4. bucket' \in [Buckets -> [n : Nat, ttl : BOOLEAN, by : Requests \cup {"none"}]]
    BY <2>1, <2>3 DEF CounterInv
  <2>5. bucket'[b] = k
    BY <2>1 DEF CounterInv
  <2>6. \E h \in Handler : /\ req' = [req EXCEPT ![r] = h] /\ h.gone = req[r].gone
                           /\ h.at = "del" => req[r].at = "del"
                           /\ k.n = 1 => req[r].gone \/ (h.pc = b /\ h.at = "expire")
    <3>1. CASE o = "ok" /\ k.n = 1
      <4> DEFINE h == [req[r] EXCEPT !.at = "expire"]
      <4>1. h \in Handler
        BY <1>3, Handlers
      <4>2. h.gone = req[r].gone /\ h.at = "expire" /\ h.pc = b
        BY <1>3 DEF Handler
      <4>3. req' = [req EXCEPT ![r] = h]
        BY <1>b, <2>5, <3>1
      <4> QED
        BY <4>1, <4>2, <4>3
    <3>2. CASE ~(o = "ok" /\ k.n = 1)
      <4>a. k.n \in Nat /\ k.n >= 1
        BY <2>2, <2>3
      <4>1. Undecided(r, b) \/ Allowed(r, b) \/ Rejected(r)
        BY <1>b, <2>5, <3>2, <4>a
      <4>2. PICK h \in Handler : req' = [req EXCEPT ![r] = h] /\ h.gone = req[r].gone
                                 /\ (h.at = "del" => req[r].at = "del")
        BY <4>1, UndecidedMoves
      <4> QED
        BY <1>2, <1>6, <3>2, <4>2
    <3> QED
      BY <3>1, <3>2
  <2>7. PICK h \in Handler : /\ req' = [req EXCEPT ![r] = h] /\ h.gone = req[r].gone
                             /\ h.at = "del" => req[r].at = "del"
                             /\ k.n = 1 => req[r].gone \/ (h.pc = b /\ h.at = "expire")
    BY <2>6
  <2>8. req' \in [Requests -> Handler] /\ req'[r] = h /\ \A s \in Requests \ {r} : req'[s] = req[s]
    BY <2>7 DEF CounterInv
  <2>9. Watched(b)'
    <3>1. CASE bucket[b].n = 0
      <4>1. k.by = r /\ k.n = 1
        BY <2>3, <3>1
      <4> QED
        BY <2>5, <2>7, <2>8, <4>1 DEF Watched, InWindowSetup
    <3>2. CASE bucket[b].n > 0
      <4>1. k.by = bucket[b].by /\ k.ttl = bucket[b].ttl
        BY <2>2, <2>3, <3>2
      <4>2. Watched(b)
        BY DEF CounterInv
      <4> QED
        BY <1>3, <2>5, <2>7, <2>8, <3>2, <4>1, <4>2 DEF Watched, InWindowSetup
    <3> QED
      BY <2>2, <3>1, <3>2
  <2>10. ASSUME NEW c \in Buckets \ {b} PROVE Watched(c)'
    <3>1. bucket'[c] = bucket[c] /\ Watched(c)
      BY <2>1 DEF CounterInv
    <3> QED
      BY <1>4, <2>7, <2>8, <3>1 DEF Watched, InWindowSetup
  <2>11. DelInv'
    BY <1>2, <2>7, <2>8, RequestsAssumption DEF CounterInv, DelInv
  <2> QED
    BY <1>2, <2>4, <2>8, <2>9, <2>10, <2>11 DEF CounterInv
<1> QED
  BY <1>5, <1>6
\* EXPIRE: the counter has its TTL, or its request goes on to delete it.
LEMMA ExpireHeals ==
    ASSUME CounterInv, NEW r \in Requests, NEW b \in Buckets, Expire(r, b)
    PROVE  CounterInv'
<1>1. PICK o \in Redis(r) :
         /\ Spend(r, o)
         /\ bucket' = IF o = "error" \/ bucket[b].n = 0 THEN bucket
                      ELSE [bucket EXCEPT ![b].ttl = TRUE]
         /\ IF o = "ok" THEN Allowed(r, b) ELSE req' = [req EXCEPT ![r].at = "del"]
  BY DEF Expire
<1>2. /\ glitches' \in 0..MaxGlitches /\ glitches' >= glitches
      /\ o # "ok" /\ ~req[r].gone => glitches' = glitches + 1
  BY <1>1, SpendCounts DEF Redis
<1>3. req[r].pc = b /\ req[r].at = "expire" /\ req[r] \in Handler
  BY DEF Expire, CounterInv
<1>4. /\ bucket' \in [Buckets -> [n : Nat, ttl : BOOLEAN, by : Requests \cup {"none"}]]
      /\ \A c \in Buckets : /\ bucket'[c].n = bucket[c].n /\ bucket'[c].by = bucket[c].by
                            /\ bucket[c].ttl => bucket'[c].ttl
      /\ o = "ok" /\ bucket[b].n # 0 => bucket'[b].ttl
  <2>1. CASE o = "error" \/ bucket[b].n = 0
    BY <1>1, <2>1 DEF CounterInv
  <2>2. CASE ~(o = "error" \/ bucket[b].n = 0)
    <3>1. bucket' = [bucket EXCEPT ![b].ttl = TRUE]
      BY <1>1, <2>2
    <3> QED
      BY <3>1 DEF CounterInv
  <2> QED
    BY <2>1, <2>2
<1>5. PICK h \in Handler :
         /\ req' = [req EXCEPT ![r] = h] /\ h.gone = req[r].gone
         /\ o # "ok" => h.at = "del" /\ h.pc = b
         /\ h.at = "del" => o # "ok"
  <2>1. CASE o = "ok"
    <3>1. Allowed(r, b)
      BY <1>1, <2>1
    <3>2. PICK h \in Handler : /\ req' = [req EXCEPT ![r] = h] /\ h.gone = req[r].gone
                               /\ h.at = "del" => req[r].at = "del"
      BY <3>1, UndecidedMoves
    <3> QED
      BY <1>3, <2>1, <3>2
  <2>2. CASE o # "ok"
    <3> DEFINE h == [req[r] EXCEPT !.at = "del"]
    <3>1. h \in Handler
      BY <1>3, Handlers
    <3>2. h.gone = req[r].gone /\ h.at = "del" /\ h.pc = b
      BY <1>3 DEF Handler
    <3>3. req' = [req EXCEPT ![r] = h]
      BY <1>1, <2>2
    <3> QED
      BY <2>2, <3>1, <3>2, <3>3
  <2> QED
    BY <2>1, <2>2
<1>6. req' \in [Requests -> Handler] /\ req'[r] = h /\ \A s \in Requests \ {r} : req'[s] = req[s]
  BY <1>5 DEF CounterInv
<1>7. ASSUME NEW c \in Buckets PROVE Watched(c)'
  <2>1. Watched(c) /\ bucket[c].n \in Nat
    BY DEF CounterInv
  <2>2. CASE bucket[c].by = r /\ c = b
    BY <1>3, <1>4, <1>5, <1>6, <2>1, <2>2 DEF Watched, InWindowSetup
  <2>3. CASE bucket[c].by = r /\ c # b
    BY <1>3, <1>4, <1>5, <1>6, <2>1, <2>3 DEF Watched, InWindowSetup
  <2>4. CASE bucket[c].by # r
    BY <1>4, <1>6, <2>1, <2>4 DEF Watched, InWindowSetup
  <2> QED
    BY <2>2, <2>3, <2>4
<1>8. DelInv'
  <2>1. glitches \in Nat
    BY RequestsAssumption DEF CounterInv
  <2> QED
    BY <1>2, <1>5, <1>6, <2>1, RequestsAssumption DEF CounterInv, DelInv
<1> QED
  BY <1>2, <1>4, <1>6, <1>7, <1>8 DEF CounterInv

\* A counter that has been removed.
LEMMA KeyRemoved ==
    ASSUME CounterInv, NEW b \in Buckets, bucket' = [bucket EXCEPT ![b] = NoKey]
    PROVE  /\ bucket' \in [Buckets -> [n : Nat, ttl : BOOLEAN, by : Requests \cup {"none"}]]
           /\ bucket'[b].n = 0 /\ bucket'[b].by = "none"
           /\ \A c \in Buckets \ {b} : bucket'[c] = bucket[c]
BY DEF CounterInv, NoKey

\* DEL: nothing can go wrong with it twice, so the counter is gone.
LEMMA DelHeals ==
    ASSUME CounterInv, MaxGlitches <= 1, NEW r \in Requests, NEW b \in Buckets, Del(r, b)
    PROVE  CounterInv'
<1>1. PICK o \in Redis(r) :
         /\ Spend(r, o)
         /\ bucket' = IF o = "error" THEN bucket
                      ELSE [bucket EXCEPT ![b] = NoKey]
  BY DEF Del
<1>2. /\ glitches' \in 0..MaxGlitches /\ glitches' >= glitches
      /\ o # "ok" /\ ~req[r].gone => glitches < MaxGlitches
  BY <1>1, SpendCounts DEF Redis
<1>3. req[r].pc = b /\ req[r].at = "del" /\ req[r] \in Handler
  BY DEF Del, CounterInv
<1>4. PICK h \in Handler : /\ req' = [req EXCEPT ![r] = h] /\ h.gone = req[r].gone
                           /\ h.at = "del" => req[r].at = "del"
  BY UndecidedMoves DEF Del
<1>5. o = "error" => req[r].gone
  BY <1>2, <1>3, RequestsAssumption DEF CounterInv, DelInv
<1>6. CASE o = "error"
  BY <1>1, <1>2, <1>4, <1>5, <1>6, HandlerMoves
<1>7. CASE o # "error"
  <2>1. bucket' = [bucket EXCEPT ![b] = NoKey]
    BY <1>1, <1>7
  <2>2. req' \in [Requests -> Handler] /\ req'[r] = h /\ \A s \in Requests \ {r} : req'[s] = req[s]
    BY <1>4 DEF CounterInv
  <2>3. ASSUME NEW c \in Buckets \ {b} PROVE Watched(c)'
    <3>1. bucket'[c] = bucket[c] /\ Watched(c)
      BY <2>1, KeyRemoved DEF CounterInv
    <3> QED
      BY <1>3, <1>4, <2>2, <3>1 DEF Watched, InWindowSetup
  <2>4. Watched(b)'
    <3>1. bucket'[b].n = 0
      BY <2>1, KeyRemoved
    <3> QED
      BY <3>1 DEF Watched
  <2>5. DelInv'
    BY <1>2, <1>4, <2>2, RequestsAssumption DEF CounterInv, DelInv
  <2> QED
    BY <1>2, <2>1, <2>2, <2>3, <2>4, <2>5, KeyRemoved DEF CounterInv
<1> QED
  BY <1>6, <1>7

\* The TTL of a window runs out.
LEMMA WindowHeals ==
    ASSUME CounterInv, NEW b \in Buckets, WindowEnds(b)
    PROVE  CounterInv'
<1>1. bucket' = [bucket EXCEPT ![b] = NoKey] /\ req' = req /\ glitches' = glitches
  BY DEF WindowEnds
<1>2. Watched(b)'
  <2>1. bucket'[b].n = 0
    BY <1>1, KeyRemoved
  <2> QED
    BY <2>1 DEF Watched
<1>3. ASSUME NEW c \in Buckets \ {b} PROVE Watched(c)'
  BY <1>1, KeyRemoved DEF Watched, InWindowSetup, CounterInv
<1> QED
  BY <1>1, <1>2, <1>3, KeyRemoved DEF CounterInv, DelInv

\* The steps of CreateTask touch no counter.
LEMMA CreateHeals ==
    ASSUME CounterInv, NEW r \in Requests, AdmitTask(r) \/ InsertRow(r) \/ Enqueue(r) \/ MarkFailed(r)
    PROVE  CounterInv'
<1>1. req[r] \in Handler /\ req[r].pc \in {"admit", "insert", "enqueue", "mark"} /\ bucket' = bucket
  BY DEF CounterInv, AdmitTask, InsertRow, Enqueue, MarkFailed
<1>2. \A b \in Buckets : bucket[b].by = r => bucket[b].n = 0 \/ bucket[b].ttl \/ req[r].gone
  BY <1>1, NothingOwed DEF Buckets
<1>3. glitches' \in 0..MaxGlitches /\ glitches' >= glitches
  <2>1. glitches' = glitches \/ \E o \in Redis(r) \cup Database(r) : Spend(r, o)
    BY DEF AdmitTask, InsertRow, Enqueue, MarkFailed
  <2>2. CASE glitches' = glitches
    BY <2>2, RequestsAssumption DEF CounterInv
  <2>3. CASE \E o \in Redis(r) \cup Database(r) : Spend(r, o)
    BY <2>3, SpendCounts DEF Redis, Database
  <2> QED
    BY <2>1, <2>2, <2>3
<1>4. PICK pc \in {"insert", "enqueue", "mark", "over"}, st \in {"none", "201", "429", "503", "500"} :
         \/ req' = [req EXCEPT ![r] = [req[r] EXCEPT !.pc = pc, !.at = "incr"]]
         \/ req' = [req EXCEPT ![r] = [req[r] EXCEPT !.pc = "over", !.reply = st]]
         \/ req' = [req EXCEPT ![r] = [req[r] EXCEPT !.pc = "mark", !.reply = st]]
         \/ req' = [req EXCEPT ![r] = [req[r] EXCEPT !.pc = "over"]]
  <2>1. CASE AdmitTask(r)
    BY <2>1 DEF AdmitTask, Go, Answer
  <2>2. CASE InsertRow(r)
    BY <2>2 DEF InsertRow, Go, Answer
  <2>3. CASE Enqueue(r)
    BY <2>3 DEF Enqueue, Go, Answer
  <2>4. CASE MarkFailed(r)
    BY <2>4 DEF MarkFailed
  <2> QED
    BY <2>1, <2>2, <2>3, <2>4
<1>5. \E h \in Handler : /\ req' = [req EXCEPT ![r] = h] /\ h.gone = req[r].gone
                         /\ h.at = "del" => req[r].at = "del"
  <2> DEFINE h1 == [req[r] EXCEPT !.pc = pc, !.at = "incr"]
             h2 == [req[r] EXCEPT !.pc = "over", !.reply = st]
             h3 == [req[r] EXCEPT !.pc = "mark", !.reply = st]
             h4 == [req[r] EXCEPT !.pc = "over"]
  <2>1. h1 \in Handler /\ h2 \in Handler /\ h3 \in Handler /\ h4 \in Handler
    BY <1>1, Handlers
  <2>2. h1.gone = req[r].gone /\ h1.at = "incr"
    BY <1>1 DEF Handler
  <2>3. h2.gone = req[r].gone /\ h2.at = req[r].at /\ h3.gone = req[r].gone /\ h3.at = req[r].at
    BY <1>1 DEF Handler
  <2>4. h4.gone = req[r].gone /\ h4.at = req[r].at
    BY <1>1 DEF Handler
  <2>5. \/ req' = [req EXCEPT ![r] = h1] \/ req' = [req EXCEPT ![r] = h2]
        \/ req' = [req EXCEPT ![r] = h3] \/ req' = [req EXCEPT ![r] = h4]
    BY <1>4
  <2> HIDE DEF h1, h2, h3, h4
  <2> QED
    BY <2>1, <2>2, <2>3, <2>4, <2>5
<1> QED
  BY <1>1, <1>2, <1>3, <1>5, HandlerMoves

\* A client that leaves, and an API process that ends, take their requests with them.
LEMMA LeaveHeals ==
    ASSUME CounterInv, NEW r \in Requests, Leave(r)
    PROVE  CounterInv'
<1>1. req[r] \in Handler /\ bucket' = bucket /\ glitches' = glitches
  BY DEF CounterInv, Leave
<1> DEFINE h == [req[r] EXCEPT !.gone = TRUE]
<1>2. h \in Handler /\ h.gone /\ h.at = req[r].at
  BY <1>1 DEF Handler
<1>3. req' = [req EXCEPT ![r] = h]
  BY DEF Leave
<1> HIDE DEF h
<1>4. glitches' \in 0..MaxGlitches /\ glitches' >= glitches
  BY <1>1, RequestsAssumption DEF CounterInv
<1> QED
  BY <1>1, <1>2, <1>3, <1>4, HandlerMoves

LEMMA CrashHeals == CounterInv /\ ApiCrash => CounterInv'
<1> SUFFICES ASSUME CounterInv, ApiCrash PROVE CounterInv'
  OBVIOUS
<1>1. bucket' = bucket /\ glitches' = glitches
  BY DEF ApiCrash
<1>2. ASSUME NEW r \in Requests
      PROVE  /\ req'[r] \in Handler /\ req'[r].at = req[r].at
             /\ req'[r] = req[r] \/ req'[r].gone
             /\ req[r].gone => req'[r].gone
  <2>1. req[r] \in Handler
    BY DEF CounterInv
  <2>2. req'[r] = req[r] \/ req'[r] = [req[r] EXCEPT !.pc = "over", !.gone = TRUE, !.reply = "none"]
    BY DEF ApiCrash
  <2>3. LET h == [req[r] EXCEPT !.pc = "over", !.gone = TRUE, !.reply = "none"]
        IN  h \in Handler /\ h.at = req[r].at /\ h.gone
    BY <2>1 DEF Handler
  <2> QED
    BY <2>1, <2>2, <2>3
<1>3. req' \in [Requests -> Handler]
  BY <1>2 DEF ApiCrash
<1>4. ASSUME NEW b \in Buckets PROVE Watched(b)'
  <2>1. Watched(b)
    BY DEF CounterInv
  <2> QED
    BY <1>1, <1>2, <2>1 DEF Watched, InWindowSetup
<1>5. DelInv'
  BY <1>1, <1>2 DEF CounterInv, DelInv
<1> QED
  BY <1>1, <1>3, <1>4, <1>5 DEF CounterInv

\* Redis errors heal: one failed command never leaves a counter without a TTL behind a request
\* that is over and whose client is still there (limiter.go:60-71).
THEOREM CountersHeal ==
    ASSUME MaxGlitches <= 1, "reply" \notin Faults
    PROVE  RequestSpec => []CounterHeals
<1>1. RequestInit => CounterInv
  <2> SUFFICES ASSUME RequestInit PROVE CounterInv
    OBVIOUS
  <2>1. [pc |-> "user", at |-> "incr", gone |-> FALSE, reply |-> "none"] \in Handler
    BY DEF Handler
  <2>2. NoKey \in [n : Nat, ttl : BOOLEAN, by : Requests \cup {"none"}] /\ NoKey.n = 0
    BY DEF NoKey
  <2>3. \A r \in Requests : req[r] \in Handler /\ req[r].at = "incr"
    BY <2>1 DEF RequestInit
  <2>4. req \in [Requests -> Handler]
    BY <2>1 DEF RequestInit
  <2>5. bucket \in [Buckets -> [n : Nat, ttl : BOOLEAN, by : Requests \cup {"none"}]]
        /\ \A b \in Buckets : bucket[b].n = 0
    BY <2>2 DEF RequestInit, Buckets
  <2> QED
    BY <2>3, <2>4, <2>5, RequestsAssumption DEF RequestInit, CounterInv, Watched, DelInv
<1>2. CounterInv /\ [RequestNext]_requestVars => CounterInv'
  <2> SUFFICES ASSUME CounterInv, [RequestNext]_requestVars PROVE CounterInv'
    OBVIOUS
  <2>1. ASSUME NEW r \in Requests, NEW b \in Buckets, Incr(r, b) \/ Expire(r, b) \/ Del(r, b)
        PROVE  CounterInv'
    BY <2>1, IncrHeals, ExpireHeals, DelHeals
  <2>2. ASSUME NEW r \in Requests, AdmitTask(r) \/ InsertRow(r) \/ Enqueue(r) \/ MarkFailed(r)
        PROVE  CounterInv'
    BY <2>2, CreateHeals
  <2>3. ASSUME NEW b \in Buckets, WindowEnds(b) PROVE CounterInv'
    BY <2>3, WindowHeals
  <2>4. CASE UNCHANGED <<bucket, req, glitches>>
    BY <2>4 DEF CounterInv, Watched, InWindowSetup, DelInv
  <2>5. (\E r \in Requests : Execute(r)) \/ UNCHANGED requestVars => UNCHANGED <<bucket, req, glitches>>
    BY DEF Execute, requestVars
  <2> QED
    BY <2>1, <2>2, <2>3, <2>4, <2>5, LeaveHeals, CrashHeals DEF RequestNext, Buckets
<1>3. CounterInv => CounterHeals
  BY DEF CounterInv, CounterHeals, Watched, Buckets
<1> QED
  BY <1>1, <1>2, <1>3, PTL DEF RequestSpec

\* What is owed to a request: its row is followed by a message, or by the failed status.
Owed(r) ==
    /\ req[r].reply = "201" => msg[r] # "none"
    /\ row[r] = "pending" /\ msg[r] = "none" => req[r].pc \in {"enqueue", "mark"} \/ req[r].gone

AccountInv ==
    /\ row \in [Requests -> {"none", "pending", "failed", "running"}]
    /\ msg \in [Requests -> {"none", "queued", "taken"}]
    /\ req \in [Requests -> Handler]
    /\ \A r \in Requests : Owed(r)

\* A step of one request keeps what is owed to the others.
LEMMA OneRequest ==
    ASSUME AccountInv, NEW r \in Requests, NEW h \in Handler, req' = [req EXCEPT ![r] = h],
           row' \in [Requests -> {"none", "pending", "failed", "running"}],
           msg' \in [Requests -> {"none", "queued", "taken"}],
           \A q \in Requests \ {r} : row'[q] = row[q] /\ msg'[q] = msg[q],
           h.reply = "201" => msg'[r] # "none",
           row'[r] = "pending" /\ msg'[r] = "none" => h.pc \in {"enqueue", "mark"} \/ h.gone
    PROVE  AccountInv'
<1>1. req' \in [Requests -> Handler] /\ req'[r] = h /\ \A q \in Requests \ {r} : req'[q] = req[q]
  BY DEF AccountInv
<1>2. ASSUME NEW q \in Requests PROVE Owed(q)'
  BY <1>1 DEF AccountInv, Owed
<1> QED
  BY <1>1, <1>2 DEF AccountInv

\* The state of one request and what stands in the database and the stream for it.
LEMMA OwnState ==
    ASSUME AccountInv, NEW r \in Requests
    PROVE  /\ req[r] \in Handler /\ row[r] \in {"none", "pending", "failed", "running"}
           /\ msg[r] \in {"none", "queued", "taken"} /\ Owed(r)
           /\ row \in [Requests -> {"none", "pending", "failed", "running"}]
           /\ msg \in [Requests -> {"none", "queued", "taken"}]
BY DEF AccountInv

\* What the ways to move a request on do to it.
LEMMA MovedTo ==
    ASSUME NEW h \in Handler, NEW pc \in {"user", "tasks", "admit", "insert", "enqueue", "mark", "over"}
    PROVE  LET g == [h EXCEPT !.pc = pc, !.at = "incr"]
           IN  g \in Handler /\ g.pc = pc /\ g.gone = h.gone /\ g.reply = h.reply
BY DEF Handler

LEMMA Answered ==
    ASSUME NEW h \in Handler, NEW st \in {"none", "201", "429", "503", "500"}, NEW pc \in {"over", "mark"}
    PROVE  LET g == [h EXCEPT !.pc = pc, !.reply = st]
           IN  g \in Handler /\ g.pc = pc /\ g.gone = h.gone /\ g.reply = st
<1> DEFINE g == [h EXCEPT !.pc = pc, !.reply = st]
<1>1. g \in Handler
  BY Handlers
<1>2. g.pc = pc /\ g.gone = h.gone /\ g.reply = st
  BY DEF Handler
<1> QED
  BY <1>1, <1>2

LEMMA AtCommand ==
    ASSUME NEW h \in Handler, NEW at \in {"incr", "expire", "del"}
    PROVE  LET g == [h EXCEPT !.at = at]
           IN  g \in Handler /\ g.pc = h.pc /\ g.gone = h.gone /\ g.reply = h.reply
BY DEF Handler

LEMMA Left ==
    ASSUME NEW h \in Handler
    PROVE  /\ LET g == [h EXCEPT !.pc = "over"]
              IN  g \in Handler /\ g.pc = "over" /\ g.gone = h.gone /\ g.reply = h.reply
           /\ LET g == [h EXCEPT !.gone = TRUE]
              IN  g \in Handler /\ g.gone /\ g.reply = h.reply
BY DEF Handler

LEMMA CutOff ==
    ASSUME NEW h \in Handler
    PROVE  LET g == [h EXCEPT !.pc = "over", !.gone = TRUE, !.reply = "none"]
           IN  g \in Handler /\ g.gone /\ g.reply = "none"
BY DEF Handler

\* The limiter comes before the row, and a request it turns away owes nothing.
LEMMA LimiterAccounts ==
    ASSUME AccountInv, NEW r \in Requests, NEW b \in Buckets, Incr(r, b) \/ Expire(r, b) \/ Del(r, b)
    PROVE  AccountInv'
<1>1. row' = row /\ msg' = msg /\ req[r].pc \in Buckets /\ req[r] \in Handler
  BY OwnState DEF Incr, Expire, Del, Buckets
<1>2. \/ req' = [req EXCEPT ![r] = [req[r] EXCEPT !.at = "expire"]]
      \/ req' = [req EXCEPT ![r] = [req[r] EXCEPT !.at = "del"]]
      \/ Undecided(r, b) \/ Allowed(r, b) \/ Rejected(r)
  <2>1. CASE Incr(r, b)
    BY <2>1 DEF Incr
  <2>2. CASE Expire(r, b)
    BY <2>2 DEF Expire
  <2>3. CASE Del(r, b)
    BY <2>3 DEF Del
  <2> QED
    BY <2>1, <2>2, <2>3
<1>3. \E h \in Handler : /\ req' = [req EXCEPT ![r] = h] /\ h.gone = req[r].gone
                         /\ h.reply = req[r].reply \/ h.reply = "429"
  <2> DEFINE h1 == [req[r] EXCEPT !.at = "expire"]
             h2 == [req[r] EXCEPT !.at = "del"]
             h3 == [req[r] EXCEPT !.pc = "tasks", !.at = "incr"]
             h5 == [req[r] EXCEPT !.pc = "admit", !.at = "incr"]
             h4 == [req[r] EXCEPT !.pc = "over", !.reply = "429"]
  <2>1. h1 \in Handler /\ h1.gone = req[r].gone /\ h1.reply = req[r].reply
    BY <1>1, AtCommand
  <2>2. h2 \in Handler /\ h2.gone = req[r].gone /\ h2.reply = req[r].reply
    BY <1>1, AtCommand
  <2>3. /\ h3 \in Handler /\ h3.gone = req[r].gone /\ h3.reply = req[r].reply
        /\ h5 \in Handler /\ h5.gone = req[r].gone /\ h5.reply = req[r].reply
    BY <1>1, MovedTo
  <2>4. h4 \in Handler /\ h4.gone = req[r].gone /\ h4.reply = "429"
    BY <1>1, Answered
  <2>5. \/ req' = [req EXCEPT ![r] = h1] \/ req' = [req EXCEPT ![r] = h2]
        \/ req' = [req EXCEPT ![r] = h3] \/ req' = [req EXCEPT ![r] = h4]
        \/ req' = [req EXCEPT ![r] = h5]
    BY <1>2 DEF Undecided, Allowed, Rejected, Go, Answer
  <2> HIDE DEF h1, h2, h3, h4, h5
  <2> QED
    BY <2>1, <2>2, <2>3, <2>4, <2>5
<1>4. req[r].reply = "201" => msg[r] # "none"
  BY OwnState DEF Owed
<1>5. row[r] = "pending" /\ msg[r] = "none" => req[r].gone
  BY <1>1, OwnState DEF Owed, Buckets
<1>6. PICK h \in Handler : /\ req' = [req EXCEPT ![r] = h] /\ h.gone = req[r].gone
                           /\ h.reply = req[r].reply \/ h.reply = "429"
  BY <1>3
<1>7. h.reply = "201" => msg[r] # "none"
  BY <1>4, <1>6
<1> QED
  BY <1>1, <1>5, <1>6, <1>7, OwnState, OneRequest

LEMMA AdmitAccounts ==
    ASSUME AccountInv, NEW r \in Requests, AdmitTask(r)
    PROVE  AccountInv'
<1>1. row' = row /\ msg' = msg /\ req[r].pc = "admit" /\ req[r] \in Handler
  BY OwnState DEF AdmitTask
<1> DEFINE h1 == [req[r] EXCEPT !.pc = "over", !.reply = "503"]
           h2 == [req[r] EXCEPT !.pc = "insert", !.at = "incr"]
<1>2. req' = [req EXCEPT ![r] = h1] \/ req' = [req EXCEPT ![r] = h2]
  BY DEF AdmitTask, Go, Answer
<1>a. h1 \in Handler /\ h1.gone = req[r].gone /\ h1.reply = "503"
  BY <1>1, Answered
<1>b. h2 \in Handler /\ h2.gone = req[r].gone /\ h2.reply = req[r].reply
  BY <1>1, MovedTo
<1>3. /\ h1 \in Handler /\ h1.gone = req[r].gone /\ h1.reply = "503"
      /\ h2 \in Handler /\ h2.gone = req[r].gone /\ h2.reply = req[r].reply
  BY <1>a, <1>b
<1> HIDE DEF h1, h2
<1>4. req[r].reply = "201" => msg[r] # "none"
  BY OwnState DEF Owed
<1>5. row[r] = "pending" /\ msg[r] = "none" => req[r].gone
  BY <1>1, OwnState DEF Owed
<1>6. CASE req' = [req EXCEPT ![r] = h1]
  BY <1>1, <1>3, <1>5, <1>6, OwnState, OneRequest
<1>7. CASE req' = [req EXCEPT ![r] = h2]
  BY <1>1, <1>3, <1>4, <1>5, <1>7, OwnState, OneRequest
<1> QED
  BY <1>2, <1>6, <1>7

\* A row that is written without an answer belongs to a client that has left.
LEMMA InsertAccounts ==
    ASSUME AccountInv, Faults \cap {"db", "dbreply"} = {}, NEW r \in Requests, InsertRow(r)
    PROVE  AccountInv'
<1>1. msg' = msg /\ req[r].pc = "insert" /\ req[r] \in Handler
  BY OwnState DEF InsertRow
<1>2. PICK o \in Database(r) :
         /\ row' = IF o = "error" THEN row ELSE [row EXCEPT ![r] = "pending"]
         /\ IF o = "ok" THEN Go(r, "enqueue") ELSE Answer(r, "500")
  BY DEF InsertRow
<1>3. o # "ok" => req[r].gone
  BY DEF Database, Outcomes
<1> DEFINE h1 == [req[r] EXCEPT !.pc = "enqueue", !.at = "incr"]
           h2 == [req[r] EXCEPT !.pc = "over", !.reply = "500"]
<1>4. /\ o = "ok" => req' = [req EXCEPT ![r] = h1]
      /\ o # "ok" => req' = [req EXCEPT ![r] = h2]
  BY <1>2 DEF Go, Answer
<1>5. /\ h1 \in Handler /\ h1.pc = "enqueue" /\ h1.reply = req[r].reply
      /\ h2 \in Handler /\ h2.gone = req[r].gone /\ h2.reply = "500"
  BY <1>1, MovedTo, Answered
<1> HIDE DEF h1, h2
<1>6. req[r].reply = "201" => msg[r] # "none"
  BY OwnState DEF Owed
<1>7. /\ row' \in [Requests -> {"none", "pending", "failed", "running"}]
      /\ \A q \in Requests \ {r} : row'[q] = row[q]
  BY <1>2, OwnState
<1>8. CASE o = "ok"
  BY <1>1, <1>4, <1>5, <1>6, <1>7, <1>8, OwnState, OneRequest
<1>9. CASE o # "ok"
  BY <1>1, <1>3, <1>4, <1>5, <1>7, <1>9, OwnState, OneRequest
<1> QED
  BY <1>8, <1>9

\* Only an XADD that has succeeded is answered with 201.
LEMMA EnqueueAccounts ==
    ASSUME AccountInv, NEW r \in Requests, Enqueue(r)
    PROVE  AccountInv'
<1>1. row' = row /\ req[r].pc = "enqueue" /\ req[r] \in Handler
  BY OwnState DEF Enqueue
<1> DEFINE h1 == [req[r] EXCEPT !.pc = "over", !.reply = "201"]
           h2 == [req[r] EXCEPT !.pc = "mark", !.reply = "500"]
           h3 == [req[r] EXCEPT !.pc = "mark", !.reply = "503"]
<1>2. \/ msg' = [msg EXCEPT ![r] = "queued"] /\ req' = [req EXCEPT ![r] = h1]
      \/ /\ msg' = msg \/ msg' = [msg EXCEPT ![r] = "queued"]
         /\ req' = [req EXCEPT ![r] = h2] \/ req' = [req EXCEPT ![r] = h3]
  BY DEF Enqueue, Answer
<1>3. /\ h1 \in Handler
      /\ h2 \in Handler /\ h2.pc = "mark" /\ h2.reply = "500"
      /\ h3 \in Handler /\ h3.pc = "mark" /\ h3.reply = "503"
  BY <1>1, Answered
<1> HIDE DEF h1, h2, h3
<1>4. CASE msg' = [msg EXCEPT ![r] = "queued"] /\ req' = [req EXCEPT ![r] = h1]
  <2>1. /\ msg' \in [Requests -> {"none", "queued", "taken"}] /\ msg'[r] = "queued"
        /\ \A q \in Requests \ {r} : msg'[q] = msg[q]
    BY <1>4, OwnState
  <2> QED
    BY <1>1, <1>3, <1>4, <2>1, OwnState, OneRequest
<1>5. CASE /\ msg' = msg \/ msg' = [msg EXCEPT ![r] = "queued"]
           /\ req' = [req EXCEPT ![r] = h2] \/ req' = [req EXCEPT ![r] = h3]
  <2>1. msg' \in [Requests -> {"none", "queued", "taken"}] /\ \A q \in Requests \ {r} : msg'[q] = msg[q]
    BY <1>5, OwnState
  <2> QED
    BY <1>1, <1>3, <1>5, <2>1, OwnState, OneRequest
<1> QED
  BY <1>2, <1>4, <1>5

\* The row of a task without a message is marked, unless the client has left.
LEMMA MarkAccounts ==
    ASSUME AccountInv, Faults \cap {"db", "dbreply"} = {}, NEW r \in Requests, MarkFailed(r)
    PROVE  AccountInv'
<1>1. msg' = msg /\ req[r].pc = "mark" /\ req[r] \in Handler
  BY OwnState DEF MarkFailed
<1>2. PICK o \in Database(r) : row' = IF o = "error" THEN row ELSE [row EXCEPT ![r] = "failed"]
  BY DEF MarkFailed
<1>3. o = "error" => req[r].gone
  BY DEF Database, Outcomes
<1> DEFINE h == [req[r] EXCEPT !.pc = "over"]
<1>4. req' = [req EXCEPT ![r] = h]
  BY DEF MarkFailed
<1>5. h \in Handler /\ h.gone = req[r].gone /\ h.reply = req[r].reply
  BY <1>1, Left
<1> HIDE DEF h
<1>6. req[r].reply = "201" => msg[r] # "none"
  BY OwnState DEF Owed
<1>7. CASE o = "error"
  BY <1>1, <1>2, <1>3, <1>4, <1>5, <1>6, <1>7, OwnState, OneRequest
<1>8. CASE o # "error"
  <2>1. /\ row' \in [Requests -> {"none", "pending", "failed", "running"}] /\ row'[r] = "failed"
        /\ \A q \in Requests \ {r} : row'[q] = row[q]
    BY <1>2, <1>8, OwnState
  <2> QED
    BY <1>1, <1>4, <1>5, <1>6, <2>1, OwnState, OneRequest
<1> QED
  BY <1>7, <1>8

\* A message that is taken starts its task.
LEMMA ExecuteAccounts ==
    ASSUME AccountInv, NEW r \in Requests, Execute(r)
    PROVE  AccountInv'
<1>1. /\ msg' = [msg EXCEPT ![r] = "taken"] /\ row' = [row EXCEPT ![r] = "running"] /\ req' = req
  BY DEF Execute
<1>2. /\ row' \in [Requests -> {"none", "pending", "failed", "running"}] /\ row'[r] = "running"
      /\ msg' \in [Requests -> {"none", "queued", "taken"}] /\ msg'[r] = "taken"
      /\ \A q \in Requests \ {r} : row'[q] = row[q] /\ msg'[q] = msg[q]
  BY <1>1, OwnState
<1>3. req' \in [Requests -> Handler] /\ \A q \in Requests : req'[q] = req[q] /\ Owed(q)
  BY <1>1 DEF AccountInv
<1>4. ASSUME NEW q \in Requests PROVE Owed(q)'
  BY <1>2, <1>3 DEF Owed
<1> QED
  BY <1>2, <1>3, <1>4 DEF AccountInv

LEMMA LeaveAccounts ==
    ASSUME AccountInv, NEW r \in Requests, Leave(r)
    PROVE  AccountInv'
<1> DEFINE h == [req[r] EXCEPT !.gone = TRUE]
<1>1. row' = row /\ msg' = msg /\ req' = [req EXCEPT ![r] = h] /\ req[r] \in Handler
  BY OwnState DEF Leave
<1>2. h \in Handler /\ h.gone /\ h.reply = req[r].reply
  BY <1>1, Left
<1> HIDE DEF h
<1>3. req[r].reply = "201" => msg[r] # "none"
  BY OwnState DEF Owed
<1> QED
  BY <1>1, <1>2, <1>3, OwnState, OneRequest

\* Requests that are over when the process ends keep their answers; the others had none.
LEMMA CrashAccounts == AccountInv /\ ApiCrash => AccountInv'
<1> SUFFICES ASSUME AccountInv, ApiCrash PROVE AccountInv'
  OBVIOUS
<1>1. row' = row /\ msg' = msg
  BY DEF ApiCrash
<1>2. ASSUME NEW r \in Requests
      PROVE  /\ req'[r] \in Handler
             /\ req'[r] = req[r] \/ (req'[r].gone /\ req'[r].reply = "none")
  <2>1. req[r] \in Handler
    BY OwnState
  <2>2. req'[r] = req[r] \/ req'[r] = [req[r] EXCEPT !.pc = "over", !.gone = TRUE, !.reply = "none"]
    BY DEF ApiCrash
  <2> QED
    BY <2>1, <2>2, CutOff
<1>3. req' \in [Requests -> Handler]
  BY <1>2 DEF ApiCrash
<1>4. ASSUME NEW r \in Requests PROVE Owed(r)'
  BY <1>1, <1>2 DEF AccountInv, Owed
<1> QED
  BY <1>1, <1>3, <1>4 DEF AccountInv

\* As long as the database answers, a request that is over has left no task behind that nobody will
\* execute and nobody has marked, unless its client has left (service.go:71-72).
THEOREM TasksAccounted ==
    ASSUME Faults \cap {"db", "dbreply"} = {}
    PROVE  RequestSpec => []TaskAccountedFor
<1>1. RequestInit => AccountInv
  <2>1. [pc |-> "user", at |-> "incr", gone |-> FALSE, reply |-> "none"] \in Handler
    BY DEF Handler
  <2> QED
    BY <2>1 DEF RequestInit, AccountInv, Owed
<1>2. AccountInv /\ [RequestNext]_requestVars => AccountInv'
  <2> SUFFICES ASSUME AccountInv, [RequestNext]_requestVars PROVE AccountInv'
    OBVIOUS
  <2>1. ASSUME NEW r \in Requests, NEW b \in Buckets, Incr(r, b) \/ Expire(r, b) \/ Del(r, b)
        PROVE  AccountInv'
    BY <2>1, LimiterAccounts
  <2>2. ASSUME NEW r \in Requests,
               AdmitTask(r) \/ InsertRow(r) \/ Enqueue(r) \/ MarkFailed(r) \/ Execute(r) \/ Leave(r)
        PROVE  AccountInv'
    BY <2>2, AdmitAccounts, InsertAccounts, EnqueueAccounts, MarkAccounts, ExecuteAccounts, LeaveAccounts
  <2>3. CASE UNCHANGED <<row, msg, req>>
    BY <2>3 DEF AccountInv, Owed
  <2>4. (\E b \in Buckets : WindowEnds(b)) \/ UNCHANGED requestVars => UNCHANGED <<row, msg, req>>
    BY DEF WindowEnds, requestVars
  <2> QED
    BY <2>1, <2>2, <2>3, <2>4, CrashAccounts DEF RequestNext, Buckets
<1>3. AccountInv => TaskAccountedFor
  BY DEF AccountInv, TaskAccountedFor, Owed
<1> QED
  BY <1>1, <1>2, <1>3, PTL DEF RequestSpec

-----------------------------------------------------------------------------
(* The hub of the task events. *)

LEMMA UnlistedIs ==
    ASSUME NEW S, NEW s \in Seq(S), NEW t \in Range(s), IsInjective(s)
    PROVE  /\ Unlisted(s, t) \in Seq(S) /\ Len(Unlisted(s, t)) = Len(s) - 1
           /\ Range(Unlisted(s, t)) = Range(s) \ {t} /\ IsInjective(Unlisted(s, t))
<1> DEFINE i == CHOOSE k \in DOMAIN s : s[k] = t
           a == SubSeq(s, 1, i - 1)
           z == SubSeq(s, i + 1, Len(s))
<1>1. i \in DOMAIN s /\ s[i] = t /\ DOMAIN s = 1..Len(s) /\ Len(s) \in Nat
  BY DEF Range
<1>2. Unlisted(s, t) = a \o z
  BY DEF Unlisted, RemoveAt
<1> HIDE DEF i
<1>3. a \in Seq(S) /\ Len(a) = i - 1 /\ \A k \in 1..(i - 1) : a[k] = s[k]
  BY <1>1
<1>4. z \in Seq(S) /\ Len(z) = Len(s) - i /\ \A k \in 1..(Len(s) - i) : z[k] = s[i + k]
  BY <1>1
<1> HIDE DEF a, z
<1> DEFINE r == a \o z
<1>5. r \in Seq(S) /\ Len(r) = Len(s) - 1
  <2>1. r \in Seq(S) /\ Len(r) = Len(a) + Len(z)
    BY <1>3, <1>4, ConcatProperties
  <2> HIDE DEF r
  <2> QED
    BY <1>1, <1>3, <1>4, <2>1
<1>6. \A k \in 1..(Len(a) + Len(z)) : r[k] = IF k <= Len(a) THEN a[k] ELSE z[k - Len(a)]
  BY <1>3, <1>4, ConcatProperties
<1> HIDE DEF r
<1>7. DOMAIN r = 1..(Len(s) - 1)
  BY <1>1, <1>5
<1>8. ASSUME NEW k \in DOMAIN r
      PROVE  r[k] = s[IF k < i THEN k ELSE k + 1]
  <2>1. k \in 1..(Len(a) + Len(z)) /\ k \in Int
    BY <1>1, <1>3, <1>4, <1>7
  <2>2. CASE k < i
    <3>1. k <= Len(a) /\ k \in 1..(i - 1)
      BY <1>1, <1>3, <2>1, <2>2
    <3> QED
      BY <1>3, <1>6, <2>1, <2>2, <3>1
  <2>3. CASE ~(k < i)
    <3>1. ~(k <= Len(a)) /\ k - Len(a) \in 1..(Len(s) - i) /\ i + (k - Len(a)) = k + 1
      BY <1>1, <1>3, <1>4, <1>7, <2>1, <2>3
    <3> QED
      BY <1>4, <1>6, <2>1, <2>3, <3>1
  <2> QED
    BY <2>2, <2>3
<1> DEFINE At(k) == IF k < i THEN k ELSE k + 1
<1>9. \A k \in DOMAIN r : At(k) \in DOMAIN s \ {i} /\ r[k] = s[At(k)]
  BY <1>1, <1>7, <1>8
<1>10. \A k, m \in DOMAIN r : At(k) = At(m) => k = m
  BY <1>1, <1>7
<1>11. \A j \in DOMAIN s \ {i} : \E k \in DOMAIN r : At(k) = j
  <2> TAKE j \in DOMAIN s \ {i}
  <2> DEFINE k == IF j < i THEN j ELSE j - 1
  <2>1. k \in DOMAIN r /\ At(k) = j
    BY <1>1, <1>7
  <2> QED
    BY <2>1
<1> HIDE DEF At
<1>12. Range(r) = Range(s) \ {t}
  <2>1. \A k \in DOMAIN r : r[k] \in Range(s) /\ r[k] # t
    BY <1>1, <1>9 DEF Range, IsInjective
  <2>2. \A j \in DOMAIN s : s[j] # t => s[j] \in Range(r)
    BY <1>1, <1>9, <1>11 DEF Range
  <2> QED
    BY <2>1, <2>2 DEF Range
<1>13. IsInjective(r)
  BY <1>9, <1>10 DEF IsInjective
<1> QED
  BY <1>2, <1>5, <1>12, <1>13 DEF r

LEMMA AppendedIs ==
    ASSUME NEW S, NEW s \in Seq(S), NEW t \in S, t \notin Range(s), IsInjective(s)
    PROVE  /\ Append(s, t) \in Seq(S) /\ Len(Append(s, t)) = Len(s) + 1
           /\ Range(Append(s, t)) = Range(s) \cup {t} /\ IsInjective(Append(s, t))
<1> DEFINE r == Append(s, t)
<1>1. /\ r \in Seq(S) /\ Len(r) = Len(s) + 1 /\ DOMAIN r = 1..(Len(s) + 1) /\ DOMAIN s = 1..Len(s)
      /\ Len(s) \in Nat /\ r[Len(s) + 1] = t /\ \A k \in 1..Len(s) : r[k] = s[k]
  OBVIOUS
<1> HIDE DEF r
<1>2. Range(r) = Range(s) \cup {t}
  BY <1>1 DEF Range
<1>3. IsInjective(r)
  BY <1>1 DEF Range, IsInjective
<1> QED
  BY <1>1, <1>2, <1>3 DEF r

LEMMA TailIs ==
    ASSUME NEW S, NEW s \in Seq(S), s # <<>>, IsInjective(s)
    PROVE  /\ Head(s) \in Range(s) /\ Range(s) \subseteq S
           /\ Tail(s) \in Seq(S) /\ Len(Tail(s)) = Len(s) - 1
           /\ Range(Tail(s)) = Range(s) \ {Head(s)} /\ IsInjective(Tail(s))
<1> DEFINE r == Tail(s)
<1>1. /\ r \in Seq(S) /\ Len(r) = Len(s) - 1 /\ DOMAIN r = 1..(Len(s) - 1) /\ DOMAIN s = 1..Len(s)
      /\ Len(s) \in Nat \ {0} /\ Head(s) = s[1] /\ \A k \in 1..(Len(s) - 1) : r[k] = s[k + 1]
  OBVIOUS
<1> HIDE DEF r
<1>2. \A j \in 2..Len(s) : r[j - 1] = s[j] /\ j - 1 \in DOMAIN r
  BY <1>1
<1>3. \A x : x \in Range(r) <=> \E j \in 2..Len(s) : x = s[j]
  <2> TAKE x
  <2>1. ASSUME NEW k \in DOMAIN r PROVE \E j \in 2..Len(s) : r[k] = s[j]
    <3>1. k + 1 \in 2..Len(s) /\ r[k] = s[k + 1]
      BY <1>1
    <3> QED
      BY <3>1
  <2> QED
    BY <1>2, <2>1 DEF Range
<1>4. 1 \in DOMAIN s /\ \A j \in DOMAIN s : j = 1 \/ j \in 2..Len(s)
  BY <1>1
<1>5. \A j \in 2..Len(s) : j \in DOMAIN s /\ j # 1
  BY <1>1
<1>6. Range(r) = Range(s) \ {Head(s)}
  <2>1. \A j \in 2..Len(s) : s[j] # s[1]
    BY <1>4, <1>5 DEF IsInjective
  <2>2. \A x : x \in Range(s) <=> x = s[1] \/ \E j \in 2..Len(s) : x = s[j]
    BY <1>4, <1>5 DEF Range
  <2> QED
    BY <1>1, <1>3, <2>1, <2>2
<1>7. IsInjective(r)
  <2> SUFFICES ASSUME NEW k \in DOMAIN r, NEW m \in DOMAIN r, k # m PROVE r[k] # r[m]
    BY DEF IsInjective
  <2>1. k + 1 \in DOMAIN s /\ m + 1 \in DOMAIN s /\ k + 1 # m + 1
    BY <1>1
  <2>2. r[k] = s[k + 1] /\ r[m] = s[m + 1]
    BY <1>1
  <2> QED
    BY <2>1, <2>2 DEF IsInjective
<1>8. Head(s) \in Range(s) /\ Range(s) \subseteq S
  BY <1>1, <1>4 DEF Range
<1> QED
  BY <1>1, <1>6, <1>7, <1>8 DEF r

LEMMA RangeCount ==
    ASSUME NEW S, NEW s \in Seq(S), IsInjective(s)
    PROVE  Len(s) = Cardinality(Range(s)) /\ IsFiniteSet(Range(s))
<1>1. Len(s) \in Nat /\ DOMAIN s = 1..Len(s)
  OBVIOUS
<1>2. s \in Bijection(1..Len(s), Range(s))
  <2>1. s \in [1..Len(s) -> Range(s)]
    BY <1>1 DEF Range
  <2>2. \A j, k \in 1..Len(s) : s[j] = s[k] => j = k
    BY <1>1 DEF IsInjective
  <2>3. \A x \in Range(s) : \E k \in 1..Len(s) : s[k] = x
    BY <1>1 DEF Range
  <2> QED
    BY <1>1, <2>1, <2>2, <2>3 DEF Bijection, Injection, Surjection, IsInjective
<1>3. IsFiniteSet(1..Len(s)) /\ Cardinality(1..Len(s)) = Len(s)
  BY <1>1, FS_Interval
<1> QED
  BY <1>2, <1>3, FS_Bijection DEF ExistsBijection

\* The handler of a connection.
Conn == [pc : {"new", "replaying", "snapshot", "streaming"}, chan : Seq(Event), backlog : Seq(Event),
         seen : Seq(Event), lost : SUBSET Nat, since : Nat, snap : Int]

HubShape ==
    /\ written \in [HubTasks -> 0..MaxEvents] /\ sent \in [HubTasks -> 0..MaxEvents]
    /\ \A t \in HubTasks : written[t] <= sent[t] + 1
    /\ replay \in [HubTasks -> Seq(Event)]
    /\ conn \in [Clients -> Conn]
    /\ subs \subseteq Clients
    /\ \A c \in Clients : c \in subs <=> conn[c].pc # "new"

LEMMA IdleIs == Idle \in Conn /\ Idle.pc = "new" /\ Idle.chan = <<>> /\ Idle.seen = <<>> /\ Idle.lost = {}
BY DEF Idle, Conn, NoSnapshot

LEMMA BoundsAre ==
    /\ MaxEvents \in Nat \ {0} /\ ReplayCap \in Nat \ {0} /\ MaxReplay \in Nat \ {0}
    /\ MaxPerUser \in Nat \ {0} /\ MaxTotal \in Nat \ {0} /\ ChanCap \in Nat \ {0}
BY HubAssumption

\* A send that does not block: the event is in the channel or counted as dropped.
LEMMA OfferIs ==
    ASSUME NEW k \in Conn, NEW ev \in Event
    PROVE  /\ Offer(k, ev) \in Conn
           /\ Offer(k, ev).pc = k.pc /\ Offer(k, ev).backlog = k.backlog /\ Offer(k, ev).seen = k.seen
           /\ Offer(k, ev).since = k.since /\ Offer(k, ev).snap = k.snap
           /\ \/ Offer(k, ev).chan = Append(k.chan, ev) /\ Offer(k, ev).lost = k.lost
              \/ Offer(k, ev).chan = k.chan /\ Offer(k, ev).lost = k.lost \cup {ev.no}
<1>1. ev.no \in Nat /\ k.chan \in Seq(Event) /\ k.lost \in SUBSET Nat
  BY BoundsAre DEF Event, Conn
<1>2. Append(k.chan, ev) \in Seq(Event) /\ k.lost \cup {ev.no} \in SUBSET Nat
  BY <1>1
<1>3. ASSUME NEW q \in Seq(Event), Offer(k, ev) = [k EXCEPT !.chan = q], q = Append(k.chan, ev) PROVE
           /\ Offer(k, ev) \in Conn
           /\ Offer(k, ev).pc = k.pc /\ Offer(k, ev).backlog = k.backlog /\ Offer(k, ev).seen = k.seen
           /\ Offer(k, ev).since = k.since /\ Offer(k, ev).snap = k.snap
           /\ Offer(k, ev).chan = q /\ Offer(k, ev).lost = k.lost
  BY <1>3 DEF Conn
<1>4. ASSUME NEW q \in SUBSET Nat, Offer(k, ev) = [k EXCEPT !.lost = q] PROVE
           /\ Offer(k, ev) \in Conn
           /\ Offer(k, ev).pc = k.pc /\ Offer(k, ev).backlog = k.backlog /\ Offer(k, ev).seen = k.seen
           /\ Offer(k, ev).since = k.since /\ Offer(k, ev).snap = k.snap
           /\ Offer(k, ev).chan = k.chan /\ Offer(k, ev).lost = q
  BY <1>4 DEF Conn
<1>5. CASE Len(k.chan) < ChanCap
  <2>1. Offer(k, ev) = [k EXCEPT !.chan = Append(k.chan, ev)]
    BY <1>5 DEF Offer
  <2> QED
    BY <1>2, <1>3, <2>1
<1>6. CASE ~(Len(k.chan) < ChanCap)
  <2>1. Offer(k, ev) = [k EXCEPT !.lost = k.lost \cup {ev.no}]
    BY <1>6 DEF Offer
  <2> QED
    BY <1>2, <1>4, <2>1
<1> QED
  BY <1>5, <1>6

\* What the steps of a connection do to it; everything else stays as it is.
Other(c) == \A d \in Clients \ {c} : conn'[d] = conn[d]

LEMMA SubscribeIs ==
    ASSUME HubShape, NEW c \in Clients, Subscribe(c)
    PROVE  /\ conn[c].pc = "new" /\ Other(c) /\ conn' \in [Clients -> Conn]
           /\ conn'[c].pc = "replaying" /\ conn'[c].since = sent[TaskOf[c]]
           /\ conn'[c].backlog = replay[TaskOf[c]]
           /\ conn'[c].chan = <<>> /\ conn'[c].seen = <<>> /\ conn'[c].lost = {}
<1> DEFINE k == [Idle EXCEPT !.pc = "replaying", !.since = sent[TaskOf[c]], !.backlog = replay[TaskOf[c]]]
<1>1. TaskOf[c] \in HubTasks
  BY DEF HubTasks
<1>2. sent[TaskOf[c]] \in Nat /\ replay[TaskOf[c]] \in Seq(Event)
  BY <1>1, BoundsAre DEF HubShape
<1>3. /\ k \in Conn /\ k.pc = "replaying" /\ k.since = sent[TaskOf[c]] /\ k.backlog = replay[TaskOf[c]]
      /\ k.chan = <<>> /\ k.seen = <<>> /\ k.lost = {}
  <2> DEFINE x == sent[TaskOf[c]]
             y == replay[TaskOf[c]]
  <2> HIDE DEF x, y
  <2> QED
    BY <1>2, IdleIs DEF Conn, x, y
<1>4. conn' = [conn EXCEPT ![c] = k] /\ conn[c].pc = "new"
  BY DEF Subscribe
<1> HIDE DEF k
<1> QED
  BY <1>3, <1>4 DEF HubShape, Other

LEMMA ReplayIs ==
    ASSUME HubShape, NEW c \in Clients, Replay(c)
    PROVE  /\ conn[c].pc = "replaying" /\ Other(c) /\ conn' \in [Clients -> Conn]
           /\ conn'[c].seen = conn[c].seen /\ conn'[c].since = conn[c].since /\ conn'[c].snap = conn[c].snap
           /\ \/ /\ conn[c].backlog = <<>> /\ conn'[c].pc = "snapshot" /\ conn'[c].backlog = <<>>
                 /\ conn'[c].chan = conn[c].chan /\ conn'[c].lost = conn[c].lost
              \/ /\ conn[c].backlog # <<>> /\ conn'[c].pc = "replaying"
                 /\ conn'[c].backlog = Tail(conn[c].backlog) /\ Head(conn[c].backlog) \in Event
                 /\ \/ /\ conn'[c].chan = Append(conn[c].chan, Head(conn[c].backlog))
                       /\ conn'[c].lost = conn[c].lost
                    \/ /\ conn'[c].chan = conn[c].chan
                       /\ conn'[c].lost = conn[c].lost \cup {Head(conn[c].backlog).no}
<1>1. conn[c].pc = "replaying" /\ conn[c] \in Conn /\ conn[c].backlog \in Seq(Event)
  BY DEF Replay, HubShape, Conn
<1>2. CASE conn[c].backlog = <<>>
  <2> DEFINE k == [conn[c] EXCEPT !.pc = "snapshot"]
  <2>1. conn' = [conn EXCEPT ![c] = k]
    BY <1>2 DEF Replay
  <2>2. /\ k \in Conn /\ k.pc = "snapshot" /\ k.backlog = conn[c].backlog /\ k.chan = conn[c].chan
        /\ k.lost = conn[c].lost /\ k.seen = conn[c].seen /\ k.since = conn[c].since /\ k.snap = conn[c].snap
    BY <1>1 DEF Conn
  <2> HIDE DEF k
  <2>3. conn'[c] = k /\ Other(c) /\ conn' \in [Clients -> Conn]
    BY <2>1, <2>2 DEF HubShape, Other
  <2> QED
    BY <1>1, <1>2, <2>2, <2>3
<1>3. CASE conn[c].backlog # <<>>
  <2> DEFINE g == Offer(conn[c], Head(conn[c].backlog))
             k == [g EXCEPT !.backlog = Tail(conn[c].backlog)]
  <2>1. conn' = [conn EXCEPT ![c] = k]
    BY <1>3 DEF Replay
  <2>2. Head(conn[c].backlog) \in Event /\ Tail(conn[c].backlog) \in Seq(Event)
    BY <1>1, <1>3
  <2>3. /\ g \in Conn /\ g.pc = "replaying" /\ g.seen = conn[c].seen
        /\ g.since = conn[c].since /\ g.snap = conn[c].snap
        /\ \/ g.chan = Append(conn[c].chan, Head(conn[c].backlog)) /\ g.lost = conn[c].lost
           \/ g.chan = conn[c].chan /\ g.lost = conn[c].lost \cup {Head(conn[c].backlog).no}
    BY <1>1, <2>2, OfferIs
  <2> HIDE DEF g
  <2>4. /\ k \in Conn /\ k.pc = g.pc /\ k.backlog = Tail(conn[c].backlog) /\ k.chan = g.chan
        /\ k.lost = g.lost /\ k.seen = g.seen /\ k.since = g.since /\ k.snap = g.snap
    BY <2>2, <2>3 DEF Conn
  <2> HIDE DEF k
  <2>5. conn'[c] = k /\ Other(c) /\ conn' \in [Clients -> Conn]
    BY <2>1, <2>4 DEF HubShape, Other
  <2> QED
    BY <1>1, <1>3, <2>2, <2>3, <2>4, <2>5
<1> QED
  BY <1>2, <1>3

LEMMA SnapshotIs ==
    ASSUME HubShape, NEW c \in Clients, Snapshot(c)
    PROVE  /\ conn[c].pc = "snapshot" /\ Other(c) /\ conn' \in [Clients -> Conn]
           /\ conn'[c].pc = "streaming" /\ conn'[c].snap \in {written[TaskOf[c]], NoSnapshot}
           /\ conn'[c].seen = conn[c].seen /\ conn'[c].since = conn[c].since
           /\ conn'[c].backlog = conn[c].backlog /\ conn'[c].chan = conn[c].chan /\ conn'[c].lost = conn[c].lost
<1>4. PICK snap \in {written[TaskOf[c]], NoSnapshot} :
          conn' = [conn EXCEPT ![c].pc = "streaming", ![c].snap = snap]
  BY DEF Snapshot
<1> DEFINE k == [conn[c] EXCEPT !.pc = "streaming", !.snap = snap]
<1>1. conn[c] \in Conn /\ snap \in Int
  BY BoundsAre DEF HubShape, HubTasks, NoSnapshot
<1>2. /\ k \in Conn /\ k.pc = "streaming" /\ k.snap = snap /\ k.backlog = conn[c].backlog
      /\ k.chan = conn[c].chan /\ k.lost = conn[c].lost /\ k.seen = conn[c].seen /\ k.since = conn[c].since
  BY <1>1 DEF Conn
<1>3. conn' = [conn EXCEPT ![c] = k] /\ conn[c].pc = "snapshot"
  BY <1>4 DEF Snapshot, HubShape
<1> HIDE DEF k
<1> QED
  BY <1>2, <1>3 DEF HubShape, Other

LEMMA ReceiveIs ==
    ASSUME HubShape, NEW c \in Clients, Receive(c)
    PROVE  /\ conn[c].pc = "streaming" /\ Other(c) /\ conn' \in [Clients -> Conn] /\ conn[c].chan # <<>>
           /\ conn'[c].pc = "streaming" /\ conn'[c].snap = conn[c].snap
           /\ conn'[c].seen = Append(conn[c].seen, Head(conn[c].chan)) /\ conn'[c].since = conn[c].since
           /\ conn'[c].backlog = conn[c].backlog /\ conn'[c].chan = Tail(conn[c].chan) /\ conn'[c].lost = conn[c].lost
<1> DEFINE s == Append(conn[c].seen, Head(conn[c].chan))
           q == Tail(conn[c].chan)
           k == [conn[c] EXCEPT !.chan = q, !.seen = s]
<1>1. conn[c] \in Conn /\ conn[c].pc = "streaming" /\ conn[c].chan # <<>>
  BY DEF HubShape, Receive
<1>2. conn[c].chan \in Seq(Event) /\ conn[c].seen \in Seq(Event)
  BY <1>1 DEF Conn
<1>3. s \in Seq(Event) /\ q \in Seq(Event)
  BY <1>1, <1>2
<1>4. conn' = [conn EXCEPT ![c] = k]
  BY DEF Receive, HubShape
<1> HIDE DEF s, q
<1>5. /\ k \in Conn /\ k.pc = conn[c].pc /\ k.snap = conn[c].snap /\ k.backlog = conn[c].backlog
      /\ k.chan = q /\ k.lost = conn[c].lost /\ k.seen = s /\ k.since = conn[c].since
  BY <1>1, <1>3 DEF Conn
<1> HIDE DEF k
<1>6. conn'[c] = k /\ Other(c) /\ conn' \in [Clients -> Conn]
  BY <1>4, <1>5 DEF HubShape, Other
<1> QED
  BY <1>1, <1>5, <1>6 DEF s, q

LEMMA PublishIs ==
    ASSUME HubShape, NEW t \in HubTasks, NEW ev \in Event, Publish(t, ev)
    PROVE  /\ conn' \in [Clients -> Conn] /\ \A c \in Clients : conn'[c].pc = conn[c].pc
           /\ \A c \in Clients : conn'[c] = IF c \in subs /\ TaskOf[c] = t THEN Offer(conn[c], ev) ELSE conn[c]
<1>1. \A c \in Clients : conn'[c] = IF c \in subs /\ TaskOf[c] = t THEN Offer(conn[c], ev) ELSE conn[c]
  BY DEF Publish
<1>2. ASSUME NEW c \in Clients PROVE conn'[c] \in Conn /\ conn'[c].pc = conn[c].pc
  <2>1. conn[c] \in Conn
    BY DEF HubShape
  <2> QED
    BY <1>1, <2>1, OfferIs
<1>3. conn' = [c \in Clients |-> conn'[c]]
  BY DEF Publish
<1> QED
  BY <1>1, <1>2, <1>3

\* The events that are published are new ones.
LEMMA PublishedIs ==
    ASSUME HubShape, NEW t \in HubTasks, PublishStatus(t) \/ PublishToken(t)
    PROVE  \E ev \in Event :
               /\ ev.no = sent[t] + 1 /\ (~ev.token => ev.no = written[t])
               /\ Publish(t, ev) /\ written' = written
               /\ announced' = IF ev.token THEN announced
                               ELSE [announced EXCEPT ![t] = announced[t] \cup {ev.no}]
<1>1. /\ written[t] \in Nat /\ written[t] <= MaxEvents /\ sent[t] \in Nat /\ sent[t] <= MaxEvents
      /\ written[t] <= sent[t] + 1
  BY BoundsAre DEF HubShape
<1>2. CASE PublishStatus(t)
  <2> DEFINE ev == [no |-> written[t], token |-> FALSE]
  <2>1. ev \in Event /\ ev.no = written[t] /\ ev.no = sent[t] + 1 /\ Publish(t, ev) /\ written' = written
    BY <1>1, <1>2, BoundsAre DEF Event, PublishStatus
  <2>2. ~ev.token /\ announced' = [announced EXCEPT ![t] = announced[t] \cup {ev.no}]
    BY <1>2 DEF PublishStatus
  <2> HIDE DEF ev
  <2> QED
    BY <2>1, <2>2
<1>3. CASE PublishToken(t)
  <2> DEFINE ev == [no |-> sent[t] + 1, token |-> TRUE]
  <2>1. ev \in Event /\ ev.no = sent[t] + 1 /\ ev.token /\ Publish(t, ev) /\ UNCHANGED <<written, announced>>
    BY <1>1, <1>3, BoundsAre DEF Event, PublishToken
  <2> QED
    BY <2>1
<1> QED
  BY <1>2, <1>3

\* What an event that is no token does to the replay buffers.
LEMMA RememberIs ==
    ASSUME HubShape, lru \in Seq(HubTasks), NEW t \in HubTasks, NEW ev \in Event, Remember(t, ev)
    PROVE  /\ replay' \in [HubTasks -> Seq(Event)]
           /\ \/ /\ t \in Range(lru) /\ lru' = Append(Unlisted(lru, t), t)
                 /\ \A x \in HubTasks \ {t} : replay'[x] = replay[x]
                 /\ \/ replay'[t] = Append(replay[t], ev)
                    \/ replay[t] # <<>> /\ replay'[t] = Append(Tail(replay[t]), ev)
              \/ /\ t \notin Range(lru) /\ Len(lru) < MaxReplay /\ lru' = Append(lru, t)
                 /\ \A x \in HubTasks \ {t} : replay'[x] = replay[x]
                 /\ replay'[t] = <<ev>>
              \/ /\ t \notin Range(lru) /\ Len(lru) >= MaxReplay /\ lru' = Append(Tail(lru), t)
                 /\ lru # <<>> /\ Head(lru) \in HubTasks \ {t} /\ replay'[Head(lru)] = <<>>
                 /\ \A x \in HubTasks \ {t, Head(lru)} : replay'[x] = replay[x]
                 /\ replay'[t] = <<ev>>
<1>1. replay \in [HubTasks -> Seq(Event)] /\ replay[t] \in Seq(Event) /\ <<ev>> \in Seq(Event)
  BY DEF HubShape
<1>2. CASE t \in Range(lru)
  <2> DEFINE b == IF Len(replay[t]) = ReplayCap THEN Append(Tail(replay[t]), ev) ELSE Append(replay[t], ev)
  <2>1. replay' = [replay EXCEPT ![t] = b] /\ lru' = Append(Unlisted(lru, t), t)
    BY <1>2 DEF Remember
  <2>2. Len(replay[t]) = ReplayCap => replay[t] # <<>>
    BY <1>1, BoundsAre
  <2>3. b \in Seq(Event)
    BY <1>1, <2>2
  <2>4. b = Append(replay[t], ev) \/ (replay[t] # <<>> /\ b = Append(Tail(replay[t]), ev))
    BY <2>2
  <2> HIDE DEF b
  <2> QED
    BY <1>1, <1>2, <2>1, <2>3, <2>4
<1>3. CASE t \notin Range(lru) /\ Len(lru) < MaxReplay
  <2>1. replay' = [replay EXCEPT ![t] = <<ev>>] /\ lru' = Append(lru, t)
    BY <1>3, BoundsAre DEF Remember
  <2> QED
    BY <1>1, <1>3, <2>1
<1>4. CASE t \notin Range(lru) /\ Len(lru) >= MaxReplay
  <2>1. replay' = [replay EXCEPT ![t] = <<ev>>, ![Head(lru)] = <<>>] /\ lru' = Append(Tail(lru), t)
    BY <1>4, BoundsAre DEF Remember
  <2>2. lru # <<>> /\ 1 \in DOMAIN lru /\ Head(lru) = lru[1]
    BY <1>4, BoundsAre
  <2>3. Head(lru) \in HubTasks \ {t}
    BY <1>4, <2>2 DEF Range
  <2>4. /\ replay' \in [HubTasks -> Seq(Event)] /\ replay'[t] = <<ev>> /\ replay'[Head(lru)] = <<>>
        /\ \A x \in HubTasks \ {t, Head(lru)} : replay'[x] = replay[x]
    <3> DEFINE h == Head(lru)
    <3>1. <<>> \in Seq(Event)
      OBVIOUS
    <3> HIDE DEF h
    <3> QED
      BY <1>1, <2>1, <2>3, <3>1 DEF h
  <2> QED
    BY <1>4, <2>1, <2>2, <2>3, <2>4
<1> QED
  BY <1>2, <1>3, <1>4, BoundsAre DEF Remember

\* The shape of the hub's state is kept by every step.
HubIndexed ==
    /\ lru \in Seq(HubTasks) /\ IsInjective(lru) /\ Len(lru) <= MaxReplay
    /\ \A t \in HubTasks : t \in Range(lru) <=> replay[t] # <<>>

HubCounted ==
    /\ subCount = Cardinality(subs) /\ subCount <= MaxTotal
    /\ userSubs \in [HubUsers -> Int]
    /\ \A u \in HubUsers : /\ userSubs[u] = Cardinality({c \in subs : UserOf[c] = u})
                           /\ userSubs[u] <= MaxPerUser

HubInv == HubShape /\ HubIndexed /\ HubCounted

LEMMA StepKeepsConn ==
    ASSUME HubShape, NEW c \in Clients, Replay(c) \/ Snapshot(c) \/ Receive(c)
    PROVE  HubShape'
<1>1. /\ conn' \in [Clients -> Conn] /\ Other(c) /\ conn[c].pc # "new" /\ conn'[c].pc # "new"
      /\ UNCHANGED <<written, sent, replay, lru, subs, subCount, userSubs>>
  <2>1. UNCHANGED <<written, sent, replay, lru, subs, subCount, userSubs>>
    BY DEF Replay, Snapshot, Receive
  <2>2. conn' \in [Clients -> Conn] /\ Other(c) /\ conn[c].pc # "new" /\ conn'[c].pc # "new"
    BY ReplayIs, SnapshotIs, ReceiveIs
  <2> QED
    BY <2>1, <2>2
<1> QED
  BY <1>1 DEF HubShape, Other

\* The index lists the tasks that have a buffer, each once.
LEMMA RememberIndexed ==
    ASSUME HubShape, HubIndexed, NEW t \in HubTasks, NEW ev \in Event, Remember(t, ev)
    PROVE  HubIndexed' /\ replay' \in [HubTasks -> Seq(Event)]
<1>1. lru \in Seq(HubTasks) /\ IsInjective(lru) /\ Len(lru) <= MaxReplay /\ Len(lru) \in Nat
  BY DEF HubIndexed
<1>2. replay' \in [HubTasks -> Seq(Event)]
  BY <1>1, RememberIs
<1>3. CASE /\ t \in Range(lru) /\ lru' = Append(Unlisted(lru, t), t)
           /\ \A x \in HubTasks \ {t} : replay'[x] = replay[x]
           /\ \/ replay'[t] = Append(replay[t], ev)
              \/ replay[t] # <<>> /\ replay'[t] = Append(Tail(replay[t]), ev)
  <2> DEFINE s == Unlisted(lru, t)
  <2>1. s \in Seq(HubTasks) /\ Len(s) = Len(lru) - 1 /\ Range(s) = Range(lru) \ {t} /\ IsInjective(s)
    BY <1>1, <1>3, UnlistedIs
  <2> HIDE DEF s
  <2>2. /\ Append(s, t) \in Seq(HubTasks) /\ Len(Append(s, t)) = Len(s) + 1
        /\ Range(Append(s, t)) = Range(s) \cup {t} /\ IsInjective(Append(s, t))
    BY <2>1, AppendedIs
  <2>3. lru' = Append(s, t)
    BY <1>3 DEF s
  <2>4. replay'[t] # <<>>
    <3>1. replay[t] \in Seq(Event)
      BY DEF HubShape
    <3> QED
      BY <1>3, <3>1
  <2>5. Len(lru') <= MaxReplay
    BY <1>1, <2>1, <2>2, <2>3
  <2>6. \A x \in HubTasks : x \in Range(lru') <=> replay'[x] # <<>>
    BY <1>3, <2>1, <2>2, <2>3, <2>4 DEF HubIndexed
  <2> QED
    BY <1>2, <2>2, <2>3, <2>5, <2>6 DEF HubIndexed
<1>4. CASE /\ t \notin Range(lru) /\ Len(lru) < MaxReplay /\ lru' = Append(lru, t)
           /\ \A x \in HubTasks \ {t} : replay'[x] = replay[x]
           /\ replay'[t] = <<ev>>
  <2>1. /\ lru' \in Seq(HubTasks) /\ Len(lru') = Len(lru) + 1
        /\ Range(lru') = Range(lru) \cup {t} /\ IsInjective(lru')
    BY <1>1, <1>4, AppendedIs
  <2>2. Len(lru') <= MaxReplay
    BY <1>1, <1>4, <2>1, BoundsAre
  <2>3. \A x \in HubTasks : x \in Range(lru') <=> replay'[x] # <<>>
    BY <1>4, <2>1 DEF HubIndexed
  <2> QED
    BY <1>2, <2>1, <2>2, <2>3 DEF HubIndexed
<1>5. CASE /\ t \notin Range(lru) /\ Len(lru) >= MaxReplay /\ lru' = Append(Tail(lru), t)
           /\ lru # <<>> /\ Head(lru) \in HubTasks \ {t} /\ replay'[Head(lru)] = <<>>
           /\ \A x \in HubTasks \ {t, Head(lru)} : replay'[x] = replay[x]
           /\ replay'[t] = <<ev>>
  <2> DEFINE s == Tail(lru)
  <2>1. s \in Seq(HubTasks) /\ Len(s) = Len(lru) - 1 /\ Range(s) = Range(lru) \ {Head(lru)} /\ IsInjective(s)
    BY <1>1, <1>5, TailIs
  <2> HIDE DEF s
  <2>2. /\ Append(s, t) \in Seq(HubTasks) /\ Len(Append(s, t)) = Len(s) + 1
        /\ Range(Append(s, t)) = Range(s) \cup {t} /\ IsInjective(Append(s, t))
    BY <1>5, <2>1, AppendedIs
  <2>3. lru' = Append(s, t)
    BY <1>5 DEF s
  <2>4. Len(lru') <= MaxReplay
    BY <1>1, <2>1, <2>2, <2>3
  <2>5. ASSUME NEW x \in HubTasks PROVE x \in Range(lru') <=> replay'[x] # <<>>
    <3>1. x \in Range(lru') <=> x = t \/ (x \in Range(lru) /\ x # Head(lru))
      BY <2>1, <2>2, <2>3
    <3>2. CASE x = t
      <4>1. replay'[t] # <<>>
        BY <1>5
      <4> QED
        BY <3>1, <3>2, <4>1
    <3>3. CASE x = Head(lru)
      <4> DEFINE h == Head(lru)
      <4>1. replay'[h] = <<>> /\ h # t
        BY <1>5
      <4>2. x = h /\ (x \in Range(lru') <=> x = t \/ (x \in Range(lru) /\ x # h))
        BY <3>1, <3>3
      <4> HIDE DEF h
      <4> QED
        BY <4>1, <4>2
    <3>4. CASE x # t /\ x # Head(lru)
      BY <1>5, <3>1, <3>4 DEF HubIndexed
    <3> QED
      BY <3>2, <3>3, <3>4
  <2> QED
    BY <1>2, <2>2, <2>3, <2>4, <2>5 DEF HubIndexed
<1> QED
  BY <1>1, <1>2, <1>3, <1>4, <1>5, RememberIs

LEMMA PublishKeepsHub ==
    ASSUME HubInv, NEW t \in HubTasks, PublishStatus(t) \/ PublishToken(t)
    PROVE  HubInv'
<1>1. PICK ev \in Event : ev.no = sent[t] + 1 /\ Publish(t, ev) /\ written' = written
  BY PublishedIs DEF HubInv
<1>2. /\ conn' \in [Clients -> Conn] /\ \A c \in Clients : conn'[c].pc = conn[c].pc
      /\ sent' = [sent EXCEPT ![t] = ev.no] /\ UNCHANGED <<subs, subCount, userSubs>>
  BY <1>1, PublishIs DEF HubInv, Publish
<1>3. HubIndexed' /\ replay' \in [HubTasks -> Seq(Event)]
  <2>1. CASE UNCHANGED <<replay, lru>>
    BY <2>1 DEF HubInv, HubShape, HubIndexed
  <2>2. CASE Remember(t, ev)
    BY <2>2, RememberIndexed DEF HubInv
  <2> QED
    BY <1>1, <2>1, <2>2 DEF Publish
<1>4. HubCounted'
  BY <1>2 DEF HubInv, HubCounted
<1>5. /\ sent' \in [HubTasks -> 0..MaxEvents] /\ \A x \in HubTasks : written'[x] <= sent'[x] + 1
  <2>1. ev.no \in 1..MaxEvents /\ sent \in [HubTasks -> 0..MaxEvents] /\ written \in [HubTasks -> 0..MaxEvents]
    BY DEF Event, HubInv, HubShape
  <2>2. \A x \in HubTasks : written[x] <= sent[x] + 1
    BY DEF HubInv, HubShape
  <2> QED
    BY <1>1, <1>2, <2>1, <2>2, BoundsAre
<1>6. HubShape'
  BY <1>1, <1>2, <1>3, <1>5 DEF HubInv, HubShape
<1> QED
  BY <1>3, <1>4, <1>6 DEF HubInv

LEMMA WriteKeepsHub ==
    ASSUME HubInv, NEW t \in HubTasks, WriteStatus(t)
    PROVE  HubInv'
<1>1. /\ sent[t] < MaxEvents /\ written' = [written EXCEPT ![t] = sent[t] + 1]
      /\ UNCHANGED <<sent, replay, lru, subs, subCount, userSubs, conn>>
  BY DEF WriteStatus
<1>2. sent[t] \in 0..MaxEvents
  BY DEF HubInv, HubShape
<1>3. HubShape'
  BY <1>1, <1>2, BoundsAre DEF HubInv, HubShape
<1> QED
  BY <1>1, <1>3 DEF HubInv, HubIndexed, HubCounted

LEMMA SubsFinite == HubShape => IsFiniteSet(subs) /\ \A u : IsFiniteSet({c \in subs : UserOf[c] = u})
<1> SUFFICES ASSUME HubShape PROVE IsFiniteSet(subs) /\ \A u : IsFiniteSet({c \in subs : UserOf[c] = u})
  OBVIOUS
<1>1. IsFiniteSet(subs)
  BY HubAssumption, FS_Subset DEF HubShape
<1>2. \A u : {c \in subs : UserOf[c] = u} \subseteq subs
  OBVIOUS
<1> QED
  BY <1>1, <1>2, FS_Subset

\* A registration takes one slot of the hub and one of its user.
LEMMA SubscribeKeepsHub ==
    ASSUME HubInv, NEW c \in Clients, Subscribe(c)
    PROVE  HubInv'
<1>1. /\ conn[c].pc = "new" /\ Other(c) /\ conn' \in [Clients -> Conn] /\ conn'[c].pc = "replaying"
      /\ subs' = subs \cup {c} /\ subCount' = subCount + 1 /\ Admitted(c)
      /\ userSubs' = [userSubs EXCEPT ![UserOf[c]] = userSubs[UserOf[c]] + 1]
      /\ UNCHANGED <<written, sent, replay, lru>>
  BY SubscribeIs DEF HubInv, Subscribe
<1>2. c \notin subs /\ UserOf[c] \in HubUsers
  BY <1>1 DEF HubInv, HubShape, HubUsers
<1>3. HubShape'
  BY <1>1 DEF HubInv, HubShape, Other
<1>4. HubIndexed'
  BY <1>1 DEF HubInv, HubIndexed
<1>5. Cardinality(subs') = Cardinality(subs) + 1 /\ Cardinality(subs) \in Nat
  <2>1. IsFiniteSet(subs)
    BY SubsFinite DEF HubInv
  <2> QED
    BY <1>1, <1>2, <2>1, FS_AddElement, FS_CardinalityType
<1>6. ASSUME NEW u \in HubUsers
      PROVE  /\ userSubs'[u] = Cardinality({d \in subs' : UserOf[d] = u})
             /\ userSubs'[u] <= MaxPerUser
  <2> DEFINE S == {d \in subs : UserOf[d] = u}
             Z == {d \in subs' : UserOf[d] = u}
  <2>1. IsFiniteSet(S) /\ userSubs[u] = Cardinality(S) /\ userSubs[u] <= MaxPerUser /\ userSubs[u] \in Int
    BY SubsFinite DEF HubInv, HubCounted
  <2>2. CASE u = UserOf[c]
    <3>1. Z = S \cup {c} /\ c \notin S
      BY <1>1, <1>2, <2>2
    <3> HIDE DEF S, Z
    <3>2. Cardinality(Z) = Cardinality(S) + 1
      BY <2>1, <3>1, FS_AddElement
    <3>3. userSubs'[u] = userSubs[u] + 1 /\ userSubs[u] < MaxPerUser
      BY <1>1, <2>2 DEF Admitted, HubInv, HubCounted
    <3> QED
      BY <2>1, <3>2, <3>3, BoundsAre DEF Z
  <2>3. CASE u # UserOf[c]
    <3>1. Z = S
      BY <1>1, <2>3
    <3>2. userSubs'[u] = userSubs[u]
      BY <1>1, <2>3 DEF HubInv, HubCounted
    <3> QED
      BY <2>1, <3>1, <3>2
  <2> QED
    BY <2>2, <2>3
<1>7. userSubs' \in [HubUsers -> Int]
  BY <1>1, <1>2 DEF HubInv, HubCounted
<1>8. subCount' = Cardinality(subs') /\ subCount' <= MaxTotal
  BY <1>1, <1>5, BoundsAre DEF Admitted, HubInv, HubCounted
<1>9. HubCounted'
  BY <1>6, <1>7, <1>8 DEF HubCounted
<1> QED
  BY <1>3, <1>4, <1>9 DEF HubInv

\* A connection that ends gives both slots back, and the last one of a task takes the buffer along.
LEMMA UnsubscribeKeepsHub ==
    ASSUME HubInv, NEW c \in Clients, Unsubscribe(c)
    PROVE  HubInv'
<1> DEFINE t == TaskOf[c]
<1>1. /\ conn[c].pc = "streaming" /\ conn' = [conn EXCEPT ![c] = Idle]
      /\ subs' = subs \ {c} /\ subCount' = subCount - 1
      /\ userSubs' = [userSubs EXCEPT ![UserOf[c]] = userSubs[UserOf[c]] - 1]
      /\ written' = written /\ sent' = sent
      /\ \/ replay' = replay /\ lru' = lru
         \/ replay' = [replay EXCEPT ![t] = <<>>] /\ lru' = Unlisted(lru, t)
  BY DEF Unsubscribe
<1>2. c \in subs /\ UserOf[c] \in HubUsers /\ t \in HubTasks
  BY <1>1 DEF HubInv, HubShape, HubUsers, HubTasks
<1>3. conn' \in [Clients -> Conn] /\ conn'[c].pc = "new" /\ \A d \in Clients \ {c} : conn'[d] = conn[d]
  BY <1>1, IdleIs DEF HubInv, HubShape
<1>4. replay' \in [HubTasks -> Seq(Event)]
  <2>1. replay \in [HubTasks -> Seq(Event)] /\ <<>> \in Seq(Event)
    BY DEF HubInv, HubShape
  <2> QED
    BY <1>1, <2>1
<1>5. HubShape'
  BY <1>1, <1>3, <1>4 DEF HubInv, HubShape
<1>6. HubIndexed'
  <2>1. CASE replay' = replay /\ lru' = lru
    BY <2>1 DEF HubInv, HubIndexed
  <2>2. CASE replay' = [replay EXCEPT ![t] = <<>>] /\ lru' = Unlisted(lru, t)
    <3>1. lru \in Seq(HubTasks) /\ IsInjective(lru) /\ Len(lru) <= MaxReplay /\ Len(lru) \in Nat
      BY DEF HubInv, HubIndexed
    <3>2. /\ lru' \in Seq(HubTasks) /\ Len(lru') <= Len(lru) /\ Len(lru') \in Nat
          /\ Range(lru') = Range(lru) \ {t} /\ IsInjective(lru')
      <4>1. CASE t \in Range(lru)
        <5> DEFINE s == Unlisted(lru, t)
        <5>1. s \in Seq(HubTasks) /\ Len(s) = Len(lru) - 1 /\ Range(s) = Range(lru) \ {t} /\ IsInjective(s)
          BY <3>1, <4>1, UnlistedIs
        <5> HIDE DEF s
        <5>2. lru' = s
          BY <2>2 DEF s
        <5> QED
          BY <3>1, <5>1, <5>2
      <4>2. CASE t \notin Range(lru)
        BY <2>2, <3>1, <4>2 DEF Unlisted
      <4> QED
        BY <4>1, <4>2
    <3>3. replay'[t] = <<>> /\ \A x \in HubTasks \ {t} : replay'[x] = replay[x]
      BY <1>2, <2>2 DEF HubInv, HubShape
    <3>4. \A x \in HubTasks : x \in Range(lru') <=> replay'[x] # <<>>
      BY <3>2, <3>3 DEF HubInv, HubIndexed
    <3>5. Len(lru') <= MaxReplay
      BY <3>1, <3>2, BoundsAre
    <3> QED
      BY <3>2, <3>4, <3>5 DEF HubIndexed
  <2> QED
    BY <1>1, <2>1, <2>2
<1>7. Cardinality(subs') = Cardinality(subs) - 1 /\ Cardinality(subs) \in Nat
  <2>1. IsFiniteSet(subs)
    BY SubsFinite DEF HubInv
  <2> QED
    BY <1>1, <1>2, <2>1, FS_RemoveElement, FS_CardinalityType
<1>8. ASSUME NEW u \in HubUsers
      PROVE  /\ userSubs'[u] = Cardinality({d \in subs' : UserOf[d] = u})
             /\ userSubs'[u] <= MaxPerUser
  <2> DEFINE S == {d \in subs : UserOf[d] = u}
             Z == {d \in subs' : UserOf[d] = u}
  <2>1. IsFiniteSet(S) /\ userSubs[u] = Cardinality(S) /\ userSubs[u] <= MaxPerUser /\ userSubs[u] \in Int
    BY SubsFinite DEF HubInv, HubCounted
  <2>2. CASE u = UserOf[c]
    <3>1. Z = S \ {c} /\ c \in S
      BY <1>1, <1>2, <2>2
    <3> HIDE DEF S, Z
    <3>2. Cardinality(Z) = Cardinality(S) - 1
      BY <2>1, <3>1, FS_RemoveElement
    <3>3. userSubs'[u] = userSubs[u] - 1
      BY <1>1, <2>2 DEF HubInv, HubCounted
    <3> QED
      BY <2>1, <3>2, <3>3, BoundsAre DEF Z
  <2>3. CASE u # UserOf[c]
    <3>1. Z = S
      BY <1>1, <2>3
    <3>2. userSubs'[u] = userSubs[u]
      BY <1>1, <2>3 DEF HubInv, HubCounted
    <3> QED
      BY <2>1, <3>1, <3>2
  <2> QED
    BY <2>2, <2>3
<1>9. userSubs' \in [HubUsers -> Int]
  BY <1>1, <1>2 DEF HubInv, HubCounted
<1>10. subCount' = Cardinality(subs') /\ subCount' <= MaxTotal
  BY <1>1, <1>7, BoundsAre DEF HubInv, HubCounted
<1>11. HubCounted'
  BY <1>8, <1>9, <1>10 DEF HubCounted
<1> QED
  BY <1>5, <1>6, <1>11 DEF HubInv

LEMMA HubInitial == HubInit => HubInv
<1> SUFFICES ASSUME HubInit PROVE HubInv
  OBVIOUS
<1>1. HubShape
  BY IdleIs, BoundsAre DEF HubInit, HubShape
<1>2. HubIndexed
  BY BoundsAre DEF HubInit, HubIndexed, IsInjective, Range
<1>3. Cardinality({}) = 0
  BY FS_EmptySet
<1>4. \A u : {c \in subs : UserOf[c] = u} = {}
  BY DEF HubInit
<1>5. HubCounted
  BY <1>3, <1>4, BoundsAre DEF HubInit, HubCounted
<1> QED
  BY <1>1, <1>2, <1>5 DEF HubInv

LEMMA HubInductive == HubInv /\ [HubNext]_hubVars => HubInv'
<1> SUFFICES ASSUME HubInv, [HubNext]_hubVars PROVE HubInv'
  OBVIOUS
<1>1. ASSUME NEW c \in Clients, Replay(c) \/ Snapshot(c) \/ Receive(c) PROVE HubInv'
  <2>1. HubShape'
    BY <1>1, StepKeepsConn DEF HubInv
  <2>2. UNCHANGED <<replay, lru, subs, subCount, userSubs>>
    BY <1>1 DEF Replay, Snapshot, Receive
  <2> QED
    BY <2>1, <2>2 DEF HubInv, HubIndexed, HubCounted
<1>2. CASE UNCHANGED hubVars
  BY <1>2 DEF hubVars, HubInv, HubShape, HubIndexed, HubCounted
<1> QED
  BY <1>1, <1>2, WriteKeepsHub, PublishKeepsHub, SubscribeKeepsHub, UnsubscribeKeepsHub DEF HubNext

\* The slots of the hub and the index of its buffers never leak and never overrun, for any clients,
\* users, tasks and limits (hub.go:117-138, 282-303).
THEOREM AccountsKept == HubSpec => []HubAccounts
<1>1. HubInv => HubAccounts
  <2> SUFFICES ASSUME HubInv PROVE HubAccounts
    OBVIOUS
  <2>1. lru \in Seq(HubTasks) /\ IsInjective(lru)
    BY DEF HubInv, HubIndexed
  <2>2. Len(lru) = Cardinality(Range(lru)) /\ Range(lru) \subseteq HubTasks
    BY <2>1, RangeCount DEF Range
  <2>3. Range(lru) = {t \in HubTasks : replay[t] # <<>>}
    BY <2>2 DEF HubInv, HubIndexed
  <2> QED
    BY <2>2, <2>3 DEF HubAccounts, HubInv, HubIndexed, HubCounted
<1> QED
  BY <1>1, HubInitial, HubInductive, PTL DEF HubSpec

-----------------------------------------------------------------------------
(* The events a browser is shown. *)

\* No two events of s have the same number.
Once(s) == \A i, j \in DOMAIN s : s[i].no = s[j].no => i = j

LEMMA NumbersAppend ==
    ASSUME NEW s \in Seq(Event), NEW e \in Event
    PROVE  /\ Append(s, e) \in Seq(Event) /\ Numbers(Append(s, e)) = Numbers(s) \cup {e.no}
           /\ Once(s) /\ e.no \notin Numbers(s) => Once(Append(s, e))
<1> DEFINE r == Append(s, e)
<1>1. /\ r \in Seq(Event) /\ Len(s) \in Nat /\ DOMAIN r = 1..(Len(s) + 1) /\ DOMAIN s = 1..Len(s)
      /\ r[Len(s) + 1] = e /\ \A k \in 1..Len(s) : r[k] = s[k]
  OBVIOUS
<1> HIDE DEF r
<1>2. \A k \in DOMAIN r : k \in DOMAIN s \/ k = Len(s) + 1
  BY <1>1
<1>3. \A k \in DOMAIN s : k \in DOMAIN r
  BY <1>1
<1>4. Len(s) + 1 \in DOMAIN r
  BY <1>1
<1>5. Numbers(r) = Numbers(s) \cup {e.no}
  BY <1>1, <1>2, <1>3, <1>4 DEF Numbers
<1>6. Once(s) /\ e.no \notin Numbers(s) => Once(r)
  BY <1>1, <1>2 DEF Numbers, Once
<1> QED
  BY <1>1, <1>5, <1>6 DEF r

LEMMA NumbersTail ==
    ASSUME NEW s \in Seq(Event), s # <<>>
    PROVE  /\ Head(s) \in Event /\ Tail(s) \in Seq(Event)
           /\ Numbers(s) = Numbers(Tail(s)) \cup {Head(s).no}
           /\ Once(s) => Once(Tail(s)) /\ Head(s).no \notin Numbers(Tail(s))
<1> DEFINE r == Tail(s)
           h == Head(s)
<1>1. /\ r \in Seq(Event) /\ Len(s) \in Nat \ {0} /\ DOMAIN r = 1..(Len(s) - 1) /\ DOMAIN s = 1..Len(s)
      /\ h = s[1] /\ h \in Event /\ \A k \in 1..(Len(s) - 1) : r[k] = s[k + 1]
  OBVIOUS
<1> HIDE DEF r, h
<1>2. 1 \in DOMAIN s /\ \A k \in DOMAIN s : k = 1 \/ (k - 1 \in DOMAIN r /\ r[k - 1] = s[k])
  BY <1>1
<1>3. \A k \in DOMAIN r : k + 1 \in DOMAIN s /\ k + 1 # 1 /\ r[k] = s[k + 1]
  BY <1>1
<1>4. Numbers(s) = Numbers(r) \cup {h.no}
  BY <1>1, <1>2, <1>3 DEF Numbers
<1>5. ASSUME Once(s) PROVE Once(r) /\ h.no \notin Numbers(r)
  <2>1. \A k, m \in DOMAIN r : k + 1 = m + 1 => k = m
    BY <1>1
  <2>2. Once(r)
    BY <1>3, <1>5, <2>1 DEF Once
  <2>3. ASSUME NEW k \in DOMAIN r PROVE r[k].no # h.no
    <3>1. k + 1 \in DOMAIN s /\ 1 \in DOMAIN s /\ k + 1 # 1 /\ r[k] = s[k + 1] /\ h = s[1]
      BY <1>1, <1>2, <1>3
    <3> QED
      BY <1>5, <3>1 DEF Once
  <2> QED
    BY <2>2, <2>3 DEF Numbers
<1> QED
  BY <1>1, <1>4, <1>5 DEF r, h

\* Joining sequences.
LEMMA Joined ==
    ASSUME NEW s \in Seq(Event), NEW q \in Seq(Event)
    PROVE  /\ s \o q \in Seq(Event) /\ Numbers(s \o q) = Numbers(s) \cup Numbers(q)
           /\ Once(s) /\ Once(q) /\ Numbers(s) \cap Numbers(q) = {} => Once(s \o q)
<1> DEFINE r == s \o q
<1>1. /\ r \in Seq(Event) /\ Len(r) = Len(s) + Len(q)
      /\ \A k \in 1..(Len(s) + Len(q)) : r[k] = IF k <= Len(s) THEN s[k] ELSE q[k - Len(s)]
  BY ConcatProperties
<1> HIDE DEF r
<1>2. Len(s) \in Nat /\ Len(q) \in Nat /\ DOMAIN s = 1..Len(s) /\ DOMAIN q = 1..Len(q) /\ DOMAIN r = 1..(Len(s) + Len(q))
  BY <1>1
<1>3. \A k \in DOMAIN s : k \in DOMAIN r /\ r[k] = s[k]
  BY <1>1, <1>2
<1>4. \A k \in DOMAIN q : k + Len(s) \in DOMAIN r /\ r[k + Len(s)] = q[k]
  <2> TAKE k \in DOMAIN q
  <2>1. k + Len(s) \in 1..(Len(s) + Len(q)) /\ ~(k + Len(s) <= Len(s)) /\ (k + Len(s)) - Len(s) = k
    BY <1>2
  <2> QED
    BY <1>1, <1>2, <2>1
<1>5. \A k \in DOMAIN r : \/ k \in DOMAIN s /\ r[k] = s[k]
                          \/ k - Len(s) \in DOMAIN q /\ r[k] = q[k - Len(s)] /\ k \notin DOMAIN s
  BY <1>1, <1>2
<1>6. Numbers(r) = Numbers(s) \cup Numbers(q)
  BY <1>3, <1>4, <1>5 DEF Numbers
<1>7. ASSUME Once(s), Once(q), Numbers(s) \cap Numbers(q) = {} PROVE Once(r)
  <2> SUFFICES ASSUME NEW k \in DOMAIN r, NEW m \in DOMAIN r, r[k].no = r[m].no PROVE k = m
    BY DEF Once
  <2>1. \A i \in DOMAIN s, j \in DOMAIN q : s[i].no # q[j].no
    BY <1>7 DEF Numbers
  <2>2. k \in Int /\ m \in Int
    BY <1>2
  <2>3. CASE k \in DOMAIN s /\ m \in DOMAIN s
    BY <1>3, <1>7, <2>3 DEF Once
  <2>4. CASE k \notin DOMAIN s /\ m \notin DOMAIN s
    <3>1. k - Len(s) \in DOMAIN q /\ m - Len(s) \in DOMAIN q /\ q[k - Len(s)].no = q[m - Len(s)].no
      BY <1>5, <2>4
    <3>2. k - Len(s) = m - Len(s)
      BY <1>7, <3>1 DEF Once
    <3> QED
      BY <1>2, <2>2, <3>2
  <2> QED
    BY <1>5, <2>1, <2>3, <2>4
<1> QED
  BY <1>1, <1>6, <1>7 DEF r

\* As many numbers as events.
LEMMA OnceDistinct ==
    ASSUME NEW s \in Seq(Event), Once(s)
    PROVE  Distinct(s)
<1> DEFINE f == [i \in 1..Len(s) |-> s[i].no]
<1>1. Len(s) \in Nat /\ DOMAIN s = 1..Len(s) /\ \A i \in 1..Len(s) : s[i] \in Event
  OBVIOUS
<1>0. \A i \in 1..Len(s) : s[i].no \in Int
  BY <1>1 DEF Event
<1>2. f \in Seq(Int) /\ Len(f) = Len(s) /\ DOMAIN f = 1..Len(s)
  BY <1>0, <1>1
<1>3. IsInjective(f)
  BY <1>1 DEF IsInjective, Once
<1>4. Range(f) = Numbers(s)
  BY <1>1 DEF Range, Numbers
<1> HIDE DEF f
<1> QED
  BY <1>2, <1>3, <1>4, RangeCount DEF Distinct

LEMMA JoinAppend ==
    ASSUME NEW s \in Seq(Event), NEW q \in Seq(Event), NEW e \in Event
    PROVE  s \o Append(q, e) = Append(s \o q, e)
<1> DEFINE a == Append(q, e)
           l == s \o a
           b == s \o q
           r == Append(b, e)
<1>1. /\ a \in Seq(Event) /\ Len(a) = Len(q) + 1 /\ a[Len(q) + 1] = e /\ \A k \in 1..Len(q) : a[k] = q[k]
      /\ Len(s) \in Nat /\ Len(q) \in Nat
  OBVIOUS
<1> HIDE DEF a
<1>2. /\ l \in Seq(Event) /\ Len(l) = Len(s) + Len(a)
      /\ \A k \in 1..(Len(s) + Len(a)) : l[k] = IF k <= Len(s) THEN s[k] ELSE a[k - Len(s)]
  BY <1>1, ConcatProperties
<1>3. /\ b \in Seq(Event) /\ Len(b) = Len(s) + Len(q)
      /\ \A k \in 1..(Len(s) + Len(q)) : b[k] = IF k <= Len(s) THEN s[k] ELSE q[k - Len(s)]
  BY ConcatProperties
<1> HIDE DEF l, b
<1>4. /\ r \in Seq(Event) /\ Len(r) = Len(b) + 1 /\ r[Len(b) + 1] = e /\ \A k \in 1..Len(b) : r[k] = b[k]
  BY <1>3
<1> HIDE DEF r
<1>5. ASSUME NEW k \in 1..(Len(s) + Len(q) + 1) PROVE l[k] = r[k]
  <2>1. k \in Int
    OBVIOUS
  <2>2. CASE k <= Len(s)
    <3>1. k \in 1..(Len(s) + Len(a)) /\ k \in 1..(Len(s) + Len(q)) /\ k \in 1..Len(b)
      BY <1>1, <1>3, <2>2
    <3> QED
      BY <1>2, <1>3, <1>4, <2>2, <3>1
  <2>3. CASE k > Len(s) /\ k <= Len(s) + Len(q)
    <3>1. /\ k \in 1..(Len(s) + Len(a)) /\ k \in 1..(Len(s) + Len(q)) /\ k \in 1..Len(b)
          /\ ~(k <= Len(s)) /\ k - Len(s) \in 1..Len(q)
      BY <1>1, <1>3, <2>3
    <3> QED
      BY <1>1, <1>2, <1>3, <1>4, <3>1
  <2>4. CASE k = Len(s) + Len(q) + 1
    <3>1. k \in 1..(Len(s) + Len(a)) /\ ~(k <= Len(s)) /\ k - Len(s) = Len(q) + 1 /\ k = Len(b) + 1
      BY <1>1, <1>3, <2>4
    <3> QED
      BY <1>1, <1>2, <1>4, <3>1
  <2> QED
    BY <1>1, <2>1, <2>2, <2>3, <2>4
<1>6. Len(l) = Len(s) + Len(q) + 1 /\ Len(r) = Len(s) + Len(q) + 1
  BY <1>1, <1>2, <1>3, <1>4
<1>7. l = r
  BY <1>2, <1>4, <1>5, <1>6, SeqEqual
<1> QED
  BY <1>7 DEF l, r, a, b

LEMMA JoinShift ==
    ASSUME NEW s \in Seq(Event), NEW q \in Seq(Event), q # <<>>
    PROVE  Append(s, Head(q)) \o Tail(q) = s \o q
<1> DEFINE a == Append(s, Head(q))
           z == Tail(q)
           l == a \o z
           r == s \o q
<1>1. /\ a \in Seq(Event) /\ Len(a) = Len(s) + 1 /\ a[Len(s) + 1] = q[1] /\ \A k \in 1..Len(s) : a[k] = s[k]
      /\ z \in Seq(Event) /\ Len(z) = Len(q) - 1 /\ \A k \in 1..(Len(q) - 1) : z[k] = q[k + 1]
      /\ Len(s) \in Nat /\ Len(q) \in Nat \ {0}
  OBVIOUS
<1> HIDE DEF a, z
<1>2. /\ l \in Seq(Event) /\ Len(l) = Len(a) + Len(z)
      /\ \A k \in 1..(Len(a) + Len(z)) : l[k] = IF k <= Len(a) THEN a[k] ELSE z[k - Len(a)]
  BY <1>1, ConcatProperties
<1>3. /\ r \in Seq(Event) /\ Len(r) = Len(s) + Len(q)
      /\ \A k \in 1..(Len(s) + Len(q)) : r[k] = IF k <= Len(s) THEN s[k] ELSE q[k - Len(s)]
  BY ConcatProperties
<1> HIDE DEF l, r
<1>4. ASSUME NEW k \in 1..(Len(s) + Len(q)) PROVE l[k] = r[k]
  <2>1. k \in Int /\ k \in 1..(Len(a) + Len(z))
    BY <1>1
  <2>2. CASE k <= Len(s)
    <3>1. k <= Len(a) /\ k \in 1..Len(s)
      BY <1>1, <2>2
    <3> QED
      BY <1>1, <1>2, <1>3, <2>1, <2>2, <3>1
  <2>3. CASE k = Len(s) + 1
    <3>1. k <= Len(a) /\ ~(k <= Len(s)) /\ k - Len(s) = 1
      BY <1>1, <2>3
    <3> QED
      BY <1>1, <1>2, <1>3, <2>1, <2>3, <3>1
  <2>4. CASE k > Len(s) + 1
    <3>1. ~(k <= Len(a)) /\ ~(k <= Len(s)) /\ k - Len(a) \in 1..(Len(q) - 1) /\ (k - Len(a)) + 1 = k - Len(s)
      BY <1>1, <2>4
    <3>2. l[k] = z[k - Len(a)]
      BY <1>2, <2>1, <3>1
    <3>3. z[k - Len(a)] = q[(k - Len(a)) + 1]
      BY <1>1, <3>1
    <3>4. r[k] = q[k - Len(s)]
      BY <1>1, <1>3, <2>1, <2>4
    <3> QED
      BY <3>1, <3>2, <3>3, <3>4
  <2> QED
    BY <1>1, <2>1, <2>2, <2>3, <2>4
<1>5. Len(l) = Len(s) + Len(q)
  BY <1>1, <1>2
<1>6. l = r
  BY <1>2, <1>3, <1>4, <1>5, SeqEqual
<1> QED
  BY <1>6 DEF l, r, a, z

LEMMA NumbersAre ==
    ASSUME NEW s \in Seq(Event)
    PROVE  Numbers(s) \subseteq Nat
<1>1. \A i \in DOMAIN s : s[i] \in Event
  OBVIOUS
<1>2. \A e \in Event : e.no \in Nat
  BY BoundsAre DEF Event
<1> QED
  BY <1>1, <1>2 DEF Numbers

LEMMA NoNumbers == Numbers(<<>>) = {} /\ Once(<<>>) /\ <<>> \in Seq(Event)
BY DEF Numbers, Once

LEMMA OneNumber ==
    ASSUME NEW e \in Event
    PROVE  <<e>> \in Seq(Event) /\ Numbers(<<e>>) = {e.no} /\ Once(<<e>>)
<1>1. <<e>> \in Seq(Event) /\ DOMAIN <<e>> = {1} /\ <<e>>[1] = e
  OBVIOUS
<1> DEFINE s == <<e>>
<1> HIDE DEF s
<1>2. s \in Seq(Event) /\ DOMAIN s = {1} /\ s[1] = e
  BY <1>1 DEF s
<1>3. Numbers(s) = {e.no} /\ Once(s)
  BY <1>2 DEF Numbers, Once
<1> QED
  BY <1>1, <1>3 DEF s

\* What connection k has been told of a task whose last event is n and whose status events are st.
Told(k, n, st) ==
    /\ k.since <= n
    /\ Once(Arrived(k)) /\ Once(k.backlog)
    /\ \A i \in Numbers(Arrived(k)) : i \notin Numbers(k.backlog)
    /\ \A i \in Numbers(Arrived(k)) : i <= n
    /\ \A i \in k.lost : i <= n
    /\ \A i \in Numbers(k.backlog) : i <= k.since
    /\ \A i \in k.since + 1 .. n : i \in k.lost <=> i \notin Numbers(Arrived(k))
    /\ k.pc = "streaming" /\ k.snap # NoSnapshot =>
         \A i \in st : i <= k.snap \/ i \in k.lost \/ i \in Numbers(Arrived(k))

\* The parts of a connection that Told reads.
LEMMA ArrivedIs ==
    ASSUME NEW k \in Conn
    PROVE  /\ Arrived(k) \in Seq(Event) /\ Numbers(Arrived(k)) \subseteq Nat /\ k.lost \subseteq Nat
           /\ k.backlog \in Seq(Event) /\ Numbers(k.backlog) \subseteq Nat /\ k.since \in Nat /\ k.snap \in Int
           /\ k.chan \in Seq(Event) /\ k.seen \in Seq(Event)
<1>1. /\ k.chan \in Seq(Event) /\ k.seen \in Seq(Event) /\ k.backlog \in Seq(Event)
      /\ k.lost \subseteq Nat /\ k.since \in Nat /\ k.snap \in Int
  BY DEF Conn
<1>2. Arrived(k) \in Seq(Event)
  BY <1>1, Joined DEF Arrived
<1> QED
  BY <1>1, <1>2, NumbersAre

\* An event goes into the channel or is counted: Offer, seen from what has arrived.
LEMMA OfferArrives ==
    ASSUME NEW k \in Conn, NEW j \in Conn, NEW e \in Event, j.seen = k.seen,
           \/ j.chan = Append(k.chan, e) /\ j.lost = k.lost
           \/ j.chan = k.chan /\ j.lost = k.lost \cup {e.no}
    PROVE  \/ /\ j.lost = k.lost /\ Numbers(Arrived(j)) = Numbers(Arrived(k)) \cup {e.no}
              /\ Once(Arrived(k)) /\ e.no \notin Numbers(Arrived(k)) => Once(Arrived(j))
           \/ j.lost = k.lost \cup {e.no} /\ Arrived(j) = Arrived(k)
<1>1. k.chan \in Seq(Event) /\ k.seen \in Seq(Event) /\ Arrived(k) \in Seq(Event)
  BY ArrivedIs
<1>2. CASE j.chan = Append(k.chan, e) /\ j.lost = k.lost
  <2>1. k.seen \o Append(k.chan, e) = Append(k.seen \o k.chan, e)
    BY <1>1, JoinAppend
  <2>2. Arrived(j) = Append(Arrived(k), e)
    BY <1>2, <2>1 DEF Arrived
  <2> QED
    BY <1>1, <1>2, <2>2, NumbersAppend
<1>3. CASE j.chan = k.chan /\ j.lost = k.lost \cup {e.no}
  BY <1>3 DEF Arrived
<1> QED
  BY <1>2, <1>3

\* A new event reaches every connection of its task.
LEMMA ToldOffer ==
    ASSUME NEW k \in Conn, NEW n \in Nat, NEW e \in Event, e.no = n + 1, NEW st, NEW new,
           Told(k, n, st), new \subseteq st \cup {n + 1}
    PROVE  Told(Offer(k, e), n + 1, new)
<1> DEFINE j == Offer(k, e)
<1>1. /\ j \in Conn /\ j.pc = k.pc /\ j.backlog = k.backlog /\ j.seen = k.seen
      /\ j.since = k.since /\ j.snap = k.snap
      /\ \/ j.chan = Append(k.chan, e) /\ j.lost = k.lost
         \/ j.chan = k.chan /\ j.lost = k.lost \cup {e.no}
  BY OfferIs
<1> HIDE DEF j
<1> DEFINE A == Numbers(Arrived(k))
           B == Numbers(Arrived(j))
           L == Numbers(k.backlog)
<1>2. \/ j.lost = k.lost /\ B = A \cup {e.no} /\ (Once(Arrived(k)) /\ e.no \notin A => Once(Arrived(j)))
      \/ j.lost = k.lost \cup {e.no} /\ B = A /\ (Once(Arrived(k)) => Once(Arrived(j)))
  BY <1>1, OfferArrives
<1>3. A \subseteq Nat /\ L \subseteq Nat /\ k.lost \subseteq Nat /\ k.since \in Nat /\ k.snap \in Int
  BY ArrivedIs
<1>4. /\ k.since <= n /\ Once(Arrived(k)) /\ Once(k.backlog)
      /\ \A i \in A : i \notin L /\ i <= n
      /\ \A i \in k.lost : i <= n
      /\ \A i \in L : i <= k.since
      /\ \A i \in k.since + 1 .. n : i \in k.lost <=> i \notin A
      /\ k.pc = "streaming" /\ k.snap # NoSnapshot =>
             \A i \in st : i <= k.snap \/ i \in k.lost \/ i \in A
  BY DEF Told
<1> HIDE DEF A, B, L
<1>5. n + 1 \notin A /\ n + 1 \notin k.lost /\ n + 1 \notin L
  BY <1>3, <1>4
<1>6. B \subseteq A \cup {n + 1} /\ A \subseteq B /\ k.lost \subseteq j.lost /\ j.lost \subseteq k.lost \cup {n + 1}
      /\ (n + 1 \in j.lost <=> n + 1 \notin B)
  BY <1>2, <1>5
<1>7. Once(Arrived(j))
  BY <1>2, <1>4, <1>5
<1>8. \A i \in B : i \notin L /\ i <= n + 1
  BY <1>3, <1>4, <1>5, <1>6
<1>9. \A i \in j.lost : i <= n + 1
  BY <1>3, <1>4, <1>6
<1>10. \A i \in k.since + 1 .. n + 1 : i \in j.lost <=> i \notin B
  <2> TAKE i \in k.since + 1 .. n + 1
  <2>1. CASE i = n + 1
    BY <1>6, <2>1
  <2>2. CASE i # n + 1
    <3>1. i \in k.since + 1 .. n
      BY <1>3, <2>2
    <3> QED
      BY <1>4, <1>6, <2>2, <3>1
  <2> QED
    BY <2>1, <2>2
<1>11. k.pc = "streaming" /\ k.snap # NoSnapshot =>
           \A i \in new : i <= k.snap \/ i \in j.lost \/ i \in B
  BY <1>4, <1>6
<1>12. k.since <= n + 1
  BY <1>3, <1>4
<1> QED
  BY <1>1, <1>4, <1>7, <1>8, <1>9, <1>10, <1>11, <1>12 DEF Told, B, L, j

\* One event of the backlog goes into the channel.
LEMMA ToldReplay ==
    ASSUME NEW k \in Conn, NEW j \in Conn, NEW n \in Nat, NEW st, Told(k, n, st), k.backlog # <<>>,
           j.pc = "replaying", j.since = k.since, j.seen = k.seen, j.backlog = Tail(k.backlog),
           \/ j.chan = Append(k.chan, Head(k.backlog)) /\ j.lost = k.lost
           \/ j.chan = k.chan /\ j.lost = k.lost \cup {Head(k.backlog).no}
    PROVE  Told(j, n, st)
<1> DEFINE e == Head(k.backlog)
           A == Numbers(Arrived(k))
           B == Numbers(Arrived(j))
           L == Numbers(k.backlog)
           M == Numbers(j.backlog)
<1>1. /\ e \in Event /\ L = M \cup {e.no} /\ (Once(k.backlog) => Once(j.backlog) /\ e.no \notin M)
  BY ArrivedIs, NumbersTail
<1>2. \/ j.lost = k.lost /\ B = A \cup {e.no} /\ (Once(Arrived(k)) /\ e.no \notin A => Once(Arrived(j)))
      \/ j.lost = k.lost \cup {e.no} /\ B = A /\ (Once(Arrived(k)) => Once(Arrived(j)))
  BY <1>1, OfferArrives
<1>3. A \subseteq Nat /\ L \subseteq Nat /\ k.lost \subseteq Nat /\ k.since \in Nat
  BY ArrivedIs
<1>4. /\ k.since <= n /\ Once(Arrived(k)) /\ Once(k.backlog)
      /\ \A i \in A : i \notin L /\ i <= n
      /\ \A i \in k.lost : i <= n
      /\ \A i \in L : i <= k.since
      /\ \A i \in k.since + 1 .. n : i \in k.lost <=> i \notin A
  BY DEF Told
<1> HIDE DEF e, A, B, L, M
<1>5. e.no \notin A /\ e.no \notin M /\ e.no <= k.since /\ e.no \in Nat
  BY <1>1, <1>3, <1>4
<1>6. Once(Arrived(j)) /\ Once(j.backlog)
  BY <1>1, <1>2, <1>4, <1>5
<1>7. \A i \in B : i \notin M /\ i <= n
  <2>1. e.no <= n /\ \A i \in M : i \in L
    BY <1>1, <1>3, <1>4, <1>5
  <2> QED
    BY <1>2, <1>4, <1>5, <2>1
<1>8. \A i \in j.lost : i <= n
  BY <1>2, <1>3, <1>4, <1>5
<1>9. \A i \in M : i <= k.since
  BY <1>1, <1>4
<1>10. \A i \in k.since + 1 .. n : i # e.no
  BY <1>3, <1>5
<1>11. \A i \in k.since + 1 .. n : i \in j.lost <=> i \notin B
  BY <1>2, <1>4, <1>10
<1> QED
  BY <1>4, <1>6, <1>7, <1>8, <1>9, <1>11 DEF Told, B, M

\* Neither the snapshot nor the reader changes what has arrived.
LEMMA ToldSame ==
    ASSUME NEW k \in Conn, NEW j \in Conn, NEW n, NEW st, Told(k, n, st), Arrived(j) = Arrived(k),
           j.since = k.since, j.backlog = k.backlog, j.lost = k.lost,
           \/ j.pc # "streaming"
           \/ j.pc = k.pc /\ j.snap = k.snap
           \/ j.snap = NoSnapshot
           \/ \A i \in st : i <= j.snap
    PROVE  Told(j, n, st)
BY DEF Told

\* A new connection.
LEMMA ToldNew ==
    ASSUME NEW k \in Conn, NEW n \in Nat, NEW st, NEW buf \in Seq(Event), Once(buf),
           \A i \in Numbers(buf) : i <= n,
           k.pc = "replaying", k.since = n, k.backlog = buf, k.chan = <<>>, k.seen = <<>>, k.lost = {}
    PROVE  Told(k, n, st)
<1>1. Arrived(k) = <<>>
  <2>1. <<>> \o <<>> = <<>>
    BY NoNumbers, ConcatEmptySeq
  <2> QED
    BY <2>1 DEF Arrived
<1>2. Numbers(Arrived(k)) = {} /\ Once(Arrived(k))
  BY <1>1, NoNumbers
<1>3. k.since + 1 .. n = {}
  OBVIOUS
<1> QED
  BY <1>2, <1>3 DEF Told

\* The buffers hold an event once, the announced statuses are stored; every connection is told of all.
Buffered(t)  == Once(replay[t]) /\ \A i \in Numbers(replay[t]) : i <= sent[t]
Stored(t)    == announced[t] \subseteq {i \in Nat : i <= sent[t] /\ i <= written[t]}
ToldOf(c)    == Told(conn[c], sent[TaskOf[c]], announced[TaskOf[c]])

HubTold ==
    /\ announced \in [HubTasks -> SUBSET Nat]
    /\ \A t \in HubTasks : Buffered(t) /\ Stored(t)
    /\ \A c \in subs : ToldOf(c)

LEMMA TaskIs == \A c \in Clients : TaskOf[c] \in HubTasks
BY DEF HubTasks

LEMMA HubValues ==
    ASSUME HubShape, NEW t \in HubTasks
    PROVE  /\ sent[t] \in Nat /\ written[t] \in Nat /\ written[t] <= sent[t] + 1
           /\ replay[t] \in Seq(Event) /\ Numbers(replay[t]) \subseteq Nat
<1>1. sent[t] \in Nat /\ written[t] \in Nat /\ written[t] <= sent[t] + 1 /\ replay[t] \in Seq(Event)
  BY BoundsAre DEF HubShape
<1> QED
  BY <1>1, NumbersAre

\* What a buffer holds after a status event.
LEMMA RememberTold ==
    ASSUME HubShape, HubIndexed, HubTold, NEW t \in HubTasks, NEW ev \in Event, ev.no = sent[t] + 1,
           Remember(t, ev)
    PROVE  /\ \A x \in HubTasks \ {t} : replay'[x] = replay[x] \/ replay'[x] = <<>>
           /\ Once(replay'[t]) /\ Numbers(replay'[t]) \subseteq Numbers(replay[t]) \cup {ev.no}
<1>1. /\ sent[t] \in Nat /\ replay[t] \in Seq(Event) /\ Numbers(replay[t]) \subseteq Nat
      /\ Once(replay[t]) /\ \A i \in Numbers(replay[t]) : i <= sent[t]
  BY HubValues DEF HubTold, Buffered
<1>2. ev.no \notin Numbers(replay[t])
  BY <1>1
<1>6. /\ \A x \in HubTasks \ {t} : replay'[x] = replay[x] \/ replay'[x] = <<>>
      /\ \/ replay'[t] = Append(replay[t], ev)
         \/ replay[t] # <<>> /\ replay'[t] = Append(Tail(replay[t]), ev)
         \/ replay'[t] = <<ev>>
  <2>1. lru \in Seq(HubTasks)
    BY DEF HubIndexed
  <2> QED
    BY <2>1, RememberIs
<1>3. CASE replay'[t] = Append(replay[t], ev)
  <2>1. /\ Numbers(Append(replay[t], ev)) = Numbers(replay[t]) \cup {ev.no}
        /\ Once(Append(replay[t], ev))
    BY <1>1, <1>2, NumbersAppend
  <2> QED
    BY <1>3, <1>6, <2>1
<1>4. CASE replay[t] # <<>> /\ replay'[t] = Append(Tail(replay[t]), ev)
  <2>1. /\ Tail(replay[t]) \in Seq(Event) /\ Numbers(Tail(replay[t])) \subseteq Numbers(replay[t])
        /\ Once(Tail(replay[t]))
    BY <1>1, <1>4, NumbersTail
  <2>2. /\ Numbers(Append(Tail(replay[t]), ev)) = Numbers(Tail(replay[t])) \cup {ev.no}
        /\ Once(Append(Tail(replay[t]), ev))
    BY <1>2, <2>1, NumbersAppend
  <2> QED
    BY <1>4, <1>6, <2>1, <2>2
<1>5. CASE replay'[t] = <<ev>>
  BY <1>5, <1>6, OneNumber
<1> QED
  BY <1>3, <1>4, <1>5, <1>6

LEMMA PublishTells ==
    ASSUME HubInv, HubTold, NEW t \in HubTasks, PublishStatus(t) \/ PublishToken(t)
    PROVE  HubTold'
<1>1. PICK ev \in Event : /\ ev.no = sent[t] + 1 /\ (~ev.token => ev.no = written[t])
                          /\ Publish(t, ev) /\ written' = written
                          /\ announced' = IF ev.token THEN announced
                                          ELSE [announced EXCEPT ![t] = announced[t] \cup {ev.no}]
  BY PublishedIs DEF HubInv
<1>2. /\ sent' = [sent EXCEPT ![t] = ev.no] /\ subs' = subs
      /\ \A c \in Clients : conn'[c] = IF c \in subs /\ TaskOf[c] = t THEN Offer(conn[c], ev) ELSE conn[c]
  BY <1>1, PublishIs DEF HubInv, Publish
<1>3. sent'[t] = sent[t] + 1 /\ \A x \in HubTasks \ {t} : sent'[x] = sent[x]
  BY <1>1, <1>2 DEF HubInv, HubShape
<1>4. /\ sent[t] \in Nat /\ written[t] \in Nat /\ Once(replay[t])
      /\ \A i \in Numbers(replay[t]) : i \in Nat /\ i <= sent[t]
  BY HubValues DEF HubInv, HubTold, Buffered
<1>5. /\ \A x \in HubTasks \ {t} : replay'[x] = replay[x] \/ replay'[x] = <<>>
      /\ Once(replay'[t])
      /\ \A i \in Numbers(replay'[t]) : i <= sent[t] + 1
  <2>1. CASE ev.token
    <3>1. replay' = replay
      BY <1>1, <2>1 DEF Publish
    <3> QED
      BY <1>4, <3>1
  <2>2. CASE ~ev.token
    <3>1. Remember(t, ev)
      BY <1>1, <2>2 DEF Publish
    <3>2. /\ \A x \in HubTasks \ {t} : replay'[x] = replay[x] \/ replay'[x] = <<>>
          /\ Once(replay'[t]) /\ Numbers(replay'[t]) \subseteq Numbers(replay[t]) \cup {ev.no}
      BY <1>1, <3>1, RememberTold DEF HubInv
    <3> QED
      BY <1>1, <1>4, <3>2
  <2> QED
    BY <2>1, <2>2
<1>8. /\ announced' \in [HubTasks -> SUBSET Nat]
      /\ announced'[t] \subseteq announced[t] \cup {sent[t] + 1}
      /\ \A x \in HubTasks \ {t} : announced'[x] = announced[x]
      /\ sent[t] + 1 \in announced'[t] => sent[t] + 1 \in announced[t] \/ sent[t] + 1 = written[t]
  BY <1>1, <1>4 DEF HubTold
<1>6. ASSUME NEW x \in HubTasks
      PROVE  Buffered(x)' /\ Stored(x)'
  <2>1. CASE x = t
    <3>1. Stored(x)
      BY DEF HubTold
    <3> QED
      BY <1>1, <1>3, <1>4, <1>5, <1>8, <2>1, <3>1 DEF Buffered, Stored
  <2>2. CASE x # t
    <3>1. Stored(x)'
      BY <1>1, <1>3, <1>8, <2>2 DEF HubTold, Stored
    <3>2. CASE replay'[x] = <<>>
      BY <3>1, <3>2, NoNumbers DEF Buffered
    <3>3. CASE replay'[x] = replay[x]
      BY <1>3, <2>2, <3>1, <3>3 DEF HubTold, Buffered
    <3> QED
      BY <1>5, <2>2, <3>2, <3>3
  <2> QED
    BY <2>1, <2>2
<1>7. ASSUME NEW c \in subs'
      PROVE  ToldOf(c)'
  <2>1. c \in subs /\ c \in Clients /\ conn[c] \in Conn /\ ToldOf(c)
    BY <1>2 DEF HubInv, HubShape, HubTold
  <2>2. CASE TaskOf[c] = t
    <3>1. conn'[c] = Offer(conn[c], ev)
      BY <1>2, <2>1, <2>2
    <3>2. Told(conn[c], sent[t], announced[t])
      BY <2>1, <2>2 DEF ToldOf
    <3>3. Told(Offer(conn[c], ev), sent[t] + 1, announced'[t])
      BY <1>1, <1>4, <1>8, <2>1, <3>2, ToldOffer
    <3> QED
      BY <1>3, <2>2, <3>1, <3>3 DEF ToldOf
  <2>3. CASE TaskOf[c] # t
    <3>1. TaskOf[c] \in HubTasks \ {t} /\ conn'[c] = conn[c]
      BY <1>2, <2>1, <2>3, TaskIs
    <3> QED
      BY <1>3, <1>8, <2>1, <3>1 DEF ToldOf
  <2> QED
    BY <2>2, <2>3
<1> QED
  BY <1>6, <1>7, <1>8 DEF HubTold

LEMMA WriteTells ==
    ASSUME HubInv, HubTold, NEW t \in HubTasks, WriteStatus(t)
    PROVE  HubTold'
<1>1. written' = [written EXCEPT ![t] = sent[t] + 1] /\ UNCHANGED <<sent, announced, replay, subs, conn>>
  BY DEF WriteStatus
<1>2. ASSUME NEW x \in HubTasks
      PROVE  Buffered(x)' /\ Stored(x)'
  <2>1. written'[x] = IF x = t THEN sent[t] + 1 ELSE written[x]
    BY <1>1 DEF HubInv, HubShape
  <2>2. sent[x] \in Nat /\ Buffered(x) /\ Stored(x)
    BY HubValues DEF HubInv, HubTold
  <2>3. Buffered(x)'
    BY <1>1, <2>2 DEF Buffered
  <2> QED
    BY <1>1, <2>1, <2>2, <2>3 DEF Stored
<1>3. \A c \in subs' : ToldOf(c)'
  BY <1>1 DEF HubTold, ToldOf
<1> QED
  BY <1>1, <1>2, <1>3 DEF HubTold

\* A step that publishes nothing and may empty buffers.
LEMMA QuietTells ==
    ASSUME HubInv, HubTold, UNCHANGED <<written, sent, announced>>,
           \A x \in HubTasks : replay'[x] = replay[x] \/ replay'[x] = <<>>,
           \A d \in subs' : ToldOf(d)'
    PROVE  HubTold'
<1>1. ASSUME NEW x \in HubTasks PROVE Buffered(x)' /\ Stored(x)'
  <2>1. Buffered(x) /\ Stored(x)
    BY DEF HubTold
  <2>2. CASE replay'[x] = <<>>
    BY <2>1, <2>2, NoNumbers DEF Buffered, Stored
  <2>3. CASE replay'[x] = replay[x]
    BY <2>1, <2>3 DEF Buffered, Stored
  <2> QED
    BY <2>2, <2>3
<1> QED
  BY <1>1 DEF HubTold

LEMMA SubscribeTells ==
    ASSUME HubInv, HubTold, NEW c \in Clients, Subscribe(c)
    PROVE  HubTold'
<1>1. UNCHANGED <<written, sent, announced, replay>> /\ subs' = subs \cup {c}
  BY DEF Subscribe
<1>2. /\ Other(c) /\ conn' \in [Clients -> Conn]
      /\ conn'[c].pc = "replaying" /\ conn'[c].since = sent[TaskOf[c]]
      /\ conn'[c].backlog = replay[TaskOf[c]]
      /\ conn'[c].chan = <<>> /\ conn'[c].seen = <<>> /\ conn'[c].lost = {}
  BY SubscribeIs DEF HubInv
<1>3. /\ sent[TaskOf[c]] \in Nat /\ replay[TaskOf[c]] \in Seq(Event)
      /\ Once(replay[TaskOf[c]]) /\ \A i \in Numbers(replay[TaskOf[c]]) : i <= sent[TaskOf[c]]
  BY TaskIs, HubValues DEF HubInv, HubTold, Buffered
<1>4. Told(conn'[c], sent[TaskOf[c]], announced[TaskOf[c]])
  <2>1. conn'[c] \in Conn
    BY <1>2
  <2> QED
    BY <1>2, <1>3, <2>1, ToldNew
<1>5. \A d \in subs \ {c} : conn'[d] = conn[d]
  BY <1>2 DEF Other, HubInv, HubShape
<1>6. \A d \in subs' : ToldOf(d)'
  BY <1>1, <1>4, <1>5 DEF HubTold, ToldOf
<1> QED
  BY <1>1, <1>6, QuietTells

\* The steps of a registered handler leave everyone else and the buffers alone.
LEMMA OneTold ==
    ASSUME HubInv, HubTold, NEW c \in Clients, Other(c), UNCHANGED <<written, sent, announced, replay, subs>>,
           Told(conn'[c], sent[TaskOf[c]], announced[TaskOf[c]])
    PROVE  HubTold'
<1>1. \A d \in subs \ {c} : conn'[d] = conn[d]
  BY DEF Other, HubInv, HubShape
<1>2. \A d \in subs' : ToldOf(d)'
  BY <1>1 DEF HubTold, ToldOf
<1> QED
  BY <1>2, QuietTells

LEMMA StepTells ==
    ASSUME HubInv, HubTold, NEW c \in Clients, Replay(c) \/ Snapshot(c) \/ Receive(c)
    PROVE  HubTold'
<1>1. UNCHANGED <<written, sent, announced, replay, subs>>
  BY DEF Replay, Snapshot, Receive
<1>2. /\ conn[c] \in Conn /\ conn'[c] \in Conn /\ Other(c) /\ c \in subs
      /\ Told(conn[c], sent[TaskOf[c]], announced[TaskOf[c]])
  <2>1. conn' \in [Clients -> Conn] /\ Other(c) /\ conn[c].pc # "new"
    BY ReplayIs, SnapshotIs, ReceiveIs DEF HubInv
  <2> QED
    BY <2>1 DEF HubInv, HubShape, HubTold, ToldOf
<1>3. TaskOf[c] \in HubTasks /\ sent[TaskOf[c]] \in Nat
  BY TaskIs, HubValues DEF HubInv
<1>4. CASE Replay(c) /\ conn[c].backlog # <<>>
  <2>1. /\ conn'[c].pc = "replaying" /\ conn'[c].since = conn[c].since /\ conn'[c].seen = conn[c].seen
        /\ conn'[c].backlog = Tail(conn[c].backlog)
        /\ \/ conn'[c].chan = Append(conn[c].chan, Head(conn[c].backlog)) /\ conn'[c].lost = conn[c].lost
           \/ conn'[c].chan = conn[c].chan /\ conn'[c].lost = conn[c].lost \cup {Head(conn[c].backlog).no}
    BY <1>4, ReplayIs DEF HubInv
  <2>2. Told(conn'[c], sent[TaskOf[c]], announced[TaskOf[c]])
    BY <1>2, <1>3, <1>4, <2>1, ToldReplay
  <2> QED
    BY <1>1, <1>2, <2>2, OneTold
<1>5. CASE Replay(c) /\ conn[c].backlog = <<>>
  <2>1. /\ conn'[c].pc = "snapshot" /\ conn'[c].since = conn[c].since /\ conn'[c].seen = conn[c].seen
        /\ conn'[c].backlog = conn[c].backlog /\ conn'[c].chan = conn[c].chan /\ conn'[c].lost = conn[c].lost
    BY <1>5, ReplayIs DEF HubInv
  <2>2. Arrived(conn'[c]) = Arrived(conn[c])
    BY <2>1 DEF Arrived
  <2>3. Told(conn'[c], sent[TaskOf[c]], announced[TaskOf[c]])
    BY <1>2, <2>1, <2>2, ToldSame
  <2> QED
    BY <1>1, <1>2, <2>3, OneTold
<1>6. CASE Snapshot(c)
  <2>1. /\ conn'[c].snap \in {written[TaskOf[c]], NoSnapshot} /\ conn'[c].since = conn[c].since
        /\ conn'[c].seen = conn[c].seen
        /\ conn'[c].backlog = conn[c].backlog /\ conn'[c].chan = conn[c].chan /\ conn'[c].lost = conn[c].lost
    BY <1>6, SnapshotIs DEF HubInv
  <2>2. Arrived(conn'[c]) = Arrived(conn[c])
    BY <2>1 DEF Arrived
  <2>3. conn'[c].snap = NoSnapshot \/ \A i \in announced[TaskOf[c]] : i <= conn'[c].snap
    BY <1>3, <2>1 DEF HubTold, Stored
  <2>4. Told(conn'[c], sent[TaskOf[c]], announced[TaskOf[c]])
    BY <1>2, <2>1, <2>2, <2>3, ToldSame
  <2> QED
    BY <1>1, <1>2, <2>4, OneTold
<1>7. CASE Receive(c)
  <2>1. /\ conn[c].chan # <<>> /\ conn'[c].pc = conn[c].pc /\ conn'[c].snap = conn[c].snap
        /\ conn'[c].seen = Append(conn[c].seen, Head(conn[c].chan)) /\ conn'[c].since = conn[c].since
        /\ conn'[c].backlog = conn[c].backlog /\ conn'[c].chan = Tail(conn[c].chan) /\ conn'[c].lost = conn[c].lost
    BY <1>7, ReceiveIs DEF HubInv
  <2>2. Append(conn[c].seen, Head(conn[c].chan)) \o Tail(conn[c].chan) = conn[c].seen \o conn[c].chan
    BY <1>2, <2>1, ArrivedIs, JoinShift
  <2>3. Arrived(conn'[c]) = Arrived(conn[c])
    BY <2>1, <2>2 DEF Arrived
  <2>4. Told(conn'[c], sent[TaskOf[c]], announced[TaskOf[c]])
    BY <1>2, <2>1, <2>3, ToldSame
  <2> QED
    BY <1>1, <1>2, <2>4, OneTold
<1> QED
  BY <1>4, <1>5, <1>6, <1>7

LEMMA UnsubscribeTells ==
    ASSUME HubInv, HubTold, NEW c \in Clients, Unsubscribe(c)
    PROVE  HubTold'
<1>1. /\ conn' = [conn EXCEPT ![c] = Idle] /\ subs' = subs \ {c} /\ UNCHANGED <<written, sent, announced>>
      /\ replay' = replay \/ replay' = [replay EXCEPT ![TaskOf[c]] = <<>>]
  BY DEF Unsubscribe
<1>2. \A x \in HubTasks : replay'[x] = replay[x] \/ replay'[x] = <<>>
  BY <1>1 DEF HubInv, HubShape
<1>3. ASSUME NEW d \in subs' PROVE ToldOf(d)'
  <2>1. d \in subs /\ conn'[d] = conn[d]
    BY <1>1 DEF HubInv, HubShape
  <2> QED
    BY <1>1, <2>1 DEF HubTold, ToldOf
<1> QED
  BY <1>1, <1>2, <1>3, QuietTells

LEMMA ToldInitial == HubInit => HubTold
<1> SUFFICES ASSUME HubInit PROVE HubTold
  OBVIOUS
<1>1. announced \in [HubTasks -> SUBSET Nat] /\ \A t \in HubTasks : replay[t] = <<>> /\ announced[t] = {}
  BY DEF HubInit
<1> QED
  BY <1>1, NoNumbers DEF HubTold, HubInit, Buffered, Stored

LEMMA ToldInductive == HubInv /\ HubTold /\ [HubNext]_hubVars => HubTold'
<1> SUFFICES ASSUME HubInv, HubTold, [HubNext]_hubVars PROVE HubTold'
  OBVIOUS
<1>1. CASE UNCHANGED hubVars
  BY <1>1 DEF hubVars, HubTold, Buffered, Stored, ToldOf
<1> QED
  BY <1>1, WriteTells, PublishTells, SubscribeTells, StepTells, UnsubscribeTells DEF HubNext

\* A registered browser gets every event since its registration once, or has it counted as dropped,
\* and if its snapshot could be read it is told of every status announced before, for any clients,
\* tasks and capacities (hub.go:160-186, handlers_task.go:150-158).
THEOREM NothingIsMissed == HubSpec => []NothingMissed
<1>1. HubInv /\ HubTold => NothingMissed
  <2> SUFFICES ASSUME HubInv, HubTold, NEW c \in subs
               PROVE  LET k == conn[c]
                      IN  /\ Distinct(Arrived(k) \o k.backlog)
                          /\ \A n \in k.since + 1 .. sent[TaskOf[c]] :
                               (n \in k.lost) # (n \in Numbers(Arrived(k)))
                          /\ k.pc = "streaming" /\ k.snap # NoSnapshot =>
                               \A n \in announced[TaskOf[c]] :
                                  n <= k.snap \/ n \in k.lost \cup Numbers(Arrived(k))
    BY DEF NothingMissed
  <2>1. conn[c] \in Conn /\ Told(conn[c], sent[TaskOf[c]], announced[TaskOf[c]])
    BY DEF HubInv, HubShape, HubTold, ToldOf
  <2>2. Arrived(conn[c]) \in Seq(Event) /\ conn[c].backlog \in Seq(Event)
    BY <2>1, ArrivedIs
  <2>3. /\ Arrived(conn[c]) \o conn[c].backlog \in Seq(Event)
        /\ Once(Arrived(conn[c]) \o conn[c].backlog)
    <3>1. Once(Arrived(conn[c])) /\ Once(conn[c].backlog)
          /\ Numbers(Arrived(conn[c])) \cap Numbers(conn[c].backlog) = {}
      BY <2>1 DEF Told
    <3> QED
      BY <2>2, <3>1, Joined
  <2>4. Distinct(Arrived(conn[c]) \o conn[c].backlog)
    BY <2>3, OnceDistinct
  <2> QED
    BY <2>1, <2>4 DEF Told
<1> QED
  BY <1>1, HubInitial, HubInductive, ToldInitial, ToldInductive, PTL DEF HubSpec

-----------------------------------------------------------------------------
(* The parts of a supervisor node. *)

Running == {i \in DOMAIN plan : part[i] # Over}

\* The result of the i-th part stands at its place.
Reported(i) == results[i].of = i /\ results[i].by = By(i)

TeamShape ==
    /\ plan \in Seq(Part) /\ Len(plan) <= MaxParts
    /\ part \in [1..MaxParts -> 0..Over]
    /\ results = [i \in 1..MaxParts |-> results[i]]

\* The WaitGroup counts the parts that have not ended, and a part that has ended has reported.
TeamInv ==
    /\ TeamShape
    /\ \A i \in 1..MaxParts : part[i] \in 1..MaxRounds => step = "run" /\ i \in DOMAIN plan
    /\ step = "run" =>
           /\ waiting = Cardinality(Running)
           /\ \A i \in DOMAIN plan : part[i] = Over => Reported(i)
    /\ step = "sum" => \A i \in DOMAIN plan : Reported(i)

LEMMA PlaceOfPart ==
    ASSUME TeamShape, NEW i \in DOMAIN plan
    PROVE  i \in 1..MaxParts /\ part[i] \in 0..Over
BY TeamAssumption DEF TeamShape

LEMMA RunningFinite == TeamShape => IsFiniteSet(Running) /\ Running \subseteq DOMAIN plan
<1> SUFFICES ASSUME TeamShape PROVE IsFiniteSet(Running)
  BY DEF Running
<1>1. Len(plan) \in Nat /\ DOMAIN plan = 1..Len(plan)
  BY DEF TeamShape
<1>2. IsFiniteSet(1..Len(plan))
  BY <1>1, FS_Interval
<1> QED
  BY <1>1, <1>2, FS_Subset DEF Running

\* The end of part i: its result is stored before the counter goes down.
LEMMA EndsReports ==
    ASSUME TeamInv, NEW i \in 1..MaxParts, part[i] \in 1..MaxRounds, NEW ok \in BOOLEAN, Ends(i, ok),
           UNCHANGED <<crew, step, plan, agentMap>>
    PROVE  TeamInv'
<1>1. step = "run" /\ i \in DOMAIN plan /\ TeamShape /\ waiting = Cardinality(Running)
  BY DEF TeamInv
<1>2. /\ results' = [results EXCEPT ![i] = [of |-> i, by |-> By(i), ok |-> ok]]
      /\ part' = [part EXCEPT ![i] = Over] /\ waiting' = waiting - 1
  BY DEF Ends
<1>3. Over \in 0..Over /\ Over \notin 1..MaxRounds
  BY TeamAssumption DEF Over
<1>4. /\ part' \in [1..MaxParts -> 0..Over] /\ part'[i] = Over
      /\ \A j \in 1..MaxParts \ {i} : part'[j] = part[j]
  BY <1>1, <1>2, <1>3 DEF TeamShape
<1>5. /\ results' = [j \in 1..MaxParts |-> results'[j]]
      /\ results'[i] = [of |-> i, by |-> By(i), ok |-> ok]
      /\ \A j \in 1..MaxParts \ {i} : results'[j] = results[j]
  BY <1>1, <1>2 DEF TeamShape
<1>6. TeamShape'
  BY <1>1, <1>4, <1>5 DEF TeamShape
<1>7. Running' = Running \ {i} /\ i \in Running
  <2>1. \A j \in DOMAIN plan : j \in 1..MaxParts
    BY <1>1, PlaceOfPart
  <2>2. part[i] # Over
    BY <1>3
  <2>3. plan' = plan /\ Over' = Over
    BY DEF Over
  <2> QED
    BY <1>1, <1>4, <2>1, <2>2, <2>3 DEF Running
<1>8. waiting' = Cardinality(Running')
  <2>1. IsFiniteSet(Running)
    BY <1>1, RunningFinite
  <2>2. Cardinality(Running \ {i}) = Cardinality(Running) - 1
    BY <1>7, <2>1, FS_RemoveElement
  <2> QED
    BY <1>1, <1>2, <1>7, <2>2
<1>9. \A j \in 1..MaxParts : part'[j] \in 1..MaxRounds => step' = "run" /\ j \in DOMAIN plan'
  BY <1>3, <1>4 DEF TeamInv
<1>10. ASSUME NEW j \in DOMAIN plan, part'[j] = Over PROVE Reported(j)'
  <2>1. j \in 1..MaxParts
    BY <1>1, PlaceOfPart
  <2>2. By(j)' = By(j)
    BY DEF By
  <2>3. CASE j = i
    BY <1>5, <2>2, <2>3 DEF Reported
  <2>4. CASE j # i
    BY <1>1, <1>4, <1>5, <1>10, <2>1, <2>2, <2>4 DEF TeamInv, Reported
  <2> QED
    BY <2>3, <2>4
<1>11. Over' = Over
  BY DEF Over
<1> QED
  BY <1>1, <1>6, <1>8, <1>9, <1>10, <1>11 DEF TeamInv

\* A round that is not the last.
LEMMA RoundGoesOn ==
    ASSUME TeamInv, NEW i \in 1..MaxParts, part[i] \in 1..MaxRounds, part[i] < MaxRounds,
           part' = [part EXCEPT ![i] = part[i] + 1],
           UNCHANGED <<crew, step, plan, agentMap, results, waiting>>
    PROVE  TeamInv'
<1>1. step = "run" /\ i \in DOMAIN plan /\ TeamShape
  BY DEF TeamInv
<1>2. part[i] + 1 \in 1..MaxRounds /\ part[i] + 1 \in 0..Over /\ part[i] + 1 # Over /\ part[i] # Over
  BY TeamAssumption DEF Over
<1>3. /\ part' \in [1..MaxParts -> 0..Over] /\ part'[i] = part[i] + 1
      /\ \A j \in 1..MaxParts \ {i} : part'[j] = part[j]
  BY <1>1, <1>2 DEF TeamShape
<1>4. \A j \in DOMAIN plan : j \in 1..MaxParts
  BY <1>1, PlaceOfPart
<1>5. \A j \in DOMAIN plan : (part'[j] = Over) <=> (part[j] = Over)
  BY <1>2, <1>3, <1>4
<1>6. Running' = Running
  BY <1>5 DEF Running, Over
<1>7. TeamShape'
  BY <1>1, <1>3 DEF TeamShape, Over
<1>8. \A j \in DOMAIN plan : Reported(j)' <=> Reported(j)
  BY DEF Reported, By
<1>9. \A j \in 1..MaxParts : part'[j] \in 1..MaxRounds => step' = "run" /\ j \in DOMAIN plan'
  BY <1>1, <1>3 DEF TeamInv
<1>10. Over' = Over
  BY DEF Over
<1> QED
  BY <1>1, <1>5, <1>6, <1>7, <1>8, <1>9, <1>10 DEF TeamInv

\* A step of a part.
LEMMA PartReports ==
    ASSUME TeamInv, NEW i \in 1..MaxParts, PartStep(i)
    PROVE  TeamInv'
<1>1. CASE NativeRound(i)
  <2>1. part[i] \in 1..MaxRounds /\ UNCHANGED <<crew, step, plan, agentMap>>
    BY <1>1 DEF NativeRound
  <2>2. CASE \E ok \in BOOLEAN : Ends(i, ok)
    BY <2>1, <2>2, EndsReports
  <2>3. CASE /\ part[i] < MaxRounds
             /\ part' = [part EXCEPT ![i] = @ + 1]
             /\ UNCHANGED <<results, waiting>>
    BY <2>1, <2>3, RoundGoesOn
  <2> QED
    BY <1>1, <2>2, <2>3 DEF NativeRound
<1>2. CASE Invoke(i)
  BY <1>2, EndsReports DEF Invoke
<1> QED
  BY <1>1, <1>2 DEF PartStep

LEMMA DecomposeReports == TeamInv /\ Decompose => TeamInv'
<1> SUFFICES ASSUME TeamInv, Decompose PROVE TeamInv'
  OBVIOUS
<1>1. /\ step = "plan" /\ step' \in {"done", "failed", "assign"}
      /\ UNCHANGED <<crew, agentMap, part, results, waiting>>
  BY DEF Decompose
<1>2. plan' \in Seq(Part) /\ Len(plan') <= MaxParts
  <2>1. CASE plan' = plan
    BY <2>1 DEF TeamInv, TeamShape
  <2>2. CASE plan' \in BoundedSeq(Part, MaxParts)
    <3>1. PICK m \in 0..MaxParts : plan' \in [1..m -> Part]
      BY <2>2 DEF BoundedSeq, SeqOf
    <3> QED
      BY <3>1, TeamAssumption
  <2> QED
    BY <2>1, <2>2 DEF Decompose
<1>3. TeamShape'
  BY <1>1, <1>2 DEF TeamInv, TeamShape, Over
<1>4. \A i \in 1..MaxParts : part'[i] \notin 1..MaxRounds
  BY <1>1 DEF TeamInv
<1> QED
  BY <1>1, <1>3, <1>4 DEF TeamInv

LEMMA AssignReports == TeamInv /\ AssignAgents => TeamInv'
<1> SUFFICES ASSUME TeamInv, AssignAgents PROVE TeamInv'
  OBVIOUS
<1>1. /\ step' = "run" /\ waiting' = Len(plan) /\ plan' = plan /\ results' = results
      /\ part' = [i \in 1..MaxParts |-> IF i \in DOMAIN plan THEN 1 ELSE 0]
  BY DEF AssignAgents
<1>2. 1 \in 0..Over /\ 0 \in 0..Over /\ 1 # Over /\ 0 \notin 1..MaxRounds /\ Over' = Over
  BY TeamAssumption DEF Over
<1>3. TeamShape'
  BY <1>1, <1>2 DEF TeamInv, TeamShape
<1>4. \A i \in DOMAIN plan : part'[i] = 1
  BY <1>1, PlaceOfPart DEF TeamInv
<1>5. Running' = DOMAIN plan
  BY <1>1, <1>2, <1>4 DEF Running
<1>6. Len(plan) \in Nat /\ DOMAIN plan = 1..Len(plan)
  BY DEF TeamInv, TeamShape
<1>7. Cardinality(1..Len(plan)) = Len(plan)
  <2>1. Cardinality(1..Len(plan)) = IF 1 > Len(plan) THEN 0 ELSE Len(plan) - 1 + 1
    BY <1>6, FS_Interval
  <2> QED
    BY <1>6, <2>1
<1>8. \A i \in 1..MaxParts : part'[i] \in 1..MaxRounds => i \in DOMAIN plan
  BY <1>1, <1>2
<1>9. waiting' = Cardinality(Running')
  BY <1>1, <1>5, <1>6, <1>7
<1>10. \A i \in DOMAIN plan' : part'[i] # Over'
  BY <1>1, <1>2, <1>4
<1> QED
  BY <1>1, <1>3, <1>8, <1>9, <1>10 DEF TeamInv

\* What the supervisor sums up is complete and in order, however the parts end.
THEOREM PartsReported == TeamSpec => []EveryPartReported
<1>1. TeamInit => TeamInv
  <2> SUFFICES ASSUME TeamInit PROVE TeamInv
    OBVIOUS
  <2>1. 0 \in 0..Over /\ 0 \notin 1..MaxRounds
    BY TeamAssumption DEF Over
  <2>2. plan \in Seq(Part) /\ Len(plan) <= MaxParts
    BY TeamAssumption DEF TeamInit
  <2> QED
    BY <2>1, <2>2 DEF TeamInit, TeamInv, TeamShape
<1>2. TeamInv /\ [TeamNext]_teamVars => TeamInv'
  <2> SUFFICES ASSUME TeamInv, [TeamNext]_teamVars PROVE TeamInv'
    OBVIOUS
  <2>1. CASE PartsDone
    <3>1. step = "run" /\ step' = "sum" /\ waiting = 0 /\ UNCHANGED <<crew, plan, agentMap, part, results, waiting>>
      BY <2>1 DEF PartsDone
    <3>2. Running = {}
      <4>1. IsFiniteSet(Running) /\ Cardinality(Running) = 0
        BY <3>1, RunningFinite DEF TeamInv
      <4> QED
        BY <4>1, FS_EmptySet
    <3>3. \A i \in DOMAIN plan : part[i] = Over
      BY <3>2 DEF Running
    <3>4. Over \notin 1..MaxRounds
      BY TeamAssumption DEF Over
    <3>5. \A i \in 1..MaxParts : part[i] \notin 1..MaxRounds
      BY <3>1, <3>3, <3>4 DEF TeamInv
    <3> QED
      BY <3>1, <3>3, <3>5 DEF TeamInv, TeamShape, Reported, By, Over
  <2>2. CASE Summarize
    <3>1. step = "sum" /\ step' = "done" /\ UNCHANGED <<crew, plan, agentMap, part, results, waiting>>
      BY <2>2 DEF Summarize
    <3> QED
      BY <3>1 DEF TeamInv, TeamShape, Over
  <2>3. CASE UNCHANGED teamVars
    BY <2>3 DEF teamVars, TeamInv, TeamShape, Running, Reported, By, Over
  <2> QED
    BY <2>1, <2>2, <2>3, DecomposeReports, AssignReports, PartReports DEF TeamNext, TeamStep
<1>3. TeamInv => EveryPartReported
  BY DEF TeamInv, EveryPartReported, Reported
<1> QED
  BY <1>1, <1>2, <1>3, PTL DEF TeamSpec

\* The list has a first agent.
LEMMA FirstOf == ASSUME NEW S \in SUBSET Ranks, S # {} PROVE First(S) \in S
<1> DEFINE R == OpToRel(<, Nat)
<1>1. IsWellFoundedOn(R, Nat)
  BY NatLessThanWellFounded
<1>2. \A x, y \in Nat : y < x => <<y, x>> \in R
  BY DEF OpToRel
<1> HIDE DEF R
<1>3. S \subseteq Nat
  BY TeamAssumption DEF Ranks
<1>4. \E x \in S : \A y \in S : ~(<<y, x>> \in R)
  BY <1>1, <1>3, WFMin
<1>5. \A x, y \in Nat : ~(y < x) => x <= y
  OBVIOUS
<1>6. \E x \in S : \A y \in S : x <= y
  BY <1>2, <1>3, <1>4, <1>5
<1> QED
  BY <1>6 DEF First

\* The checks before that of the n-th candidate take at most CheckTime each.
LEMMA TimeLeft ==
    ASSUME NEW C \in SUBSET Ranks, NEW slow, NEW k \in C
    PROVE  LET n == Cardinality({m \in C : m <= k})
           IN  n \in Nat /\ Spent(C, k, slow) + Takes(k, slow) <= n * CheckTime
<1> DEFINE U == {m \in C : m <= k}
           before == {m \in C : m < k /\ Remote(m)}
           n == Cardinality(U)
           b == Cardinality(before)
           s == Cardinality(before \cap slow)
<1>1. IsFiniteSet(Ranks) /\ Ranks \subseteq Nat
  BY TeamAssumption, FS_Interval DEF Ranks
<1>2. U \subseteq Ranks /\ k \in U /\ \A m \in C : m \in Nat
  <2>1. \A m \in C : m \in Nat
    BY <1>1
  <2>2. k <= k
    BY <2>1
  <2> QED
    BY <2>1, <2>2
<1>3. IsFiniteSet(U)
  BY <1>1, <1>2, FS_Subset
<1>4. IsFiniteSet(U \ {k}) /\ Cardinality(U \ {k}) = n - 1 /\ n \in Nat /\ n - 1 \in Nat
  <2>1. IsFiniteSet(U \ {k}) /\ Cardinality(U \ {k}) = n - 1
    BY <1>2, <1>3, FS_RemoveElement
  <2>2. n \in Nat /\ Cardinality(U \ {k}) \in Nat
    BY <1>3, <2>1, FS_CardinalityType
  <2> QED
    BY <2>1, <2>2
<1>5. before \subseteq U \ {k} /\ before \cap slow \subseteq before
  <2>1. ASSUME NEW m \in C, m < k PROVE m <= k /\ m # k
    BY <1>2, <2>1
  <2> QED
    BY <2>1
<1>6. IsFiniteSet(before) /\ b <= n - 1 /\ b \in Nat
  BY <1>4, <1>5, FS_Subset, FS_CardinalityType
<1>7. s <= b /\ s \in Nat
  BY <1>5, <1>6, FS_Subset, FS_CardinalityType
<1>8. Spent(C, k, slow) = b + (CheckTime - 1) * s
  BY DEF Spent
<1>9. Takes(k, slow) <= CheckTime /\ Takes(k, slow) \in Nat
  BY TeamAssumption DEF Takes
<1>10. CheckTime \in Nat /\ CheckTime - 1 \in Nat
  BY TeamAssumption
<1> HIDE DEF U, before, n, b, s
<1>11. (CheckTime - 1) * s <= (CheckTime - 1) * b
  BY <1>6, <1>7, <1>10, SMTT(30)
<1>12. b + (CheckTime - 1) * b = b * CheckTime
  BY <1>6, <1>10, SMTT(30)
<1>13. b * CheckTime <= (n - 1) * CheckTime /\ (n - 1) * CheckTime + CheckTime = n * CheckTime
  BY <1>4, <1>6, <1>10, SMTT(30)
<1>14. Spent(C, k, slow) <= (n - 1) * CheckTime
  <2> DEFINE x == (CheckTime - 1) * s
             y == (CheckTime - 1) * b
             z == b * CheckTime
             w == (n - 1) * CheckTime
  <2>1. x \in Int /\ y \in Int /\ z \in Int /\ w \in Int
    BY <1>4, <1>6, <1>7, <1>10
  <2>2. x <= y /\ b + y = z /\ z <= w /\ Spent(C, k, slow) = b + x
    BY <1>8, <1>11, <1>12, <1>13
  <2> HIDE DEF x, y, z, w
  <2>3. Spent(C, k, slow) <= w
    BY <1>6, <2>1, <2>2
  <2> QED
    BY <2>3 DEF w
<1>15. Spent(C, k, slow) \in Int
  BY <1>6, <1>7, <1>8, <1>10
<1>16. Spent(C, k, slow) + Takes(k, slow) <= n * CheckTime
  <2> DEFINE w == (n - 1) * CheckTime
             v == n * CheckTime
  <2>1. w \in Int /\ v \in Int /\ w + CheckTime = v /\ Spent(C, k, slow) <= w
    BY <1>4, <1>10, <1>13, <1>14
  <2> HIDE DEF w, v
  <2>2. Spent(C, k, slow) + Takes(k, slow) <= v
    BY <1>9, <1>10, <1>15, <2>1
  <2> QED
    BY <2>2 DEF v
<1> QED
  BY <1>4, <1>16 DEF n, U

\* A part whose name no agent has is given to a well agent with the capability, whichever agents do
\* not answer, if one is among the first MaxCheck candidates and the checks up to its own cannot use
\* the common deadline up: for any list of agents and any times (router.go:118-131, 209-229).
THEOREM HealthyFirst == TeamSpec => []HealthyIsRouted
<1>1. HealthyIsRouted
  <2> SUFFICES ASSUME NEW name, \A k \in Ranks : NameOf[k] # name,
                      NEW well \in SUBSET Ranks, NEW slow \in SUBSET Ranks, NEW k \in well,
                      Runs(k), k \in AbleUpTo(k, name),
                      Cardinality(AbleUpTo(k, name)) <= MaxCheck,
                      Cardinality(AbleUpTo(k, name)) * CheckTime <= Patience
               PROVE  LET r == Route(name, well, slow) IN r \in well /\ r \in AbleUpTo(r, name)
    BY DEF HealthyIsRouted
  <2> DEFINE C == Candidates(name)
             n == Cardinality({m \in C : m <= k})
             H == Healthy(C, well, slow)
  <2>1. C \subseteq Ranks /\ \A m \in Ranks : m \in C <=> crew[m].active /\ CapOf[name] \in crew[m].caps \cup {"any"}
    BY DEF Candidates
  <2>2. Route(name, well, slow) = RouteByCapability(name, well, slow)
    BY DEF Route
  <2> HIDE DEF C
  <2>3. AbleUpTo(k, name) = {m \in C : m <= k}
    <3>1. 1..k = {m \in Ranks : m <= k}
      BY TeamAssumption DEF Ranks
    <3> QED
      BY <2>1, <3>1 DEF AbleUpTo
  <2>4. k \in C
    BY <2>3
  <2>5. n \in Nat /\ Spent(C, k, slow) + Takes(k, slow) <= n * CheckTime
    BY <2>1, <2>4, TimeLeft
  <2>6. n <= MaxCheck /\ n * CheckTime <= Patience
    BY <2>3
  <2>7. Spent(C, k, slow) + Takes(k, slow) \in Int
    <3>1. Takes(k, slow) \in Int
      BY TeamAssumption DEF Takes
    <3>2. IsFiniteSet(Ranks)
      BY TeamAssumption, FS_Interval DEF Ranks
    <3>3. ASSUME NEW B \in SUBSET Ranks PROVE Cardinality(B) \in Int
      BY <3>2, FS_Subset, FS_CardinalityType
    <3>4. Spent(C, k, slow) \in Int
      <4> DEFINE before == {m \in C : m < k /\ Remote(m)}
      <4>1. Cardinality(before) \in Int /\ Cardinality(before \cap slow) \in Int
        BY <2>1, <3>3
      <4>2. Spent(C, k, slow) = Cardinality(before) + (CheckTime - 1) * Cardinality(before \cap slow)
        BY DEF Spent
      <4> HIDE DEF before
      <4> QED
        BY <4>1, <4>2, TeamAssumption
    <3> QED
      BY <3>1, <3>4
  <2>8. Spent(C, k, slow) + Takes(k, slow) <= Patience
    <3> DEFINE x == Spent(C, k, slow) + Takes(k, slow)
               y == n * CheckTime
    <3>1. x \in Int /\ y \in Int /\ x <= y /\ y <= Patience /\ Patience \in Int
      BY <2>5, <2>6, <2>7, TeamAssumption
    <3> HIDE DEF x, y
    <3>2. x <= Patience
      BY <3>1
    <3> QED
      BY <3>2 DEF x
  <2>9. k \in H
    BY <2>4, <2>6, <2>8 DEF Healthy
  <2>10. H \subseteq C /\ H \subseteq well
    BY DEF Healthy
  <2> HIDE DEF H
  <2>11. First(H) \in H
    BY <2>1, <2>9, <2>10, FirstOf
  <2>12. RouteByCapability(name, well, slow) = First(H)
    BY <2>9 DEF RouteByCapability, C, H
  <2> DEFINE r == Route(name, well, slow)
  <2>13. r \in H
    BY <2>2, <2>11, <2>12
  <2> HIDE DEF r
  <2>14. r \in C /\ r \in well /\ r \in 1..r
    <3>1. r \in C /\ r \in well
      BY <2>10, <2>13
    <3>2. r \in 1..Listed
      BY <2>1, <3>1 DEF Ranks
    <3> QED
      BY <3>1, <3>2, TeamAssumption
  <2>15. r \in AbleUpTo(r, name)
    BY <2>1, <2>14 DEF AbleUpTo
  <2> QED
    BY <2>14, <2>15 DEF r
<1> QED
  BY <1>1, PTL

-----------------------------------------------------------------------------
(* The cache of workflows. *)

ReadersOK == reader \in [Readers -> Reader]
Pending   == \E w \in Writers : writer[w] = "invalidate"

\* A read that no commit has overlapped has seen the present version of everything it read.
ReadsAlone(r) ==
    reader[r].pc \in {"nodes", "edges", "set"} =>
        /\ reader[r].began <= version
        /\ reader[r].began = version =>
               /\ exists /\ reader[r].val.row = version
               /\ reader[r].pc \in {"edges", "set"} => reader[r].val.nodes = version
               /\ reader[r].pc = "set" => reader[r].val.edges = version

\* So a value stored at the present version by such a read is the present one, and an older value
\* still has an invalidation coming, or has missed it.
EntryOK ==
    IsEntry =>
        /\ cached.began <= cached.at /\ cached.at <= version
        /\ cached.began = version => Fresh
        /\ cached.at < version => Pending \/ missed > cached.at \/ cached.began < cached.at

WritersOK == writer \in [Writers -> {"idle", "invalidate"}]

CacheInv ==
    /\ WritersOK
    /\ version \in Versions /\ missed \in Versions
    /\ ReadersOK
    /\ \A r \in Readers : ReadsAlone(r)
    /\ EntryOK

\* A reader between two requests.
LEMMA IdlingReader == Idling \in Reader /\ Idling.pc = "get"
BY CacheAssumption DEF Idling, Nothing, Reader, Value, Versions

\* An empty and an unreadable entry are told apart from the values.
LEMMA NoValue == NoEntry \notin Entry /\ Garbage \notin Entry
BY DEF NoEntry, Garbage, Entry

\* A step of a reader that leaves the cache alone.
LEMMA ReaderMoves ==
    ASSUME CacheInv, NEW r \in Readers, NEW k \in Reader, reader' = [reader EXCEPT ![r] = k],
           UNCHANGED <<version, exists, writer, missed, cached>>, ReadsAlone(r)'
    PROVE  CacheInv'
<1>1. ReadersOK'
  BY DEF CacheInv, WritersOK, ReadersOK
<1>2. \A s \in Readers : ReadsAlone(s)'
  BY DEF CacheInv, WritersOK, ReadersOK, ReadsAlone
<1>3. EntryOK'
  BY DEF CacheInv, EntryOK, IsEntry, Fresh, Pending
<1> QED
  BY <1>1, <1>2, <1>3 DEF CacheInv, WritersOK

\* The end of a read, which may fill or empty the cache.
LEMMA CacheMoves ==
    ASSUME CacheInv, NEW r \in Readers, NEW k \in Reader, reader' = [reader EXCEPT ![r] = k],
           k.pc \in {"get", "row"}, UNCHANGED <<version, exists, writer, missed>>, EntryOK'
    PROVE  CacheInv'
<1>1. ReadersOK'
  BY DEF CacheInv, WritersOK, ReadersOK
<1>2. \A s \in Readers : ReadsAlone(s)'
  BY DEF CacheInv, WritersOK, ReadersOK, ReadsAlone
<1> QED
  BY <1>1, <1>2 DEF CacheInv, WritersOK

\* What is known of the entry rests on the database, the writers and the cache alone.
LEMMA EntryStays ==
    ASSUME EntryOK, UNCHANGED <<version, exists, writer, missed, cached>>
    PROVE  EntryOK'
BY DEF EntryOK, IsEntry, Fresh, Pending

\* Whatever a reader does, the entry stays explained.
LEMMA ReaderKeeps == ASSUME CacheInv, NEW r \in Readers, ReaderStep(r) PROVE CacheInv'
<1>1. reader[r] \in Reader /\ ReadsAlone(r) /\ version \in Versions
  BY DEF CacheInv, WritersOK, ReadersOK
<1>2. CASE CacheGet(r)
  <2> DEFINE k == [Idling EXCEPT !.pc = "row"]
  <2>1. k \in Reader /\ k.pc = "row"
    BY IdlingReader DEF Reader
  <2>2. reader' = [reader EXCEPT ![r] = k] /\ UNCHANGED <<version, exists, writer, missed>>
    BY <1>2 DEF CacheGet, ToStore
  <2>3. cached' = cached \/ cached' = NoEntry
    BY <1>2 DEF CacheGet
  <2>4. EntryOK'
    BY <2>2, <2>3, NoValue, EntryStays DEF EntryOK, IsEntry, CacheInv
  <2> HIDE DEF k
  <2> QED
    BY <2>1, <2>2, <2>4, CacheMoves
<1>3. CASE ReadRow(r)
  <2> DEFINE m == [pc |-> "set", began |-> version,
                   val |-> [row |-> version, nodes |-> version, edges |-> version]]
             p == [pc |-> "nodes", began |-> version, val |-> [Nothing EXCEPT !.row = version]]
             k == IF ~exists THEN Idling ELSE IF StoreKind = "memory" THEN m ELSE p
  <2>1. m \in Reader
    BY <1>1 DEF Reader, Value
  <2>2. p \in Reader /\ p.val.row = version
    <3>1. [Nothing EXCEPT !.row = version] \in Value /\ [Nothing EXCEPT !.row = version].row = version
      BY <1>1, CacheAssumption DEF Value, Nothing, Versions
    <3> QED
      BY <1>1, <3>1 DEF Reader
  <2>3. k \in Reader
    BY <2>1, <2>2, IdlingReader
  <2>4. reader' = [reader EXCEPT ![r] = k] /\ UNCHANGED <<version, exists, writer, missed, cached>>
    BY <1>3 DEF ReadRow
  <2>5. reader'[r] = k
    BY <2>4 DEF CacheInv, WritersOK, ReadersOK
  <2>6. version <= version
    BY <1>1 DEF Versions
  <2>7. ReadsAlone(r)'
    BY <2>2, <2>4, <2>5, <2>6, IdlingReader DEF ReadsAlone
  <2> HIDE DEF k
  <2> QED
    BY <2>3, <2>4, <2>7, ReaderMoves
<1>4. CASE GetWorkflowNodes(r)
  <2> DEFINE k == [reader[r] EXCEPT !.pc = "edges", !.val.nodes = Rows]
  <2>1. reader' = [reader EXCEPT ![r] = k] /\ UNCHANGED <<version, exists, writer, missed, cached>>
    BY <1>4 DEF GetWorkflowNodes, CacheInv, WritersOK, ReadersOK
  <2>2. Rows \in Versions
    BY <1>1, CacheAssumption DEF Rows, Versions
  <2>3. k \in Reader
    BY <1>1, <2>2 DEF Reader, Value
  <2>4. k.pc = "edges" /\ k.began = reader[r].began /\ k.val.row = reader[r].val.row /\ k.val.nodes = Rows
    BY <1>1 DEF Reader, Value
  <2>5. reader'[r] = k
    BY <2>1 DEF CacheInv, WritersOK, ReadersOK
  <2> HIDE DEF k
  <2>6. ReadsAlone(r)'
    BY <1>1, <1>4, <2>1, <2>4, <2>5 DEF ReadsAlone, GetWorkflowNodes, Rows
  <2> QED
    BY <2>1, <2>3, <2>6, ReaderMoves
<1>5. CASE GetWorkflowEdges(r)
  <2> DEFINE k == [reader[r] EXCEPT !.pc = "set", !.val.edges = Rows]
  <2>1. reader' = [reader EXCEPT ![r] = k] /\ UNCHANGED <<version, exists, writer, missed, cached>>
    BY <1>5 DEF GetWorkflowEdges, CacheInv, WritersOK, ReadersOK
  <2>2. Rows \in Versions
    BY <1>1, CacheAssumption DEF Rows, Versions
  <2>3. k \in Reader
    BY <1>1, <2>2 DEF Reader, Value
  <2>4. k.pc = "set" /\ k.began = reader[r].began /\ k.val.row = reader[r].val.row
        /\ k.val.nodes = reader[r].val.nodes /\ k.val.edges = Rows
    BY <1>1 DEF Reader, Value
  <2>5. reader'[r] = k
    BY <2>1 DEF CacheInv, WritersOK, ReadersOK
  <2> HIDE DEF k
  <2>6. ReadsAlone(r)'
    BY <1>1, <1>5, <2>1, <2>4, <2>5 DEF ReadsAlone, GetWorkflowEdges, Rows
  <2> QED
    BY <2>1, <2>3, <2>6, ReaderMoves
<1>6. CASE CacheSet(r)
  <2> DEFINE e == [val |-> reader[r].val, began |-> reader[r].began, at |-> version, ttl |-> TRUE]
  <2>1. reader' = [reader EXCEPT ![r] = Idling] /\ UNCHANGED <<version, exists, writer, missed>>
    BY <1>6 DEF CacheSet
  <2>2. cached' = e \/ cached' = cached
    BY <1>6 DEF CacheSet
  <2>3. ASSUME cached' = e PROVE EntryOK'
    <3>1. reader[r].pc = "set"
      BY <1>6 DEF CacheSet
    <3>2. reader[r].began <= version
      BY <1>1, <3>1 DEF ReadsAlone
    <3>3. reader[r].began = version => exists /\ reader[r].val = Whole(version)
      BY <1>1, <3>1 DEF ReadsAlone, Whole, Reader, Value
    <3>4. version <= version /\ ~(version < version)
      BY <1>1 DEF Versions
    <3>5. /\ cached'.began <= cached'.at /\ cached'.at <= version'
          /\ cached'.began = version' => Fresh'
          /\ ~(cached'.at < version')
      BY <2>1, <2>3, <3>2, <3>3, <3>4 DEF Fresh, Whole
    <3> QED
      BY <3>5 DEF EntryOK
  <2>4. EntryOK'
    BY <2>1, <2>2, <2>3, EntryStays DEF CacheInv
  <2> QED
    BY <2>1, <2>4, IdlingReader, CacheMoves
<1>7. CASE ReadFails(r)
  <2>1. reader' = [reader EXCEPT ![r] = Idling] /\ UNCHANGED <<version, exists, cached, writer, missed>>
    BY <1>7 DEF ReadFails
  <2>2. EntryOK'
    BY <2>1, EntryStays DEF CacheInv
  <2> QED
    BY <2>1, <2>2, IdlingReader, CacheMoves
<1> QED
  BY <1>2, <1>3, <1>4, <1>5, <1>6, <1>7 DEF ReaderStep

\* A commit makes the entry stale; its writer, or the invalidation left out, is the reason for it.
LEMMA CommitKeeps ==
    ASSUME CacheInv, NEW w \in Writers, Commit(w)
    PROVE  CacheInv'
<1>1. version' = version + 1 /\ version < MaxVersion /\ UNCHANGED <<cached, reader>>
  BY DEF Commit
<1>2. version \in Nat /\ version' \in Versions
  BY <1>1, CacheAssumption DEF CacheInv, Versions
<1>3. missed' \in Versions /\ (Pending' \/ missed' = version')
  BY <1>1, <1>2 DEF Commit, Pending, CacheInv, WritersOK
<1>4. ASSUME NEW r \in Readers PROVE ReadsAlone(r)'
  <2>1. reader[r].began \in Int
    BY DEF CacheInv, WritersOK, ReadersOK, Reader, Versions
  <2> QED
    BY <1>1, <1>2, <2>1 DEF CacheInv, ReadsAlone
<1>5. WritersOK'
  BY DEF Commit, CacheInv, WritersOK
<1>6. EntryOK'
  <2>1. IsEntry => cached.began \in Int /\ cached.at \in Int
    BY DEF IsEntry, Entry, Versions
  <2> QED
    BY <1>1, <1>2, <1>3, <2>1 DEF CacheInv, EntryOK, IsEntry
<1> QED
  BY <1>1, <1>2, <1>3, <1>4, <1>6, <1>5 DEF CacheInv, ReadersOK

\* A delete clears the entry; a failed one is the reason for it.
LEMMA InvalidateKeeps ==
    ASSUME CacheInv, NEW w \in Writers, Invalidate(w)
    PROVE  CacheInv'
<1>1. UNCHANGED <<version, exists, reader>> /\ version \in Versions
  BY DEF Invalidate, CacheInv
<1>2. \A r \in Readers : ReadsAlone(r)'
  BY <1>1 DEF CacheInv, ReadsAlone
<1>3. WritersOK'
  BY DEF Invalidate, CacheInv, WritersOK
<1>4. CASE cached' = NoEntry /\ missed' = missed
  <2>1. EntryOK'
    BY <1>4, NoValue DEF EntryOK, IsEntry
  <2> QED
    BY <1>1, <1>2, <1>4, <1>3, <2>1 DEF CacheInv, ReadersOK
<1>5. CASE missed' = version /\ cached' = cached
  <2>1. EntryOK'
    BY <1>1, <1>5 DEF CacheInv, EntryOK, IsEntry, Fresh
  <2> QED
    BY <1>1, <1>2, <1>5, <1>3, <2>1 DEF CacheInv, ReadersOK
<1> QED
  BY <1>4, <1>5 DEF Invalidate

\* Every step keeps the invariant.
LEMMA CacheInductive == CacheInv /\ [CacheNext]_cacheVars => CacheInv'
<1> SUFFICES ASSUME CacheInv, [CacheNext]_cacheVars PROVE CacheInv'
  OBVIOUS
<1>1. CASE CacheExpires
  <2>1. EntryOK'
    BY <1>1, NoValue DEF CacheExpires, EntryOK, IsEntry
  <2> QED
    BY <1>1, <2>1 DEF CacheExpires, CacheInv, WritersOK, ReadersOK, ReadsAlone
<1>2. CASE UNCHANGED cacheVars
  <2>1. UNCHANGED <<version, exists, cached, reader, writer, missed>>
    BY <1>2 DEF cacheVars
  <2>2. EntryOK'
    BY <2>1, EntryStays DEF CacheInv
  <2> QED
    BY <2>1, <2>2 DEF CacheInv, WritersOK, ReadersOK, ReadsAlone
<1>3. ASSUME NEW r \in Readers, ReaderStep(r) PROVE CacheInv'
  BY <1>3, ReaderKeeps
<1>4. ASSUME NEW w \in Writers, Commit(w) \/ Invalidate(w) PROVE CacheInv'
  BY <1>4, CommitKeeps, InvalidateKeeps
<1> QED
  BY <1>1, <1>2, <1>3, <1>4 DEF CacheNext

\* The cache of a workflow is stale only while an invalidation is due, after one has failed or was
\* left out because the commit was reported as an error, or because the read that filled it
\* overlapped a commit.
THEOREM StaleReason == CacheSpec => []StaleForAReason
<1>1. CacheInit => CacheInv
  <2> SUFFICES ASSUME CacheInit PROVE CacheInv
    OBVIOUS
  <2>1. 0 \in Versions /\ 1 \in Versions
    BY CacheAssumption DEF Versions
  <2>2. reader \in [Readers -> Reader] /\ \A r \in Readers : reader[r].pc = "get"
    BY IdlingReader DEF CacheInit
  <2>3. ~IsEntry
    BY NoValue DEF CacheInit, IsEntry
  <2> QED
    BY <2>1, <2>2, <2>3 DEF CacheInit, CacheInv, WritersOK, ReadersOK, ReadsAlone, EntryOK
<1>2. CacheInv => StaleForAReason
  <2> SUFFICES ASSUME CacheInv, IsEntry, ~Fresh, ~Pending, ~(missed > cached.at)
               PROVE  cached.began < cached.at
    BY DEF StaleForAReason, Pending
  <2>1. cached.began \in Int /\ cached.at \in Int /\ version \in Int
    BY DEF CacheInv, IsEntry, Entry, Versions
  <2> QED
    BY <2>1 DEF CacheInv, EntryOK
<1> QED
  BY <1>1, <1>2, CacheInductive, PTL DEF CacheSpec

-----------------------------------------------------------------------------
(* The runtimes of agents. *)

Forgets(e, i, id) == edit[e] = [pc |-> "forget", at |-> i, id |-> id]

\* The changes made through an instance are among all changes.
RuntimesOK ==
    /\ RegistryTypeOK
    /\ \A i \in Replicas, id \in AgentIds : own[i][id] <= commits

RegistryInv == RuntimesOK /\ OwnChangeDropsRuntime

\* An edit under way knows its replica and its row.
LEMMA RowOf ==
    ASSUME RuntimesOK, NEW e \in Editors, edit[e].pc \in {"write", "forget"}
    PROVE  edit[e].at \in Replicas /\ edit[e].id \in AgentIds
BY DEF RuntimesOK, RegistryTypeOK, EditStates, IdleEdit

\* Requests that have not written yet leave the runtimes alone.
LEMMA NotYet ==
    ASSUME RegistryInv, NEW e \in Editors, NEW k \in EditStates \cup {IdleEdit},
           edit' = [edit EXCEPT ![e] = k], edit[e].pc # "forget",
           agents' \in [AgentIds -> AgentRow \cup {NoAgent, Deleted}],
           UNCHANGED <<runtimes, get, commits, own>>
    PROVE  RegistryInv'
<1>1. RuntimesOK'
  BY DEF RegistryInv, RuntimesOK, RegistryTypeOK
<1>2. ASSUME NEW i \in Replicas, NEW id \in AgentIds, NEW f \in Editors, Forgets(f, i, id)
      PROVE  Forgets(f, i, id)'
  BY <1>2 DEF RegistryInv, RuntimesOK, RegistryTypeOK, Forgets
<1> QED
  BY <1>1, <1>2 DEF RegistryInv, OwnChangeDropsRuntime, Forgets

\* A statement that takes effect changes one row only; reported as done, it obliges its editor to
\* drop the runtime.
LEMMA Acknowledged ==
    ASSUME RegistryInv, NEW e \in Editors, NEW new \in AgentRow \cup {Deleted}, edit[e].pc = "write",
           commits < MaxCommits, commits' = commits + 1,
           agents' = [agents EXCEPT ![edit[e].id] = new],
           own' = [own EXCEPT ![edit[e].at][edit[e].id] = commits + 1],
           edit' = [edit EXCEPT ![e] = [pc |-> "forget", at |-> edit[e].at, id |-> edit[e].id]],
           UNCHANGED <<runtimes, get>>
    PROVE  RegistryInv'
<1> DEFINE i == edit[e].at
           a == edit[e].id
           k == [pc |-> "forget", at |-> i, id |-> a]
<1>1. i \in Replicas /\ a \in AgentIds
  BY RowOf DEF RegistryInv
<1>2. k \in EditStates
  BY <1>1 DEF EditStates
<1>3. /\ commits < MaxCommits /\ commits' = commits + 1 /\ edit' = [edit EXCEPT ![e] = k]
      /\ own' = [own EXCEPT ![i][a] = commits + 1] /\ agents' = [agents EXCEPT ![a] = new]
  OBVIOUS
<1>4. commits \in Nat /\ commits' \in 0..MaxCommits
  BY <1>3, RegistryAssumption DEF RegistryInv, RuntimesOK, RegistryTypeOK
<1>5. agents' \in [AgentIds -> AgentRow \cup {NoAgent, Deleted}]
  BY <1>3 DEF RegistryInv, RuntimesOK, RegistryTypeOK
<1>6. own' \in [Replicas -> [AgentIds -> 0..MaxCommits]]
  BY <1>1, <1>3, <1>4 DEF RegistryInv, RuntimesOK, RegistryTypeOK
<1>7. \A r \in Replicas, d \in AgentIds :
          own'[r][d] = IF r = i /\ d = a THEN commits + 1 ELSE own[r][d]
  BY <1>1, <1>3 DEF RegistryInv, RuntimesOK, RegistryTypeOK
<1>8. \A r \in Replicas, d \in AgentIds : own'[r][d] <= commits'
  <2>1. \A r \in Replicas, d \in AgentIds : own[r][d] \in Nat /\ own[r][d] <= commits
    BY RegistryAssumption DEF RegistryInv, RuntimesOK, RegistryTypeOK
  <2> QED
    BY <1>3, <1>7, <1>4, <2>1
<1>9. edit' \in [Editors -> EditStates \cup {IdleEdit}] /\ edit'[e] = k
      /\ \A f \in Editors \ {e} : edit'[f] = edit[f]
  BY <1>2, <1>3 DEF RegistryInv, RuntimesOK, RegistryTypeOK
<1>10. RuntimesOK'
  BY <1>6, <1>8, <1>9, <1>4, <1>5 DEF RegistryInv, RuntimesOK, RegistryTypeOK
<1>11. ASSUME NEW r \in Replicas, NEW d \in AgentIds, runtimes'[r][d] # NoRuntime
      PROVE  own'[r][d] <= runtimes'[r][d].at
             \/ \E f \in Editors : edit'[f] = [pc |-> "forget", at |-> r, id |-> d]
  <2>1. CASE r = i /\ d = a
    BY <1>9, <2>1
  <2>2. CASE ~(r = i /\ d = a)
    <3>1. own[r][d] <= runtimes[r][d].at
          \/ \E f \in Editors : edit[f] = [pc |-> "forget", at |-> r, id |-> d]
      BY <1>11 DEF RegistryInv, OwnChangeDropsRuntime
    <3>2. \A f \in Editors : edit[f] = [pc |-> "forget", at |-> r, id |-> d] => f # e
      OBVIOUS
    <3> QED
      BY <1>7, <1>9, <2>2, <3>1, <3>2
  <2> QED
    BY <2>1, <2>2
<1> QED
  BY <1>10, <1>11 DEF RegistryInv, OwnChangeDropsRuntime

\* With its reply lost it obliges nobody.
LEMMA Unheard ==
    ASSUME RegistryInv, NEW e \in Editors, NEW new \in AgentRow \cup {Deleted}, edit[e].pc = "write",
           commits < MaxCommits, commits' = commits + 1,
           agents' = [agents EXCEPT ![edit[e].id] = new],
           edit' = [edit EXCEPT ![e] = IdleEdit], UNCHANGED <<runtimes, get, own>>
    PROVE  RegistryInv'
<1>1. edit[e].id \in AgentIds
  BY RowOf DEF RegistryInv
<1>2. commits \in Nat /\ commits' \in 0..MaxCommits
  BY RegistryAssumption DEF RegistryInv, RuntimesOK, RegistryTypeOK
<1>3. agents' \in [AgentIds -> AgentRow \cup {NoAgent, Deleted}]
  BY <1>1 DEF RegistryInv, RuntimesOK, RegistryTypeOK
<1>4. \A r \in Replicas, d \in AgentIds : own'[r][d] <= commits'
  <2>1. \A r \in Replicas, d \in AgentIds : own[r][d] \in Nat /\ own[r][d] <= commits
    BY RegistryAssumption DEF RegistryInv, RuntimesOK, RegistryTypeOK
  <2> QED
    BY <1>2, <2>1
<1>5. edit' \in [Editors -> EditStates \cup {IdleEdit}]
  BY DEF RegistryInv, RuntimesOK, RegistryTypeOK
<1>6. RuntimesOK'
  BY <1>2, <1>3, <1>4, <1>5 DEF RegistryInv, RuntimesOK, RegistryTypeOK
<1>7. \A r \in Replicas, d \in AgentIds, f \in Editors : Forgets(f, r, d) => Forgets(f, r, d)'
  BY DEF RegistryInv, RuntimesOK, RegistryTypeOK, Forgets
<1> QED
  BY <1>6, <1>7 DEF RegistryInv, OwnChangeDropsRuntime, Forgets

LEMMA Writes ==
    ASSUME RegistryInv, NEW e \in Editors, NEW new \in AgentRow \cup {Deleted}, edit[e].pc = "write",
           Written(e, new), UNCHANGED <<runtimes, get>>
    PROVE  RegistryInv'
BY Acknowledged, Unheard DEF Written

\* An editor that drops the runtime of its row keeps its promise.
LEMMA Forgetting == ASSUME RegistryInv, NEW e \in Editors, ForgetRuntime(e) PROVE RegistryInv'
<1> DEFINE i == edit[e].at
           a == edit[e].id
<1>1. edit[e].pc = "forget" /\ runtimes' = [runtimes EXCEPT ![i][a] = NoRuntime]
      /\ edit' = [edit EXCEPT ![e] = IdleEdit] /\ UNCHANGED <<agents, get, commits, own>>
  BY DEF ForgetRuntime
<1>2. i \in Replicas /\ a \in AgentIds
  BY <1>1, RowOf DEF RegistryInv
<1>3. \A r \in Replicas, d \in AgentIds :
          runtimes'[r][d] = IF r = i /\ d = a THEN NoRuntime ELSE runtimes[r][d]
  BY <1>1, <1>2 DEF RegistryInv, RuntimesOK, RegistryTypeOK
<1>4. edit'[e] = IdleEdit /\ \A f \in Editors \ {e} : edit'[f] = edit[f]
  BY <1>1 DEF RegistryInv, RuntimesOK, RegistryTypeOK
<1>5. RuntimesOK'
  BY <1>1, <1>2 DEF RegistryInv, RuntimesOK, RegistryTypeOK
<1>6. ASSUME NEW r \in Replicas, NEW d \in AgentIds, runtimes'[r][d] # NoRuntime
      PROVE  own'[r][d] <= runtimes'[r][d].at
             \/ \E f \in Editors : edit'[f] = [pc |-> "forget", at |-> r, id |-> d]
  <2>1. ~(r = i /\ d = a) /\ runtimes'[r][d] = runtimes[r][d]
    BY <1>3, <1>6
  <2>2. own[r][d] <= runtimes[r][d].at
        \/ \E f \in Editors : edit[f] = [pc |-> "forget", at |-> r, id |-> d]
    BY <1>6, <2>1 DEF RegistryInv, OwnChangeDropsRuntime
  <2>3. \A f \in Editors : edit[f] = [pc |-> "forget", at |-> r, id |-> d] => f # e
    BY <2>1
  <2> QED
    BY <1>1, <1>4, <2>1, <2>2, <2>3
<1> QED
  BY <1>5, <1>6 DEF RegistryInv, OwnChangeDropsRuntime

\* A request that builds or reuses a runtime leaves the rows and the edits alone.
LEMMA Gets == ASSUME RegistryInv, NEW g \in Getters, GetStep(g) PROVE RegistryInv'
<1>1. UNCHANGED <<agents, edit, commits, own>>
  BY DEF GetStep, LoadRuntime, ReadAgent, StoreRuntime
<1>2. CASE runtimes' = runtimes /\ get' \in [Getters -> GetStates \cup {IdleGet}]
  BY <1>1, <1>2 DEF RegistryInv, RuntimesOK, RegistryTypeOK, OwnChangeDropsRuntime
<1>3. CASE \E i \in Replicas, id \in AgentIds : LoadRuntime(g, i, id)
  <2>1. PICK i \in Replicas, id \in AgentIds : LoadRuntime(g, i, id)
    BY <1>3
  <2>2. [pc |-> "read", at |-> i, id |-> id, ver |-> 0] \in GetStates
    BY RegistryAssumption DEF GetStates
  <2> QED
    BY <1>2, <2>1, <2>2 DEF LoadRuntime, RegistryInv, RuntimesOK, RegistryTypeOK
<1>4. CASE ReadAgent(g)
  <2>1. get[g] \in GetStates /\ get[g].id \in AgentIds
    BY <1>4 DEF ReadAgent, RegistryInv, RuntimesOK, RegistryTypeOK, GetStates, IdleGet
  <2>2. CASE get' = [get EXCEPT ![g] = IdleGet]
    BY <1>2, <1>4, <2>2 DEF ReadAgent, RegistryInv, RuntimesOK, RegistryTypeOK
  <2>3. CASE /\ get[g].id \in Live
             /\ get' = [get EXCEPT ![g].pc = "store", ![g].ver = agents[get[g].id].ver]
    <3> DEFINE v == agents[get[g].id].ver
    <3>1. v \in 0..MaxCommits
      BY <2>3 DEF Live, Given, RegistryInv, RuntimesOK, RegistryTypeOK, AgentRow
    <3>2. get' = [get EXCEPT ![g] = [get[g] EXCEPT !.pc = "store", !.ver = v]]
      BY <2>3 DEF RegistryInv, RuntimesOK, RegistryTypeOK
    <3> HIDE DEF v
    <3>3. [get[g] EXCEPT !.pc = "store", !.ver = v] \in GetStates
      BY <2>1, <3>1 DEF GetStates
    <3>4. get' \in [Getters -> GetStates \cup {IdleGet}]
      BY <3>2, <3>3 DEF RegistryInv, RuntimesOK, RegistryTypeOK
    <3> QED
      BY <1>2, <1>4, <3>4 DEF ReadAgent
  <2> QED
    BY <1>4, <2>2, <2>3 DEF ReadAgent
<1>5. CASE StoreRuntime(g)
  <2> DEFINE i == get[g].at
             a == get[g].id
             t == [ver |-> get[g].ver, at |-> commits]
  <2>1. get[g] \in GetStates
    BY <1>5 DEF StoreRuntime, RegistryInv, RuntimesOK, RegistryTypeOK, IdleGet
  <2>2. i \in Replicas /\ a \in AgentIds /\ t \in Runtime /\ t.at = commits
    BY <2>1 DEF GetStates, Runtime, RegistryInv, RuntimesOK, RegistryTypeOK
  <2>3. runtimes' = [runtimes EXCEPT ![i][a] = t] /\ get' = [get EXCEPT ![g] = IdleGet]
    BY <1>5 DEF StoreRuntime
  <2> HIDE DEF i, a, t
  <2>4. runtimes' \in [Replicas -> [AgentIds -> Runtime \cup {NoRuntime}]]
    BY <2>2, <2>3 DEF RegistryInv, RuntimesOK, RegistryTypeOK
  <2>5. RuntimesOK'
    BY <1>1, <2>3, <2>4 DEF RegistryInv, RuntimesOK, RegistryTypeOK
  <2>6. \A r \in Replicas, d \in AgentIds :
            runtimes'[r][d] = IF r = i /\ d = a THEN t ELSE runtimes[r][d]
    BY <2>2, <2>3 DEF RegistryInv, RuntimesOK, RegistryTypeOK
  <2>7. ASSUME NEW r \in Replicas, NEW d \in AgentIds, runtimes'[r][d] # NoRuntime
        PROVE  own[r][d] <= runtimes'[r][d].at
               \/ \E f \in Editors : edit[f] = [pc |-> "forget", at |-> r, id |-> d]
    <3>1. CASE r = i /\ d = a
      BY <2>2, <2>6, <3>1 DEF RegistryInv, RuntimesOK
    <3>2. CASE ~(r = i /\ d = a)
      BY <2>6, <2>7, <3>2 DEF RegistryInv, OwnChangeDropsRuntime
    <3> QED
      BY <3>1, <3>2
  <2>8. OwnChangeDropsRuntime'
    BY <1>1, <2>7 DEF OwnChangeDropsRuntime
  <2> QED
    BY <2>5, <2>8 DEF RegistryInv
<1> QED
  BY <1>3, <1>4, <1>5 DEF GetStep

\* A new row fits the table.
LEMMA Inserts ==
    ASSUME RegistryInv, NEW u \in AgentUsers, NEW n \in AgentName, Insert(u, n)
    PROVE  agents' \in [AgentIds -> AgentRow \cup {NoAgent, Deleted}]
<1>1. [owner |-> u, name |-> n, active |-> TRUE, ver |-> commits] \in AgentRow
  BY DEF AgentRow, RegistryInv, RuntimesOK, RegistryTypeOK
<1> QED
  BY <1>1 DEF Insert, RegistryInv, RuntimesOK, RegistryTypeOK

\* The name chosen for a copy is a name.
LEMMA FreeNames == ASSUME NEW u, NEW b \in Bases PROVE FreeName(u, b) \in AgentName
<1> DEFINE K == {k \in 1..3 : k = 3 \/ ~InUse(u, <<b, k>>)}
<1>1. K \subseteq 1..3 /\ 3 \in K
  OBVIOUS
<1> HIDE DEF K
<1>2. \E x \in K : \A y \in K : x <= y
  BY <1>1
<1>3. Min(K) \in K
  BY <1>2 DEF Min
<1> QED
  BY <1>1, <1>3 DEF FreeName, AgentName, K

\* Every step of an editor keeps the invariant.
LEMMA Edits == ASSUME RegistryInv, NEW e \in Editors, EditStep(e) PROVE RegistryInv'
<1>1. edit[e] \in EditStates \cup {IdleEdit}
  BY DEF RegistryInv, RuntimesOK, RegistryTypeOK
<1>2. ASSUME NEW u \in AgentUsers, NEW n \in AgentName, Register(e, u, n) PROVE RegistryInv'
  <2>1. edit' = [edit EXCEPT ![e] = edit[e]]
    BY <1>2 DEF Register, RegistryInv, RuntimesOK, RegistryTypeOK
  <2> QED
    BY <1>1, <1>2, <2>1, Inserts, NotYet DEF Register
<1>3. ASSUME NEW u \in AgentUsers, NEW id \in AgentIds, Install(e, u, id) PROVE RegistryInv'
  <2> DEFINE n == FreeName(u, agents[id].name[1])
  <2>1. agents[id] \in AgentRow /\ agents[id].name[1] \in Bases
    BY <1>3 DEF Install, Live, Given, RegistryInv, RuntimesOK, RegistryTypeOK, AgentRow, AgentName
  <2>2. n \in AgentName
    BY <2>1, FreeNames
  <2>3. edit[e].pc = "idle" /\ UNCHANGED <<runtimes, get, commits, own>>
    BY <1>3 DEF Install
  <2> HIDE DEF n
  <2>4. CASE Insert(u, n) /\ edit' = edit
    <3>1. edit' = [edit EXCEPT ![e] = edit[e]]
      BY <2>4 DEF RegistryInv, RuntimesOK, RegistryTypeOK
    <3> QED
      BY <1>1, <2>2, <2>3, <2>4, <3>1, Inserts, NotYet
  <2>5. CASE edit' = [edit EXCEPT ![e] = [pc |-> "insert", user |-> u, name |-> n]] /\ agents' = agents
    <3>1. [pc |-> "insert", user |-> u, name |-> n] \in EditStates
      BY <2>2 DEF EditStates
    <3>2. agents' \in [AgentIds -> AgentRow \cup {NoAgent, Deleted}]
      BY <2>5 DEF RegistryInv, RuntimesOK, RegistryTypeOK
    <3> QED
      BY <2>3, <2>5, <3>1, <3>2, NotYet
  <2> QED
    BY <1>3, <2>4, <2>5 DEF Install, n
<1>4. CASE InstallInsert(e)
  <2>1. edit[e].user \in AgentUsers /\ edit[e].name \in AgentName
    BY <1>1, <1>4 DEF InstallInsert, EditStates, IdleEdit
  <2> QED
    BY <1>4, <2>1, Inserts, NotYet DEF InstallInsert
<1>5. ASSUME NEW i \in Replicas, NEW u \in AgentUsers, NEW id \in AgentIds, OpenAgent(e, i, u, id)
      PROVE  RegistryInv'
  <2>1. agents[id] \in AgentRow /\ agents' = agents
    BY <1>5 DEF OpenAgent, Live, Given, RegistryInv, RuntimesOK, RegistryTypeOK
  <2>2. [pc |-> "write", at |-> i, id |-> id, row |-> agents[id]] \in EditStates
    BY <2>1 DEF EditStates
  <2>3. agents' \in [AgentIds -> AgentRow \cup {NoAgent, Deleted}]
    BY <2>1 DEF RegistryInv, RuntimesOK, RegistryTypeOK
  <2> QED
    BY <1>5, <2>2, <2>3, NotYet DEF OpenAgent
<1>6. ASSUME edit[e].pc = "write", edit' = [edit EXCEPT ![e] = IdleEdit],
             UNCHANGED <<agents, runtimes, get, commits, own>>
      PROVE  RegistryInv'
  <2>1. agents' \in [AgentIds -> AgentRow \cup {NoAgent, Deleted}]
    BY <1>6 DEF RegistryInv, RuntimesOK, RegistryTypeOK
  <2> QED
    BY <1>6, <2>1, NotYet
<1>7. ASSUME NEW n \in AgentName, NEW a \in BOOLEAN, UpdateAgent(e, n, a) PROVE RegistryInv'
  <2>1. edit[e].pc = "write" /\ UNCHANGED <<runtimes, get>>
    BY <1>7 DEF UpdateAgent
  <2>2. edit[e].row \in AgentRow
    BY <1>1, <2>1 DEF EditStates, IdleEdit
  <2> DEFINE new == [edit[e].row EXCEPT !.name = n, !.active = a, !.ver = commits + 1]
  <2>3. CASE Written(e, new)
    <3>1. commits + 1 \in 0..MaxCommits
      BY <2>3, RegistryAssumption DEF Written, RegistryInv, RuntimesOK, RegistryTypeOK
    <3>2. new \in AgentRow
      BY <2>2, <3>1 DEF AgentRow
    <3> QED
      BY <2>1, <2>3, <3>2, Writes
  <2>4. CASE NotWritten(e)
    BY <1>6, <2>1, <2>4 DEF NotWritten
  <2> QED
    BY <1>7, <2>3, <2>4 DEF UpdateAgent
<1>8. CASE DeleteAgent(e)
  BY <1>6, <1>8, Writes DEF DeleteAgent, NotWritten
<1> QED
  BY <1>2, <1>3, <1>4, <1>5, <1>7, <1>8, Forgetting DEF EditStep

\* It holds of the seeded table.
LEMMA Starts == RegistryInit => RegistryInv
<1> SUFFICES ASSUME RegistryInit PROVE RegistryInv
  OBVIOUS
<1>1. PICK b \in Bases : agents =
          [id \in AgentIds |->
              IF id = 1 THEN [owner |-> 0, name |-> <<b, 1>>, active |-> TRUE, ver |-> 0]
              ELSE NoAgent]
  BY DEF RegistryInit
<1>2. 0 \in 0..MaxCommits
  BY RegistryAssumption
<1>3. [owner |-> 0, name |-> <<b, 1>>, active |-> TRUE, ver |-> 0] \in AgentRow
  BY <1>2 DEF AgentRow, AgentName
<1>4. agents \in [AgentIds -> AgentRow \cup {NoAgent, Deleted}]
  BY <1>1, <1>3
<1>5. RegistryTypeOK
  BY <1>2, <1>4 DEF RegistryInit, RegistryTypeOK
<1> QED
  BY <1>2, <1>5 DEF RegistryInit, RegistryInv, RuntimesOK, OwnChangeDropsRuntime

\* A change of an agent that an instance reports as made takes effect there: an older runtime is gone
\* or about to be dropped.
THEOREM RuntimesDropped == RegistrySpec => [](RegistryTypeOK /\ OwnChangeDropsRuntime)
<1>1. RegistryInv /\ [RegistryNext]_registryVars => RegistryInv'
  <2> SUFFICES ASSUME RegistryInv, [RegistryNext]_registryVars PROVE RegistryInv'
    OBVIOUS
  <2>1. CASE UNCHANGED registryVars
    BY <2>1 DEF registryVars, RegistryInv, RuntimesOK, RegistryTypeOK, OwnChangeDropsRuntime
  <2> QED
    BY <2>1, Edits, Gets DEF RegistryNext
<1>2. RegistryInv => RegistryTypeOK /\ OwnChangeDropsRuntime
  BY DEF RegistryInv, RuntimesOK
<1> QED
  BY <1>1, <1>2, Starts, PTL DEF RegistrySpec
=============================================================================
