---------------------------- MODULE TaskRequests ----------------------------
(***************************************************************************)
(* POST /api/tasks of one user: the rate limits of the middleware and of   *)
(* the handler (internal/api/middleware.go, handlers_task.go) on a fixed   *)
(* window in Redis (internal/ratelimit/limiter.go), then CreateTask        *)
(* (internal/task/service.go): admission, row, message.  Every Redis       *)
(* command and every statement runs with the context of the request.       *)
(***************************************************************************)
EXTENDS Integers, FiniteSets

CONSTANTS
    Requests,    \* requests to create a task
    Leavers,     \* those whose client may disconnect
    Limit,       \* Limit[b]: the limit of bucket b
    AdmitLimit,  \* admitLimit of the stream
    Faults,      \* "refused", "reply" (Redis), "db", "dbreply", "crash"
    MaxGlitches  \* bound: commands that fail although their context is live

ASSUME RequestsAssumption ==
    /\ Leavers \subseteq Requests
    /\ Limit \in [{"user", "tasks"} -> Nat \ {0}]
    /\ AdmitLimit \in Nat \ {0} /\ MaxGlitches \in Nat

VARIABLES
    bucket,  \* bucket[b]: the counter ratelimit:{key}:60 in Redis
    row,     \* row[r]: status of the task that r creates
    msg,     \* msg[r]: its entry in the stream
    req,     \* req[r]: the handler of r
    glitches \* commands that have failed so far

requestVars == <<bucket, row, msg, req, glitches>>

\* by: the request whose INCR created the key.
Bucket  == [n : 0..Cardinality(Requests), ttl : BOOLEAN, by : Requests \cup {"none"}]
Handler == [pc : {"user", "tasks", "admit", "insert", "enqueue", "mark", "over"},
            at : {"incr", "expire", "del"},  \* the command of Allow that is next
            gone : BOOLEAN,                  \* the client has left or the process has ended
            reply : {"none", "201", "429", "503", "500"}]

NoKey == [n |-> 0, ttl |-> FALSE, by |-> "none"]

RequestTypeOK ==
    /\ bucket \in [{"user", "tasks"} -> Bucket]
    /\ row \in [Requests -> {"none", "pending", "failed", "running"}]
    /\ msg \in [Requests -> {"none", "queued", "taken"}]
    /\ req \in [Requests -> Handler]
    /\ glitches \in 0..MaxGlitches

RequestInit ==
    /\ bucket = [b \in {"user", "tasks"} |-> NoKey]
    /\ row = [r \in Requests |-> "none"]
    /\ msg = [r \in Requests |-> "none"]
    /\ req = [r \in Requests |-> [pc |-> "user", at |-> "incr", gone |-> FALSE, reply |-> "none"]]
    /\ glitches = 0

-----------------------------------------------------------------------------
(* How a command ends: "ok", "error" without effect, or "lost": executed, but its reply *)
(* does not arrive.  A context that is done gives one of the two errors.                *)

Outcomes(r, refused, lost) ==
    (IF req[r].gone THEN {"error", "lost"} ELSE {"ok"})
    \cup (IF refused \in Faults /\ glitches < MaxGlitches THEN {"error"} ELSE {})
    \cup (IF lost \in Faults /\ glitches < MaxGlitches THEN {"lost"} ELSE {})

Spend(r, o) == glitches' = IF o = "ok" \/ req[r].gone THEN glitches ELSE glitches + 1

Redis(r)    == Outcomes(r, "refused", "reply")
Database(r) == Outcomes(r, "db", "dbreply")

Go(r, pc)     == req' = [req EXCEPT ![r].pc = pc, ![r].at = "incr"]
Answer(r, st) == req' = [req EXCEPT ![r].pc = "over", ![r].reply = st]

-----------------------------------------------------------------------------
(* RedisLimiter.Allow, and what its two callers make of the result. *)

Allowed(r, b)  == Go(r, IF b = "user" THEN "tasks" ELSE "admit")
Rejected(r)    == Answer(r, "429")
\* An error lets the request pass in the middleware; RateAllowed refuses it.
Undecided(r, b) == IF b = "user" THEN Allowed(r, b) ELSE Rejected(r)

\* Only the first request of a window goes on to EXPIRE.
Incr(r, b) ==
    /\ req[r].pc = b /\ req[r].at = "incr"
    /\ \E o \in Redis(r) :
         /\ Spend(r, o)
         /\ bucket' = [bucket EXCEPT ![b] =
                IF o = "error" THEN @
                ELSE [bucket[b] EXCEPT !.n = bucket[b].n + 1,
                                       !.by = IF bucket[b].n = 0 THEN r ELSE bucket[b].by]]
         /\ CASE o # "ok" -> Undecided(r, b)
              [] o = "ok" /\ bucket'[b].n = 1 -> req' = [req EXCEPT ![r].at = "expire"]
              [] OTHER ->
                   IF bucket'[b].n <= Limit[b] THEN Allowed(r, b) ELSE Rejected(r)
    /\ UNCHANGED <<row, msg>>

\* Mutant of Expire: the key without a TTL is left behind.
ExpireGivesUp(r, b) ==
    /\ req[r].pc = b /\ req[r].at = "expire"
    /\ \E o \in Redis(r) :
         /\ Spend(r, o)
         /\ bucket' = IF o = "error" \/ bucket[b].n = 0 THEN bucket
                      ELSE [bucket EXCEPT ![b].ttl = TRUE]
         /\ IF o = "ok" THEN Allowed(r, b) ELSE Undecided(r, b)
    /\ UNCHANGED <<row, msg>>

\* n = 1 is within every limit.  EXPIRE has no effect on a key that is gone.
Expire(r, b) ==
    /\ req[r].pc = b /\ req[r].at = "expire"
    /\ \E o \in Redis(r) :
         /\ Spend(r, o)
         /\ bucket' = IF o = "error" \/ bucket[b].n = 0 THEN bucket
                      ELSE [bucket EXCEPT ![b].ttl = TRUE]
         /\ IF o = "ok" THEN Allowed(r, b) ELSE req' = [req EXCEPT ![r].at = "del"]
    /\ UNCHANGED <<row, msg>>

\* EXPIRE has failed: the key is deleted, whatever others have counted in it.
Del(r, b) ==
    /\ req[r].pc = b /\ req[r].at = "del"
    /\ \E o \in Redis(r) :
         /\ Spend(r, o)
         /\ bucket' = IF o = "error" THEN bucket
                      ELSE [bucket EXCEPT ![b] = NoKey]
    /\ Undecided(r, b)
    /\ UNCHANGED <<row, msg>>

\* The TTL of the window runs out.
WindowEnds(b) ==
    /\ bucket[b].ttl
    /\ bucket' = [bucket EXCEPT ![b] = NoKey]
    /\ UNCHANGED <<row, msg, req, glitches>>

-----------------------------------------------------------------------------
(* CreateTask. *)

Queued == {r \in Requests : msg[r] = "queued"}

\* The check before the row; a Redis error lets the request pass.
AdmitTask(r) ==
    /\ req[r].pc = "admit"
    /\ \E o \in Redis(r) :
         /\ Spend(r, o)
         /\ IF o = "ok" /\ Cardinality(Queued) >= AdmitLimit
            THEN Answer(r, "503") ELSE Go(r, "insert")
    /\ UNCHANGED <<bucket, row, msg>>

InsertRow(r) ==
    /\ req[r].pc = "insert"
    /\ \E o \in Database(r) :
         /\ Spend(r, o)
         /\ row' = IF o = "error" THEN row ELSE [row EXCEPT ![r] = "pending"]
         /\ IF o = "ok" THEN Go(r, "enqueue") ELSE Answer(r, "500")
    /\ UNCHANGED <<bucket, msg>>

\* The admission of Enqueue is one more XLEN.  XADD, and what CreateTask makes of it.
Enqueue(r) ==
    /\ req[r].pc = "enqueue"
    /\ \/ /\ \E o \in Redis(r) :
               /\ Spend(r, o)
               /\ msg' = IF o = "error" THEN msg ELSE [msg EXCEPT ![r] = "queued"]
               /\ IF o = "ok" THEN Answer(r, "201")
                  ELSE req' = [req EXCEPT ![r].pc = "mark", ![r].reply = "500"]
       \/ /\ Cardinality(Queued) >= AdmitLimit
          /\ req' = [req EXCEPT ![r].pc = "mark", ![r].reply = "503"]
          /\ UNCHANGED <<msg, glitches>>
    /\ UNCHANGED <<bucket, row>>

\* Mutant of MarkFailed: the row is left as it is.
MarkNothing(r) ==
    /\ req[r].pc = "mark"
    /\ req' = [req EXCEPT ![r].pc = "over"]
    /\ UNCHANGED <<bucket, row, msg, glitches>>

\* UpdateTaskStatus(failed), whose own error is dropped.
MarkFailed(r) ==
    /\ req[r].pc = "mark"
    /\ \E o \in Database(r) :
         /\ Spend(r, o)
         /\ row' = IF o = "error" THEN row ELSE [row EXCEPT ![r] = "failed"]
    /\ req' = [req EXCEPT ![r].pc = "over"]
    /\ UNCHANGED <<bucket, msg>>

-----------------------------------------------------------------------------
(* The environment. *)

\* The scheduler takes the message; it executes a failed task like a pending one.
Execute(r) ==
    /\ msg[r] = "queued"
    /\ msg' = [msg EXCEPT ![r] = "taken"]
    /\ row' = [row EXCEPT ![r] = "running"]
    /\ UNCHANGED <<bucket, req, glitches>>

Leave(r) ==
    /\ r \in Leavers /\ req[r].pc # "over" /\ ~req[r].gone
    /\ req' = [req EXCEPT ![r].gone = TRUE]
    /\ UNCHANGED <<bucket, row, msg, glitches>>

\* The API process ends; requests in flight get no answer.
ApiCrash ==
    /\ "crash" \in Faults
    /\ \E r \in Requests : req[r].pc # "over"
    /\ req' = [r \in Requests |-> IF req[r].pc = "over" THEN req[r]
                                  ELSE [req[r] EXCEPT !.pc = "over", !.gone = TRUE, !.reply = "none"]]
    /\ UNCHANGED <<bucket, row, msg, glitches>>

RequestNext ==
    \/ \E r \in Requests :
         \/ \E b \in {"user", "tasks"} : Incr(r, b) \/ Expire(r, b) \/ Del(r, b)
         \/ AdmitTask(r) \/ InsertRow(r) \/ Enqueue(r) \/ MarkFailed(r)
         \/ Execute(r) \/ Leave(r)
    \/ \E b \in {"user", "tasks"} : WindowEnds(b)
    \/ ApiCrash
    \/ (\A r \in Requests : req[r].pc = "over") /\ UNCHANGED requestVars

RequestSpec == RequestInit /\ [][RequestNext]_requestVars

-----------------------------------------------------------------------------
(* Properties. *)

InWindowSetup(r, b) == req[r].pc = b /\ req[r].at \in {"expire", "del"}

\* Redis errors heal: a counter without a TTL, which would refuse its user for good, exists
\* only while the request that started it is still there to set the TTL or delete it, unless
\* that request's client has left (limiter.go:60-71).  One glitch is what the code allows for.
CounterHeals ==
    \A b \in {"user", "tasks"} :
        bucket[b].n > 0 /\ ~bucket[b].ttl =>
            InWindowSetup(bucket[b].by, b) \/ req[bucket[b].by].gone

\* A request that is answered has either no task, a failed one or one with a message, unless
\* its client left before the answer (service.go:71-72).
TaskAccountedFor ==
    \A r \in Requests :
        /\ req[r].reply = "201" => msg[r] # "none"
        /\ req[r].pc = "over" /\ row[r] = "pending" /\ msg[r] = "none" => req[r].gone

\* A task without a message is failed, not lost (service.go:72).
NoOrphanRow ==
    \A r \in Requests : req[r].pc = "over" /\ row[r] = "pending" => msg[r] # "none"

\* The limiter always heals itself (limiter.go:60).
CounterAlwaysHeals ==
    \A b \in {"user", "tasks"} :
        bucket[b].n > 0 /\ ~bucket[b].ttl => InWindowSetup(bucket[b].by, b)

\* A task whose enqueueing was reported as failed is not executed.
FailedNotExecuted == \A r \in Requests : req[r].pc = "over" /\ req[r].reply = "500" => row[r] # "running"
=============================================================================
