------------------------------ MODULE SpanStore ------------------------------
(***************************************************************************)
(* The call chains of one process: the bounded store of finished spans     *)
(* with its task index (internal/observability/tracing/store.go), fed by   *)
(* the HTTP middleware and the task consumer.                              *)
(*                                                                         *)
(* A span is only counted here; what a query computes from the spans of    *)
(* one trace is in TraceView.                                              *)
(***************************************************************************)
EXTENDS Integers, Sequences, FiniteSets, Functions

CONSTANTS
    TraceIds, Tasks,
    Users, UserOf,       \* UserOf[t]: the user of a task
    MaxTraces, MaxSpans, \* Config.MaxTraces and MaxSpansPerTrace
    MaxCalls             \* bound: calls of Link and ExportSpans

None == "none"

ASSUME SpanStoreAssumption ==
    /\ IsFiniteSet(TraceIds)
    /\ MaxTraces \in Nat \ {0} /\ MaxSpans \in Nat \ {0} /\ MaxCalls \in Nat
    /\ UserOf \in [Tasks -> Users] /\ None \notin Tasks \cup Users

VARIABLES
    store,    \* traces, order, taskTraceIdx and the counters
    onTrace,  \* onTrace[t]: the traces the runs of a task were recorded in
    calls     \* calls so far

spanVars == <<store, onTrace, calls>>

TraceRecord == [spans : 0..MaxSpans, task : Tasks \cup {None}, owner : Users \cup {None},
                truncated : BOOLEAN]
NewRecord   == [spans |-> 0, task |-> None, owner |-> None, truncated |-> FALSE]

SpanTypeOK ==
    /\ DOMAIN store.traces \subseteq TraceIds /\ DOMAIN store.index \subseteq Tasks
    /\ \A tr \in DOMAIN store.traces : store.traces[tr] \in TraceRecord
    /\ store.order \in Seq(TraceIds)
    /\ {store.exported, store.rejected, store.evicted, store.gone} \subseteq 0..MaxCalls
    /\ onTrace \in [Tasks -> SUBSET TraceIds]

SpanInit ==
    /\ store = [traces |-> <<>>, order |-> <<>>, index |-> <<>>,
                exported |-> 0, rejected |-> 0, evicted |-> 0, gone |-> 0]
    /\ onTrace = [t \in Tasks |-> {}]
    /\ calls = 0

Without(f, k) == Restrict(f, DOMAIN f \ {k})
With(f, k, v) == [x \in DOMAIN f \cup {k} |-> IF x = k THEN v ELSE f[x]]

-----------------------------------------------------------------------------
(* ensureLocked: a new trace takes the place of the one created first.     *)

\* Mutant of Evicted: the index keeps the task.
EvictedKeepsIndex(s) ==
    LET oldest == Head(s.order)
    IN  [s EXCEPT !.order = Tail(@), !.traces = Without(@, oldest), !.evicted = @ + 1,
                  !.gone = @ + s.traces[oldest].spans]

Evicted(s) ==
    LET oldest == Head(s.order)
        rec    == s.traces[oldest]
    IN  [s EXCEPT !.order = Tail(@), !.traces = Without(@, oldest), !.evicted = @ + 1,
                  !.gone = @ + rec.spans,   \* for the properties: spans lost with it
                  !.index = IF rec.task = None THEN @ ELSE Without(@, rec.task)]

EnsureLocked(s, tr) ==
    IF tr \in DOMAIN s.traces THEN s
    ELSE LET room == IF Len(s.order) >= MaxTraces THEN Evicted(s) ELSE s
         IN  [room EXCEPT !.traces = With(@, tr, NewRecord), !.order = Append(@, tr)]

-----------------------------------------------------------------------------
Calling == calls < MaxCalls /\ calls' = calls + 1

\* ExportSpans: a span ends.  Past the limit the new span is dropped, not the first ones.
Stored(s, tr) ==
    IF s.traces[tr].spans >= MaxSpans
    THEN [s EXCEPT !.traces[tr].truncated = TRUE, !.rejected = @ + 1]
    ELSE [s EXCEPT !.traces[tr].spans = @ + 1, !.exported = @ + 1]

ExportSpan(tr) ==
    /\ Calling
    /\ store' = Stored(EnsureLocked(store, tr), tr)
    /\ UNCHANGED onTrace

\* Link: the first owner stays; the index follows the last link of a task.
Linked(s, tr, t, u) ==
    LET rec    == s.traces[tr]
        before == IF t # None /\ rec.task \notin {None, t} THEN Without(s.index, rec.task) ELSE s.index
    IN  [s EXCEPT !.traces[tr] = [rec EXCEPT !.task = IF t = None THEN rec.task ELSE t,
                                             !.owner = IF rec.owner = None THEN u ELSE rec.owner],
                  !.index = IF t = None THEN before ELSE With(before, t, tr)]

\* The two look-ups: the owner of a trace, and the trace of a task.
Owner(tr)       == IF tr \in DOMAIN store.traces THEN store.traces[tr].owner ELSE None
TraceForTask(t) == IF t \in DOMAIN store.index THEN store.index[t] ELSE None

\* trustedParent: a trace of another user is not continued.
Trusted(tr, u) == Owner(tr) \in {None, u}

\* tracingMiddleware: a request of a user, on a chain of its own or on the one it brought along.
LinkRequest(tr, u) ==
    /\ Calling /\ Trusted(tr, u)
    /\ store' = Linked(EnsureLocked(store, tr), tr, None, u)
    /\ UNCHANGED onTrace

\* executeTask: on the chain of the message, or on a new one when it carries none (approval).
LinkTask(tr, t) ==
    /\ Calling
    /\ store' = Linked(EnsureLocked(store, tr), tr, t, UserOf[t])
    /\ onTrace' = [onTrace EXCEPT ![t] = @ \cup {tr}]

SpanNext ==
    \E tr \in TraceIds :
        \/ ExportSpan(tr)
        \/ \E u \in Users : LinkRequest(tr, u)
        \/ \E t \in Tasks : LinkTask(tr, t)

SpanSpec == SpanInit /\ [][SpanNext]_spanVars

-----------------------------------------------------------------------------
(* Properties. *)

\* A trace is shown to its owner only.
Write(tr, u) == IF Owner(tr) = u THEN tr ELSE None

\* GET /api/tasks/:id/trace: what a user sees of a task.
ByTask(t, u) == Write(TraceForTask(t), u)

\* The spans in the store, numbered within their trace.
Kept == {p \in TraceIds \X (1..MaxSpans) :
            p[1] \in DOMAIN store.traces /\ p[2] <= store.traces[p[1]].spans}

\* The three structures agree: the order holds each kept trace once, within the limit; what the
\* index says of a task is a kept trace that names it; what a user is shown is a trace that one of
\* its runs was recorded in; and every span accepted is still there or left with its trace (store.go:213-216).
StoreAgrees ==
    /\ Range(store.order) = DOMAIN store.traces
    /\ Len(store.order) = Cardinality(DOMAIN store.traces) /\ Len(store.order) <= MaxTraces
    /\ \A t \in DOMAIN store.index :
           store.index[t] \in DOMAIN store.traces /\ store.traces[store.index[t]].task = t
    /\ \A t \in Tasks, u \in Users : ByTask(t, u) \in onTrace[t] \cup {None}
    /\ store.exported = store.gone + Cardinality(Kept)

\* As long as a trace that names a task is kept, the task leads to one (handlers_trace.go:46: the
\* way in that is used most).
KeptTraceIsFound == \A tr \in DOMAIN store.traces :
    store.traces[tr].task # None => store.traces[tr].task \in DOMAIN store.index
=============================================================================
