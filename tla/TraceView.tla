------------------------------ MODULE TraceView ------------------------------
(***************************************************************************)
(* What a query computes from the finished spans of one trace: the time    *)
(* each span spent itself, the wait in the queue and the tree              *)
(* (buildTrace and its helpers, internal/observability/tracing/store.go).  *)
(* Spans reach the store in the order they end, a child before its parent; *)
(* a parent may be missing for good.                                       *)
(***************************************************************************)
EXTENDS Integers, FiniteSets

CONSTANTS
    MaxSpanId, \* bound: spans of the trace; a span starts after its parent
    ExecuteIds,\* bound: the ids the task.execute span may have
    Horizon    \* bound: instants 0..Horizon

ASSUME ViewAssumption == MaxSpanId \in Nat /\ Horizon \in Nat

VARIABLE spans \* spans[id]: the spans that have ended

NoParent == 0
Lost     == -1      \* a parent that is not in the trace: remote, dropped or cut off
SpanIds  == 1..MaxSpanId
Span     == [parent : {NoParent, Lost} \cup SpanIds, start : 0..Horizon, end : 0..Horizon,
             execute : BOOLEAN]  \* execute: it is the task.execute span of the worker

ViewTypeOK == DOMAIN spans \subseteq SpanIds /\ \A i \in DOMAIN spans : spans[i] \in Span

ViewInit == spans = <<>>

Ended == DOMAIN spans

\* snapshotSpan: a span whose end lies before its start gets its start for an end.
SnapshotSpan(parent, s, e, execute) ==
    [parent |-> parent, start |-> s, end |-> IF e < s THEN s ELSE e, execute |-> execute]

EndSpan(i) ==
    /\ i \notin Ended
    /\ \E parent \in {NoParent, Lost} \cup 1..(i - 1), s, e \in 0..Horizon, x \in BOOLEAN :
           /\ x => i \in ExecuteIds /\ \A j \in Ended : ~spans[j].execute
           /\ spans' = [j \in Ended \cup {i} |-> IF j = i THEN SnapshotSpan(parent, s, e, x) ELSE spans[j]]

ViewNext == \E i \in SpanIds : EndSpan(i)

ViewSpec == ViewInit /\ [][ViewNext]_spans

-----------------------------------------------------------------------------
(* computeSelfTimes and coveredMS: the union of the children's intervals,  *)
(* cut to the parent, in one pass over the intervals sorted by their start. *)

Duration(i) == spans[i].end - spans[i].start
Kids(i)     == {j \in Ended : spans[j].parent = i}

Larger(a, b)  == IF a < b THEN b ELSE a
Smaller(a, b) == IF b < a THEN b ELSE a

\* The interval of child j, relative to the start of the parent and cut to it.
Clip(i, j) == [s |-> Larger(0, spans[j].start - spans[i].start),
               e |-> Smaller(Duration(i), spans[j].end - spans[i].start)]

\* A child outside of its parent covers nothing.
Clipped(i) == {j \in Kids(i) : Clip(i, j).s < Clip(i, j).e}

\* sort.Slice keeps no order among intervals with the same start.
Orders(i) ==
    {q \in [1..Cardinality(Clipped(i)) -> Clipped(i)] :
        /\ \A j \in Clipped(i) : \E k \in DOMAIN q : q[k] = j
        /\ \A k, m \in DOMAIN q : k < m => Clip(i, q[k]).s <= Clip(i, q[m]).s}

\* Mutant of Merge: the end of an interval within the current one becomes its end.
MergeForgetsLonger(acc, v) ==
    IF v.s <= acc.e THEN [acc EXCEPT !.e = v.e]
    ELSE [total |-> acc.total + acc.e - acc.s, s |-> v.s, e |-> v.e]

Merge(acc, v) ==
    IF v.s <= acc.e THEN [acc EXCEPT !.e = Larger(acc.e, v.e)]
    ELSE [total |-> acc.total + acc.e - acc.s, s |-> v.s, e |-> v.e]

\* The pass over the intervals: what it has added up, and the current interval.
Pass(i, q) ==
    LET acc[k \in DOMAIN q] ==
            IF k = 1 THEN [total |-> 0, s |-> Clip(i, q[1]).s, e |-> Clip(i, q[1]).e]
            ELSE Merge(acc[k - 1], Clip(i, q[k]))
    IN  acc

CoveredMS(i, q) ==
    LET last == Pass(i, q)[Cardinality(Clipped(i))]
    IN  IF Clipped(i) = {} THEN 0 ELSE last.total + last.e - last.s

\* What the sort may make of SelfMS.
SelfMS(i) == {Larger(0, Duration(i) - CoveredMS(i, q)) : q \in Orders(i)}

-----------------------------------------------------------------------------
(* queueWaitMS and descendants. *)

Executing == {i \in Ended : spans[i].execute}
Exec      == CHOOSE i \in Executing : TRUE

\* The spans below one of the trace, the least set closed under Kids; what lies below a missing
\* span is not found.
Descendants(i) ==
    {j \in Ended : \A C \in SUBSET Ended :
        (Kids(i) \subseteq C /\ \A m \in C : Kids(m) \subseteq C) => j \in C}

\* The last span of the submission to end before the worker starts.
Anchors == {spans[i].end : i \in {j \in Ended \ (Descendants(Exec) \cup {Exec}) :
                                     spans[j].end < spans[Exec].start}}

Latest(S) == CHOOSE t \in S : \A u \in S : u <= t

QueueWaitMS == IF Executing = {} \/ Anchors = {} THEN 0 ELSE spans[Exec].start - Latest(Anchors)

-----------------------------------------------------------------------------
(* buildTree. *)

Roots == {i \in Ended : spans[i].parent = NoParent \/ spans[i].parent \notin Ended}

Tree == Roots \cup UNION {Descendants(r) : r \in Roots}

-----------------------------------------------------------------------------
(* Properties. *)

\* A span's own time is the time it ran while no child of it did: children that run in parallel
\* count once, what a child does outside of its parent counts for nothing, and the order in which
\* the sort leaves intervals with the same start does not matter (store.go:530-535).
SelfTimeIsExact ==
    \A i \in Ended :
        SelfMS(i) = {Cardinality({t \in 0..(Duration(i) - 1) : \A k \in Kids(i) :
                        ~(spans[k].start <= spans[i].start + t /\ spans[i].start + t < spans[k].end)})}

\* Every span that was recorded is shown, wherever the chain has a hole (store.go:62-66); and
\* nothing outside of the worker ends during the time called waiting (store.go:588-595).
NothingHidden ==
    /\ Tree = Ended
    /\ QueueWaitMS > 0 => \A i \in Ended \ (Descendants(Exec) \cup {Exec}) :
           spans[i].end \notin (spans[Exec].start - QueueWaitMS + 1)..(spans[Exec].start - 1)

\* What the view tells about a trace is what was recorded.
TraceIsFaithful == SelfTimeIsExact /\ NothingHidden
=============================================================================
