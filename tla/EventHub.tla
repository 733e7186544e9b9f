------------------------------ MODULE EventHub ------------------------------
(***************************************************************************)
(* The hub that carries task events to browsers (internal/task/hub.go) and *)
(* the SSE handler on top of it (internal/api/handlers_task.go).  Events   *)
(* of a task are numbered; a status event is published after the row it    *)
(* announces has been written, a token event has no row.                   *)
(***************************************************************************)
EXTENDS Integers, Sequences, FiniteSets, SequencesExt

CONSTANTS
    Clients,    \* browser connections
    UserOf,     \* UserOf[c]: its user
    TaskOf,     \* TaskOf[c]: the task it looks at
    ChanCap,    \* capacity of a subscriber's channel (128)
    ReplayCap,  \* replayCap
    MaxReplay,  \* maxReplay
    MaxPerUser, \* maxPerUser
    MaxTotal,   \* maxTotal
    MaxEvents   \* bound: events of a task

ASSUME HubAssumption ==
    /\ IsFiniteSet(Clients)
    /\ {ChanCap, ReplayCap, MaxReplay, MaxPerUser, MaxTotal, MaxEvents} \subseteq Nat \ {0}

VARIABLES
    written,  \* written[t]: number of the last status event whose row is stored
    sent,     \* sent[t]: number of the last event published
    announced, \* history: announced[t], the numbers of its status events so far
    replay,   \* replay[t]: the recent status events of t
    lru,      \* replayLRU: tasks with a replay entry, the stalest first
    subs,     \* subs: the registered clients
    subCount, \* subCount
    userSubs, \* userSubs[u]
    conn      \* conn[c]: the handler of c

hubVars == <<written, sent, announced, replay, lru, subs, subCount, userSubs, conn>>

HubTasks == {TaskOf[c] : c \in Clients}
HubUsers == {UserOf[c] : c \in Clients}
Event    == [no : 1..MaxEvents, token : BOOLEAN]

\* pc: "new" -> "replaying" -> "snapshot" -> "streaming" -> "new"; since and snap are the
\* last events at the registration and in the snapshot.
NoSnapshot == -1
Idle == [pc |-> "new", chan |-> <<>>, backlog |-> <<>>, seen |-> <<>>, lost |-> {},
         since |-> 0, snap |-> NoSnapshot]

HubInit ==
    /\ written = [t \in HubTasks |-> 0] /\ sent = [t \in HubTasks |-> 0]
    /\ announced = [t \in HubTasks |-> {}]
    /\ replay = [t \in HubTasks |-> <<>>] /\ lru = <<>>
    /\ subs = {} /\ subCount = 0 /\ userSubs = [u \in HubUsers |-> 0]
    /\ conn = [c \in Clients |-> Idle]

-----------------------------------------------------------------------------
(* Publish: one critical section of mu. *)

\* A non-blocking send: what does not fit is dropped.
Offer(k, ev) == IF Len(k.chan) < ChanCap THEN [k EXCEPT !.chan = Append(@, ev)]
                                         ELSE [k EXCEPT !.lost = @ \cup {ev.no}]

\* list.Remove of the element that replayIdx holds for t.
Unlisted(order, t) ==
    IF t \in Range(order) THEN RemoveAt(order, CHOOSE i \in DOMAIN order : order[i] = t) ELSE order

\* evictReplayLocked makes room for a new task: the entry of the stalest one goes.
Remember(t, ev) ==
    \/ /\ t \in Range(lru)
       /\ lru' = Append(Unlisted(lru, t), t)
       /\ replay' = [replay EXCEPT ![t] =
              IF Len(@) = ReplayCap THEN Append(Tail(@), ev) ELSE Append(@, ev)]
    \/ /\ t \notin Range(lru) /\ Len(lru) < MaxReplay
       /\ lru' = Append(lru, t)
       /\ replay' = [replay EXCEPT ![t] = <<ev>>]
    \/ /\ t \notin Range(lru) /\ Len(lru) >= MaxReplay
       /\ lru' = Append(Tail(lru), t)
       /\ replay' = [replay EXCEPT ![t] = <<ev>>, ![Head(lru)] = <<>>]

Publish(t, ev) ==
    /\ IF ev.token THEN UNCHANGED <<replay, lru>> ELSE Remember(t, ev)
    /\ sent' = [sent EXCEPT ![t] = ev.no]
    /\ conn' = [c \in Clients |->
                  IF c \in subs /\ TaskOf[c] = t THEN Offer(conn[c], ev) ELSE conn[c]]
    /\ UNCHANGED <<subs, subCount, userSubs>>

\* The scheduler or the service stores a status.
WriteStatus(t) ==
    /\ written[t] <= sent[t] /\ sent[t] < MaxEvents
    /\ written' = [written EXCEPT ![t] = sent[t] + 1]
    /\ UNCHANGED <<sent, announced, replay, lru, subs, subCount, userSubs, conn>>

\* It then announces that status.
PublishStatus(t) ==
    /\ written[t] > sent[t]
    /\ Publish(t, [no |-> written[t], token |-> FALSE])
    /\ announced' = [announced EXCEPT ![t] = @ \cup {written[t]}]
    /\ UNCHANGED written

PublishToken(t) ==
    /\ written[t] <= sent[t] /\ sent[t] < MaxEvents
    /\ Publish(t, [no |-> sent[t] + 1, token |-> TRUE])
    /\ UNCHANGED <<written, announced>>

-----------------------------------------------------------------------------
(* Subscribe and the handler of the stream. *)

Admitted(c) == subCount < MaxTotal /\ userSubs[UserOf[c]] < MaxPerUser

\* Under mu: the limits, the registration and a copy of the backlog.
Subscribe(c) ==
    /\ conn[c].pc = "new" /\ Admitted(c)
    /\ subs' = subs \cup {c}
    /\ subCount' = subCount + 1
    /\ userSubs' = [userSubs EXCEPT ![UserOf[c]] = @ + 1]
    /\ conn' = [conn EXCEPT ![c] = [Idle EXCEPT !.pc = "replaying",
                                                !.since = sent[TaskOf[c]],
                                                !.backlog = replay[TaskOf[c]]]]
    /\ UNCHANGED <<written, sent, announced, replay, lru>>

\* Outside mu: the backlog goes into the channel, next to what is published meanwhile.
Replay(c) ==
    /\ conn[c].pc = "replaying"
    /\ conn' = [conn EXCEPT ![c] =
           IF conn[c].backlog = <<>> THEN [@ EXCEPT !.pc = "snapshot"]
           ELSE [Offer(@, Head(@.backlog)) EXCEPT !.backlog = Tail(conn[c].backlog)]]
    /\ UNCHANGED <<written, sent, announced, replay, lru, subs, subCount, userSubs>>

\* Mutant of Snapshot: the state is taken from the replay buffer, which spares the query.
SnapshotFromReplay(c) ==
    /\ conn[c].pc = "snapshot"
    /\ LET buf == replay[TaskOf[c]]
       IN  conn' = [conn EXCEPT ![c].pc = "streaming",
                                ![c].snap = IF buf = <<>> THEN 0 ELSE buf[Len(buf)].no]
    /\ UNCHANGED <<written, sent, announced, replay, lru, subs, subCount, userSubs>>

\* The handler sends the task as it is stored; if it cannot be read, it streams without a snapshot.
Snapshot(c) ==
    /\ conn[c].pc = "snapshot"
    /\ \E snap \in {written[TaskOf[c]], NoSnapshot} :
         conn' = [conn EXCEPT ![c].pc = "streaming", ![c].snap = snap]
    /\ UNCHANGED <<written, sent, announced, replay, lru, subs, subCount, userSubs>>

Receive(c) ==
    /\ conn[c].pc = "streaming" /\ conn[c].chan # <<>>
    /\ conn' = [conn EXCEPT ![c].chan = Tail(@), ![c].seen = Append(@, Head(conn[c].chan))]
    /\ UNCHANGED <<written, sent, announced, replay, lru, subs, subCount, userSubs>>

\* Mutant of Unsubscribe: the slot of the user is not given back.
UnsubscribeKeeps(c) ==
    /\ conn[c].pc = "streaming"
    /\ subs' = subs \ {c}
    /\ subCount' = subCount - 1
    /\ conn' = [conn EXCEPT ![c] = Idle]
    /\ UNCHANGED <<written, sent, announced, replay, lru, userSubs>>

\* The browser has gone (its context or a failed heartbeat): the handler unsubscribes, and
\* the last subscriber of a task takes the task's replay entry with it.
Unsubscribe(c) ==
    LET t == TaskOf[c]
        last == \A d \in subs \ {c} : TaskOf[d] # t
    IN  /\ conn[c].pc = "streaming"
        /\ subs' = subs \ {c}
        /\ subCount' = subCount - 1
        /\ userSubs' = [userSubs EXCEPT ![UserOf[c]] = @ - 1]
        /\ replay' = IF last THEN [replay EXCEPT ![t] = <<>>] ELSE replay
        /\ lru' = IF last THEN Unlisted(lru, t) ELSE lru
        /\ conn' = [conn EXCEPT ![c] = Idle]
        /\ UNCHANGED <<written, sent, announced>>

HubNext ==
    \/ \E t \in HubTasks : WriteStatus(t) \/ PublishStatus(t) \/ PublishToken(t)
    \/ \E c \in Clients : \/ Subscribe(c) \/ Replay(c) \/ Snapshot(c)
                          \/ Receive(c) \/ Unsubscribe(c)

HubSpec == HubInit /\ [][HubNext]_hubVars

-----------------------------------------------------------------------------
(* Properties. *)

Numbers(events) == {events[i].no : i \in DOMAIN events}
Arrived(k)      == k.seen \o k.chan
Distinct(s)     == Cardinality(Numbers(s)) = Len(s)

HubTypeOK ==
    /\ written \in [HubTasks -> 0..MaxEvents] /\ sent \in [HubTasks -> 0..MaxEvents]
    /\ announced \in [HubTasks -> SUBSET (1..MaxEvents)]
    /\ replay \in [HubTasks -> Seq(Event)] /\ lru \in Seq(HubTasks)
    /\ subs \subseteq Clients /\ subCount \in Nat /\ userSubs \in [HubUsers -> Nat]
    /\ \A c \in Clients :
         /\ conn[c].pc \in {"new", "replaying", "snapshot", "streaming"}
         /\ conn[c].chan \in Seq(Event) /\ Len(conn[c].chan) <= ChanCap

\* A browser that is connected misses nothing and sees nothing twice: whatever was published
\* since its registration is on its way, received or counted as dropped, exactly once; and every
\* status announced so far, also one that no replay buffer holds any more, is in the snapshot or
\* among those events (hub.go:160-186, handlers_task.go:150-158).  That needs the snapshot: where
\* the task could not be read, the browser is told nothing of what was evicted from the replay
\* before it came, and the handler streams all the same.
NothingMissed ==
    \A c \in subs :
        LET k == conn[c]
        IN  /\ Distinct(Arrived(k) \o k.backlog)
            /\ \A n \in k.since + 1 .. sent[TaskOf[c]] :
                 (n \in k.lost) # (n \in Numbers(Arrived(k)))
            /\ k.pc = "streaming" /\ k.snap # NoSnapshot =>
                 \A n \in announced[TaskOf[c]] :
                    n <= k.snap \/ n \in k.lost \cup Numbers(Arrived(k))

\* The counters and the two indexes of the hub always agree with its maps, so connection
\* slots and replay memory neither leak nor overrun their limits (hub.go:117-138, 282-303).
HubAccounts ==
    /\ subCount = Cardinality(subs) /\ subCount <= MaxTotal
    /\ \A u \in HubUsers : /\ userSubs[u] = Cardinality({c \in subs : UserOf[c] = u})
                           /\ userSubs[u] <= MaxPerUser
    /\ Range(lru) = {t \in HubTasks : replay[t] # <<>>}
    /\ Len(lru) = Cardinality(Range(lru)) /\ Len(lru) <= MaxReplay

\* Events reach a browser in the order in which they were published: the replay comes
\* first (hub.go:160-161).
InOrder ==
    \A c \in subs : \A i, j \in DOMAIN conn[c].seen :
        i < j => conn[c].seen[i].no < conn[c].seen[j].no
=============================================================================
