-------------------------- MODULE LLMGatewayProofs --------------------------
(***************************************************************************)
(* Proofs about LLMGateway, for any number of providers and nodes, any     *)
(* lists of providers and any bounds.  What the circuits do follows from   *)
(* the breakers alone; that answers are not spliced needs CallInv, which   *)
(* ties what a node has collected to the stream it reads.                  *)
(***************************************************************************)
EXTENDS LLMGateway, TLAPS

BreakersOK == breaker \in [Providers -> Breaker]

\* A step of a node, as far as it touches the breakers.
BreakerStep(c) ==
    \/ breaker' = [breaker EXCEPT ![Current(c)] = AfterLook(@)]
    \/ RecordSuccess(Current(c))
    \/ RecordFailure(Current(c))

\* Whatever a node does is one of these or nothing, and a failure counts for flaky providers
\* only as long as bodies of the others arrive in time.
LEMMA StepOnBreakers ==
    ASSUME NEW c \in Callers, Step(c)
    PROVE  /\ BreakerStep(c) \/ UNCHANGED breaker
           /\ \/ breaker' = [breaker EXCEPT ![Current(c)] = AfterLook(@)]
              \/ RecordSuccess(Current(c))
              \/ RecordFailure(Current(c)) /\ (Current(c) \in Flaky \/ "body" \in Faults)
              \/ UNCHANGED breaker
<1>1. CASE Attempt(c) \/ Backoff(c) \/ ChatTimeout(c) \/ Opened(c) \/ Receive(c)
  BY <1>1 DEF Attempt, Backoff, ChatTimeout, Opened, Receive
<1>2. CASE StreamFails(c) \/ StreamEnds(c) \/ RunTool(c) \/ ToolAnswered(c)
  BY <1>2 DEF StreamFails, StreamEnds, RunTool, ToolAnswered
<1>3. CASE Consult(c)
  BY <1>3 DEF Consult, BreakerStep
<1>4. CASE ChatText(c) \/ ChatToolCalls(c) \/ FirstToken(c)
  BY <1>4 DEF ChatText, ChatToolCalls, FirstToken, BreakerStep
<1>5. CASE ChatError(c) \/ ChatBodyCut(c) \/ Refused(c) \/ NoToken(c)
  BY <1>5 DEF ChatError, ChatBodyCut, Refused, NoToken, BreakerStep
<1> QED
  BY <1>1, <1>2, <1>3, <1>4, <1>5 DEF Step

\* A step is one of a call, a cool-down of a breaker, or leaves the breakers alone.
LEMMA OtherSteps ==
    ASSUME [Next]_vars
    PROVE  \/ \E c \in Callers : Step(c)
           \/ \E p \in Providers : CoolDown(p)
           \/ UNCHANGED breaker
BY DEF Next, vars, TaskEnds, NodeDeadline

\* A new breaker is closed and has counted nothing.
LEMMA ClosedBreaker == Closed \in Breaker /\ Closed.state = "closed" /\ Closed.failures = 0
<1>1. FALSE \in BOOLEAN /\ 0 \in Nat
  OBVIOUS
<1> QED
  BY <1>1 DEF Closed, Breaker

\* Circuits are open or half-open exactly from the Threshold-th failure on.
THEOREM Justified == Spec => [](BreakersOK /\ CircuitIsJustified)
<1> USE GatewayAssumption DEF BreakersOK, CircuitIsJustified
<1>1. Init => BreakersOK /\ CircuitIsJustified
  BY ClosedBreaker DEF Init
<1>2. BreakersOK /\ CircuitIsJustified /\ [Next]_vars => BreakersOK' /\ CircuitIsJustified'
  <2> SUFFICES ASSUME BreakersOK, CircuitIsJustified, [Next]_vars
               PROVE  BreakersOK' /\ CircuitIsJustified'
    OBVIOUS
  <2>1. ASSUME NEW c \in Callers, breaker' = [breaker EXCEPT ![Current(c)] = AfterLook(@)]
        PROVE  BreakersOK' /\ CircuitIsJustified'
    BY <2>1 DEF AfterLook, Breaker
  <2>2. ASSUME NEW c \in Callers, RecordSuccess(Current(c))
        PROVE  BreakersOK' /\ CircuitIsJustified'
    <3> DEFINE p == Current(c)
    <3>1. breaker' = [breaker EXCEPT ![p] = Closed]
      BY <2>2 DEF RecordSuccess
    <3>2. breaker' \in [Providers -> Breaker]
      BY <3>1, ClosedBreaker
    <3>3. \A q \in Providers : breaker'[q] = breaker[q] \/ breaker'[q] = Closed
      BY <3>1
    <3>4. Closed.state = "closed" /\ Closed.failures < Threshold
      BY ClosedBreaker
    <3> HIDE DEF p
    <3> QED
      BY <3>2, <3>3, <3>4
  <2>3. ASSUME NEW c \in Callers, RecordFailure(Current(c))
        PROVE  BreakersOK' /\ CircuitIsJustified'
    <3> DEFINE p == Current(c)
               n == breaker[p].failures + 1
               t == IF breaker[p].state = "closed" /\ n < Threshold
                    THEN [breaker[p] EXCEPT !.failures = n]
                    ELSE [state |-> "open", failures |-> n, cooled |-> FALSE]
    <3>1. CASE p \in Providers
      <4>1. breaker[p] \in Breaker
        BY <3>1
      <4>2. breaker[p].failures \in Nat /\ n \in Nat
        BY <4>1 DEF Breaker
      <4>3. t \in Breaker
        <5>1. [breaker[p] EXCEPT !.failures = n] \in Breaker
          BY <4>1, <4>2 DEF Breaker
        <5>2. [state |-> "open", failures |-> n, cooled |-> FALSE] \in Breaker
          BY <4>2 DEF Breaker
        <5> QED
          BY <5>1, <5>2
      <4>4. t.state = "closed" <=> t.failures < Threshold
        BY <4>1, <4>2, <3>1 DEF Breaker
      <4>5. breaker' = [breaker EXCEPT ![p] = t]
        BY <2>3, <3>1 DEF RecordFailure
      <4> HIDE DEF t, n, p
      <4> QED
        BY <3>1, <4>3, <4>4, <4>5
    <3>2. CASE p \notin Providers
      <4>1. breaker' \in [Providers -> Breaker]
        BY <2>3, <3>2 DEF RecordFailure
      <4>2. \A q \in Providers : breaker'[q] = breaker[q]
        BY <2>3, <3>2 DEF RecordFailure
      <4> QED
        BY <4>1, <4>2
    <3> QED
      BY <3>1, <3>2
  <2>4. ASSUME NEW p \in Providers, CoolDown(p)
        PROVE  BreakersOK' /\ CircuitIsJustified'
    <3>1. [breaker[p] EXCEPT !.cooled = TRUE] \in Breaker
      BY DEF Breaker
    <3>2. breaker' = [breaker EXCEPT ![p] = [breaker[p] EXCEPT !.cooled = TRUE]]
      BY <2>4 DEF CoolDown
    <3>3. /\ [breaker[p] EXCEPT !.cooled = TRUE].state = breaker[p].state
          /\ [breaker[p] EXCEPT !.cooled = TRUE].failures = breaker[p].failures
      BY DEF Breaker
    <3> QED
      BY <3>1, <3>2, <3>3
  <2>5. CASE UNCHANGED breaker
    BY <2>5
  <2> QED
    BY <2>1, <2>2, <2>3, <2>4, <2>5, OtherSteps, StepOnBreakers DEF BreakerStep
<1> QED
  BY <1>1, <1>2, PTL DEF Spec

\* The circuit of a provider that works stays closed, as long as no context ends while the
\* body of an answer is read: those ends are counted against the provider, contrary to
\* circuitbreaker.go:52-53.
THEOREM HealthyClosed ==
    ASSUME "body" \notin Faults
    PROVE  Spec => []HealthyStaysClosed
<1> USE GatewayAssumption DEF BreakersOK, HealthyStaysClosed
<1>1. Init => HealthyStaysClosed
  BY ClosedBreaker DEF Init
<1>2. BreakersOK /\ HealthyStaysClosed /\ [Next]_vars => HealthyStaysClosed'
  <2> SUFFICES ASSUME BreakersOK, HealthyStaysClosed, [Next]_vars,
                      NEW p \in Providers \ Flaky
               PROVE  breaker'[p].state = "closed"
    OBVIOUS
  <2>1. ASSUME NEW c \in Callers, breaker' = [breaker EXCEPT ![Current(c)] = AfterLook(@)]
        PROVE  breaker'[p].state = "closed"
    BY <2>1 DEF AfterLook, Breaker
  <2>2. ASSUME NEW c \in Callers, RecordSuccess(Current(c))
        PROVE  breaker'[p].state = "closed"
    BY <2>2, ClosedBreaker DEF RecordSuccess
  <2>3. ASSUME NEW c \in Callers, RecordFailure(Current(c)), Current(c) \in Flaky
        PROVE  breaker'[p].state = "closed"
    BY <2>3 DEF RecordFailure, Breaker
  <2>4. ASSUME NEW q \in Providers, CoolDown(q)
        PROVE  breaker'[p].state = "closed"
    BY <2>4 DEF CoolDown, Breaker
  <2>5. CASE UNCHANGED breaker
    BY <2>5
  <2> QED
    BY <2>1, <2>2, <2>3, <2>4, <2>5, OtherSteps, StepOnBreakers
<1> QED
  BY <1>1, <1>2, Justified, PTL DEF Spec

-----------------------------------------------------------------------------
(* The answers. *)

\* The first n chunks of an answer of p.
Stretch(p, n) == [i \in 1..n |-> [by |-> p, no |-> i]]

\* Nothing, or the beginning of one answer.
OneAnswer(h) == h = <<>> \/ \E p \in Providers, n \in Nat : h = Stretch(p, n)

\* What a node has collected: nothing outside of a stream, and in it the beginning of the
\* answer it reads.
Collected(k) ==
    /\ k.pc = "stream" => k.heard = Stretch(k.list[k.at], k.got)
    /\ k.pc = "done" => OneAnswer(k.heard)
    /\ k.pc \notin {"stream", "done"} => k.heard = <<>>
    /\ k.pc \in {"consult", "send", "first"} => k.got = 0

\* The position in the snapshot is one where it is used, and an open round has tool calls.
InRange(k) ==
    /\ k.pc = "consult" => k.at > 0
    /\ k.pc \in {"send", "first", "stream"} => k.at \in 1..Len(k.list)
    /\ k.pc = "tools" => k.todo > 0

CallOK(k) == k \in Call /\ InRange(k) /\ Collected(k)

CallInv == call \in [Callers -> Call] /\ \A c \in Callers : CallOK(call[c])

Errors == {"plain", "cancelled", "deadline"}
Done   == {"ok", "cut", "failed", "cancelled"}

\* A new call is one of the calls and has heard nothing.
LEMMA FreshCall == Fresh \in Call /\ Fresh.heard = <<>> /\ Fresh.pc = "start" /\ Fresh.got = 0
<1>1. <<>> \in Seq(Providers) /\ <<>> \in Seq(Chunk)
  OBVIOUS
<1> QED
  BY <1>1 DEF Fresh, Call, Context

\* The next chunk of a stretch makes it one longer.
LEMMA Extend ==
    ASSUME NEW p, NEW n \in Nat
    PROVE  Append(Stretch(p, n), [by |-> p, no |-> n + 1]) = Stretch(p, n + 1)
BY DEF Stretch

\* A node that ends keeps what it has collected.
LEMMA OverOK ==
    ASSUME NEW k, k \in Call, NEW r \in Done,
           OneAnswer(k.heard)
    PROVE  CallOK(Over(k, r))
<1>1. Over(k, r) \in Call
  BY FreshCall DEF Over, Call, Done
<1>2. Over(k, r).pc = "done" /\ Over(k, r).heard = k.heard
  BY FreshCall DEF Over, Call
<1> QED
  BY <1>1, <1>2 DEF CallOK, InRange, Collected

\* An attempt that has failed leaves nothing behind.
LEMMA RetryOK ==
    ASSUME NEW k, k \in Call, NEW err \in Errors
    PROVE  CallOK(Retry(k, err, <<>>))
<1>1. <<>> \in Seq(Chunk)
  OBVIOUS
<1>2. CASE k.attempt = MaxRetry
  <2>1. [k EXCEPT !.heard = <<>>] \in Call /\ [k EXCEPT !.heard = <<>>].heard = <<>>
    BY <1>1 DEF Call
  <2>2. Verdict(err) \in Done
    BY DEF Verdict, Done, Errors
  <2> QED
    BY <1>2, <2>1, <2>2, OverOK DEF Retry, OneAnswer
<1>3. CASE k.attempt # MaxRetry
  <2> DEFINE f == [Fresh EXCEPT !.pc = "backoff", !.task = k.task, !.ctx = k.task,
                       !.attempt = k.attempt, !.round = k.round, !.heard = <<>>]
  <2>1. f \in Call
    BY <1>1, FreshCall DEF Call, Context
  <2>2. f.pc = "backoff" /\ f.heard = <<>>
    BY FreshCall DEF Call
  <2>3. Retry(k, err, <<>>) = f
    BY <1>3 DEF Retry
  <2> HIDE DEF f
  <2> QED
    BY <2>1, <2>2, <2>3 DEF CallOK, InRange, Collected
<1> QED
  BY <1>2, <1>3

\* Replacing one call keeps the invariant if the new one is in order.
LEMMA OneCall ==
    ASSUME CallInv, NEW c \in Callers, NEW k, CallOK(k), call' = [call EXCEPT ![c] = k]
    PROVE  CallInv'
<1>1. call' \in [Callers -> Call]
  BY DEF CallInv, CallOK
<1>2. ASSUME NEW d \in Callers PROVE CallOK(call'[d])
  BY DEF CallInv
<1> QED
  BY <1>1, <1>2 DEF CallInv

\* The failure of an attempt, and the turn to the next provider.
LEMMA FailsOK ==
    ASSUME CallInv, NEW c \in Callers, NEW err \in Errors, AttemptFails(c, err)
    PROVE  CallInv'
<1>1. call[c] \in Call
  BY DEF CallInv
<1>2. CallOK(Retry(call[c], err, <<>>))
  BY <1>1, RetryOK
<1>3. call' = [call EXCEPT ![c] = Retry(call[c], err, <<>>)]
  BY DEF AttemptFails
<1> QED
  BY <1>2, <1>3, OneCall

\* A call may end with whatever has one answer.
LEMMA FinishOK ==
    ASSUME CallInv, NEW c \in Callers, NEW r \in Done, OneAnswer(call[c].heard), Finish(c, r)
    PROVE  CallInv'
<1>1. CallOK(Over(call[c], r))
  BY OverOK DEF CallInv
<1>2. call' = [call EXCEPT ![c] = Over(call[c], r)]
  BY DEF Finish
<1> QED
  BY <1>1, <1>2, OneCall

\* Going on to the next provider drops what was heard of the last.
LEMMA NextOK ==
    ASSUME CallInv, NEW c \in Callers, NEW err \in Errors \cup {"nil"}, TryNext(c, err),
           call[c].pc \in {"consult", "send", "first"}
    PROVE  CallInv'
<1> DEFINE k == [call[c] EXCEPT !.err = err, !.at = call[c].at + 1, !.pc = "consult"]
<1>1. call[c] \in Call /\ CallOK(call[c])
  BY DEF CallInv
<1>2. call[c].at \in Nat /\ call[c].at + 1 \in Nat /\ call[c].at + 1 > 0 /\ err \in {"nil", "plain", "cancelled", "deadline"}
  BY <1>1 DEF Call, Errors
<1>3. k \in Call
  BY <1>1, <1>2 DEF Call
<1>4. k.pc = "consult" /\ k.at = call[c].at + 1 /\ k.heard = call[c].heard /\ k.got = call[c].got
  BY <1>1 DEF Call
<1>5. call[c].heard = <<>> /\ call[c].got = 0
  BY <1>1 DEF CallOK, Collected
<1>6. CallOK(k)
  BY <1>2, <1>3, <1>4, <1>5 DEF CallOK, InRange, Collected
<1>7. call' = [call EXCEPT ![c] = k]
  BY DEF TryNext, CallInv
<1> HIDE DEF k
<1> QED
  BY <1>6, <1>7, OneCall

\* A chunk that arrives is the next one of the provider that is listened to.
LEMMA CollectOK ==
    ASSUME CallInv, NEW c \in Callers, Collect(c), call[c].pc \in {"first", "stream"}
    PROVE  CallInv'
<1> DEFINE h == Append(call[c].heard, [by |-> Current(c), no |-> call[c].got + 1])
           k == [call[c] EXCEPT !.got = call[c].got + 1, !.pc = "stream", !.heard = h]
<1>1. call[c] \in Call /\ CallOK(call[c])
  BY DEF CallInv
<1>2. call[c].got \in Nat /\ call[c].heard = Stretch(Current(c), call[c].got)
  <2>1. CASE call[c].pc = "first"
    <3>1. call[c].heard = <<>> /\ call[c].got = 0
      BY <1>1, <2>1 DEF CallOK, Collected
    <3>2. Stretch(Current(c), 0) = <<>>
      BY DEF Stretch
    <3> QED
      BY <3>1, <3>2
  <2>2. CASE call[c].pc = "stream"
    BY <1>1, <2>2 DEF CallOK, Collected, Current, Call
  <2> QED
    BY <2>1, <2>2
<1>3. h = Stretch(Current(c), call[c].got + 1)
  BY <1>2, Extend
<1>4. Current(c) \in Providers
  BY <1>1 DEF CallOK, InRange, Call, Current
<1>5. h \in Seq(Chunk)
  BY <1>1, <1>2, <1>4 DEF Chunk, Call
<1>6. k \in Call
  <2> HIDE DEF h
  <2>1. call[c].got + 1 \in Nat
    BY <1>2
  <2> QED
    BY <1>1, <2>1, <1>5 DEF Call
<1>7. k.pc = "stream" /\ k.heard = h /\ k.got = call[c].got + 1 /\ k.list[k.at] = Current(c) /\ k.at = call[c].at /\ k.list = call[c].list
  BY <1>1 DEF Call, Current
<1>8. CallOK(k)
  <2>1. InRange(k)
    BY <1>1, <1>7 DEF InRange, CallOK
  <2>2. Collected(k)
    BY <1>3, <1>7 DEF Collected
  <2> QED
    BY <1>6, <2>1, <2>2 DEF CallOK
<1>9. call' = [call EXCEPT ![c] = k]
  <2>1. call' = [call EXCEPT ![c].got = call[c].got + 1, ![c].pc = "stream", ![c].heard = h]
    BY DEF Collect, CallInv
  <2> HIDE DEF h
  <2> QED
    BY <2>1 DEF CallInv
<1> HIDE DEF k, h
<1> QED
  BY <1>8, <1>9, OneCall

\* A step of a node outside of a stream.
LEMMA QuietOK ==
    ASSUME CallInv, NEW c \in Callers, NEW k, k \in Call, k.pc \notin {"stream", "done"},
           InRange(k), k.heard = <<>>, k.pc \in {"consult", "send", "first"} => k.got = 0,
           call' = [call EXCEPT ![c] = k]
    PROVE  CallInv'
<1>1. CallOK(k)
  BY DEF CallOK, Collected
<1> QED
  BY <1>1, OneCall

\* Moving inside an attempt, with nothing in hand.
LEMMA GotoOK ==
    ASSUME CallInv, NEW c \in Callers, NEW pc \in {"send", "first", "tools"}, Goto(c, pc),
           call[c].pc \notin {"stream", "done"},
           pc \in {"send", "first"} => call[c].got = 0 /\ call[c].at \in 1..Len(call[c].list),
           pc = "tools" => call[c].todo > 0
    PROVE  CallInv'
<1> DEFINE k == [call[c] EXCEPT !.pc = pc]
<1>1. call[c] \in Call /\ CallOK(call[c])
  BY DEF CallInv
<1>2. k \in Call
  BY <1>1 DEF Call
<1>3. k.pc = pc /\ k.heard = call[c].heard /\ k.got = call[c].got /\ k.at = call[c].at
      /\ k.list = call[c].list /\ k.todo = call[c].todo
  BY <1>1 DEF Call
<1>4. k.heard = <<>>
  BY <1>1, <1>3 DEF CallOK, Collected
<1>5. InRange(k)
  BY <1>3 DEF InRange
<1>6. call' = [call EXCEPT ![c] = k]
  BY DEF Goto, CallInv
<1> HIDE DEF k
<1> QED
  BY <1>2, <1>3, <1>4, <1>5, <1>6, QuietOK

\* An attempt begins with the providers its routing found, and with empty hands.
LEMMA AttemptOK == ASSUME CallInv, NEW c \in Callers, Attempt(c) PROVE CallInv'
<1>1. PICK list \in Lists :
          IF list = <<>> THEN AttemptFails(c, "plain")
          ELSE call' = [call EXCEPT ![c].pc = "consult", ![c].list = list, ![c].at = 1,
                                   ![c].ctx = call[c].task, ![c].err = "nil", ![c].got = 0]
  BY DEF Attempt, Snapshot
<1>2. CASE list = <<>>
  BY <1>1, <1>2, FailsOK DEF Errors
<1>3. CASE list # <<>>
  <2> DEFINE k == [call[c] EXCEPT !.pc = "consult", !.list = list, !.at = 1,
                                 !.ctx = call[c].task, !.err = "nil", !.got = 0]
  <2>1. call[c] \in Call /\ CallOK(call[c]) /\ call[c].pc = "start"
    BY DEF CallInv, Attempt
  <2>2. list \in Seq(Providers)
    BY GatewayAssumption
  <2>3. k \in Call
    BY <2>1, <2>2 DEF Call
  <2>4. k.pc = "consult" /\ k.heard = call[c].heard /\ k.got = 0 /\ k.at = 1
    BY <2>1 DEF Call
  <2>5. k.heard = <<>>
    BY <2>1, <2>4 DEF CallOK, Collected
  <2>6. InRange(k)
    BY <2>4 DEF InRange
  <2>7. call' = [call EXCEPT ![c] = k]
    BY <1>1, <1>3 DEF CallInv
  <2> HIDE DEF k
  <2> QED
    BY <2>3, <2>4, <2>5, <2>6, <2>7, QuietOK
<1> QED
  BY <1>2, <1>3

\* What the breaker answers only decides who is asked.
LEMMA ConsultOK == ASSUME CallInv, NEW c \in Callers, Consult(c) PROVE CallInv'
<1>1. call[c] \in Call /\ CallOK(call[c]) /\ call[c].pc = "consult"
  BY DEF CallInv, Consult
<1>2. call[c].err \in Errors \cup {"nil"} /\ call[c].at \in Nat /\ call[c].list \in Seq(Providers)
  BY <1>1 DEF Call, Errors
<1>3. CASE call[c].at > Len(call[c].list)
  <2>1. AttemptFails(c, IF call[c].err = "nil" THEN "plain" ELSE call[c].err)
    BY <1>3 DEF Consult
  <2>2. (IF call[c].err = "nil" THEN "plain" ELSE call[c].err) \in Errors
    BY <1>2 DEF Errors
  <2> QED
    BY <2>1, <2>2, FailsOK
<1>4. CASE ~(call[c].at > Len(call[c].list))
  <2>1. Goto(c, "send") \/ TryNext(c, call[c].err)
    BY <1>4 DEF Consult
  <2>2. call[c].got = 0 /\ call[c].at \in 1..Len(call[c].list)
    BY <1>1, <1>2, <1>4 DEF CallOK, InRange, Collected
  <2> QED
    BY <1>1, <1>2, <2>1, <2>2, GotoOK, NextOK
<1> QED
  BY <1>3, <1>4

\* The verdict on a call is one of its ends.
LEMMA VerdictOK == ASSUME NEW err PROVE Verdict(err) \in Done
BY DEF Verdict, Done

\* A call that is not in a stream has nothing in hand, so it may end at any time.
LEMMA EmptyHands ==
    ASSUME CallInv, NEW c \in Callers, call[c].pc \notin {"stream", "done"}
    PROVE  OneAnswer(call[c].heard) /\ call[c].heard = <<>>
BY DEF CallInv, CallOK, Collected, OneAnswer

\* A retry starts over.
LEMMA BackoffOK == ASSUME CallInv, NEW c \in Callers, Backoff(c) PROVE CallInv'
<1> DEFINE k == [call[c] EXCEPT !.attempt = call[c].attempt + 1, !.pc = "start"]
<1>1. call[c] \in Call /\ CallOK(call[c]) /\ call[c].pc = "backoff" /\ call[c].heard = <<>>
  BY EmptyHands DEF CallInv, Backoff
<1>2. CASE call[c].task = "live"
  <2>1. call[c].attempt + 1 \in Nat
    BY <1>1 DEF Call
  <2>2. k \in Call /\ k.pc = "start" /\ k.heard = call[c].heard
    BY <1>1, <2>1 DEF Call
  <2>3. call' = [call EXCEPT ![c] = k]
    BY <1>2 DEF CallInv, Backoff
  <2> HIDE DEF k
  <2>4. InRange(k)
    BY <2>2 DEF InRange
  <2> QED
    BY <1>1, <2>2, <2>3, <2>4, QuietOK
<1>3. CASE call[c].task # "live"
  BY <1>1, <1>3, EmptyHands, FinishOK, VerdictOK DEF Backoff
<1> QED
  BY <1>2, <1>3

\* The answer of a chat arrives whole or not at all.
LEMMA ChatOK ==
    ASSUME CallInv, NEW c \in Callers,
           ChatText(c) \/ ChatToolCalls(c) \/ ChatError(c) \/ ChatTimeout(c) \/ ChatBodyCut(c)
    PROVE  CallInv'
<1>1. call[c] \in Call /\ CallOK(call[c]) /\ call[c].pc = "send"
  <2>1. call[c].pc = "send"
    BY DEF ChatText, ChatToolCalls, ChatError, ChatTimeout, ChatBodyCut
  <2> QED
    BY <2>1 DEF CallInv
<1>2. call[c].heard = <<>> /\ OneAnswer(call[c].heard)
  BY <1>1, EmptyHands
<1>3. CASE ChatText(c)
  BY <1>2, <1>3, FinishOK, FailsOK DEF ChatText, Done, Errors
<1>4. CASE ChatToolCalls(c)
  <2>1. PICK n \in 1..2 : call' = [call EXCEPT ![c].todo = n, ![c].pc = "tools"]
    BY <1>4 DEF ChatToolCalls
  <2> DEFINE k == [call[c] EXCEPT !.todo = n, !.pc = "tools"]
  <2>2. n \in Nat /\ n > 0
    OBVIOUS
  <2>3. k \in Call
    BY <1>1, <2>2 DEF Call
  <2>4. k.pc = "tools" /\ k.heard = call[c].heard /\ k.todo > 0
    BY <1>1, <2>2 DEF Call
  <2>5. call' = [call EXCEPT ![c] = k]
    BY <2>1 DEF CallInv
  <2> HIDE DEF k
  <2>6. InRange(k)
    BY <2>4 DEF InRange
  <2> QED
    BY <1>2, <2>3, <2>4, <2>5, <2>6, QuietOK
<1>5. CASE ChatError(c) \/ ChatBodyCut(c)
  BY <1>1, <1>5, NextOK DEF ChatError, ChatBodyCut, Errors
<1>6. CASE ChatTimeout(c)
  <2>1. (IF call[c].ctx = "live" THEN "deadline" ELSE call[c].ctx) \in Errors
    BY <1>1 DEF Call, Context, Errors
  <2> QED
    BY <1>1, <1>6, <2>1, NextOK DEF ChatTimeout
<1> QED
  BY <1>3, <1>4, <1>5, <1>6

\* A stream grows by its next chunk, is given up, or ends.
LEMMA StreamOK ==
    ASSUME CallInv, NEW c \in Callers,
           \/ Opened(c) \/ Refused(c) \/ FirstToken(c) \/ NoToken(c)
           \/ Receive(c) \/ StreamFails(c) \/ StreamEnds(c)
    PROVE  CallInv'
<1>1. call[c] \in Call /\ CallOK(call[c])
  BY DEF CallInv
<1>2. CASE Opened(c)
  <2>1. call[c].pc = "send" /\ Goto(c, "first")
    BY <1>2 DEF Opened
  <2>2. call[c].got = 0 /\ call[c].at \in 1..Len(call[c].list)
    BY <1>1, <2>1 DEF CallOK, InRange, Collected
  <2> QED
    BY <2>1, <2>2, GotoOK
<1>3. CASE Refused(c)
  <2>1. call[c].pc = "send" /\ (TryNext(c, "plain") \/ (call[c].ctx # "live" /\ TryNext(c, call[c].ctx)))
    BY <1>3 DEF Refused
  <2>2. call[c].ctx # "live" => call[c].ctx \in Errors
    BY <1>1 DEF Call, Context, Errors
  <2> QED
    BY <2>1, <2>2, NextOK DEF Errors
<1>4. CASE FirstToken(c) \/ Receive(c)
  BY <1>4, CollectOK DEF FirstToken, Receive
<1>5. CASE NoToken(c)
  BY <1>5, NextOK DEF NoToken, Errors
<1>6. CASE StreamFails(c)
  <2>1. CtxErr(c) \in Errors
    BY <1>1 DEF CtxErr, Call, Context, Errors
  <2> QED
    BY <1>6, <2>1, FailsOK DEF StreamFails
<1>7. CASE StreamEnds(c)
  <2>1. call[c].pc = "stream"
    BY <1>7 DEF StreamEnds
  <2>2. call[c].heard = Stretch(call[c].list[call[c].at], call[c].got) /\ call[c].at \in 1..Len(call[c].list)
    BY <1>1, <2>1 DEF CallOK, InRange, Collected
  <2>3. call[c].list[call[c].at] \in Providers /\ call[c].got \in Nat
    BY <1>1, <2>2 DEF Call
  <2>4. OneAnswer(call[c].heard)
    BY <2>2, <2>3 DEF OneAnswer
  <2>5. Finish(c, "ok") \/ Finish(c, "cut")
    BY <1>7 DEF StreamEnds
  <2> QED
    BY <2>4, <2>5, FinishOK DEF Done
<1> QED
  BY <1>2, <1>3, <1>4, <1>5, <1>6, <1>7

\* A tool that is run does not touch what was heard.
LEMMA RunToolOK == ASSUME CallInv, NEW c \in Callers, RunTool(c) PROVE CallInv'
<1> DEFINE k == [call[c] EXCEPT !.todo = call[c].todo - 1, !.pc = "tooled"]
<1>1. call[c] \in Call /\ CallOK(call[c]) /\ call[c].pc = "tools"
  BY DEF CallInv, RunTool
<1>2. call[c].heard = <<>> /\ OneAnswer(call[c].heard)
  BY <1>1, EmptyHands
<1>3. CASE call[c].task = "live"
  <2>1. call[c].todo - 1 \in Nat
    BY <1>1 DEF CallOK, InRange, Call
  <2>2. k \in Call /\ k.pc = "tooled" /\ k.heard = call[c].heard
    BY <1>1, <2>1 DEF Call
  <2>3. call' = [call EXCEPT ![c] = k]
    BY <1>3 DEF CallInv, RunTool
  <2> HIDE DEF k
  <2>4. InRange(k)
    BY <2>2 DEF InRange
  <2> QED
    BY <1>2, <2>2, <2>3, <2>4, QuietOK
<1>4. CASE call[c].task # "live"
  BY <1>2, <1>4, FinishOK, VerdictOK DEF RunTool
<1> QED
  BY <1>3, <1>4

\* The next round is a new call.
LEMMA ToolAnsweredOK == ASSUME CallInv, NEW c \in Callers, ToolAnswered(c) PROVE CallInv'
<1> DEFINE k == [call[c] EXCEPT !.round = call[c].round + 1, !.attempt = 0, !.pc = "start"]
<1>1. call[c] \in Call /\ CallOK(call[c]) /\ call[c].pc = "tooled"
  BY DEF CallInv, ToolAnswered
<1>2. call[c].heard = <<>> /\ OneAnswer(call[c].heard)
  BY <1>1, EmptyHands
<1>3. CASE Finish(c, Verdict(call[c].task)) \/ Finish(c, "failed")
  BY <1>2, <1>3, FinishOK, VerdictOK DEF Done
<1>4. CASE call[c].todo > 0 /\ Goto(c, "tools")
  BY <1>1, <1>4, GotoOK
<1>5. CASE call' = [call EXCEPT ![c].round = @ + 1, ![c].attempt = 0, ![c].pc = "start"]
  <2>1. call[c].round + 1 \in Nat
    BY <1>1 DEF Call
  <2>2. k \in Call /\ k.pc = "start" /\ k.heard = call[c].heard
    BY <1>1, <2>1 DEF Call
  <2>3. call' = [call EXCEPT ![c] = k]
    BY <1>5 DEF CallInv
  <2> HIDE DEF k
  <2>4. InRange(k)
    BY <2>2 DEF InRange
  <2> QED
    BY <1>2, <2>2, <2>3, <2>4, QuietOK
<1> QED
  BY <1>3, <1>4, <1>5 DEF ToolAnswered

\* The end of a context touches nothing the invariant is about.
LEMMA ContextOK ==
    ASSUME CallInv, NEW c \in Callers, NEW task \in Context, NEW ctx \in Context,
           call' = [call EXCEPT ![c] = [call[c] EXCEPT !.task = task, !.ctx = ctx]]
    PROVE  CallInv'
<1> DEFINE k == [call[c] EXCEPT !.task = task, !.ctx = ctx]
<1>1. call[c] \in Call /\ CallOK(call[c])
  BY DEF CallInv
<1>2. k \in Call
  BY <1>1 DEF Call
<1>3. /\ k.pc = call[c].pc /\ k.list = call[c].list /\ k.at = call[c].at
      /\ k.todo = call[c].todo /\ k.got = call[c].got /\ k.heard = call[c].heard
  BY <1>1 DEF Call
<1> HIDE DEF k
<1>4. CallOK(k)
  BY <1>1, <1>2, <1>3 DEF CallOK, InRange, Collected
<1> QED
  BY <1>4, OneCall DEF k

\* The task or the node's deadline ends a call with what it has.
LEMMA EndOK ==
    ASSUME CallInv, NEW c \in Callers, TaskEnds(c) \/ NodeDeadline(c)
    PROVE  CallInv'
<1>1. call[c] \in Call
  BY DEF CallInv
<1>2. call[c].task \in Context /\ call[c].ctx \in Context
  BY <1>1 DEF Call
<1>3. CASE TaskEnds(c)
  <2>1. PICK why \in {"cancelled", "deadline"} :
            call' = [call EXCEPT ![c].task = why, ![c].ctx = IF @ = "live" THEN why ELSE @]
    BY <1>3 DEF TaskEnds
  <2> DEFINE x == IF call[c].ctx = "live" THEN why ELSE call[c].ctx
  <2>2. why \in Context /\ x \in Context
    BY <1>2 DEF Context
  <2>3. call' = [call EXCEPT ![c].task = why, ![c].ctx = x]
    BY <2>1 DEF CallInv
  <2> HIDE DEF x
  <2>4. call' = [call EXCEPT ![c] = [call[c] EXCEPT !.task = why, !.ctx = x]]
    BY <2>3 DEF CallInv
  <2> QED
    BY <2>2, <2>4, ContextOK
<1>4. CASE NodeDeadline(c)
  <2>1. call' = [call EXCEPT ![c].ctx = "deadline"]
    BY <1>4 DEF NodeDeadline
  <2>2. [call[c] EXCEPT !.ctx = "deadline"] = [call[c] EXCEPT !.task = call[c].task, !.ctx = "deadline"]
    BY <1>1 DEF Call
  <2>3. call' = [call EXCEPT ![c] = [call[c] EXCEPT !.ctx = "deadline"]]
    BY <2>1 DEF CallInv
  <2>4. call' = [call EXCEPT ![c] = [call[c] EXCEPT !.task = call[c].task, !.ctx = "deadline"]]
    BY <2>2, <2>3
  <2>5. "deadline" \in Context
    BY DEF Context
  <2> QED
    BY <1>2, <2>4, <2>5, ContextOK
<1> QED
  BY <1>3, <1>4

\* Every step keeps what is known of the calls.
LEMMA CallsKept == CallInv /\ [Next]_vars => CallInv'
<1> SUFFICES ASSUME CallInv, [Next]_vars PROVE CallInv'
  OBVIOUS
<1>1. ASSUME NEW c \in Callers, Step(c) PROVE CallInv'
  BY <1>1, AttemptOK, ConsultOK, BackoffOK, ChatOK, StreamOK, RunToolOK, ToolAnsweredOK DEF Step
<1>2. ASSUME NEW c \in Callers, TaskEnds(c) \/ NodeDeadline(c) PROVE CallInv'
  BY <1>2, EndOK
<1>3. CASE UNCHANGED call
  BY <1>3 DEF CallInv
<1> QED
  BY <1>1, <1>2, <1>3 DEF Next, vars, CoolDown

\* Before the first step no call has heard anything.
LEMMA InitialCalls == Init => CallInv
<1> SUFFICES ASSUME Init PROVE CallInv
  OBVIOUS
<1>1. call \in [Callers -> Call] /\ \A c \in Callers : call[c] = Fresh
  BY FreshCall DEF Init
<1>2. CallOK(Fresh)
  BY FreshCall DEF CallOK, InRange, Collected
<1> QED
  BY <1>1, <1>2 DEF CallInv

\* What a node has collected at its end is the beginning of one answer of one provider.
THEOREM Unspliced == Spec => []NothingSpliced
<1>1. Init => CallInv
  BY InitialCalls
<1>2. CallInv => NothingSpliced
  <2> SUFFICES ASSUME CallInv, NEW c \in Callers, call[c].result \in {"ok", "cut"},
                      NEW i \in DOMAIN call[c].heard
               PROVE  call[c].heard[i] = [by |-> call[c].heard[1].by, no |-> i]
    BY DEF NothingSpliced
  <2>1. OneAnswer(call[c].heard) \/ call[c].heard = <<>>
    <3>1. CASE call[c].pc = "stream"
      <4>1. call[c] \in Call /\ CallOK(call[c])
        BY DEF CallInv
      <4>2. call[c].heard = Stretch(call[c].list[call[c].at], call[c].got) /\ call[c].at \in 1..Len(call[c].list)
        BY <3>1, <4>1 DEF CallOK, InRange, Collected
      <4>3. call[c].list[call[c].at] \in Providers /\ call[c].got \in Nat
        BY <4>1, <4>2 DEF Call
      <4> QED
        BY <4>2, <4>3 DEF OneAnswer
    <3>2. CASE call[c].pc # "stream"
      BY <3>2 DEF CallInv, CallOK, Collected
    <3> QED
      BY <3>1, <3>2
  <2>2. PICK p \in Providers, n \in Nat : call[c].heard = Stretch(p, n)
    BY <2>1 DEF OneAnswer
  <2>3. i \in 1..n /\ 1 \in 1..n
    BY <2>2 DEF Stretch
  <2> QED
    BY <2>2, <2>3 DEF Stretch
<1> QED
  BY <1>1, <1>2, CallsKept, PTL DEF Spec

\* Types, for any number of providers and nodes.
THEOREM Types == Spec => []TypeOK
<1>1. Init => CallInv
  BY InitialCalls
<1>2. CallInv /\ BreakersOK => TypeOK
  BY DEF CallInv, BreakersOK, TypeOK
<1> QED
  BY <1>1, <1>2, CallsKept, Justified, PTL DEF Spec
=============================================================================
