----------------------------- MODULE LLMGateway -----------------------------
(***************************************************************************)
(* LLM calls of the nodes: runLLMNode and the tool loop of an agent node   *)
(* (internal/scheduler/executor.go, agent.go) on top of the gateway with   *)
(* its fall-back order (internal/llm/gateway.go), one circuit breaker per  *)
(* provider (circuitbreaker.go) and the providers' clients (provider.go).  *)
(* A flaky provider may fail in every way a client can observe, the others *)
(* answer; the context of a call may be cancelled or expire at any time.   *)
(* Only the names of chunks are kept of what a model says.                 *)
(***************************************************************************)
EXTENDS Integers, Sequences

CONSTANTS
    Providers,  \* names, each with a circuit breaker of its own
    Kind,       \* Kind[p]: the client that serves p
    Flaky,      \* providers that may fail
    Lists,      \* the lists SetProviders may install, in order of preference
    Callers,    \* nodes in execution
    Mode,       \* Mode[c]: "stream", "chat" or "agent"
    Threshold,  \* failureThreshold
    MaxRetry,   \* maxRetry of a node
    MaxRounds,  \* opt.MaxRounds of an agent node
    StreamLen,  \* chunks of a complete answer
    Faults      \* "cancel", "deadline", "eof", "body"

ASSUME GatewayAssumption ==
    /\ Flaky \subseteq Providers
    /\ Kind \in [Providers -> {"openai", "ollama", "mock"}]
    /\ Lists \subseteq Seq(Providers) /\ Lists # {}
    /\ Mode \in [Callers -> {"stream", "chat", "agent"}]
    /\ Threshold \in Nat \ {0} /\ StreamLen \in Nat \ {0} /\ MaxRounds \in Nat \ {0}
    /\ MaxRetry \in Nat
    /\ Faults \subseteq {"cancel", "deadline", "eof", "body"}

VARIABLES
    breaker,  \* breaker[p]: circuit breaker of p
    call      \* call[c]: the locals of the node c

vars == <<breaker, call>>

Context == {"live", "cancelled", "deadline"}
Chunk   == [by : Providers, no : Nat]
Breaker == [state : {"closed", "open", "half-open"}, failures : Nat, cooled : BOOLEAN]
Call    == [pc : {"start", "consult", "send", "first", "stream", "backoff", "tools",
                  "tooled", "done"},
            task : Context,       \* the context of the execution
            ctx : Context,        \* nodeCtx of the attempt
            list : Seq(Providers), at : Nat,  \* the snapshot and the position in it
            attempt : Nat, round : Nat,
            todo : Nat,           \* tool calls of the round still to be answered
            got : Nat,            \* chunks received from the open stream
            heard : Seq(Chunk),   \* what the node has collected of the answer
            err : {"nil", "plain", "cancelled", "deadline"},  \* lastErr
            result : {"none", "ok", "cut", "failed", "cancelled"}]

TypeOK ==
    /\ breaker \in [Providers -> Breaker]
    /\ call \in [Callers -> Call]

Closed == [state |-> "closed", failures |-> 0, cooled |-> FALSE]

Fresh == [pc |-> "start", task |-> "live", ctx |-> "live", list |-> <<>>, at |-> 1,
          attempt |-> 0, round |-> 1, todo |-> 0, got |-> 0, heard |-> <<>>,
          err |-> "nil", result |-> "none"]

Init ==
    /\ breaker = [p \in Providers |-> Closed]
    /\ call = [c \in Callers |-> Fresh]

-----------------------------------------------------------------------------
(* The circuit breaker; the registry's mutex makes each call one step. *)

\* maybeTransition, then Allow.
AfterLook(b) ==
    IF b.state = "open" /\ b.cooled
    THEN [b EXCEPT !.state = "half-open", !.cooled = FALSE] ELSE b
Allow(p)     == AfterLook(breaker[p]).state # "open"

RecordSuccess(p) == breaker' = [breaker EXCEPT ![p] = Closed]

\* Mutant of RecordFailure: the count starts again when the circuit opens.
RecordFailureResets(p) ==
    breaker' = [breaker EXCEPT ![p] =
        IF @.state = "closed" /\ @.failures + 1 < Threshold
        THEN [@ EXCEPT !.failures = @ + 1]
        ELSE [state |-> "open", failures |-> 0, cooled |-> FALSE]]

RecordFailure(p) ==
    LET n == breaker[p].failures + 1
    IN  breaker' = [breaker EXCEPT ![p] =
            IF @.state = "closed" /\ n < Threshold
            THEN [@ EXCEPT !.failures = n]
            ELSE [state |-> "open", failures |-> n, cooled |-> FALSE]]

\* coolDownDuration has passed since the circuit opened.
CoolDown(p) ==
    /\ breaker[p].state = "open" /\ ~breaker[p].cooled
    /\ breaker' = [breaker EXCEPT ![p].cooled = TRUE]
    /\ UNCHANGED call

-----------------------------------------------------------------------------
(* One attempt: the gateway goes through its snapshot of the list. *)

Goto(c, pc) == call' = [call EXCEPT ![c].pc = pc]

\* The node is over; a Canceled error is recorded as cancelled, any other as failed.
Over(k, result) == [Fresh EXCEPT !.pc = "done", !.task = k.task, !.heard = k.heard,
                                 !.result = result]
Finish(c, result) == call' = [call EXCEPT ![c] = Over(@, result)]
Verdict(err)      == IF err = "cancelled" THEN "cancelled" ELSE "failed"

\* What is left of an attempt that has failed with err.
Retry(k, err, heard) ==
    IF k.attempt = MaxRetry THEN Over([k EXCEPT !.heard = heard], Verdict(err))
    ELSE [Fresh EXCEPT !.pc = "backoff", !.task = k.task, !.ctx = k.task,
                       !.attempt = k.attempt, !.round = k.round, !.heard = heard]

\* Mutant of AttemptFails: what was received so far is kept for the next attempt.
AttemptFailsKeeps(c, err) == call' = [call EXCEPT ![c] = Retry(@, err, @.heard)]

\* Mutant of AttemptFails: the attempts are not bounded.
AttemptFailsAgain(c, err) ==
    call' = [call EXCEPT ![c] = Retry([@ EXCEPT !.attempt = -1], err, <<>>)]

\* The attempt has failed with err: what was received is dropped, and the node backs
\* off or gives up.
AttemptFails(c, err) == call' = [call EXCEPT ![c] = Retry(@, err, <<>>)]

\* The next provider of the snapshot.
TryNext(c, err) == call' = [call EXCEPT ![c].err = err, ![c].at = @ + 1, ![c].pc = "consult"]

Current(c) == call[c].list[call[c].at]

\* The error that a context which is done gives.
CtxErr(c) == IF call[c].ctx = "live" THEN "plain" ELSE call[c].ctx

\* SetProviders may have installed another list since the last call, so a snapshot is
\* any of the lists.
Snapshot == Lists

\* The attempt starts: nodeCtx and the snapshot.  Its parent may be done already.
Attempt(c) ==
    /\ call[c].pc = "start"
    /\ \E list \in Snapshot :
         IF list = <<>> THEN AttemptFails(c, "plain")
         ELSE call' = [call EXCEPT ![c].pc = "consult", ![c].list = list, ![c].at = 1,
                                   ![c].ctx = call[c].task, ![c].err = "nil",
                                   ![c].got = 0]
    /\ UNCHANGED breaker

\* An open circuit is skipped; at the end of the list the attempt has failed.  Without
\* an error of its own the failure is that every circuit is open.
Consult(c) ==
    /\ call[c].pc = "consult"
    /\ IF call[c].at > Len(call[c].list)
       THEN /\ AttemptFails(c, IF call[c].err = "nil" THEN "plain" ELSE call[c].err)
            /\ UNCHANGED breaker
       ELSE /\ breaker' = [breaker EXCEPT ![Current(c)] = AfterLook(@)]
            /\ IF Allow(Current(c)) THEN Goto(c, "send") ELSE TryNext(c, call[c].err)

\* The back-off is over, or the execution is.
Backoff(c) ==
    /\ call[c].pc = "backoff"
    /\ IF call[c].task = "live"
       THEN call' = [call EXCEPT ![c].attempt = @ + 1, ![c].pc = "start"]
       ELSE Finish(c, Verdict(call[c].task))
    /\ UNCHANGED breaker

-----------------------------------------------------------------------------
(* Gateway.Chat, for the modes without a stream. *)

\* An answer without tool calls: the node has its output, unless it is empty.  The
\* breaker counts an empty answer as a success.
ChatText(c) ==
    /\ call[c].pc = "send" /\ Mode[c] # "stream"
    /\ RecordSuccess(Current(c))
    /\ \/ Finish(c, "ok")
       \/ Current(c) \in Flaky /\ AttemptFails(c, "plain")

\* The model asks for one or two tools.  The client of Ollama drops the tools of the
\* request.
ChatToolCalls(c) ==
    /\ call[c].pc = "send" /\ Mode[c] = "agent" /\ Kind[Current(c)] # "ollama"
    /\ RecordSuccess(Current(c))
    /\ \E n \in 1..2 : call' = [call EXCEPT ![c].todo = n, ![c].pc = "tools"]

\* The provider answers with an error: it counts.
ChatError(c) ==
    /\ call[c].pc = "send" /\ Mode[c] # "stream" /\ Current(c) \in Flaky
    /\ RecordFailure(Current(c))
    /\ TryNext(c, "plain")

\* The request runs into attemptTimeout, or its context is done: it does not count.
ChatTimeout(c) ==
    /\ call[c].pc = "send" /\ Mode[c] # "stream"
    /\ Current(c) \in Flaky \/ call[c].ctx # "live"
    /\ TryNext(c, IF call[c].ctx = "live" THEN "deadline" ELSE call[c].ctx)
    /\ UNCHANGED breaker

\* The context ends while the body is read: io.ReadAll's error is dropped, the rest
\* does not decode, and that counts as the provider's failure.  Without the fault "body"
\* only flaky providers send their bodies that late.
ChatBodyCut(c) ==
    /\ call[c].pc = "send" /\ Mode[c] # "stream" /\ call[c].ctx # "live"
    /\ "body" \in Faults \/ Current(c) \in Flaky
    /\ Kind[Current(c)] # "mock"
    /\ RecordFailure(Current(c))
    /\ TryNext(c, "plain")

-----------------------------------------------------------------------------
(* Gateway.Stream, awaitFirstToken and the loop of runLLMNode. *)

Opened(c) ==
    /\ call[c].pc = "send" /\ Mode[c] = "stream"
    /\ Goto(c, "first")
    /\ UNCHANGED breaker

Refused(c) ==
    /\ call[c].pc = "send" /\ Mode[c] = "stream"
    /\ \/ Current(c) \in Flaky /\ RecordFailure(Current(c)) /\ TryNext(c, "plain")
       \/ /\ call[c].ctx # "live"
          /\ TryNext(c, call[c].ctx)
          /\ UNCHANGED breaker

Collect(c) ==
    call' = [call EXCEPT ![c].got = @ + 1, ![c].pc = "stream",
                         ![c].heard = Append(@, [by |-> Current(c), no |-> call[c].got + 1])]

\* The first content commits the call to this provider.
FirstToken(c) ==
    /\ call[c].pc = "first"
    /\ RecordSuccess(Current(c))
    /\ Collect(c)

\* Mutant of NoToken: a stream that its caller has given up counts as well.
NoTokenCounts(c) ==
    /\ call[c].pc = "first"
    /\ Current(c) \in Flaky \/ call[c].ctx # "live"
    /\ RecordFailure(Current(c))
    /\ TryNext(c, "plain")

\* The stream ends, fails or stays silent before any content, or its context is done;
\* it counts only while the caller's context is live.
NoToken(c) ==
    /\ call[c].pc = "first"
    /\ Current(c) \in Flaky \/ call[c].ctx # "live"
    /\ IF call[c].ctx = "live" THEN RecordFailure(Current(c)) ELSE UNCHANGED breaker
    /\ TryNext(c, "plain")

Receive(c) ==
    /\ call[c].pc = "stream" /\ call[c].got < StreamLen
    /\ Collect(c)
    /\ UNCHANGED breaker

\* How a stream ends before its time at the node: "error" carries Chunk.Err, "end" is
\* Done without an error or a closed channel.  On a context that is done the goroutine of
\* the gateway stops forwarding, whatever the client still has to say.
OpenAIEnds(ctx, flaky) ==
    (IF flaky THEN {"error"} \cup (IF "eof" \in Faults THEN {"end"} ELSE {}) ELSE {})
    \cup (CASE ctx = "live" -> {} [] ctx = "cancelled" -> {"end"} [] ctx = "deadline" -> {"end", "error"})

OllamaEnds(ctx, flaky) ==
    (IF flaky THEN {"error"} \cup (IF "eof" \in Faults THEN {"end"} ELSE {}) ELSE {})
    \cup (IF ctx = "live" THEN {} ELSE {"end"})

MockEnds(ctx) == IF ctx = "live" THEN {} ELSE {"end", "error"}

EarlyEnds(c) ==
    LET flaky == Current(c) \in Flaky
    IN  CASE Kind[Current(c)] = "openai" -> OpenAIEnds(call[c].ctx, flaky)
          [] Kind[Current(c)] = "ollama" -> OllamaEnds(call[c].ctx, flaky)
          [] Kind[Current(c)] = "mock"   -> MockEnds(call[c].ctx)

\* An error after the first content fails the attempt; the breaker hears nothing of it.
StreamFails(c) ==
    /\ call[c].pc = "stream" /\ "error" \in EarlyEnds(c)
    /\ AttemptFails(c, CtxErr(c))
    /\ UNCHANGED breaker

\* The channel ends without an error: whatever was collected is the node's output.
StreamEnds(c) ==
    /\ call[c].pc = "stream"
    /\ call[c].got = StreamLen \/ "end" \in EarlyEnds(c)
    /\ Finish(c, IF call[c].got = StreamLen THEN "ok" ELSE "cut")
    /\ UNCHANGED breaker

-----------------------------------------------------------------------------
(* The tool loop of an agent node. *)

\* A tool is executed, or rejected because it is not in the node's list; its own failure
\* and its timeout are text for the model.  Only the end of the execution breaks the loop.
RunTool(c) ==
    /\ call[c].pc = "tools"
    /\ IF call[c].task = "live"
       THEN call' = [call EXCEPT ![c].todo = @ - 1, ![c].pc = "tooled"]
       ELSE Finish(c, Verdict(call[c].task))
    /\ UNCHANGED breaker

\* After the last result of a round the model is asked again, MaxRounds times at most.
ToolAnswered(c) ==
    /\ call[c].pc = "tooled"
    /\ IF call[c].task # "live" THEN Finish(c, Verdict(call[c].task))
       ELSE IF call[c].todo > 0 THEN Goto(c, "tools")
       ELSE IF call[c].round = MaxRounds THEN Finish(c, "failed")
       ELSE call' = [call EXCEPT ![c].round = @ + 1, ![c].attempt = 0, ![c].pc = "start"]
    /\ UNCHANGED breaker

-----------------------------------------------------------------------------
(* The environment. *)

\* The execution is cancelled or reaches its timeout.
TaskEnds(c) ==
    \E why \in {"cancelled", "deadline"} :
        /\ (IF why = "cancelled" THEN "cancel" ELSE "deadline") \in Faults
        /\ call[c].pc # "done" /\ call[c].task = "live"
        /\ call' = [call EXCEPT ![c].task = why,
                                ![c].ctx = IF @ = "live" THEN why ELSE @]
        /\ UNCHANGED breaker

\* The timeout of the node expires during an attempt.
NodeDeadline(c) ==
    /\ "deadline" \in Faults
    /\ call[c].pc \in {"consult", "send", "first", "stream"} /\ call[c].ctx = "live"
    /\ call' = [call EXCEPT ![c].ctx = "deadline"]
    /\ UNCHANGED breaker

Step(c) ==
    \/ Attempt(c) \/ Consult(c) \/ Backoff(c)
    \/ ChatText(c) \/ ChatToolCalls(c) \/ ChatError(c) \/ ChatTimeout(c) \/ ChatBodyCut(c)
    \/ Opened(c) \/ Refused(c) \/ FirstToken(c) \/ NoToken(c)
    \/ Receive(c) \/ StreamFails(c) \/ StreamEnds(c)
    \/ RunTool(c) \/ ToolAnswered(c)

Next ==
    \/ \E c \in Callers : Step(c) \/ TaskEnds(c) \/ NodeDeadline(c)
    \/ \E p \in Providers : CoolDown(p)
    \/ (\A c \in Callers : call[c].pc = "done") /\ UNCHANGED vars

Spec == Init /\ [][Next]_vars

\* Requests end at the latest with their timeouts, so a node always goes on.
Fairness == \A c \in Callers : WF_vars(Step(c))

FairSpec == Spec /\ Fairness

-----------------------------------------------------------------------------
(* Properties. *)

\* The output of a streaming node is the beginning of one answer of one provider:
\* fall-back and retry never splice two of them (gateway.go:59-60).
NothingSpliced ==
    \A c \in Callers : call[c].result \in {"ok", "cut"} =>
        \A i \in DOMAIN call[c].heard :
            call[c].heard[i] = [by |-> call[c].heard[1].by, no |-> i]

\* Callers that cancel or run out of time never open the circuit of a provider that
\* works (circuitbreaker.go:52-53, 122-126).  The code says so without a condition, and
\* meets it only where "body" is not a fault: a context that ends while the body of an
\* answer is read counts as a failure of the provider (ChatBodyCut).
HealthyStaysClosed == \A p \in Providers \ Flaky : breaker[p].state = "closed"

\* A circuit has left the closed state exactly if Threshold failures were counted since
\* its last success, in whatever order late results of concurrent calls arrive.
CircuitIsJustified ==
    \A p \in Providers : breaker[p].state = "closed" <=> breaker[p].failures < Threshold

\* A node comes to an end, whatever its providers do.
NodesEnd == \A c \in Callers : <>(call[c].pc = "done")

\* A stream that fails half-way is retried, not silently truncated (provider.go:93-94).
WholeOutput == \A c \in Callers : call[c].result # "cut"

\* In the half-open state one call at a time tries the provider (circuitbreaker.go:17).
OneProbe ==
    \A c, d \in Callers :
        /\ call[c].pc \in {"send", "first"} /\ call[d].pc \in {"send", "first"}
        /\ Current(c) = Current(d) /\ breaker[Current(c)].state = "half-open"
        => c = d

\* A node that its user has cancelled is not recorded as failed (executor.go:70-72).
CancelledNotFailed ==
    \A c \in Callers : call[c].task = "cancelled" => call[c].result # "failed"
=============================================================================
