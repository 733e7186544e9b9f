------------------------------ MODULE McpClient ------------------------------
(***************************************************************************)
(* A client of one MCP server (internal/mcp/sse_client.go), the manager    *)
(* that connects it and registers its tools (manager.go), and the calls of *)
(* those tools (tool_adapter.go).  Requests go out by POST; the answer     *)
(* comes in the reply of the POST or on the event stream.                  *)
(*                                                                         *)
(* The id of a request is an int64; the same id decoded from JSON is a     *)
(* float64, which is another key of the map of pending requests.           *)
(***************************************************************************)
EXTENDS Integers, FiniteSets

CONSTANTS
    ToolCalls,   \* calls of tools of this server
    MaxConnects, \* bound: calls of Connect, each with its stream and reader
    Refuses      \* whether the server may fail or leave out an answer

ASSUME McpAssumption == MaxConnects \in Nat \ {0} /\ Refuses \in BOOLEAN

Connector == "connect"
Callers   == ToolCalls \cup {Connector}
Streams   == 1..MaxConnects
Encoded(n) == <<"int64", n>>
Decoded(n) == <<"float64", n>>

VARIABLES
    client,  \* requestID, pending, endpointURL, initialized, sseDone
    reader,  \* reader[k]: the goroutine that reads stream k
    call,    \* call[c]: a request and its caller
    manager, \* connected, and what connectServer is doing
    wire     \* ids of the answers on their way on the stream

mcpVars == <<client, reader, call, manager, wire>>

NoCall == [pc |-> "idle", id |-> 0, answered |-> FALSE, closed |-> FALSE]

McpTypeOK ==
    /\ client.done \in {"open", "closed", "closed twice"}
    /\ {client.endpoint, client.init, manager.connected} \subseteq BOOLEAN
    /\ client.next \in Nat /\ client.pending \subseteq {Encoded(n) : n \in 1..client.next}
    /\ reader \in [Streams -> {"none", "reading", "cancelled", "exited"}]
    /\ \A c \in Callers : call[c].pc \in {"idle", "posted", "waiting", "ok", "failed"}
    /\ wire \subseteq 1..client.next

McpInit ==
    /\ client = [next |-> 0, pending |-> {}, endpoint |-> FALSE, init |-> FALSE, done |-> "open"]
    /\ reader = [k \in Streams |-> "none"]
    /\ call = [c \in Callers |-> NoCall]
    /\ manager = [connected |-> FALSE, pc |-> "idle", stream |-> 0]
    /\ wire = {}

Running == client.done # "closed twice"   \* the second close of a channel ends the process

Cancelled(k) == [j \in Streams |-> IF j = k /\ reader[j] = "reading" THEN "cancelled" ELSE reader[j]]

-----------------------------------------------------------------------------
(* sendRequest. *)

Forget(c) == client.pending \ {Encoded(call[c].id)}

Pending(c) == call[c].pc \in {"posted", "waiting"}

Posted(c, init) ==
    /\ call' = [call EXCEPT ![c] = [NoCall EXCEPT !.pc = "posted", !.id = client.next + 1]]
    /\ client' = [client EXCEPT !.next = @ + 1, !.pending = @ \cup {Encoded(client.next + 1)}, !.init = init]

Post(c) == Posted(c, client.init)

Return(c, result) ==
    /\ call' = [call EXCEPT ![c].pc = result]
    /\ client' = [client EXCEPT !.pending = Forget(c)]

\* The reply of the POST: the answer itself, an error, or nothing, with the answer to follow on
\* the stream or not at all.
PostReturns(c) ==
    /\ Running /\ call[c].pc = "posted"
    /\ \/ Return(c, "ok") /\ UNCHANGED wire
       \/ Refuses /\ Return(c, "failed") /\ UNCHANGED wire
       \/ /\ call' = [call EXCEPT ![c].pc = "waiting"]
          /\ UNCHANGED client
          /\ \/ wire' = wire \cup {call[c].id}
             \/ Refuses /\ UNCHANGED wire
    /\ UNCHANGED <<reader, manager>>

\* The answer on the stream goes to the channel at its key.
ReadMessage(k, n) ==
    /\ Running /\ reader[k] = "reading" /\ n \in wire
    /\ wire' = wire \ {n}
    /\ call' = [c \in Callers |->
                   IF Decoded(n) \in client.pending /\ call[c].pc = "waiting" /\ Encoded(call[c].id) = Decoded(n)
                   THEN [call[c] EXCEPT !.answered = TRUE] ELSE call[c]]
    /\ UNCHANGED <<client, reader, manager>>

\* The select on the channel: an answer, which stays in the buffer of a closed channel, or its end.
AwaitChannel(c) ==
    /\ Running /\ call[c].pc = "waiting"
    /\ \/ call[c].answered /\ Return(c, "ok")
       \/ ~call[c].answered /\ call[c].closed /\ Return(c, "failed")
    /\ UNCHANGED <<reader, manager, wire>>

\* The select on the caller's context, which may end at any time or never.
AwaitContext(c) ==
    /\ Running /\ call[c].pc = "waiting" /\ Return(c, "failed")
    /\ UNCHANGED <<reader, manager, wire>>

-----------------------------------------------------------------------------
(* Connect and connectServer. *)

Fresh == {k \in Streams : reader[k] = "none"}

\* GET /sse, and the goroutine that reads it; the cancel function is set before either.
Connect(k) ==
    /\ Running /\ manager.pc = "idle" /\ k \in Fresh /\ \A j \in Fresh : k <= j
    /\ \/ /\ reader' = [reader EXCEPT ![k] = "reading"]
          /\ manager' = [manager EXCEPT !.pc = "endpoint", !.stream = k]
          /\ call' = [call EXCEPT ![Connector] = NoCall]
       \/ Refuses /\ manager' = [manager EXCEPT !.stream = 0] /\ UNCHANGED <<reader, call>>
    /\ UNCHANGED <<client, wire>>

EndpointEvent(k) ==
    /\ Running /\ reader[k] = "reading" /\ ~client.endpoint
    /\ client' = [client EXCEPT !.endpoint = TRUE]
    /\ UNCHANGED <<reader, call, manager, wire>>

\* The poll: the done channel first, then the endpoint; ten seconds at most.
WaitEndpoint ==
    /\ Running /\ manager.pc = "endpoint"
    /\ \/ /\ client.done = "open" /\ client.endpoint
          /\ Post(Connector) /\ manager' = [manager EXCEPT !.pc = "initialize"]
          /\ UNCHANGED reader
       \/ /\ client.done # "open" \/ ~client.endpoint
          /\ reader' = Cancelled(manager.stream)
          /\ manager' = [manager EXCEPT !.pc = "idle"]
          /\ UNCHANGED <<client, call>>
    /\ UNCHANGED wire

Initialized ==
    /\ Running /\ manager.pc = "initialize"
    /\ \/ /\ call[Connector].pc = "ok"
          /\ Posted(Connector, TRUE)
          /\ manager' = [manager EXCEPT !.pc = "list"]
          /\ UNCHANGED reader
       \/ /\ call[Connector].pc = "failed"
          /\ reader' = Cancelled(manager.stream)
          /\ manager' = [manager EXCEPT !.pc = "idle"]
          /\ UNCHANGED <<client, call>>
    /\ UNCHANGED wire

\* Mutant of Close: the map is replaced, its channels stay open.
CloseForgets ==
    /\ reader' = Cancelled(manager.stream)
    /\ client' = [client EXCEPT !.pending = {}]
    /\ UNCHANGED call

\* Close: the stream is cancelled and every pending channel closed, whatever its request is doing.
Close ==
    /\ reader' = Cancelled(manager.stream)
    /\ client' = [client EXCEPT !.pending = {}]
    /\ call' = [c \in Callers |-> [call[c] EXCEPT
                   !.closed = @ \/ (Pending(c) /\ Encoded(call[c].id) \in client.pending)]]

\* The tools are registered; a failure closes the client.
ListTools ==
    /\ Running /\ manager.pc = "list"
    /\ \/ /\ call[Connector].pc = "ok"
          /\ manager' = [manager EXCEPT !.pc = "idle", !.connected = TRUE]
          /\ UNCHANGED <<reader, call, client>>
       \/ /\ call[Connector].pc = "failed"
          /\ Close /\ manager' = [manager EXCEPT !.pc = "idle"]
    /\ UNCHANGED wire

\* The adapters stay in the tool registry.
Disconnect ==
    /\ Running /\ manager.connected
    /\ Close /\ manager' = [manager EXCEPT !.connected = FALSE]
    /\ UNCHANGED wire

\* The reader's stream ends: it was cancelled, the server closed it, or the 30 seconds of the
\* HTTP client are over, which count for the stream as for any reply.
ReaderExits(k) ==
    /\ Running /\ reader[k] \in {"reading", "cancelled"}
    /\ reader' = [reader EXCEPT ![k] = "exited"]
    /\ client' = [client EXCEPT !.done = IF @ = "open" THEN "closed" ELSE "closed twice"]
    /\ UNCHANGED <<call, manager, wire>>

\* CallTool: whoever holds the adapter, connected or not.
CallTool(c) ==
    /\ Running /\ call[c] = NoCall /\ client.init
    /\ Post(c)
    /\ UNCHANGED <<reader, manager, wire>>

McpNext ==
    \/ \E k \in Streams : Connect(k) \/ EndpointEvent(k) \/ ReaderExits(k)
    \/ WaitEndpoint \/ Initialized \/ ListTools \/ Disconnect
    \/ \E k \in Streams, n \in wire : ReadMessage(k, n)
    \/ \E c \in ToolCalls : CallTool(c)
    \/ \E c \in Callers : PostReturns(c) \/ AwaitChannel(c) \/ AwaitContext(c)

\* The HTTP client has a timeout, and a goroutine whose channel is ready goes on.  The end of a
\* caller's context is not relied on.
McpFairness == \A c \in Callers : WF_mcpVars(PostReturns(c)) /\ WF_mcpVars(AwaitChannel(c))

McpSpec == McpInit /\ [][McpNext]_mcpVars /\ McpFairness

-----------------------------------------------------------------------------
(* Properties. *)

\* Disconnecting a server, or a reconnection that fails, gives up the requests of all its adapters
\* (sse_client.go:221-234, 289-298): the map of pending requests holds exactly the requests in
\* flight that Close has not reached yet, so Close misses none, and a call it has reached returns
\* although nobody answers and its own context does not end.  Only a call that is made after Close
\* waits for its context; and the process must not have died of SurvivesReconnect.
CloseReachesCalls ==
    /\ [](client.pending = {Encoded(call[c].id) : c \in {d \in Callers : Pending(d) /\ ~call[d].closed}})
    /\ \A c \in ToolCalls : (Pending(c) /\ call[c].closed) ~> (~Pending(c) \/ ~Running)

\* "Asynchronous mode: wait for the answer on the stream" (sse_client.go:289): an answer that is
\* read from the stream while its request waits is the result of that request.
StreamAnswersCount ==
    [][\A n \in wire \ wire' : \A c \in Callers :
           call[c].pc = "waiting" /\ call[c].id = n => call'[c].answered]_mcpVars

\* The manager connects, disconnects and connects again (manager.go:26) without the end of the
\* process.
SurvivesReconnect == Running
=============================================================================
