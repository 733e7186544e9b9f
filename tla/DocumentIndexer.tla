--------------------------- MODULE DocumentIndexer ---------------------------
(***************************************************************************)
(* Documents of a knowledge base: the upload handler                       *)
(* (internal/api/handlers_knowledge.go), the background indexer            *)
(* (internal/rag/indexer.go), the two stores                               *)
(* (internal/store/knowledge.go, memory_knowledge.go) and what a search    *)
(* finds in them.                                                          *)
(***************************************************************************)
EXTENDS Integers, Sequences, FiniteSets

CONSTANTS
    Docs,        \* uploaded documents, all in one knowledge base
    Empty,       \* those whose text has no chunks: nothing but white space
    Workers,     \* index workers
    QueueSize,   \* capacity of the index queue
    Backend,     \* "postgres" or "memory"
    ColumnFits,  \* embedders whose dimension is the one of the vector column
    Faults,      \* "refused", "reply" (a statement), "embed", "crash", "timeout"
    MaxGlitches  \* bound: faulty statements, and shutdown timeouts and crashes

ASSUME IndexerAssumption ==
    /\ Workers # {} /\ "none" \notin Docs /\ Empty \subseteq Docs
    /\ QueueSize \in Nat \ {0} /\ MaxGlitches \in Nat
    /\ Backend \in {"postgres", "memory"} /\ ColumnFits \subseteq {"remote", "local"}

VARIABLES
    kb,       \* the knowledge base has not been deleted
    doc,      \* doc[d]: status of its row, or "none"
    chunks,   \* chunks[d]: batches of chunks stored for d, each by its embedder
    upload,   \* upload[d]: the handler of the upload of d
    queue,    \* queue
    stopped,  \* stopped is closed
    shutdown, \* Shutdown: "no" -> "waiting" -> "clean" or "late"
    worker,   \* worker[w]
    forsaken, \* accepted documents that a lost status write or the end of the process left behind
    spent     \* glitches so far

indexVars == <<kb, doc, chunks, upload, queue, stopped, shutdown, worker, forsaken, spent>>

Statuses == {"none", "pending", "indexing", "indexed", "failed"}
Handler  == [pc : {"owner", "create", "enqueue", "over"},
             reply : {"none", "201", "202", "404", "500"}]
\* by: the embedder that answered for the document in hand, "nothing" if there was nothing to embed;
\* drain: stopped has been seen.
Worker   == [pc : {"idle", "mark", "embed", "delete", "insert", "finish", "fail", "exited"},
             doc : Docs \cup {"none"}, by : {"none", "nothing", "remote", "local", "short"}, drain : BOOLEAN]

IndexerTypeOK ==
    /\ kb \in BOOLEAN /\ stopped \in BOOLEAN /\ spent \in 0..MaxGlitches
    /\ doc \in [Docs -> Statuses]
    /\ chunks \in [Docs -> Seq({"remote", "local", "short"})]
    /\ upload \in [Docs -> Handler]
    /\ queue \in Seq(Docs) /\ Len(queue) <= QueueSize
    /\ shutdown \in {"no", "waiting", "clean", "late"}
    /\ worker \in [Workers -> Worker]
    /\ forsaken \subseteq Docs

Resting == [pc |-> "idle", doc |-> "none", by |-> "none", drain |-> FALSE]

IndexerInit ==
    /\ kb = TRUE
    /\ doc = [d \in Docs |-> "none"]
    /\ chunks = [d \in Docs |-> <<>>]
    /\ upload = [d \in Docs |-> [pc |-> "owner", reply |-> "none"]]
    /\ queue = <<>> /\ stopped = FALSE /\ shutdown = "no"
    /\ worker = [w \in Workers |-> Resting]
    /\ forsaken = {} /\ spent = 0

-----------------------------------------------------------------------------
(* A statement ends "ok", "error" without effect, or "lost": executed, its reply lost. *)
(* The memory store never fails but for a document that is gone.                       *)

May(fault) == fault \in Faults /\ spent < MaxGlitches

Outcomes ==
    IF Backend = "memory" THEN {"ok"}
    ELSE {"ok"} \cup (IF May("refused") THEN {"error"} ELSE {})
                \cup (IF May("reply") THEN {"lost"} ELSE {})

Spend(o) == spent' = IF o = "ok" THEN spent ELSE spent + 1

\* UPDATE of a row that is gone: no error in PostgreSQL, ErrDocNotFound in memory.
StatusWrite(d, st, o) ==
    /\ doc' = IF o = "error" \/ doc[d] = "none" THEN doc ELSE [doc EXCEPT ![d] = st]
    /\ Spend(o)

WriteSeemsDone(d, o) == o = "ok" /\ (doc[d] # "none" \/ Backend = "postgres")

-----------------------------------------------------------------------------
(* The handler of the upload. *)

Reply(d, code) == upload' = [upload EXCEPT ![d] = [pc |-> "over", reply |-> code]]
Goto(d, pc)    == upload' = [upload EXCEPT ![d].pc = pc]

BelongsToUser(d) ==
    /\ upload[d].pc = "owner"
    /\ \E o \in Outcomes :
         /\ Spend(o)
         /\ IF o # "ok" THEN Reply(d, "500")
            ELSE IF kb THEN Goto(d, "create") ELSE Reply(d, "404")
    /\ UNCHANGED <<kb, doc, chunks, queue, stopped, shutdown, worker, forsaken>>

\* The foreign key refuses a document of a deleted knowledge base; memory has none.
CreateDocument(d) ==
    /\ upload[d].pc = "create"
    /\ \E o \in Outcomes :
         LET stored == o # "error" /\ (kb \/ Backend = "memory")
         IN  /\ Spend(o)
             /\ doc' = IF stored THEN [doc EXCEPT ![d] = "pending"] ELSE doc
             /\ IF stored /\ o = "ok" THEN Goto(d, "enqueue") ELSE Reply(d, "500")
    /\ UNCHANGED <<kb, chunks, queue, stopped, shutdown, worker, forsaken>>

\* Mutant of Enqueue: the check of stopped and the send are not one step.
EnqueueUnlocked(d) ==
    /\ upload[d].pc = "enqueue"
    /\ IF Len(queue) < QueueSize
       THEN queue' = Append(queue, d) /\ Reply(d, "201")
       ELSE UNCHANGED queue /\ Reply(d, "202")
    /\ UNCHANGED <<kb, doc, chunks, stopped, shutdown, worker, forsaken, spent>>

\* Under the read lock: the check of stopped and the send that does not block.  Either
\* error is answered with 202 and a warning.
Enqueue(d) ==
    /\ upload[d].pc = "enqueue"
    /\ IF ~stopped /\ Len(queue) < QueueSize
       THEN queue' = Append(queue, d) /\ Reply(d, "201")
       ELSE UNCHANGED queue /\ Reply(d, "202")
    /\ UNCHANGED <<kb, doc, chunks, stopped, shutdown, worker, forsaken, spent>>

\* DELETE /api/knowledge-bases/:id; the documents and their chunks go with it.  In memory
\* only the chunks of rows that exist are found.
DeleteKB ==
    /\ kb
    /\ kb' = FALSE
    /\ doc' = [d \in Docs |-> "none"]
    /\ chunks' = [d \in Docs |-> IF doc[d] # "none" THEN <<>> ELSE chunks[d]]
    /\ UNCHANGED <<upload, queue, stopped, shutdown, worker, forsaken, spent>>

-----------------------------------------------------------------------------
(* The workers. *)

Step(w, pc) == worker' = [worker EXCEPT ![w].pc = pc]
Done(w)     == worker' = [worker EXCEPT ![w] = [Resting EXCEPT !.drain = worker[w].drain]]

\* The select of worker takes a document also when stopped is closed; drain does the same.
Take(w) ==
    /\ worker[w].pc = "idle" /\ queue # <<>>
    /\ queue' = Tail(queue)
    /\ worker' = [worker EXCEPT ![w].pc = "mark", ![w].doc = Head(queue)]
    /\ UNCHANGED <<kb, doc, chunks, upload, stopped, shutdown, forsaken, spent>>

SeeStopped(w) ==
    /\ worker[w].pc = "idle" /\ stopped /\ ~worker[w].drain
    /\ worker' = [worker EXCEPT ![w].drain = TRUE]
    /\ UNCHANGED <<kb, doc, chunks, upload, queue, stopped, shutdown, forsaken, spent>>

Exit(w) ==
    /\ worker[w].pc = "idle" /\ worker[w].drain /\ queue = <<>>
    /\ Step(w, "exited")
    /\ UNCHANGED <<kb, doc, chunks, upload, queue, stopped, shutdown, forsaken, spent>>

\* processOne: the steps run with the background context.
MarkIndexing(w) ==
    LET d == worker[w].doc
    IN  /\ worker[w].pc = "mark"
        /\ \E o \in Outcomes :
             /\ StatusWrite(d, "indexing", o)
             /\ IF WriteSeemsDone(d, o)
                THEN Step(w, "embed") /\ UNCHANGED forsaken
                ELSE Done(w) /\ forsaken' = forsaken \cup {d}
        /\ UNCHANGED <<kb, chunks, upload, queue, stopped, shutdown>>

\* EmbeddingGateway.Embed never fails: it falls back to the local vectors.  "short": the
\* service answers with fewer vectors than chunks.  A text without chunks is not sent to it.
IndexDocument(w) ==
    /\ worker[w].pc = "embed"
    /\ \E by \in IF worker[w].doc \in Empty THEN {"nothing"}
               ELSE {"remote"} \cup (IF "embed" \in Faults THEN {"local", "short"} ELSE {}) :
         worker' = [worker EXCEPT ![w].pc = "delete", ![w].by = by]
    /\ UNCHANGED <<kb, doc, chunks, upload, queue, stopped, shutdown, forsaken, spent>>

\* Without chunks the document is indexed all the same (indexer.go:228).
DeleteChunksByDocument(w) ==
    /\ worker[w].pc = "delete"
    /\ \E o \in Outcomes :
         /\ Spend(o)
         /\ chunks' = IF o = "error" THEN chunks ELSE [chunks EXCEPT ![worker[w].doc] = <<>>]
         /\ Step(w, IF o # "ok" THEN "fail" ELSE IF worker[w].by = "nothing" THEN "finish" ELSE "insert")
    /\ UNCHANGED <<kb, doc, upload, queue, stopped, shutdown, forsaken>>

\* PostgreSQL refuses an empty vector, one of another dimension and the chunks of a document
\* that is gone; the memory store takes all of them.
Storable(w) ==
    Backend = "memory" \/ (worker[w].by \in ColumnFits /\ doc[worker[w].doc] # "none")

\* Mutant of BatchInsertChunks: an insert that fails counts as done.
InsertIgnoresError(w) ==
    /\ worker[w].pc = "insert"
    /\ \E o \in Outcomes :
         /\ Spend(o)
         /\ chunks' = IF o # "error" /\ Storable(w)
                      THEN [chunks EXCEPT ![worker[w].doc] = Append(@, worker[w].by)] ELSE chunks
         /\ Step(w, "finish")
    /\ UNCHANGED <<kb, doc, upload, queue, stopped, shutdown, forsaken>>

BatchInsertChunks(w) ==
    /\ worker[w].pc = "insert"
    /\ \E o \in Outcomes :
         /\ Spend(o)
         /\ chunks' = IF o # "error" /\ Storable(w)
                      THEN [chunks EXCEPT ![worker[w].doc] = Append(@, worker[w].by)] ELSE chunks
         /\ Step(w, IF o = "ok" /\ Storable(w) THEN "finish" ELSE "fail")
    /\ UNCHANGED <<kb, doc, upload, queue, stopped, shutdown, forsaken>>

\* Mutant of UpdateDocumentIndexResult: the failure is logged, the row keeps its status.
ResultOnlyIndexed(w) ==
    /\ worker[w].pc \in {"finish", "fail"}
    /\ \E o \in Outcomes :
         /\ StatusWrite(worker[w].doc, IF worker[w].pc = "finish" THEN "indexed"
                                       ELSE doc[worker[w].doc], o)
         /\ forsaken' = IF WriteSeemsDone(worker[w].doc, o) THEN forsaken
                        ELSE forsaken \cup {worker[w].doc}
    /\ Done(w)
    /\ UNCHANGED <<kb, chunks, upload, queue, stopped, shutdown>>

\* The result is written; an error of this write is only logged.
UpdateDocumentIndexResult(w) ==
    /\ worker[w].pc \in {"finish", "fail"}
    /\ \E o \in Outcomes :
         /\ StatusWrite(worker[w].doc, IF worker[w].pc = "finish" THEN "indexed" ELSE "failed", o)
         /\ forsaken' = IF WriteSeemsDone(worker[w].doc, o) THEN forsaken
                        ELSE forsaken \cup {worker[w].doc}
    /\ Done(w)
    /\ UNCHANGED <<kb, chunks, upload, queue, stopped, shutdown>>

-----------------------------------------------------------------------------
(* Shutdown, and the end of the process. *)

Shutdown ==
    /\ shutdown = "no"
    /\ stopped' = TRUE /\ shutdown' = "waiting"
    /\ UNCHANGED <<kb, doc, chunks, upload, queue, worker, forsaken, spent>>

AllExited ==
    /\ shutdown = "waiting" /\ \A w \in Workers : worker[w].pc = "exited"
    /\ shutdown' = "clean"
    /\ UNCHANGED <<kb, doc, chunks, upload, queue, stopped, worker, forsaken, spent>>

\* ctx is done first; main goes on and the process ends soon after.
ShutdownTimesOut ==
    /\ shutdown = "waiting" /\ May("timeout")
    /\ shutdown' = "late" /\ spent' = spent + 1
    /\ UNCHANGED <<kb, doc, chunks, upload, queue, stopped, worker, forsaken>>

InHand == {worker[w].doc : w \in Workers} \ {"none"}
Queued == {queue[i] : i \in DOMAIN queue}

\* A crash, or the exit that follows a late Shutdown, and the next start: nothing looks for
\* pending or half indexed documents.  The memory store is lost with the process.
Restart ==
    /\ shutdown = "late" \/ May("crash")
    /\ spent' = IF shutdown = "late" THEN spent ELSE spent + 1
    /\ queue' = <<>> /\ stopped' = FALSE /\ shutdown' = "no"
    /\ worker' = [w \in Workers |-> Resting]
    /\ forsaken' = forsaken \cup InHand \cup Queued
    /\ upload' = [d \in Docs |-> IF upload[d].pc = "owner" THEN upload[d]
                                 ELSE [upload[d] EXCEPT !.pc = "over"]]
    /\ IF Backend = "memory"
       THEN kb' = FALSE /\ doc' = [d \in Docs |-> "none"] /\ chunks' = [d \in Docs |-> <<>>]
       ELSE UNCHANGED <<kb, doc, chunks>>

WorkerStep(w) ==
    \/ Take(w) \/ SeeStopped(w) \/ Exit(w) \/ MarkIndexing(w) \/ IndexDocument(w)
    \/ DeleteChunksByDocument(w) \/ BatchInsertChunks(w) \/ UpdateDocumentIndexResult(w)

IndexerNext ==
    \/ \E d \in Docs : BelongsToUser(d) \/ CreateDocument(d) \/ Enqueue(d)
    \/ DeleteKB
    \/ \E w \in Workers : WorkerStep(w)
    \/ Shutdown \/ AllExited \/ ShutdownTimesOut \/ Restart

\* The runtime schedules the workers; a statement and a call of the embedder end (their
\* clients have timeouts).
IndexerFairness == \A w \in Workers : WF_indexVars(WorkerStep(w))

IndexerSpec == IndexerInit /\ [][IndexerNext]_indexVars /\ IndexerFairness

-----------------------------------------------------------------------------
(* Properties. *)

\* SearchChunks and KeywordSearch: the places of the chunks they find of each indexed document
\* of the knowledge base.  The vector search skips chunks without an embedding.
Indexed     == {d \in Docs : doc[d] = "indexed"}
VectorHits  == [d \in Indexed |-> {i \in DOMAIN chunks[d] : chunks[d][i] # "short"}]
KeywordHits == [d \in Indexed |-> DOMAIN chunks[d]]

\* A search finds a document that has text whole and once, and of an empty one nothing, whatever
\* the workers are doing; in PostgreSQL both paths find the same chunks (indexer.go:219-246,
\* knowledge.go:234-243).
FoundWholeAndOnce ==
    \A d \in DOMAIN KeywordHits :
        /\ Cardinality(KeywordHits[d]) = IF d \in Empty THEN 0 ELSE 1
        /\ Backend = "postgres" => VectorHits[d] = KeywordHits[d]

\* No chunks outlive their document (memory_knowledge.go:51, ON DELETE CASCADE).
NoOrphanChunks == \A d \in Docs : doc[d] = "none" => chunks[d] = <<>>

\* Shutdown that returns in time has left nothing behind: the queue is empty, and every
\* accepted document has its result unless its status could not be written (indexer.go:47-49).
CleanShutdown ==
    shutdown = "clean" =>
        /\ queue = <<>> /\ InHand = {}
        /\ \A d \in Docs : upload[d].reply = "201" =>
              doc[d] \in {"indexed", "failed", "none"} \/ d \in forsaken

\* An accepted document ends indexed or failed, unless the status could not be written or
\* the process ended (indexer.go:194-196), and stays ended.
AcceptedEnds ==
    <>[]\A d \in Docs : upload[d].reply = "201" =>
            doc[d] \in {"indexed", "failed", "none"} \/ d \in forsaken

\* A document never stays in the state indexing (indexer.go:195-196).
NeverStuck == \A d \in Docs : (doc[d] = "indexing") ~> (doc[d] # "indexing")

\* A document that found the queue full is indexed later, if the indexer goes on running
\* (handlers_knowledge.go:145).
RetriedLater ==
    \A d \in Docs : (upload[d].reply = "202" /\ doc[d] = "pending" /\ ~stopped) ~>
                        (doc[d] # "pending" \/ stopped)
=============================================================================
