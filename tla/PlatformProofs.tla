---------------------------- MODULE PlatformProofs ----------------------------
(***************************************************************************)
(* Proofs about what the platform keeps beside its tasks: the documents    *)
(* and their chunks, the spans of traces, what a query shows of them, and  *)
(* the configured providers.                                               *)
(* They share one module and nothing else: each part names its own         *)
(* invariant.                                                              *)
(***************************************************************************)
EXTENDS DocumentIndexer, ProviderConfig, SpanStore, TraceView,
        FiniteSetTheorems, SequenceTheorems, TLAPS

-----------------------------------------------------------------------------
(* The indexing of documents. *)

Holding(w) == worker[w].pc \notin {"idle", "exited"}

\* A document is in one place at a time: with its upload, in the queue or in the hands of one worker.
OnePlace ==
    /\ \A w \in Workers : Holding(w) <=> worker[w].doc \in Docs
    /\ \A v, w \in Workers : worker[v].doc = worker[w].doc => v = w \/ ~Holding(w)
    /\ \A i, j \in DOMAIN queue : queue[i] = queue[j] => i = j
    /\ \A i \in DOMAIN queue, w \in Workers : queue[i] # worker[w].doc
    /\ \A d \in Docs : upload[d].pc # "over" =>
           /\ upload[d].reply = "none"
           /\ \A i \in DOMAIN queue : queue[i] # d
           /\ \A w \in Workers : worker[w].doc # d

\* What a search may see of d.
Complete(d) ==
    IF d \in Empty THEN chunks[d] = <<>>
    ELSE Len(chunks[d]) = 1 /\ (Backend = "postgres" => chunks[d][1] # "short")

\* The embedder of a worker that has embedded its document, if it had text.
ByFits(k) == k.by # "none" /\ (k.by = "nothing" <=> k.doc \in Empty)

\* The last write of a document's processing finds its chunks in place, and nothing follows it.
ChunksFirst ==
    /\ \A w \in Workers :
           /\ worker[w].pc \in {"delete", "insert"} => ByFits(worker[w])
           /\ worker[w].pc = "insert" => chunks[worker[w].doc] = <<>> /\ worker[w].doc \notin Empty
           /\ worker[w].pc = "finish" =>
                  doc[worker[w].doc] = "none" \/ Complete(worker[w].doc)
    /\ \A d \in Docs : doc[d] = "indexed" =>
           /\ Complete(d) /\ upload[d].pc = "over"
           /\ \A i \in DOMAIN queue : queue[i] # d
           /\ \A w \in Workers : worker[w].doc # d

\* Workers leave an empty queue behind, to which nothing is added once stopped is closed.
Closing ==
    /\ stopped <=> shutdown # "no"
    /\ shutdown = "clean" => \A w \in Workers : worker[w].pc = "exited"
    /\ \A w \in Workers : /\ worker[w].drain => stopped
                          /\ worker[w].pc = "exited" => stopped /\ queue = <<>>

Answered(d) == doc[d] \in {"indexed", "failed", "none"} \/ d \in forsaken

\* An accepted document has its result or is on its way to it.
OnItsWay ==
    \A d \in Docs : upload[d].reply = "201" =>
        \/ Answered(d)
        \/ \E i \in DOMAIN queue : queue[i] = d
        \/ \E w \in Workers : worker[w].doc = d

IndexInv == IndexerTypeOK /\ OnePlace /\ ChunksFirst /\ Closing /\ OnItsWay

LEMMA IndexerBounds ==
    /\ QueueSize \in Nat \ {0} /\ MaxGlitches \in Nat /\ Workers # {} /\ "none" \notin Docs
    /\ Empty \subseteq Docs /\ Backend \in {"postgres", "memory"} /\ ColumnFits \subseteq {"remote", "local"}
BY IndexerAssumption

LEMMA RestingIs == Resting \in Worker /\ Resting.pc = "idle" /\ Resting.doc = "none" /\ ~Resting.drain
BY DEF Resting, Worker

\* A statement is counted when it fails.
LEMMA SpendIs ==
    ASSUME IndexerTypeOK, NEW o \in Outcomes, Spend(o)
    PROVE  spent' \in 0..MaxGlitches
<1>1. o \in {"ok", "error", "lost"} /\ (o # "ok" => spent < MaxGlitches)
  BY DEF Outcomes, May
<1> QED
  BY <1>1, IndexerBounds DEF Spend, IndexerTypeOK

LEMMA StatusIs ==
    ASSUME IndexerTypeOK, NEW d \in Docs, NEW st \in Statuses, NEW o, StatusWrite(d, st, o)
    PROVE  /\ doc' \in [Docs -> Statuses] /\ \A x \in Docs \ {d} : doc'[x] = doc[x]
           /\ \/ doc'[d] = doc[d] /\ (o = "error" \/ doc[d] = "none")
              \/ doc'[d] = st /\ doc[d] # "none"
           /\ Spend(o)
BY DEF StatusWrite, IndexerTypeOK

LEMMA StepIs ==
    ASSUME IndexerTypeOK, NEW w \in Workers, NEW pc \in {"mark", "embed", "delete", "insert", "finish", "fail", "exited"},
           Step(w, pc)
    PROVE  /\ worker' \in [Workers -> Worker] /\ \A v \in Workers \ {w} : worker'[v] = worker[v]
           /\ worker'[w].pc = pc /\ worker'[w].doc = worker[w].doc
           /\ worker'[w].by = worker[w].by /\ worker'[w].drain = worker[w].drain
<1> DEFINE k == [worker[w] EXCEPT !.pc = pc]
<1>1. worker[w] \in Worker /\ worker \in [Workers -> Worker]
  BY DEF IndexerTypeOK
<1>2. k \in Worker /\ k.pc = pc /\ k.doc = worker[w].doc /\ k.by = worker[w].by /\ k.drain = worker[w].drain
  BY <1>1 DEF Worker
<1>3. worker' = [worker EXCEPT ![w] = k]
  BY <1>1 DEF Step
<1> HIDE DEF k
<1> QED
  BY <1>1, <1>2, <1>3

LEMMA DoneIs ==
    ASSUME IndexerTypeOK, NEW w \in Workers, Done(w)
    PROVE  /\ worker' \in [Workers -> Worker] /\ \A v \in Workers \ {w} : worker'[v] = worker[v]
           /\ worker'[w].pc = "idle" /\ worker'[w].doc = "none" /\ worker'[w].drain = worker[w].drain
<1> DEFINE k == [Resting EXCEPT !.drain = worker[w].drain]
<1>1. worker[w] \in Worker /\ worker \in [Workers -> Worker] /\ worker[w].drain \in BOOLEAN
  BY DEF IndexerTypeOK, Worker
<1>2. k \in Worker /\ k.pc = "idle" /\ k.doc = "none" /\ k.drain = worker[w].drain
  BY <1>1, RestingIs DEF Worker
<1>3. worker' = [worker EXCEPT ![w] = k]
  BY <1>1 DEF Done
<1> HIDE DEF k
<1> QED
  BY <1>1, <1>2, <1>3

LEMMA ReplyIs ==
    ASSUME IndexerTypeOK, NEW d \in Docs, NEW code \in {"201", "202", "404", "500"}, Reply(d, code)
    PROVE  /\ upload' \in [Docs -> Handler] /\ \A x \in Docs \ {d} : upload'[x] = upload[x]
           /\ upload'[d].pc = "over" /\ upload'[d].reply = code
<1> DEFINE k == [pc |-> "over", reply |-> code]
<1>1. k \in Handler /\ k.pc = "over" /\ k.reply = code
  BY DEF Handler
<1> HIDE DEF k
<1> QED
  BY <1>1 DEF Reply, IndexerTypeOK, k

LEMMA GotoIs ==
    ASSUME IndexerTypeOK, NEW d \in Docs, NEW pc \in {"create", "enqueue"}, Goto(d, pc)
    PROVE  /\ upload' \in [Docs -> Handler] /\ \A x \in Docs \ {d} : upload'[x] = upload[x]
           /\ upload'[d].pc = pc /\ upload'[d].reply = upload[d].reply
<1> DEFINE k == [upload[d] EXCEPT !.pc = pc]
<1>1. upload[d] \in Handler /\ upload \in [Docs -> Handler]
  BY DEF IndexerTypeOK
<1>2. k \in Handler /\ k.pc = pc /\ k.reply = upload[d].reply
  BY <1>1 DEF Handler
<1>3. upload' = [upload EXCEPT ![d] = k]
  BY <1>1 DEF Goto
<1> HIDE DEF k
<1> QED
  BY <1>1, <1>2, <1>3

\* A step of a worker that goes on with its document or is done with it.
LEMMA WorkerGoesOn ==
    ASSUME IndexInv, NEW w \in Workers, NEW d \in Docs, worker[w].doc = d,
           worker' \in [Workers -> Worker], \A v \in Workers \ {w} : worker'[v] = worker[v],
           worker'[w].drain = worker[w].drain,
           \/ worker'[w].doc = d /\ worker'[w].pc \in {"embed", "delete", "insert", "finish", "fail"}
           \/ worker'[w].doc = "none" /\ worker'[w].pc = "idle",
           doc' \in [Docs -> Statuses], \A x \in Docs \ {d} : doc'[x] = doc[x],
           chunks' \in [Docs -> Seq({"remote", "local", "short"})],
           \A x \in Docs \ {d} : chunks'[x] = chunks[x],
           forsaken' \subseteq Docs, forsaken \subseteq forsaken', spent' \in 0..MaxGlitches,
           UNCHANGED <<kb, upload, queue, stopped, shutdown>>,
           worker'[w].pc \in {"delete", "insert"} => ByFits(worker'[w]),
           worker'[w].pc = "insert" => chunks'[d] = <<>> /\ d \notin Empty,
           worker'[w].pc = "finish" => doc'[d] = "none" \/ Complete(d)',
           doc'[d] = "indexed" => Complete(d)' /\ worker'[w].pc = "idle",
           worker'[w].pc = "idle" => Answered(d)'
    PROVE  IndexInv'
<1>1. IndexerTypeOK'
  BY DEF IndexInv, IndexerTypeOK
<1>2. Holding(w) /\ \A i \in DOMAIN queue : queue[i] # d
  BY DEF IndexInv, OnePlace
<1>3. \A v \in Workers \ {w} : worker[v].doc # d
  BY <1>2 DEF IndexInv, OnePlace
<1>4. upload[d].pc = "over"
  BY <1>2 DEF IndexInv, OnePlace
<1>5. "none" \notin Docs
  BY IndexerBounds
<1>6. OnePlace'
  <2>1. \A v \in Workers : Holding(v)' <=> worker'[v].doc \in Docs
    BY <1>5 DEF IndexInv, OnePlace, Holding
  <2>2. \A u, v \in Workers : worker'[v].doc = worker'[u].doc => v = u \/ ~Holding(v)'
    <3> SUFFICES ASSUME NEW u \in Workers, NEW v \in Workers, worker'[v].doc = worker'[u].doc, v # u, Holding(v)'
                 PROVE  FALSE
      OBVIOUS
    <3>1. worker'[v].doc \in Docs
      BY <2>1
    <3>2. CASE v = w
      BY <1>3, <1>5, <3>1, <3>2
    <3>3. CASE u = w
      BY <1>3, <1>5, <3>1, <3>3
    <3>4. CASE v # w /\ u # w
      BY <3>4 DEF IndexInv, OnePlace, Holding
    <3> QED
      BY <3>2, <3>3, <3>4
  <2>3. \A i \in DOMAIN queue' : \A v \in Workers : queue'[i] # worker'[v].doc
    <3>1. \A i \in DOMAIN queue : queue[i] \in Docs
      BY DEF IndexInv, IndexerTypeOK
    <3> QED
      BY <1>2, <1>5, <3>1 DEF IndexInv, OnePlace
  <2>4. ASSUME NEW x \in Docs, upload'[x].pc # "over"
        PROVE  /\ upload'[x].reply = "none"
               /\ \A i \in DOMAIN queue' : queue'[i] # x
               /\ \A v \in Workers : worker'[v].doc # x
    <3>1. upload[x].pc # "over" /\ x # d /\ x # "none"
      BY <1>4, <1>5, <2>4
    <3>2. /\ upload[x].reply = "none" /\ \A i \in DOMAIN queue : queue[i] # x
          /\ \A v \in Workers : worker[v].doc # x
      BY <3>1 DEF IndexInv, OnePlace
    <3>3. \A v \in Workers : worker'[v].doc # x
      BY <3>1, <3>2
    <3> QED
      BY <3>2, <3>3
  <2>5. \A i, j \in DOMAIN queue' : queue'[i] = queue'[j] => i = j
    BY DEF IndexInv, OnePlace
  <2> QED
    BY <2>1, <2>2, <2>3, <2>4, <2>5 DEF OnePlace
<1>8. ChunksFirst'
  <2>1. ASSUME NEW v \in Workers
        PROVE  /\ worker'[v].pc \in {"delete", "insert"} => ByFits(worker'[v])
               /\ worker'[v].pc = "insert" => chunks'[worker'[v].doc] = <<>> /\ worker'[v].doc \notin Empty
               /\ worker'[v].pc = "finish" =>
                      doc'[worker'[v].doc] = "none" \/ Complete(worker[v].doc)'
    <3>1. CASE v = w
      BY <3>1 DEF Complete
    <3>2. CASE v # w /\ worker[v].pc \in {"delete", "insert", "finish"}
      <4>1. worker'[v] = worker[v] /\ worker[v].doc \in Docs \ {d}
        BY <1>3, <3>2 DEF IndexInv, OnePlace, Holding
      <4>2. chunks'[worker[v].doc] = chunks[worker[v].doc] /\ doc'[worker[v].doc] = doc[worker[v].doc]
        BY <4>1
      <4> QED
        BY <4>1, <4>2 DEF IndexInv, ChunksFirst, Complete
    <3>3. CASE v # w /\ worker[v].pc \notin {"delete", "insert", "finish"}
      BY <3>3
    <3> QED
      BY <3>1, <3>2, <3>3
  <2>2. ASSUME NEW x \in Docs, doc'[x] = "indexed"
        PROVE  /\ Complete(x)' /\ upload'[x].pc = "over"
               /\ \A i \in DOMAIN queue' : queue'[i] # x
               /\ \A v \in Workers : worker'[v].doc # x
    <3>1. CASE x = d
      BY <1>2, <1>3, <1>4, <1>5, <2>2, <3>1
    <3>2. CASE x # d
      <4>1. doc[x] = "indexed"
        BY <2>2, <3>2
      <4>2. /\ Complete(x) /\ upload[x].pc = "over" /\ \A i \in DOMAIN queue : queue[i] # x
            /\ \A v \in Workers : worker[v].doc # x
        BY <4>1 DEF IndexInv, ChunksFirst
      <4>3. Complete(x)'
        BY <3>2, <4>2 DEF Complete
      <4>4. \A v \in Workers : worker'[v].doc # x
        BY <1>5, <3>2, <4>2
      <4> QED
        BY <4>2, <4>3, <4>4
    <3> QED
      BY <3>1, <3>2
  <2> QED
    BY <2>1, <2>2 DEF ChunksFirst
<1>9. Closing'
  BY <1>2 DEF IndexInv, Closing, Holding
<1>10. OnItsWay'
  <2> SUFFICES ASSUME NEW x \in Docs, upload'[x].reply = "201"
               PROVE  \/ Answered(x)'
                      \/ \E i \in DOMAIN queue' : queue'[i] = x
                      \/ \E v \in Workers : worker'[v].doc = x
    BY DEF OnItsWay
  <2>1. CASE x = d
    BY <2>1
  <2>2. CASE x # d
    <3>1. \/ Answered(x)
          \/ \E i \in DOMAIN queue : queue[i] = x
          \/ \E v \in Workers : worker[v].doc = x
      BY DEF IndexInv, OnItsWay
    <3>2. Answered(x) => Answered(x)'
      BY <2>2 DEF Answered
    <3>3. (\E v \in Workers : worker[v].doc = x) => \E v \in Workers : worker'[v].doc = x
      BY <2>2
    <3> QED
      BY <3>1, <3>2, <3>3
  <2> QED
    BY <2>1, <2>2
<1> QED
  BY <1>1, <1>6, <1>8, <1>9, <1>10 DEF IndexInv

\* A worker that holds a document.
LEMMA HandIs ==
    ASSUME IndexInv, NEW w \in Workers, Holding(w)
    PROVE  /\ worker[w].doc \in Docs /\ worker[w] \in Worker
           /\ doc[worker[w].doc] # "indexed" /\ doc[worker[w].doc] \in Statuses
           /\ chunks[worker[w].doc] \in Seq({"remote", "local", "short"})
BY DEF IndexInv, OnePlace, ChunksFirst, IndexerTypeOK

\* A status that could not be written is remembered.
LEMMA SeemsDone ==
    ASSUME NEW d, NEW st \in {"indexed", "failed"}, NEW o, StatusWrite(d, st, o), IndexerTypeOK, d \in Docs,
           forsaken' = IF WriteSeemsDone(d, o) THEN forsaken ELSE forsaken \cup {d}
    PROVE  Answered(d)'
BY DEF StatusWrite, WriteSeemsDone, Answered, IndexerTypeOK

LEMMA MarkKeeps == ASSUME IndexInv, NEW w \in Workers, MarkIndexing(w) PROVE IndexInv'
<1>0. PICK d \in Docs : d = worker[w].doc
  BY HandIs DEF Holding, MarkIndexing
<1>1. PICK o \in Outcomes :
          /\ StatusWrite(d, "indexing", o)
          /\ IF WriteSeemsDone(d, o)
             THEN Step(w, "embed") /\ UNCHANGED forsaken
             ELSE Done(w) /\ forsaken' = forsaken \cup {d}
  BY <1>0 DEF MarkIndexing
<1>2. worker[w].pc = "mark" /\ UNCHANGED <<kb, chunks, upload, queue, stopped, shutdown>>
  BY DEF MarkIndexing
<1>3. d \in Docs /\ doc[d] # "indexed" /\ IndexerTypeOK /\ d # "none"
  BY <1>0, <1>2, HandIs, IndexerBounds DEF Holding, IndexInv
<1>4. /\ doc' \in [Docs -> Statuses] /\ \A x \in Docs \ {d} : doc'[x] = doc[x]
      /\ doc'[d] # "indexed" /\ spent' \in 0..MaxGlitches
  BY <1>0, <1>1, <1>3, StatusIs, SpendIs DEF Statuses
<1>5. forsaken' \subseteq Docs /\ forsaken \subseteq forsaken' /\ chunks' \in [Docs -> Seq({"remote", "local", "short"})]
  BY <1>0, <1>1, <1>2, <1>3 DEF IndexerTypeOK
<1>6. CASE Step(w, "embed") /\ UNCHANGED forsaken
  <2>1. /\ worker' \in [Workers -> Worker] /\ \A v \in Workers \ {w} : worker'[v] = worker[v]
        /\ worker'[w].pc = "embed" /\ worker'[w].doc = d /\ worker'[w].drain = worker[w].drain
    BY <1>0, <1>3, <1>6, StepIs
  <2> QED
    BY <1>0, <1>2, <1>3, <1>4, <1>5, <2>1, WorkerGoesOn
<1>7. CASE Done(w) /\ forsaken' = forsaken \cup {d}
  <2>1. /\ worker' \in [Workers -> Worker] /\ \A v \in Workers \ {w} : worker'[v] = worker[v]
        /\ worker'[w].pc = "idle" /\ worker'[w].doc = "none" /\ worker'[w].drain = worker[w].drain
    BY <1>0, <1>3, <1>7, DoneIs
  <2>2. Answered(d)'
    BY <1>0, <1>7 DEF Answered
  <2> QED
    BY <1>0, <1>2, <1>3, <1>4, <1>5, <2>1, <2>2, WorkerGoesOn
<1> QED
  BY <1>0, <1>1, <1>6, <1>7

LEMMA EmbedKeeps == ASSUME IndexInv, NEW w \in Workers, IndexDocument(w) PROVE IndexInv'
<1>0. PICK d \in Docs : d = worker[w].doc
  BY HandIs DEF Holding, IndexDocument
<1>1. PICK by \in {"nothing", "remote", "local", "short"} :
          /\ worker' = [worker EXCEPT ![w].pc = "delete", ![w].by = by]
          /\ by = "nothing" <=> worker[w].doc \in Empty
  BY DEF IndexDocument
<1>2. /\ worker[w].pc = "embed"
      /\ UNCHANGED <<kb, doc, chunks, upload, queue, stopped, shutdown, forsaken, spent>>
  BY DEF IndexDocument
<1>3. d \in Docs /\ doc[d] # "indexed" /\ IndexerTypeOK /\ d # "none" /\ worker[w] \in Worker
  BY <1>0, <1>2, HandIs, IndexerBounds DEF Holding, IndexInv
<1> DEFINE k == [worker[w] EXCEPT !.pc = "delete", !.by = by]
<1>4. k \in Worker /\ k.pc = "delete" /\ k.doc = d /\ k.drain = worker[w].drain /\ ByFits(k)
  BY <1>0, <1>1, <1>3 DEF Worker, ByFits
<1>5. worker' = [worker EXCEPT ![w] = k]
  BY <1>0, <1>1, <1>3 DEF IndexerTypeOK
<1> HIDE DEF k
<1>6. /\ worker' \in [Workers -> Worker] /\ \A v \in Workers \ {w} : worker'[v] = worker[v]
      /\ worker'[w].pc = "delete" /\ worker'[w].doc = d /\ worker'[w].drain = worker[w].drain
      /\ ByFits(worker'[w])
  BY <1>0, <1>3, <1>4, <1>5 DEF IndexerTypeOK
<1>7. /\ doc' \in [Docs -> Statuses] /\ chunks' \in [Docs -> Seq({"remote", "local", "short"})]
      /\ forsaken' \subseteq Docs /\ spent' \in 0..MaxGlitches
  BY <1>0, <1>2, <1>3 DEF IndexerTypeOK
<1> QED
  BY <1>0, <1>2, <1>3, <1>6, <1>7, WorkerGoesOn

LEMMA DeleteKeeps == ASSUME IndexInv, NEW w \in Workers, DeleteChunksByDocument(w) PROVE IndexInv'
<1>0. PICK d \in Docs : d = worker[w].doc
  BY HandIs DEF Holding, DeleteChunksByDocument
<1>1. PICK o \in Outcomes :
          /\ Spend(o)
          /\ chunks' = IF o = "error" THEN chunks ELSE [chunks EXCEPT ![d] = <<>>]
          /\ Step(w, IF o # "ok" THEN "fail" ELSE IF worker[w].by = "nothing" THEN "finish" ELSE "insert")
  BY <1>0 DEF DeleteChunksByDocument
<1>2. worker[w].pc = "delete" /\ UNCHANGED <<kb, doc, upload, queue, stopped, shutdown, forsaken>>
  BY DEF DeleteChunksByDocument
<1>3. d \in Docs /\ doc[d] # "indexed" /\ IndexerTypeOK /\ d # "none" /\ worker[w] \in Worker
  BY <1>0, <1>2, HandIs, IndexerBounds DEF Holding, IndexInv
<1> DEFINE pc == IF o # "ok" THEN "fail" ELSE IF worker[w].by = "nothing" THEN "finish" ELSE "insert"
<1>4. /\ worker' \in [Workers -> Worker] /\ \A v \in Workers \ {w} : worker'[v] = worker[v]
      /\ worker'[w].pc = pc /\ worker'[w].doc = d /\ worker'[w].drain = worker[w].drain
      /\ ByFits(worker'[w])
  <2>1. ByFits(worker[w])
    BY <1>2 DEF IndexInv, ChunksFirst
  <2>2. /\ worker' \in [Workers -> Worker] /\ \A v \in Workers \ {w} : worker'[v] = worker[v]
        /\ worker'[w].pc = pc /\ worker'[w].doc = worker[w].doc /\ worker'[w].by = worker[w].by
        /\ worker'[w].drain = worker[w].drain
    BY <1>1, <1>3, StepIs
  <2>3. ByFits(worker'[w])
    BY <2>1, <2>2 DEF ByFits
  <2> QED
    BY <1>0, <2>2, <2>3
<1>5. /\ doc' \in [Docs -> Statuses] /\ chunks' \in [Docs -> Seq({"remote", "local", "short"})]
      /\ forsaken' \subseteq Docs /\ spent' \in 0..MaxGlitches
      /\ \A x \in Docs \ {d} : chunks'[x] = chunks[x]
      /\ o = "ok" => chunks'[d] = <<>>
  <2>1. <<>> \in Seq({"remote", "local", "short"})
    OBVIOUS
  <2>2. spent' \in 0..MaxGlitches
    BY <1>0, <1>1, <1>3, SpendIs
  <2> QED
    BY <1>0, <1>1, <1>2, <1>3, <2>1, <2>2 DEF IndexerTypeOK
<1>6. /\ worker'[w].pc \in {"insert", "finish", "fail"} /\ (worker'[w].pc = "insert" => chunks'[d] = <<>> /\ d \notin Empty)
      /\ worker'[w].pc = "finish" => Complete(d)'
  <2>1. worker[w].by = "nothing" <=> d \in Empty
    BY <1>0, <1>2 DEF IndexInv, ChunksFirst, ByFits
  <2> QED
    BY <1>4, <1>5, <2>1 DEF Complete
<1> HIDE DEF pc
<1> QED
  BY <1>0, <1>2, <1>3, <1>4, <1>5, <1>6, WorkerGoesOn

\* An insert that succeeds leaves one set of chunks, each with a vector in PostgreSQL.
LEMMA InsertKeeps == ASSUME IndexInv, NEW w \in Workers, BatchInsertChunks(w) PROVE IndexInv'
<1>0. PICK d \in Docs : d = worker[w].doc
  BY HandIs DEF Holding, BatchInsertChunks
<1> DEFINE by == worker[w].by
<1>1. PICK o \in Outcomes :
          /\ Spend(o)
          /\ chunks' = IF o # "error" /\ Storable(w) THEN [chunks EXCEPT ![d] = Append(chunks[d], by)] ELSE chunks
          /\ Step(w, IF o = "ok" /\ Storable(w) THEN "finish" ELSE "fail")
  BY <1>0 DEF BatchInsertChunks
<1>2. worker[w].pc = "insert" /\ UNCHANGED <<kb, doc, upload, queue, stopped, shutdown, forsaken>>
  BY DEF BatchInsertChunks
<1>3. d \in Docs /\ doc[d] # "indexed" /\ IndexerTypeOK /\ d # "none" /\ worker[w] \in Worker
  BY <1>0, <1>2, HandIs, IndexerBounds DEF Holding, IndexInv
<1>4. chunks[d] = <<>> /\ d \notin Empty
  BY <1>0, <1>2 DEF IndexInv, ChunksFirst
<1>5. /\ worker' \in [Workers -> Worker] /\ \A v \in Workers \ {w} : worker'[v] = worker[v]
      /\ worker'[w].pc = IF o = "ok" /\ Storable(w) THEN "finish" ELSE "fail"
      /\ worker'[w].doc = d /\ worker'[w].drain = worker[w].drain
  BY <1>0, <1>1, <1>3, StepIs
<1>6. Storable(w) => by \in {"remote", "local", "short"} /\ (Backend = "postgres" => by # "short")
  <2>1. by \in {"remote", "local", "short"}
    BY <1>0, <1>2, <1>3, <1>4 DEF IndexInv, ChunksFirst, Worker, ByFits
  <2> QED
    BY <1>0, <2>1, IndexerBounds DEF Storable
<1>7. spent' \in 0..MaxGlitches
  BY <1>0, <1>1, <1>3, SpendIs
<1> HIDE DEF by
<1>8. CASE o # "error" /\ Storable(w)
  <2>1. Append(chunks[d], by) \in Seq({"remote", "local", "short"})
    BY <1>0, <1>3, <1>6, <1>8 DEF IndexerTypeOK
  <2>2. Len(Append(chunks[d], by)) = 1 /\ Append(chunks[d], by)[1] = by
    BY <1>0, <1>4
  <2> DEFINE s == Append(chunks[d], by)
  <2> HIDE DEF s
  <2>3. chunks' = [chunks EXCEPT ![d] = s] /\ s \in Seq({"remote", "local", "short"}) /\ Len(s) = 1 /\ s[1] = by
    BY <1>0, <1>1, <1>8, <2>1, <2>2 DEF s
  <2>4. /\ chunks' \in [Docs -> Seq({"remote", "local", "short"})]
        /\ chunks'[d] = s /\ \A x \in Docs \ {d} : chunks'[x] = chunks[x]
    BY <1>0, <1>3, <2>3 DEF IndexerTypeOK
  <2>5. Complete(d)'
    BY <1>0, <1>2, <1>4, <1>6, <1>8, <2>3, <2>4 DEF Complete
  <2>6. /\ doc' \in [Docs -> Statuses] /\ forsaken' \subseteq Docs
        /\ worker'[w].pc \in {"finish", "fail"}
    BY <1>0, <1>2, <1>3, <1>5 DEF IndexerTypeOK
  <2> QED
    BY <1>0, <1>2, <1>3, <1>5, <1>7, <2>4, <2>5, <2>6, WorkerGoesOn
<1>9. CASE ~(o # "error" /\ Storable(w))
  <2>1. chunks' = chunks /\ worker'[w].pc = "fail"
    BY <1>0, <1>1, <1>5, <1>9
  <2>2. /\ doc' \in [Docs -> Statuses] /\ chunks' \in [Docs -> Seq({"remote", "local", "short"})]
        /\ forsaken' \subseteq Docs
    BY <1>0, <1>2, <1>3, <2>1 DEF IndexerTypeOK
  <2> QED
    BY <1>0, <1>2, <1>3, <1>5, <1>7, <2>1, <2>2, WorkerGoesOn
<1> QED
  BY <1>0, <1>8, <1>9

LEMMA ResultKeeps == ASSUME IndexInv, NEW w \in Workers, UpdateDocumentIndexResult(w) PROVE IndexInv'
<1>0. PICK d \in Docs : d = worker[w].doc
  BY HandIs DEF Holding, UpdateDocumentIndexResult
<1> DEFINE st == IF worker[w].pc = "finish" THEN "indexed" ELSE "failed"
<1>1. PICK o \in Outcomes :
          /\ StatusWrite(d, st, o)
          /\ forsaken' = IF WriteSeemsDone(d, o) THEN forsaken ELSE forsaken \cup {d}
  BY <1>0 DEF UpdateDocumentIndexResult
<1>2. /\ worker[w].pc \in {"finish", "fail"} /\ Done(w)
      /\ UNCHANGED <<kb, chunks, upload, queue, stopped, shutdown>>
  BY DEF UpdateDocumentIndexResult
<1>3. d \in Docs /\ doc[d] # "indexed" /\ IndexerTypeOK /\ d # "none"
  BY <1>0, <1>2, HandIs, IndexerBounds DEF Holding, IndexInv
<1>4. st \in {"indexed", "failed"} /\ st \in Statuses /\ (st = "indexed" => worker[w].pc = "finish")
  BY DEF Statuses
<1> HIDE DEF st
<1>5. /\ doc' \in [Docs -> Statuses] /\ \A x \in Docs \ {d} : doc'[x] = doc[x]
      /\ doc'[d] = doc[d] \/ (doc'[d] = st /\ doc[d] # "none")
      /\ spent' \in 0..MaxGlitches
  BY <1>0, <1>1, <1>3, <1>4, StatusIs, SpendIs
<1>6. Answered(d)'
  BY <1>0, <1>1, <1>3, <1>4, SeemsDone
<1>7. doc'[d] = "indexed" => Complete(d)'
  <2>1. doc'[d] = "indexed" => Complete(d)
    BY <1>0, <1>3, <1>4, <1>5 DEF IndexInv, ChunksFirst
  <2> QED
    BY <1>0, <1>2, <2>1 DEF Complete
<1>8. /\ worker' \in [Workers -> Worker] /\ \A v \in Workers \ {w} : worker'[v] = worker[v]
      /\ worker'[w].pc = "idle" /\ worker'[w].doc = "none" /\ worker'[w].drain = worker[w].drain
  BY <1>0, <1>2, <1>3, DoneIs
<1>9. /\ forsaken' \subseteq Docs /\ forsaken \subseteq forsaken'
      /\ chunks' \in [Docs -> Seq({"remote", "local", "short"})]
  BY <1>0, <1>1, <1>2, <1>3 DEF IndexerTypeOK
<1> QED
  BY <1>0, <1>2, <1>3, <1>5, <1>6, <1>7, <1>8, <1>9, WorkerGoesOn

LEMMA TakeKeeps == ASSUME IndexInv, NEW w \in Workers, Take(w) PROVE IndexInv'
<1>1. /\ IndexerTypeOK /\ worker[w].pc = "idle" /\ queue # <<>> /\ queue \in Seq(Docs) /\ worker[w] \in Worker
      /\ UNCHANGED <<kb, doc, chunks, upload, stopped, shutdown, forsaken, spent>>
  BY DEF Take, IndexInv, IndexerTypeOK
<1>2. PICK d \in Docs : d = Head(queue)
  BY <1>1
<1>3. Len(queue) >= 1 /\ d = queue[1] /\ 1 \in DOMAIN queue
  BY <1>1, <1>2
<1>4. /\ queue' = Tail(queue) /\ queue' \in Seq(Docs) /\ Len(queue') = Len(queue) - 1
      /\ \A i \in DOMAIN queue' : i + 1 \in DOMAIN queue /\ i + 1 # 1 /\ queue'[i] = queue[i + 1]
  BY <1>1, <1>3 DEF Take
<1> DEFINE k == [worker[w] EXCEPT !.pc = "mark", !.doc = d]
<1>5. k \in Worker /\ k.pc = "mark" /\ k.doc = d /\ k.drain = worker[w].drain
  BY <1>1 DEF Worker
<1>6. worker' = [worker EXCEPT ![w] = k]
  BY <1>1, <1>2 DEF Take, IndexerTypeOK
<1> HIDE DEF k
<1>7. /\ worker' \in [Workers -> Worker] /\ \A v \in Workers \ {w} : worker'[v] = worker[v]
      /\ worker'[w].pc = "mark" /\ worker'[w].doc = d /\ worker'[w].drain = worker[w].drain
  BY <1>1, <1>5, <1>6 DEF IndexerTypeOK
<1>8. "none" \notin Docs
  BY IndexerBounds
<1>9. /\ \A i, j \in DOMAIN queue : queue[i] = queue[j] => i = j
      /\ \A i \in DOMAIN queue : \A v \in Workers : queue[i] # worker[v].doc
  BY DEF IndexInv, OnePlace
<1>10. \A i \in DOMAIN queue' : queue'[i] # d
  BY <1>3, <1>4, <1>9
<1>11. \A v \in Workers : worker[v].doc # d
  BY <1>3, <1>9
<1>12. upload[d].pc = "over" /\ doc[d] # "indexed"
  BY <1>3 DEF IndexInv, OnePlace, ChunksFirst
<1>13. IndexerTypeOK'
  <2>1. Len(queue) \in Nat /\ Len(queue) <= QueueSize /\ QueueSize \in Nat
    BY <1>1, IndexerBounds DEF IndexerTypeOK
  <2>2. Len(queue') <= QueueSize
    BY <1>4, <2>1
  <2> QED
    BY <1>1, <1>4, <1>7, <2>2 DEF IndexerTypeOK
<1>14. OnePlace'
  <2>1. \A v \in Workers : Holding(v)' <=> worker'[v].doc \in Docs
    BY <1>7 DEF IndexInv, OnePlace, Holding
  <2>2. \A u, v \in Workers : worker'[v].doc = worker'[u].doc => v = u \/ ~Holding(v)'
    <3> SUFFICES ASSUME NEW u \in Workers, NEW v \in Workers, worker'[v].doc = worker'[u].doc, v # u, Holding(v)'
                 PROVE  FALSE
      OBVIOUS
    <3>1. CASE v = w
      BY <1>7, <1>11, <3>1
    <3>2. CASE u = w
      BY <1>7, <1>11, <3>2
    <3>3. CASE v # w /\ u # w
      BY <1>7, <3>3 DEF IndexInv, OnePlace, Holding
    <3> QED
      BY <3>1, <3>2, <3>3
  <2>3. \A i \in DOMAIN queue' : \A v \in Workers : queue'[i] # worker'[v].doc
    BY <1>4, <1>7, <1>9, <1>10
  <2>4. ASSUME NEW x \in Docs, upload'[x].pc # "over"
        PROVE  /\ upload'[x].reply = "none"
               /\ \A i \in DOMAIN queue' : queue'[i] # x
               /\ \A v \in Workers : worker'[v].doc # x
    <3>1. upload[x].pc # "over" /\ x # d
      BY <1>1, <1>12, <2>4
    <3>2. /\ upload[x].reply = "none" /\ \A i \in DOMAIN queue : queue[i] # x
          /\ \A v \in Workers : worker[v].doc # x
      BY <3>1 DEF IndexInv, OnePlace
    <3> QED
      BY <1>1, <1>4, <1>7, <3>1, <3>2
  <2>5. ASSUME NEW i \in DOMAIN queue', NEW j \in DOMAIN queue', queue'[i] = queue'[j] PROVE i = j
    <3>1. i + 1 = j + 1 /\ i \in Nat /\ j \in Nat
      BY <1>4, <1>9, <2>5
    <3> QED
      BY <3>1
  <2> QED
    BY <2>1, <2>2, <2>3, <2>4, <2>5 DEF OnePlace
<1>15. ChunksFirst'
  <2>1. ASSUME NEW v \in Workers
        PROVE  /\ worker'[v].pc \in {"delete", "insert"} => ByFits(worker'[v])
               /\ worker'[v].pc = "insert" => chunks'[worker'[v].doc] = <<>> /\ worker'[v].doc \notin Empty
               /\ worker'[v].pc = "finish" =>
                      doc'[worker'[v].doc] = "none" \/ Complete(worker[v].doc)'
    <3>1. CASE v = w
      BY <1>7, <3>1
    <3>2. CASE v # w
      BY <1>1, <1>7, <3>2 DEF IndexInv, ChunksFirst, Complete
    <3> QED
      BY <3>1, <3>2
  <2>2. ASSUME NEW x \in Docs, doc'[x] = "indexed"
        PROVE  /\ Complete(x)' /\ upload'[x].pc = "over"
               /\ \A i \in DOMAIN queue' : queue'[i] # x
               /\ \A v \in Workers : worker'[v].doc # x
    <3>1. doc[x] = "indexed" /\ x # d
      BY <1>1, <1>12, <2>2
    <3>2. /\ Complete(x) /\ upload[x].pc = "over" /\ \A i \in DOMAIN queue : queue[i] # x
          /\ \A v \in Workers : worker[v].doc # x
      BY <3>1 DEF IndexInv, ChunksFirst
    <3>3. Complete(x)'
      BY <1>1, <3>2 DEF Complete
    <3> QED
      BY <1>1, <1>4, <1>7, <3>1, <3>2, <3>3
  <2> QED
    BY <2>1, <2>2 DEF ChunksFirst
<1>16. Closing'
  BY <1>1, <1>7 DEF IndexInv, Closing
<1>17. OnItsWay'
  <2> SUFFICES ASSUME NEW x \in Docs, upload'[x].reply = "201"
               PROVE  \/ Answered(x)'
                      \/ \E i \in DOMAIN queue' : queue'[i] = x
                      \/ \E v \in Workers : worker'[v].doc = x
    BY DEF OnItsWay
  <2>1. CASE x = d
    BY <1>7, <2>1
  <2>2. CASE x # d /\ Answered(x)
    BY <1>1, <2>2 DEF Answered
  <2>3. CASE x # d /\ \E i \in DOMAIN queue : queue[i] = x
    <3>1. PICK i \in DOMAIN queue : queue[i] = x
      BY <2>3
    <3>2. i # 1 /\ i - 1 \in DOMAIN queue'
      BY <1>1, <1>3, <1>4, <2>3, <3>1
    <3>3. queue'[i - 1] = x
      BY <1>4, <3>1, <3>2
    <3> QED
      BY <3>2, <3>3
  <2>4. CASE x # d /\ \E v \in Workers : worker[v].doc = x
    <3>1. PICK v \in Workers : worker[v].doc = x
      BY <2>4
    <3>2. v # w
      BY <1>1, <3>1 DEF IndexInv, OnePlace, Holding
    <3> QED
      BY <1>7, <3>1, <3>2
  <2>5. Answered(x) \/ (\E i \in DOMAIN queue : queue[i] = x) \/ \E v \in Workers : worker[v].doc = x
    BY <1>1 DEF IndexInv, OnItsWay
  <2> QED
    BY <2>1, <2>2, <2>3, <2>4, <2>5
<1> QED
  BY <1>13, <1>14, <1>15, <1>16, <1>17 DEF IndexInv

\* A worker without a document that sees stopped closed, or leaves.
LEMMA IdleKeeps ==
    ASSUME IndexInv, NEW w \in Workers, SeeStopped(w) \/ Exit(w)
    PROVE  IndexInv'
<1>1. /\ IndexerTypeOK /\ worker[w].pc = "idle" /\ worker[w] \in Worker
      /\ UNCHANGED <<kb, doc, chunks, upload, queue, stopped, shutdown, forsaken, spent>>
  BY DEF SeeStopped, Exit, IndexInv, IndexerTypeOK
<1>2. /\ worker' \in [Workers -> Worker] /\ \A v \in Workers \ {w} : worker'[v] = worker[v]
      /\ worker'[w].doc = worker[w].doc /\ worker'[w].pc \in {"idle", "exited"}
      /\ worker'[w].drain => stopped
      /\ worker'[w].pc = "exited" => stopped /\ queue = <<>>
  <2>1. CASE Exit(w)
    <3>1. Step(w, "exited") /\ stopped /\ queue = <<>>
      BY <2>1 DEF Exit, IndexInv, Closing
    <3> QED
      BY <1>1, <3>1, StepIs
  <2>2. CASE SeeStopped(w)
    <3> DEFINE k == [worker[w] EXCEPT !.drain = TRUE]
    <3>1. k \in Worker /\ k.pc = "idle" /\ k.doc = worker[w].doc /\ stopped
      BY <1>1, <2>2 DEF Worker, SeeStopped
    <3>2. worker' = [worker EXCEPT ![w] = k]
      BY <2>2 DEF SeeStopped
    <3> HIDE DEF k
    <3> QED
      BY <1>1, <3>1, <3>2 DEF IndexerTypeOK
  <2> QED
    BY <2>1, <2>2
<1>3. \A v \in Workers : worker'[v].doc = worker[v].doc /\ (Holding(v)' <=> Holding(v))
  BY <1>1, <1>2 DEF Holding
<1>4. IndexerTypeOK'
  BY <1>1, <1>2 DEF IndexerTypeOK
<1>5. OnePlace'
  BY <1>1, <1>3 DEF IndexInv, OnePlace
<1>6. ChunksFirst'
  <2>1. \A v \in Workers : worker'[v].pc \in {"delete", "insert", "finish"} => v # w /\ worker'[v] = worker[v]
    BY <1>2
  <2>2. ASSUME NEW v \in Workers
        PROVE  /\ worker'[v].pc \in {"delete", "insert"} => ByFits(worker'[v])
               /\ worker'[v].pc = "insert" => chunks'[worker'[v].doc] = <<>> /\ worker'[v].doc \notin Empty
               /\ worker'[v].pc = "finish" =>
                      doc'[worker'[v].doc] = "none" \/ Complete(worker[v].doc)'
    BY <1>1, <1>3, <2>1 DEF IndexInv, ChunksFirst, Complete
  <2>3. ASSUME NEW x \in Docs, doc'[x] = "indexed"
        PROVE  /\ Complete(x)' /\ upload'[x].pc = "over"
               /\ \A i \in DOMAIN queue' : queue'[i] # x
               /\ \A v \in Workers : worker'[v].doc # x
    BY <1>1, <1>3, <2>3 DEF IndexInv, ChunksFirst, Complete
  <2> QED
    BY <2>2, <2>3 DEF ChunksFirst
<1>7. Closing'
  BY <1>1, <1>2 DEF IndexInv, Closing
<1>8. OnItsWay'
  <2>1. \A x \in Docs : Answered(x)' <=> Answered(x)
    BY <1>1 DEF Answered
  <2> QED
    BY <1>1, <1>3, <2>1 DEF IndexInv, OnItsWay
<1> QED
  BY <1>4, <1>5, <1>6, <1>7, <1>8 DEF IndexInv

LEMMA WorkerKeeps == ASSUME IndexInv, NEW w \in Workers, WorkerStep(w) PROVE IndexInv'
BY TakeKeeps, IdleKeeps, MarkKeeps, EmbedKeeps, DeleteKeeps, InsertKeeps, ResultKeeps DEF WorkerStep

\* A handler that ends without a place in the queue, or goes on.
LEMMA HandlerGoesOn ==
    ASSUME IndexInv, NEW d \in Docs, upload[d].pc # "over",
           upload' \in [Docs -> Handler], \A x \in Docs \ {d} : upload'[x] = upload[x],
           upload'[d].reply # "201", upload'[d].pc # "over" => upload'[d].reply = "none",
           doc' \in [Docs -> Statuses], \A x \in Docs \ {d} : doc'[x] = doc[x],
           doc'[d] \in {doc[d], "pending"}, spent' \in 0..MaxGlitches,
           UNCHANGED <<kb, chunks, queue, stopped, shutdown, worker, forsaken>>
    PROVE  IndexInv'
<1>1. /\ \A i \in DOMAIN queue : queue[i] # d
      /\ \A v \in Workers : worker[v].doc # d
  BY DEF IndexInv, OnePlace
<1>2. doc[d] # "indexed" /\ doc'[d] # "indexed"
  BY DEF IndexInv, ChunksFirst
<1>3. IndexerTypeOK'
  BY DEF IndexInv, IndexerTypeOK
<1>4. OnePlace'
  <2>1. ASSUME NEW x \in Docs, upload'[x].pc # "over"
        PROVE  /\ upload'[x].reply = "none"
               /\ \A i \in DOMAIN queue : queue[i] # x
               /\ \A v \in Workers : worker[v].doc # x
    <3>1. CASE x = d
      BY <1>1, <2>1, <3>1
    <3>2. CASE x # d
      BY <2>1, <3>2 DEF IndexInv, OnePlace
    <3> QED
      BY <3>1, <3>2
  <2> QED
    BY <2>1 DEF IndexInv, OnePlace, Holding
<1>5. ChunksFirst'
  <2>1. ASSUME NEW v \in Workers
        PROVE  /\ worker'[v].pc \in {"delete", "insert"} => ByFits(worker'[v])
               /\ worker'[v].pc = "insert" => chunks'[worker'[v].doc] = <<>> /\ worker'[v].doc \notin Empty
               /\ worker'[v].pc = "finish" =>
                      doc'[worker'[v].doc] = "none" \/ Complete(worker[v].doc)'
    <3>1. worker[v].pc = "finish" => worker[v].doc \in Docs \ {d}
      BY <1>1 DEF IndexInv, OnePlace, Holding
    <3>2. worker[v].pc = "finish" => doc'[worker[v].doc] = doc[worker[v].doc]
      BY <3>1
    <3> QED
      BY <3>2 DEF IndexInv, ChunksFirst, Complete
  <2>2. ASSUME NEW x \in Docs, doc'[x] = "indexed"
        PROVE  /\ Complete(x)' /\ upload'[x].pc = "over"
               /\ \A i \in DOMAIN queue' : queue'[i] # x
               /\ \A v \in Workers : worker'[v].doc # x
    <3>1. x # d /\ doc[x] = "indexed"
      BY <1>2, <2>2
    <3> QED
      BY <3>1 DEF IndexInv, ChunksFirst, Complete
  <2> QED
    BY <2>1, <2>2 DEF ChunksFirst
<1>6. Closing'
  BY DEF IndexInv, Closing
<1>7. OnItsWay'
  <2> SUFFICES ASSUME NEW x \in Docs, upload'[x].reply = "201"
               PROVE  \/ Answered(x)'
                      \/ \E i \in DOMAIN queue' : queue'[i] = x
                      \/ \E v \in Workers : worker'[v].doc = x
    BY DEF OnItsWay
  <2>1. x # d /\ upload[x].reply = "201" /\ doc'[x] = doc[x]
    OBVIOUS
  <2> QED
    BY <2>1 DEF IndexInv, OnItsWay, Answered
<1> QED
  BY <1>3, <1>4, <1>5, <1>6, <1>7 DEF IndexInv

LEMMA UploadKeeps ==
    ASSUME IndexInv, NEW d \in Docs, BelongsToUser(d) \/ CreateDocument(d)
    PROVE  IndexInv'
<1>1. /\ IndexerTypeOK /\ upload[d].pc \in {"owner", "create"} /\ doc[d] \in Statuses
      /\ UNCHANGED <<kb, chunks, queue, stopped, shutdown, worker, forsaken>>
  BY DEF IndexInv, IndexerTypeOK, BelongsToUser, CreateDocument
<1>2. upload[d].reply = "none" /\ "pending" \in Statuses
  BY <1>1 DEF IndexInv, OnePlace, Statuses
<1>3. PICK o \in Outcomes : Spend(o)
  BY DEF BelongsToUser, CreateDocument
<1>4. spent' \in 0..MaxGlitches
  BY <1>1, <1>3, SpendIs
<1>5. \/ Reply(d, "500") \/ Reply(d, "404") \/ Goto(d, "create") \/ Goto(d, "enqueue")
  BY DEF BelongsToUser, CreateDocument
<1>6. /\ upload' \in [Docs -> Handler] /\ \A x \in Docs \ {d} : upload'[x] = upload[x]
      /\ upload'[d].reply # "201" /\ (upload'[d].pc # "over" => upload'[d].reply = "none")
  <2>1. CASE Reply(d, "500")
    BY <1>1, <2>1, ReplyIs
  <2>2. CASE Reply(d, "404")
    BY <1>1, <2>2, ReplyIs
  <2>3. CASE Goto(d, "create")
    BY <1>1, <1>2, <2>3, GotoIs
  <2>4. CASE Goto(d, "enqueue")
    BY <1>1, <1>2, <2>4, GotoIs
  <2> QED
    BY <1>5, <2>1, <2>2, <2>3, <2>4
<1>7. /\ doc' \in [Docs -> Statuses] /\ \A x \in Docs \ {d} : doc'[x] = doc[x]
      /\ doc'[d] \in {doc[d], "pending"}
  <2>1. doc' = doc \/ doc' = [doc EXCEPT ![d] = "pending"]
    BY DEF BelongsToUser, CreateDocument
  <2> QED
    BY <1>1, <1>2, <2>1 DEF IndexerTypeOK
<1> QED
  BY <1>1, <1>4, <1>6, <1>7, HandlerGoesOn

LEMMA EnqueueKeeps == ASSUME IndexInv, NEW d \in Docs, Enqueue(d) PROVE IndexInv'
<1>1. /\ IndexerTypeOK /\ upload[d].pc = "enqueue" /\ queue \in Seq(Docs)
      /\ UNCHANGED <<kb, doc, chunks, stopped, shutdown, worker, forsaken, spent>>
  BY DEF IndexInv, IndexerTypeOK, Enqueue
<1>2. CASE UNCHANGED queue /\ Reply(d, "202")
  <2>1. /\ upload' \in [Docs -> Handler] /\ \A x \in Docs \ {d} : upload'[x] = upload[x]
        /\ upload'[d].reply # "201" /\ upload'[d].pc = "over"
    BY <1>1, <1>2, ReplyIs
  <2>2. doc' \in [Docs -> Statuses] /\ spent' \in 0..MaxGlitches
    BY <1>1 DEF IndexerTypeOK
  <2> QED
    BY <1>1, <1>2, <2>1, <2>2, HandlerGoesOn
<1>3. CASE ~stopped /\ Len(queue) < QueueSize /\ queue' = Append(queue, d) /\ Reply(d, "201")
  <2>1. /\ upload' \in [Docs -> Handler] /\ \A x \in Docs \ {d} : upload'[x] = upload[x]
        /\ upload'[d].pc = "over"
    BY <1>1, <1>3, ReplyIs
  <2>2. /\ queue' \in Seq(Docs) /\ Len(queue') <= QueueSize
        /\ Len(queue) + 1 \in DOMAIN queue' /\ queue'[Len(queue) + 1] = d
        /\ \A i \in DOMAIN queue' : (i \in DOMAIN queue /\ queue'[i] = queue[i])
                                        \/ (i = Len(queue) + 1 /\ queue'[i] = d)
        /\ \A i \in DOMAIN queue : i \in DOMAIN queue' /\ queue'[i] = queue[i]
    <3>1. Len(queue) \in Nat /\ QueueSize \in Nat
      BY <1>1, IndexerBounds
    <3> QED
      BY <1>1, <1>3, <3>1
  <2>3. /\ \A i \in DOMAIN queue : queue[i] # d
        /\ \A v \in Workers : worker[v].doc # d
    BY <1>1 DEF IndexInv, OnePlace
  <2>4. doc[d] # "indexed"
    BY <1>1 DEF IndexInv, ChunksFirst
  <2>5. IndexerTypeOK'
    BY <1>1, <2>1, <2>2 DEF IndexerTypeOK
  <2>6. OnePlace'
    <3>1. \A i, j \in DOMAIN queue' : queue'[i] = queue'[j] => i = j
      BY <2>2, <2>3 DEF IndexInv, OnePlace
    <3>2. \A i \in DOMAIN queue' : \A v \in Workers : queue'[i] # worker'[v].doc
      BY <1>1, <2>2, <2>3 DEF IndexInv, OnePlace
    <3>3. ASSUME NEW x \in Docs, upload'[x].pc # "over"
          PROVE  /\ upload'[x].reply = "none"
                 /\ \A i \in DOMAIN queue' : queue'[i] # x
                 /\ \A v \in Workers : worker'[v].doc # x
      <4>1. x # d /\ upload[x].pc # "over" /\ upload'[x] = upload[x]
        BY <2>1, <3>3
      <4> QED
        BY <1>1, <2>2, <4>1 DEF IndexInv, OnePlace
    <3> QED
      BY <1>1, <3>1, <3>2, <3>3 DEF IndexInv, OnePlace, Holding
  <2>7. ChunksFirst'
    <3>1. ASSUME NEW x \in Docs, doc'[x] = "indexed"
          PROVE  /\ Complete(x)' /\ upload'[x].pc = "over"
                 /\ \A i \in DOMAIN queue' : queue'[i] # x
                 /\ \A v \in Workers : worker'[v].doc # x
      <4>1. x # d /\ doc[x] = "indexed" /\ upload'[x] = upload[x]
        BY <1>1, <2>1, <2>4, <3>1
      <4> QED
        BY <1>1, <2>2, <4>1 DEF IndexInv, ChunksFirst, Complete
    <3> QED
      BY <1>1, <3>1 DEF IndexInv, ChunksFirst, Complete
  <2>8. Closing'
    BY <1>1, <1>3 DEF IndexInv, Closing
  <2>9. OnItsWay'
    <3> SUFFICES ASSUME NEW x \in Docs, upload'[x].reply = "201"
                 PROVE  \/ Answered(x)'
                        \/ \E i \in DOMAIN queue' : queue'[i] = x
                        \/ \E v \in Workers : worker'[v].doc = x
      BY DEF OnItsWay
    <3>1. CASE x = d
      BY <2>2, <3>1
    <3>2. CASE x # d
      <4>1. upload[x].reply = "201"
        BY <2>1, <3>2
      <4>2. Answered(x) <=> Answered(x)'
        BY <1>1 DEF Answered
      <4> QED
        BY <1>1, <2>2, <4>1, <4>2 DEF IndexInv, OnItsWay
    <3> QED
      BY <3>1, <3>2
  <2> QED
    BY <2>5, <2>6, <2>7, <2>8, <2>9 DEF IndexInv
<1> QED
  BY <1>2, <1>3 DEF Enqueue

LEMMA DeletionKeeps == ASSUME IndexInv, DeleteKB PROVE IndexInv'
<1>1. /\ kb' = FALSE /\ doc' = [d \in Docs |-> "none"]
      /\ chunks' = [d \in Docs |-> IF doc[d] # "none" THEN <<>> ELSE chunks[d]]
      /\ UNCHANGED <<upload, queue, stopped, shutdown, worker, forsaken, spent>>
  BY DEF DeleteKB
<1>2. IndexerTypeOK'
  <2>1. <<>> \in Seq({"remote", "local", "short"}) /\ "none" \in Statuses
    BY DEF Statuses
  <2> QED
    BY <1>1, <2>1 DEF IndexInv, IndexerTypeOK
<1>3. OnePlace'
  BY <1>1 DEF IndexInv, OnePlace, Holding
<1>4. ChunksFirst'
  <2>1. ASSUME NEW v \in Workers
        PROVE  /\ worker'[v].pc \in {"delete", "insert"} => ByFits(worker'[v])
               /\ worker'[v].pc = "insert" => chunks'[worker'[v].doc] = <<>> /\ worker'[v].doc \notin Empty
               /\ worker'[v].pc = "finish" =>
                      doc'[worker'[v].doc] = "none" \/ Complete(worker[v].doc)'
    <3>1. worker[v].pc \in {"insert", "finish"} => worker[v].doc \in Docs
      BY DEF IndexInv, OnePlace, Holding
    <3> QED
      BY <1>1, <3>1 DEF IndexInv, ChunksFirst
  <2>2. \A x \in Docs : doc'[x] # "indexed"
    BY <1>1
  <2> QED
    BY <2>1, <2>2 DEF ChunksFirst
<1>5. Closing'
  BY <1>1 DEF IndexInv, Closing
<1>6. OnItsWay'
  BY <1>1 DEF OnItsWay, Answered
<1> QED
  BY <1>2, <1>3, <1>4, <1>5, <1>6 DEF IndexInv

LEMMA ShutdownKeeps ==
    ASSUME IndexInv, Shutdown \/ AllExited \/ ShutdownTimesOut
    PROVE  IndexInv'
<1>1. /\ UNCHANGED <<kb, doc, chunks, upload, queue, worker, forsaken>>
      /\ stopped' \in {stopped, TRUE} /\ shutdown' \in {"waiting", "clean", "late"} /\ spent' \in 0..MaxGlitches
      /\ stopped' /\ (shutdown' = "clean" => \A w \in Workers : worker[w].pc = "exited")
  <2>1. stopped <=> shutdown # "no"
    BY DEF IndexInv, Closing
  <2>2. spent' \in 0..MaxGlitches
    BY IndexerBounds DEF Shutdown, AllExited, ShutdownTimesOut, May, IndexInv, IndexerTypeOK
  <2> QED
    BY <2>1, <2>2 DEF Shutdown, AllExited, ShutdownTimesOut, IndexInv, IndexerTypeOK
<1>2. IndexerTypeOK'
  BY <1>1 DEF IndexInv, IndexerTypeOK
<1>3. OnePlace'
  BY <1>1 DEF IndexInv, OnePlace, Holding
<1>4. ChunksFirst'
  BY <1>1 DEF IndexInv, ChunksFirst, Complete
<1>5. Closing'
  BY <1>1 DEF IndexInv, Closing
<1>6. OnItsWay'
  BY <1>1 DEF IndexInv, OnItsWay, Answered
<1> QED
  BY <1>2, <1>3, <1>4, <1>5, <1>6 DEF IndexInv

LEMMA RestartKeeps == ASSUME IndexInv, Restart PROVE IndexInv'
<1>1. IndexerTypeOK /\ "none" \notin Docs
  BY IndexerBounds DEF IndexInv
<1>2. /\ queue' = <<>> /\ stopped' = FALSE /\ shutdown' = "no"
      /\ worker' = [w \in Workers |-> Resting]
      /\ forsaken' = forsaken \cup InHand \cup Queued
      /\ upload' = [d \in Docs |-> IF upload[d].pc = "owner" THEN upload[d]
                                   ELSE [upload[d] EXCEPT !.pc = "over"]]
  BY DEF Restart
<1>3. \/ kb' = FALSE /\ doc' = [d \in Docs |-> "none"] /\ chunks' = [d \in Docs |-> <<>>]
      \/ UNCHANGED <<kb, doc, chunks>>
  BY DEF Restart
<1>4. spent' \in 0..MaxGlitches
  BY <1>1, IndexerBounds DEF Restart, May, IndexerTypeOK
<1>5. /\ worker' \in [Workers -> Worker]
      /\ \A w \in Workers : worker'[w].pc = "idle" /\ worker'[w].doc = "none" /\ ~worker'[w].drain
  BY <1>2, RestingIs
<1>6. /\ upload' \in [Docs -> Handler]
      /\ \A d \in Docs : /\ upload'[d].reply = upload[d].reply
                         /\ upload'[d].pc # "over" => upload[d].pc # "over"
                         /\ upload[d].pc = "over" => upload'[d].pc = "over"
  <2>1. ASSUME NEW d \in Docs
        PROVE  /\ upload'[d] \in Handler /\ upload'[d].reply = upload[d].reply
               /\ upload'[d].pc # "over" => upload[d].pc # "over"
               /\ upload[d].pc = "over" => upload'[d].pc = "over"
    <3> DEFINE k == [upload[d] EXCEPT !.pc = "over"]
    <3>1. upload[d] \in Handler
      BY <1>1 DEF IndexerTypeOK
    <3>2. k \in Handler /\ k.pc = "over" /\ k.reply = upload[d].reply
      BY <3>1 DEF Handler
    <3>3. upload'[d] = IF upload[d].pc = "owner" THEN upload[d] ELSE k
      BY <1>2
    <3> HIDE DEF k
    <3> QED
      BY <3>1, <3>2, <3>3
  <2> QED
    BY <1>2, <2>1
<1>7. IndexerTypeOK'
  <2>1. forsaken' \subseteq Docs
    <3>1. \A i \in DOMAIN queue : queue[i] \in Docs
      BY <1>1 DEF IndexerTypeOK
    <3>2. InHand \subseteq Docs
      BY <1>1 DEF IndexerTypeOK, Worker, InHand
    <3>3. Queued \subseteq Docs
      BY <3>1 DEF Queued
    <3> QED
      BY <1>1, <1>2, <3>2, <3>3 DEF IndexerTypeOK
  <2>2. kb' \in BOOLEAN /\ doc' \in [Docs -> Statuses] /\ chunks' \in [Docs -> Seq({"remote", "local", "short"})]
    <3>1. <<>> \in Seq({"remote", "local", "short"})
      OBVIOUS
    <3>2. kb' \in BOOLEAN /\ doc' \in [Docs -> Statuses]
      BY <1>1, <1>3 DEF IndexerTypeOK, Statuses
    <3>3. chunks' \in [Docs -> Seq({"remote", "local", "short"})]
      BY <1>1, <1>3, <3>1 DEF IndexerTypeOK
    <3> QED
      BY <3>2, <3>3
  <2>3. queue' \in Seq(Docs) /\ Len(queue') <= QueueSize
    BY <1>2, IndexerBounds
  <2> QED
    BY <1>2, <1>4, <1>5, <1>6, <2>1, <2>2, <2>3 DEF IndexerTypeOK
<1>8. DOMAIN queue' = {}
  BY <1>2
<1>9. OnePlace'
  <2>1. \A x \in Docs : upload'[x].pc # "over" => upload'[x].reply = "none"
    BY <1>6 DEF IndexInv, OnePlace
  <2> QED
    BY <1>1, <1>5, <1>8, <2>1 DEF OnePlace, Holding
<1>10. ChunksFirst'
  <2>1. ASSUME NEW x \in Docs, doc'[x] = "indexed" PROVE Complete(x)' /\ upload'[x].pc = "over"
    <3>1. doc[x] = "indexed" /\ chunks' = chunks
      BY <1>3, <2>1
    <3> QED
      BY <1>6, <3>1 DEF IndexInv, ChunksFirst, Complete
  <2> QED
    BY <1>1, <1>5, <1>8, <2>1 DEF ChunksFirst
<1>11. Closing'
  BY <1>2, <1>5 DEF Closing
<1>12. OnItsWay'
  <2> SUFFICES ASSUME NEW x \in Docs, upload'[x].reply = "201" PROVE Answered(x)'
    BY DEF OnItsWay
  <2>1. CASE Answered(x)
    BY <1>2, <1>3, <2>1 DEF Answered
  <2>2. CASE \E i \in DOMAIN queue : queue[i] = x
    BY <1>2, <2>2 DEF Answered, Queued
  <2>3. CASE \E w \in Workers : worker[w].doc = x
    BY <1>1, <1>2, <2>3 DEF Answered, InHand
  <2>4. Answered(x) \/ (\E i \in DOMAIN queue : queue[i] = x) \/ \E w \in Workers : worker[w].doc = x
    BY <1>6 DEF IndexInv, OnItsWay
  <2> QED
    BY <2>1, <2>2, <2>3, <2>4
<1> QED
  BY <1>7, <1>9, <1>10, <1>11, <1>12 DEF IndexInv

\* A document is in one place, its last write finds its chunks in place, workers
\* leave an empty queue behind and an accepted document is on its way to its
\* result: all of it in every reachable state (indexer.go:84-190, :219-246).
THEOREM Indexing == IndexerSpec => []IndexInv
<1>1. ASSUME IndexerInit PROVE IndexInv
  <2>1. IndexerTypeOK
    <3>1. <<>> \in Seq({"remote", "local", "short"}) /\ <<>> \in Seq(Docs) /\ Len(<<>>) = 0
      OBVIOUS
    <3>2. [pc |-> "owner", reply |-> "none"] \in Handler
      BY DEF Handler
    <3>3. /\ doc \in [Docs -> Statuses] /\ chunks \in [Docs -> Seq({"remote", "local", "short"})]
          /\ queue \in Seq(Docs) /\ Len(queue) <= QueueSize /\ spent \in 0..MaxGlitches
      BY <1>1, <3>1, IndexerBounds DEF IndexerInit, Statuses
    <3>4. upload \in [Docs -> Handler] /\ worker \in [Workers -> Worker]
      BY <1>1, <3>2, RestingIs DEF IndexerInit
    <3> QED
      BY <1>1, <3>3, <3>4 DEF IndexerInit, IndexerTypeOK
  <2>2. DOMAIN queue = {} /\ \A w \in Workers : worker[w].pc = "idle" /\ worker[w].doc = "none" /\ ~worker[w].drain
    BY <1>1, RestingIs DEF IndexerInit
  <2>3. \A d \in Docs : doc[d] = "none" /\ upload[d].reply = "none"
    BY <1>1 DEF IndexerInit
  <2>4. OnePlace
    BY <2>2, <2>3, IndexerBounds DEF OnePlace, Holding
  <2>5. ChunksFirst
    BY <2>2, <2>3 DEF ChunksFirst
  <2>6. Closing
    BY <1>1, <2>2 DEF IndexerInit, Closing
  <2>7. OnItsWay
    BY <2>3 DEF OnItsWay
  <2> QED
    BY <2>1, <2>4, <2>5, <2>6, <2>7 DEF IndexInv
<1>2. ASSUME IndexInv, IndexerNext PROVE IndexInv'
  BY <1>2, UploadKeeps, EnqueueKeeps, DeletionKeeps, WorkerKeeps, ShutdownKeeps, RestartKeeps DEF IndexerNext
<1>3. ASSUME IndexInv, UNCHANGED indexVars PROVE IndexInv'
  <2>1. IndexerTypeOK'
    BY <1>3 DEF IndexInv, indexVars, IndexerTypeOK
  <2>2. OnePlace'
    BY <1>3 DEF IndexInv, indexVars, OnePlace, Holding
  <2>3. ChunksFirst'
    BY <1>3 DEF IndexInv, indexVars, ChunksFirst, Complete
  <2>4. Closing'
    BY <1>3 DEF IndexInv, indexVars, Closing
  <2>5. OnItsWay'
    BY <1>3 DEF IndexInv, indexVars, OnItsWay, Answered
  <2> QED
    BY <2>1, <2>2, <2>3, <2>4, <2>5 DEF IndexInv
<1> QED
  BY <1>1, <1>2, <1>3, PTL DEF IndexerSpec

\* A document shown as indexed is found by a search whole and once: its old chunks
\* are deleted, all new ones inserted and only then the status is written
\* (indexer.go:219-246, knowledge.go:234-243).
THEOREM FoundWhole == IndexerSpec => []FoundWholeAndOnce
<1>1. ASSUME IndexInv PROVE FoundWholeAndOnce
  <2> SUFFICES ASSUME NEW d \in DOMAIN KeywordHits
               PROVE  /\ Cardinality(KeywordHits[d]) = IF d \in Empty THEN 0 ELSE 1
                      /\ Backend = "postgres" => VectorHits[d] = KeywordHits[d]
    BY DEF FoundWholeAndOnce
  <2>1. d \in Indexed /\ d \in Docs /\ doc[d] = "indexed"
    BY DEF KeywordHits, Indexed
  <2>2. Complete(d) /\ chunks[d] \in Seq({"remote", "local", "short"})
    BY <1>1, <2>1 DEF IndexInv, ChunksFirst, IndexerTypeOK
  <2>3. KeywordHits[d] = DOMAIN chunks[d]
    BY <2>1 DEF KeywordHits
  <2>4. VectorHits[d] = {i \in DOMAIN chunks[d] : chunks[d][i] # "short"}
    BY <2>1 DEF VectorHits
  <2>5. CASE d \in Empty
    <3>1. DOMAIN chunks[d] = {}
      BY <2>2, <2>5 DEF Complete
    <3> QED
      BY <2>3, <2>4, <2>5, <3>1, FS_EmptySet
  <2>6. CASE d \notin Empty
    <3>1. Len(chunks[d]) = 1 /\ (Backend = "postgres" => chunks[d][1] # "short")
      BY <2>2, <2>6 DEF Complete
    <3>2. DOMAIN chunks[d] = {1}
      BY <2>2, <3>1
    <3>3. Cardinality({1}) = 1
      BY FS_Singleton
    <3> QED
      BY <2>3, <2>4, <2>6, <3>1, <3>2, <3>3
  <2> QED
    BY <2>5, <2>6
<1> QED
  BY <1>1, Indexing, PTL

\* A Shutdown that returns in time leaves no accepted document without its result:
\* workers drain the queue before they exit (indexer.go:47-49).
THEOREM ShutsDownClean == IndexerSpec => []CleanShutdown
<1>1. ASSUME IndexInv PROVE CleanShutdown
  <2> SUFFICES ASSUME shutdown = "clean"
               PROVE  /\ queue = <<>> /\ InHand = {}
                      /\ \A d \in Docs : upload[d].reply = "201" => Answered(d)
    BY DEF CleanShutdown, Answered
  <2>1. \A w \in Workers : worker[w].pc = "exited"
    BY <1>1 DEF IndexInv, Closing
  <2>2. queue = <<>>
    BY <1>1, <2>1, IndexerBounds DEF IndexInv, Closing
  <2>3. \A w \in Workers : worker[w].doc \notin Docs
    BY <1>1, <2>1 DEF IndexInv, OnePlace, Holding
  <2>4. InHand = {}
    BY <1>1, <2>3 DEF IndexInv, IndexerTypeOK, Worker, InHand
  <2>5. DOMAIN queue = {}
    BY <2>2
  <2> QED
    BY <1>1, <2>2, <2>3, <2>4, <2>5 DEF IndexInv, OnItsWay
<1> QED
  BY <1>1, Indexing, PTL

-----------------------------------------------------------------------------
(* The span store. *)

\* The states of the store, without the bound on the calls.
Stores ==
    [traces : UNION {[D -> TraceRecord] : D \in SUBSET TraceIds}, order : Seq(TraceIds),
     index : UNION {[D -> TraceIds] : D \in SUBSET Tasks},
     exported : Nat, rejected : Nat, evicted : Nat, gone : Nat]

KeptOf(s) == {p \in TraceIds \X (1..MaxSpans) : p[1] \in DOMAIN s.traces /\ p[2] <= s.traces[p[1]].spans}

\* The order holds every kept trace, once.
InOrder(s) ==
    /\ \A i \in DOMAIN s.order : s.order[i] \in DOMAIN s.traces
    /\ \A tr \in DOMAIN s.traces : \E i \in DOMAIN s.order : s.order[i] = tr
    /\ \A i, j \in DOMAIN s.order : s.order[i] = s.order[j] => i = j

\* The index leads from a task to a kept trace of one of its runs, which names it.
Indexes(s, on) ==
    \A t \in DOMAIN s.index : /\ s.index[t] \in DOMAIN s.traces /\ s.index[t] \in on[t]
                              /\ s.traces[s.index[t]].task = t

Counts(s) == s.exported = s.gone + Cardinality(KeptOf(s))

Agrees(s, on) ==
    s \in Stores /\ InOrder(s) /\ Len(s.order) <= MaxTraces /\ Indexes(s, on) /\ Counts(s)

LEMMA SpanBounds ==
    /\ IsFiniteSet(TraceIds) /\ MaxTraces \in Nat \ {0} /\ MaxSpans \in Nat \ {0} /\ MaxCalls \in Nat
    /\ UserOf \in [Tasks -> Users] /\ None \notin Tasks /\ None \notin Users
BY SpanStoreAssumption

\* A function on some of the elements of S.
LEMMA PartOf ==
    ASSUME NEW S, NEW R, NEW f, f = [x \in DOMAIN f |-> f[x]], DOMAIN f \subseteq S,
           \A x \in DOMAIN f : f[x] \in R
    PROVE  f \in UNION {[D -> R] : D \in SUBSET S}
<1>1. f \in [DOMAIN f -> R]
  OBVIOUS
<1> QED
  BY <1>1

LEMMA StoreIs ==
    ASSUME NEW s \in Stores
    PROVE  /\ DOMAIN s.traces \subseteq TraceIds /\ DOMAIN s.index \subseteq Tasks
           /\ \A tr \in DOMAIN s.traces : s.traces[tr] \in TraceRecord
           /\ \A t \in DOMAIN s.index : s.index[t] \in TraceIds
           /\ s.order \in Seq(TraceIds)
           /\ s.exported \in Nat /\ s.rejected \in Nat /\ s.evicted \in Nat /\ s.gone \in Nat
BY DEF Stores

LEMMA IndexIs == ASSUME NEW s \in Stores PROVE s.index = [x \in DOMAIN s.index |-> s.index[x]]
BY DEF Stores

LEMMA KeptFinite ==
    ASSUME NEW s PROVE IsFiniteSet(KeptOf(s)) /\ Cardinality(KeptOf(s)) \in Nat
<1>1. IsFiniteSet(1..MaxSpans)
  BY SpanBounds, FS_Interval
<1>2. IsFiniteSet(TraceIds \X (1..MaxSpans))
  BY <1>1, SpanBounds, FS_Product
<1>3. KeptOf(s) \in SUBSET (TraceIds \X (1..MaxSpans))
  BY DEF KeptOf
<1> QED
  BY <1>2, <1>3, FS_Subset, FS_CardinalityType

\* The spans of a trace in the store.
LEMMA SpansOf ==
    ASSUME NEW s \in Stores, NEW tr \in DOMAIN s.traces
    PROVE  /\ s.traces[tr].spans \in 0..MaxSpans
           /\ {tr} \X (1..s.traces[tr].spans) \subseteq KeptOf(s)
           /\ IsFiniteSet({tr} \X (1..s.traces[tr].spans))
           /\ Cardinality({tr} \X (1..s.traces[tr].spans)) = s.traces[tr].spans
<1> DEFINE n == s.traces[tr].spans
<1>1. n \in 0..MaxSpans /\ tr \in TraceIds /\ MaxSpans \in Nat
  BY StoreIs, SpanBounds DEF TraceRecord
<1>2. {tr} \X (1..n) \subseteq KeptOf(s)
  <2> SUFFICES ASSUME NEW m \in 1..n PROVE <<tr, m>> \in KeptOf(s)
    OBVIOUS
  <2> QED
    BY <1>1 DEF KeptOf
<1>3. IsFiniteSet({tr}) /\ Cardinality({tr}) = 1
  BY FS_Singleton
<1>4. IsFiniteSet(1..n) /\ Cardinality(1..n) = n
  <2>1. n \in Int /\ n >= 0 /\ 1 \in Int
    BY <1>1
  <2> HIDE DEF n
  <2>2. IsFiniteSet(1..n) /\ Cardinality(1..n) = IF 1 > n THEN 0 ELSE n - 1 + 1
    BY <2>1, FS_Interval
  <2> QED
    BY <2>1, <2>2
<1>5. IsFiniteSet({tr} \X (1..n)) /\ Cardinality({tr} \X (1..n)) = 1 * n
  BY <1>3, <1>4, FS_Product
<1> QED
  BY <1>1, <1>2, <1>5

LEMMA EvictedAgrees ==
    ASSUME NEW s, NEW on, Agrees(s, on), Len(s.order) >= MaxTraces
    PROVE  /\ Agrees(Evicted(s), on) /\ Len(Evicted(s).order) = Len(s.order) - 1
           /\ DOMAIN Evicted(s).traces \subseteq DOMAIN s.traces
<1>0. /\ s \in Stores /\ InOrder(s) /\ Len(s.order) <= MaxTraces /\ Indexes(s, on) /\ Counts(s)
      /\ Len(s.order) >= 1
  BY SpanBounds DEF Agrees
<1>1. /\ s \in Stores /\ InOrder(s) /\ Len(s.order) <= MaxTraces /\ Indexes(s, on) /\ Counts(s)
      /\ Len(s.order) >= 1 /\ s.order \in Seq(TraceIds)
  BY <1>0, StoreIs
<1>2. PICK oldest \in DOMAIN s.traces : oldest = Head(s.order) /\ oldest = s.order[1]
  BY <1>1 DEF InOrder
<1> DEFINE rec == s.traces[oldest]
           e   == Evicted(s)
           idx == IF rec.task = None THEN s.index ELSE Without(s.index, rec.task)
<1>3. e = [s EXCEPT !.order = Tail(s.order), !.traces = Without(s.traces, oldest), !.evicted = s.evicted + 1,
                    !.gone = s.gone + rec.spans, !.index = idx]
  BY <1>2 DEF Evicted
<1>4. rec \in TraceRecord /\ rec.spans \in 0..MaxSpans /\ MaxSpans \in Nat /\ rec.task \in Tasks \cup {None}
  BY <1>1, StoreIs, SpanBounds DEF TraceRecord
<1> HIDE DEF rec, e, idx
<1>5. /\ e.order = Tail(s.order) /\ e.traces = Without(s.traces, oldest) /\ e.evicted = s.evicted + 1
      /\ e.gone = s.gone + rec.spans /\ e.index = idx /\ e.exported = s.exported /\ e.rejected = s.rejected
      /\ e = [traces |-> e.traces, order |-> e.order, index |-> e.index, exported |-> e.exported,
              rejected |-> e.rejected, evicted |-> e.evicted, gone |-> e.gone]
  BY <1>1, <1>3 DEF Stores
<1>6. /\ DOMAIN e.traces = DOMAIN s.traces \ {oldest}
      /\ \A x \in DOMAIN e.traces : e.traces[x] = s.traces[x]
      /\ e.traces = [x \in DOMAIN e.traces |-> e.traces[x]]
  <2> DEFINE f == Without(s.traces, oldest)
  <2>1. /\ DOMAIN f = DOMAIN s.traces \ {oldest} /\ \A x \in DOMAIN s.traces \ {oldest} : f[x] = s.traces[x]
        /\ f = [x \in DOMAIN f |-> f[x]] /\ f = e.traces
    BY <1>5 DEF Without, Restrict
  <2> HIDE DEF f
  <2> QED
    BY <2>1
<1>7. /\ DOMAIN e.index = IF rec.task = None THEN DOMAIN s.index ELSE DOMAIN s.index \ {rec.task}
      /\ \A x \in DOMAIN e.index : e.index[x] = s.index[x]
      /\ e.index = [x \in DOMAIN e.index |-> e.index[x]]
  <2> DEFINE f == Without(s.index, rec.task)
  <2>1. /\ DOMAIN f = DOMAIN s.index \ {rec.task} /\ \A x \in DOMAIN s.index \ {rec.task} : f[x] = s.index[x]
        /\ f = [x \in DOMAIN f |-> f[x]]
    BY DEF Without, Restrict
  <2>2. s.index = [x \in DOMAIN s.index |-> s.index[x]]
    BY <1>1, IndexIs
  <2>3. e.index = IF rec.task = None THEN s.index ELSE f
    BY <1>5 DEF idx
  <2> HIDE DEF f
  <2>4. CASE rec.task = None
    BY <2>2, <2>3, <2>4
  <2>5. CASE rec.task # None
    BY <2>1, <2>3, <2>5
  <2> QED
    BY <2>4, <2>5
<1>8. /\ e.order \in Seq(TraceIds) /\ Len(e.order) = Len(s.order) - 1
      /\ \A i \in DOMAIN e.order : i + 1 \in DOMAIN s.order /\ i + 1 # 1 /\ e.order[i] = s.order[i + 1]
      /\ \A i \in DOMAIN s.order : i # 1 => i - 1 \in DOMAIN e.order
  BY <1>1, <1>5
<1>9. e \in Stores
  <2>1. e.traces \in UNION {[D -> TraceRecord] : D \in SUBSET TraceIds}
    <3>1. DOMAIN e.traces \subseteq TraceIds /\ \A x \in DOMAIN e.traces : e.traces[x] \in TraceRecord
      BY <1>1, <1>6, StoreIs
    <3> QED
      BY <1>6, <3>1, PartOf
  <2>2. e.index \in UNION {[D -> TraceIds] : D \in SUBSET Tasks}
    <3>1. DOMAIN e.index \subseteq Tasks /\ \A x \in DOMAIN e.index : e.index[x] \in TraceIds
      BY <1>1, <1>7, StoreIs
    <3>2. e.index = [x \in DOMAIN e.index |-> e.index[x]]
      BY <1>7
    <3> QED
      BY <3>1, <3>2, PartOf
  <2>3. e.exported \in Nat /\ e.rejected \in Nat /\ e.evicted \in Nat /\ e.gone \in Nat
    <3>1. s.exported \in Nat /\ s.rejected \in Nat /\ s.evicted \in Nat /\ s.gone \in Nat
      BY <1>1, StoreIs
    <3>2. rec.spans \in Nat
      BY <1>4
    <3> QED
      BY <1>5, <3>1, <3>2
  <2> QED
    BY <1>5, <1>8, <2>1, <2>2, <2>3 DEF Stores
<1>10. InOrder(e)
  <2>1. \A i, j \in DOMAIN s.order : s.order[i] = s.order[j] => i = j
    BY <1>1 DEF InOrder
  <2>2. ASSUME NEW i \in DOMAIN e.order PROVE e.order[i] \in DOMAIN e.traces
    <3>1. s.order[i + 1] \in DOMAIN s.traces
      BY <1>1, <1>8 DEF InOrder
    <3>2. 1 \in DOMAIN s.order
      BY <1>1
    <3>3. s.order[i + 1] # oldest
      BY <1>2, <1>8, <2>1, <3>2
    <3> QED
      BY <1>6, <1>8, <3>1, <3>3
  <2>3. ASSUME NEW tr \in DOMAIN e.traces PROVE \E i \in DOMAIN e.order : e.order[i] = tr
    <3>1. PICK i \in DOMAIN s.order : s.order[i] = tr
      BY <1>1, <1>6 DEF InOrder
    <3>2. i # 1 /\ i - 1 \in DOMAIN e.order
      BY <1>2, <1>6, <1>8, <3>1
    <3>3. e.order[i - 1] = tr
      BY <1>1, <1>8, <3>1, <3>2
    <3> QED
      BY <3>2, <3>3
  <2>4. ASSUME NEW i \in DOMAIN e.order, NEW j \in DOMAIN e.order, e.order[i] = e.order[j] PROVE i = j
    <3>1. i + 1 = j + 1 /\ i \in Nat /\ j \in Nat
      BY <1>8, <2>1, <2>4
    <3> QED
      BY <3>1
  <2> QED
    BY <2>2, <2>3, <2>4 DEF InOrder
<1>11. Indexes(e, on)
  <2> SUFFICES ASSUME NEW t \in DOMAIN e.index
               PROVE  /\ e.index[t] \in DOMAIN e.traces /\ e.index[t] \in on[t]
                      /\ e.traces[e.index[t]].task = t
    BY DEF Indexes
  <2>1. t \in DOMAIN s.index /\ t # rec.task /\ t \in Tasks
    <3>1. t \in DOMAIN s.index /\ t \in Tasks
      BY <1>1, <1>7, StoreIs
    <3> QED
      BY <1>7, <3>1, SpanBounds
  <2>2. s.index[t] \in DOMAIN s.traces /\ s.index[t] \in on[t] /\ s.traces[s.index[t]].task = t
    BY <1>1, <2>1 DEF Indexes
  <2>3. s.index[t] # oldest
    BY <2>1, <2>2 DEF rec
  <2> QED
    BY <1>6, <1>7, <2>2, <2>3
<1>12. Counts(e)
  <2> DEFINE lost == {oldest} \X (1..rec.spans)
  <2>1. lost \subseteq KeptOf(s) /\ IsFiniteSet(lost) /\ Cardinality(lost) = rec.spans
    BY <1>1, SpansOf DEF rec
  <2>2. KeptOf(e) = KeptOf(s) \ lost
    BY <1>6, SpanBounds DEF KeptOf, rec
  <2>3. KeptOf(s) \cap lost = lost
    BY <2>1
  <2> HIDE DEF lost
  <2>4. Cardinality(KeptOf(e)) = Cardinality(KeptOf(s)) - rec.spans
    <3>1. IsFiniteSet(KeptOf(s))
      BY KeptFinite
    <3>2. Cardinality(KeptOf(s) \ lost) = Cardinality(KeptOf(s)) - Cardinality(KeptOf(s) \cap lost)
      BY <3>1, FS_Difference
    <3> QED
      BY <2>1, <2>2, <2>3, <3>2
  <2>5. Cardinality(KeptOf(s)) \in Nat /\ s.gone \in Nat
    BY <1>1, KeptFinite, StoreIs
  <2> QED
    BY <1>1, <1>4, <1>5, <2>4, <2>5 DEF Counts
<1> QED
  BY <1>1, <1>6, <1>8, <1>9, <1>10, <1>11, <1>12, SpanBounds DEF Agrees, e

\* A trace that is new has no spans yet.
LEMMA EnsuredAgrees ==
    ASSUME NEW s, NEW on, Agrees(s, on), NEW tr \in TraceIds
    PROVE  Agrees(EnsureLocked(s, tr), on) /\ tr \in DOMAIN EnsureLocked(s, tr).traces
<1>1. CASE tr \in DOMAIN s.traces
  BY <1>1 DEF EnsureLocked
<1>2. CASE tr \notin DOMAIN s.traces
  <2> DEFINE room == IF Len(s.order) >= MaxTraces THEN Evicted(s) ELSE s
             e    == EnsureLocked(s, tr)
  <2>1. Agrees(room, on) /\ Len(room.order) < MaxTraces /\ tr \notin DOMAIN room.traces
    <3>1. Len(s.order) \in Nat /\ Len(s.order) <= MaxTraces /\ MaxTraces \in Nat
      <4>1. s \in Stores /\ Len(s.order) <= MaxTraces
        BY DEF Agrees
      <4> QED
        <5>1. s.order \in Seq(TraceIds)
          BY <4>1 DEF Stores
        <5>2. Len(s.order) \in Nat
          BY <5>1
        <5> QED
          BY <4>1, <5>2, SpanBounds
    <3>2. CASE Len(s.order) >= MaxTraces
      <4>1. /\ Agrees(Evicted(s), on) /\ Len(Evicted(s).order) = Len(s.order) - 1
            /\ DOMAIN Evicted(s).traces \subseteq DOMAIN s.traces
        BY <3>2, EvictedAgrees
      <4>2. room = Evicted(s)
        BY <3>2
      <4> HIDE DEF room
      <4> QED
        BY <1>2, <3>1, <4>1, <4>2
    <3>3. CASE ~(Len(s.order) >= MaxTraces)
      BY <1>2, <3>1, <3>3
    <3> QED
      BY <3>2, <3>3
  <2>2. e = [room EXCEPT !.traces = With(room.traces, tr, NewRecord), !.order = Append(room.order, tr)]
    BY <1>2 DEF EnsureLocked
  <2> HIDE DEF room, e
  <2>3. room \in Stores /\ InOrder(room) /\ Indexes(room, on) /\ Counts(room)
    BY <2>1 DEF Agrees
  <2>4. /\ e.traces = With(room.traces, tr, NewRecord) /\ e.order = Append(room.order, tr)
        /\ e.index = room.index /\ e.exported = room.exported /\ e.rejected = room.rejected
        /\ e.evicted = room.evicted /\ e.gone = room.gone
        /\ e = [traces |-> e.traces, order |-> e.order, index |-> e.index, exported |-> e.exported,
                rejected |-> e.rejected, evicted |-> e.evicted, gone |-> e.gone]
    BY <2>2, <2>3 DEF Stores
  <2>5. /\ DOMAIN e.traces = DOMAIN room.traces \cup {tr} /\ e.traces[tr] = NewRecord
        /\ \A x \in DOMAIN room.traces : x # tr /\ e.traces[x] = room.traces[x]
        /\ e.traces = [x \in DOMAIN e.traces |-> e.traces[x]]
    <3> DEFINE f == With(room.traces, tr, NewRecord)
    <3>1. /\ DOMAIN f = DOMAIN room.traces \cup {tr} /\ f[tr] = NewRecord
          /\ \A x \in DOMAIN room.traces \ {tr} : f[x] = room.traces[x]
          /\ f = [x \in DOMAIN f |-> f[x]] /\ f = e.traces
      BY <2>4 DEF With
    <3> HIDE DEF f
    <3> QED
      BY <2>1, <3>1
  <2>6. room.order \in Seq(TraceIds) /\ Len(room.order) \in Nat
    BY <2>3 DEF Stores
  <2>7. /\ e.order \in Seq(TraceIds) /\ Len(e.order) <= MaxTraces
        /\ Len(room.order) + 1 \in DOMAIN e.order /\ e.order[Len(room.order) + 1] = tr
        /\ \A i \in DOMAIN e.order : \/ i \in DOMAIN room.order /\ e.order[i] = room.order[i]
                                     \/ i = Len(room.order) + 1 /\ e.order[i] = tr
        /\ \A i \in DOMAIN room.order : i \in DOMAIN e.order /\ e.order[i] = room.order[i]
    BY <2>1, <2>4, <2>6, SpanBounds
  <2>8. NewRecord \in TraceRecord /\ NewRecord.spans = 0
    BY SpanBounds DEF NewRecord, TraceRecord
  <2>9. e \in Stores
    <3>1. e.traces \in UNION {[D -> TraceRecord] : D \in SUBSET TraceIds}
      <4>1. DOMAIN e.traces \subseteq TraceIds /\ \A x \in DOMAIN e.traces : e.traces[x] \in TraceRecord
        BY <2>3, <2>5, <2>8, StoreIs
      <4>2. e.traces = [x \in DOMAIN e.traces |-> e.traces[x]]
        BY <2>5
      <4> QED
        BY <4>1, <4>2, PartOf
    <3>2. /\ e.exported \in Nat /\ e.rejected \in Nat /\ e.evicted \in Nat /\ e.gone \in Nat
          /\ e.index \in UNION {[D -> TraceIds] : D \in SUBSET Tasks}
      BY <2>3, <2>4 DEF Stores
    <3> QED
      BY <2>4, <2>7, <3>1, <3>2 DEF Stores
  <2>10. InOrder(e)
    <3>1. \A i \in DOMAIN room.order : room.order[i] \in DOMAIN room.traces /\ room.order[i] # tr
      BY <2>1, <2>3 DEF InOrder
    <3>2. \A i, j \in DOMAIN room.order : room.order[i] = room.order[j] => i = j
      BY <2>3 DEF InOrder
    <3>3. \A x \in DOMAIN room.traces : \E i \in DOMAIN room.order : room.order[i] = x
      BY <2>3 DEF InOrder
    <3>4. \A i \in DOMAIN e.order : e.order[i] \in DOMAIN e.traces
      BY <2>5, <2>7, <3>1
    <3>5. \A x \in DOMAIN e.traces : \E i \in DOMAIN e.order : e.order[i] = x
      BY <2>5, <2>7, <3>3
    <3>6. \A i, j \in DOMAIN e.order : e.order[i] = e.order[j] => i = j
      BY <2>7, <3>1, <3>2
    <3> QED
      BY <3>4, <3>5, <3>6 DEF InOrder
  <2>11. Indexes(e, on)
    BY <2>3, <2>4, <2>5 DEF Indexes
  <2>12. KeptOf(e) = KeptOf(room)
    BY <2>5, <2>8 DEF KeptOf
  <2>13. Counts(e)
    BY <2>3, <2>4, <2>12 DEF Counts
  <2> QED
    BY <2>5, <2>7, <2>9, <2>10, <2>11, <2>13 DEF Agrees, e
<1> QED
  BY <1>1, <1>2

LEMMA StoredAgrees ==
    ASSUME NEW s, NEW on, Agrees(s, on), NEW tr \in DOMAIN s.traces
    PROVE  Agrees(Stored(s, tr), on)
<1>1. s \in Stores /\ InOrder(s) /\ Len(s.order) <= MaxTraces /\ Indexes(s, on) /\ Counts(s)
  BY DEF Agrees
<1>2. /\ s.traces[tr] \in TraceRecord /\ s.traces[tr].spans \in 0..MaxSpans /\ MaxSpans \in Nat /\ tr \in TraceIds
      /\ s.exported \in Nat /\ s.rejected \in Nat
  BY <1>1, StoreIs, SpanBounds DEF TraceRecord
<1> DEFINE full == s.traces[tr].spans >= MaxSpans
           r    == IF full THEN [s.traces[tr] EXCEPT !.truncated = TRUE]
                   ELSE [s.traces[tr] EXCEPT !.spans = s.traces[tr].spans + 1]
           e    == Stored(s, tr)
<1>3. /\ r \in TraceRecord /\ r.task = s.traces[tr].task
      /\ r.spans = IF full THEN s.traces[tr].spans ELSE s.traces[tr].spans + 1
  <2>1. PICK rec \in TraceRecord : rec = s.traces[tr]
    BY <1>2
  <2>2. CASE full
    BY <2>1, <2>2 DEF TraceRecord
  <2>3. CASE ~full
    <3>1. rec.spans + 1 \in 0..MaxSpans /\ r = [rec EXCEPT !.spans = rec.spans + 1]
      BY <1>2, <2>1, <2>3
    <3> HIDE DEF r
    <3> QED
      BY <2>1, <2>3, <3>1 DEF TraceRecord
  <2> QED
    BY <2>2, <2>3
<1>4. /\ e.traces = [s.traces EXCEPT ![tr] = r] /\ e.order = s.order /\ e.index = s.index
      /\ e.exported = (IF full THEN s.exported ELSE s.exported + 1)
      /\ e.rejected = (IF full THEN s.rejected + 1 ELSE s.rejected)
      /\ e.evicted = s.evicted /\ e.gone = s.gone
      /\ e = [traces |-> e.traces, order |-> e.order, index |-> e.index, exported |-> e.exported,
              rejected |-> e.rejected, evicted |-> e.evicted, gone |-> e.gone]
  <2>1. e = IF full THEN [s EXCEPT !.traces = [s.traces EXCEPT ![tr] = r], !.rejected = s.rejected + 1]
            ELSE [s EXCEPT !.traces = [s.traces EXCEPT ![tr] = r], !.exported = s.exported + 1]
    BY <1>1, <1>2 DEF Stored, Stores
  <2> HIDE DEF r, e
  <2> QED
    BY <1>1, <2>1 DEF Stores
<1> HIDE DEF r, e
<1>5. /\ DOMAIN e.traces = DOMAIN s.traces /\ e.traces[tr] = r
      /\ \A x \in DOMAIN s.traces \ {tr} : e.traces[x] = s.traces[x]
      /\ e.traces \in UNION {[D -> TraceRecord] : D \in SUBSET TraceIds}
  <2> DEFINE f == [s.traces EXCEPT ![tr] = r]
  <2>1. /\ DOMAIN f = DOMAIN s.traces /\ f[tr] = r
        /\ \A x \in DOMAIN s.traces \ {tr} : f[x] = s.traces[x]
        /\ f = [x \in DOMAIN f |-> f[x]]
    OBVIOUS
  <2>2. f = e.traces
    BY <1>4
  <2> HIDE DEF f
  <2>3. DOMAIN f \subseteq TraceIds /\ \A x \in DOMAIN f : f[x] \in TraceRecord
    BY <1>1, <1>3, <2>1, StoreIs
  <2>4. f \in UNION {[D -> TraceRecord] : D \in SUBSET TraceIds}
    BY <2>1, <2>3, PartOf
  <2> QED
    BY <2>1, <2>2, <2>4
<1>6. e \in Stores
  <2>1. e.exported \in Nat /\ e.rejected \in Nat
    BY <1>2, <1>4
  <2>2. /\ e.order \in Seq(TraceIds) /\ e.evicted \in Nat /\ e.gone \in Nat
        /\ e.index \in UNION {[D -> TraceIds] : D \in SUBSET Tasks}
    BY <1>1, <1>4 DEF Stores
  <2> QED
    BY <1>4, <1>5, <2>1, <2>2 DEF Stores
<1>7. InOrder(e)
  BY <1>1, <1>4, <1>5 DEF InOrder
<1>8. Indexes(e, on)
  <2>1. \A x \in DOMAIN s.traces : e.traces[x].task = s.traces[x].task
    BY <1>3, <1>5
  <2> QED
    BY <1>1, <1>4, <1>5, <2>1 DEF Indexes
<1>9. Counts(e)
  <2>1. CASE full
    <3>1. \A x \in DOMAIN s.traces : e.traces[x].spans = s.traces[x].spans
      BY <1>3, <1>5, <2>1
    <3>2. KeptOf(e) = KeptOf(s)
      BY <1>5, <3>1 DEF KeptOf
    <3> QED
      BY <1>1, <1>4, <2>1, <3>2 DEF Counts
  <2>2. CASE ~full
    <3> DEFINE new == <<tr, s.traces[tr].spans + 1>>
    <3>1. \A x \in DOMAIN s.traces \ {tr} : e.traces[x].spans = s.traces[x].spans
      BY <1>5
    <3>2. e.traces[tr].spans = s.traces[tr].spans + 1 /\ s.traces[tr].spans + 1 \in 1..MaxSpans
      BY <1>2, <1>3, <1>5, <2>2
    <3>3. new \in TraceIds \X (1..MaxSpans)
      BY <1>2, <3>2
    <3>4. \A p \in TraceIds \X (1..MaxSpans) : p \in KeptOf(e) <=> p \in KeptOf(s) \/ p = new
      <4> SUFFICES ASSUME NEW x \in TraceIds, NEW m \in 1..MaxSpans
                   PROVE  <<x, m>> \in KeptOf(e) <=> <<x, m>> \in KeptOf(s) \/ <<x, m>> = new
        BY DEF KeptOf
      <4>1. CASE x = tr
        BY <1>2, <1>5, <3>2, <4>1 DEF KeptOf
      <4>2. CASE x # tr
        BY <1>5, <3>1, <4>2 DEF KeptOf
      <4> QED
        BY <4>1, <4>2
    <3>5. new \notin KeptOf(s)
      BY <1>2 DEF KeptOf
    <3> HIDE DEF new
    <3>6. KeptOf(e) = KeptOf(s) \cup {new}
      BY <3>3, <3>4 DEF KeptOf
    <3>7. Cardinality(KeptOf(e)) = Cardinality(KeptOf(s)) + 1
      BY <3>5, <3>6, KeptFinite, FS_AddElement
    <3>8. Cardinality(KeptOf(s)) \in Nat /\ s.gone \in Nat
      BY <1>1, KeptFinite, StoreIs
    <3> QED
      BY <1>1, <1>2, <1>4, <2>2, <3>7, <3>8 DEF Counts
  <2> QED
    BY <2>1, <2>2
<1> QED
  BY <1>1, <1>4, <1>6, <1>7, <1>8, <1>9 DEF Agrees, e

\* A link that names a task was made by a run of it.
LEMMA LinkedAgrees ==
    ASSUME NEW s, NEW on, Agrees(s, on), NEW tr \in DOMAIN s.traces, NEW u \in Users,
           NEW t \in Tasks \cup {None}, NEW more, t # None => t \in Tasks /\ tr \in more[t],
           \A x \in Tasks : on[x] \subseteq more[x]
    PROVE  Agrees(Linked(s, tr, t, u), more)
<1>1. s \in Stores /\ InOrder(s) /\ Len(s.order) <= MaxTraces /\ Indexes(s, on) /\ Counts(s)
  BY DEF Agrees
<1> DEFINE rec    == s.traces[tr]
           before == IF t # None /\ rec.task \notin {None, t} THEN Without(s.index, rec.task) ELSE s.index
           idx    == IF t = None THEN before ELSE With(before, t, tr)
           r      == [rec EXCEPT !.task = IF t = None THEN rec.task ELSE t,
                                 !.owner = IF rec.owner = None THEN u ELSE rec.owner]
           e      == Linked(s, tr, t, u)
<1>2. rec \in TraceRecord /\ tr \in TraceIds /\ rec.task \in Tasks \cup {None}
  BY <1>1, StoreIs DEF TraceRecord
<1>3. /\ r \in TraceRecord /\ r.spans = rec.spans /\ r.task = IF t = None THEN rec.task ELSE t
  <2>1. PICK c \in TraceRecord : c = rec
    BY <1>2
  <2>2. PICK x \in Tasks \cup {None} : x = IF t = None THEN rec.task ELSE t
    BY <1>2
  <2>3. PICK o \in Users \cup {None} : o = IF rec.owner = None THEN u ELSE rec.owner
    BY <2>1 DEF TraceRecord
  <2>4. r = [c EXCEPT !.task = x, !.owner = o]
    BY <2>1, <2>2, <2>3
  <2> HIDE DEF r
  <2>5. r \in TraceRecord /\ r.spans = c.spans /\ r.task = x
    BY <2>4 DEF TraceRecord
  <2> QED
    BY <2>1, <2>2, <2>5
<1>4. e = [s EXCEPT !.traces = [s.traces EXCEPT ![tr] = r], !.index = idx]
  BY <1>1, <1>2 DEF Linked, Stores
<1> HIDE DEF r, e, idx
<1>5. /\ e.traces = [s.traces EXCEPT ![tr] = r] /\ e.order = s.order /\ e.index = idx
      /\ e.exported = s.exported /\ e.rejected = s.rejected /\ e.evicted = s.evicted /\ e.gone = s.gone
      /\ e = [traces |-> e.traces, order |-> e.order, index |-> e.index, exported |-> e.exported,
              rejected |-> e.rejected, evicted |-> e.evicted, gone |-> e.gone]
  BY <1>1, <1>4 DEF Stores
<1>6. /\ DOMAIN e.traces = DOMAIN s.traces /\ e.traces[tr] = r
      /\ \A x \in DOMAIN s.traces \ {tr} : e.traces[x] = s.traces[x]
      /\ e.traces \in UNION {[D -> TraceRecord] : D \in SUBSET TraceIds}
  <2> DEFINE f == [s.traces EXCEPT ![tr] = r]
  <2>1. /\ DOMAIN f = DOMAIN s.traces /\ f[tr] = r
        /\ \A x \in DOMAIN s.traces \ {tr} : f[x] = s.traces[x]
        /\ f = [x \in DOMAIN f |-> f[x]]
    OBVIOUS
  <2>2. f = e.traces
    BY <1>5
  <2> HIDE DEF f
  <2>3. DOMAIN f \subseteq TraceIds /\ \A x \in DOMAIN f : f[x] \in TraceRecord
    BY <1>1, <1>3, <2>1, StoreIs
  <2>4. f \in UNION {[D -> TraceRecord] : D \in SUBSET TraceIds}
    BY <2>1, <2>3, PartOf
  <2> QED
    BY <2>1, <2>2, <2>4
<1>7. /\ DOMAIN before \subseteq DOMAIN s.index /\ \A x \in DOMAIN before : before[x] = s.index[x]
      /\ before = [x \in DOMAIN before |-> before[x]]
      /\ t # None /\ rec.task # t => rec.task \notin DOMAIN before
  <2> DEFINE f == Without(s.index, rec.task)
  <2>1. /\ DOMAIN f = DOMAIN s.index \ {rec.task} /\ \A x \in DOMAIN s.index \ {rec.task} : f[x] = s.index[x]
        /\ f = [x \in DOMAIN f |-> f[x]]
    BY DEF Without, Restrict
  <2>2. s.index = [x \in DOMAIN s.index |-> s.index[x]] /\ DOMAIN s.index \subseteq Tasks /\ None \notin Tasks
    BY <1>1, StoreIs, IndexIs, SpanBounds
  <2>3. before = IF t # None /\ rec.task \notin {None, t} THEN f ELSE s.index
    OBVIOUS
  <2> HIDE DEF f, before
  <2>4. CASE t # None /\ rec.task \notin {None, t}
    BY <2>1, <2>3, <2>4
  <2>5. CASE ~(t # None /\ rec.task \notin {None, t})
    BY <2>2, <2>3, <2>5
  <2> QED
    BY <2>4, <2>5
<1>8. idx = IF t = None THEN before ELSE With(before, t, tr)
  BY DEF idx
<1> HIDE DEF before
<1>9. /\ DOMAIN idx \subseteq DOMAIN s.index \cup ({t} \ {None})
      /\ idx = [x \in DOMAIN idx |-> idx[x]]
      /\ \A x \in DOMAIN idx : x = t => idx[x] = tr
      /\ \A x \in DOMAIN idx : x # t => x \in DOMAIN before /\ idx[x] = s.index[x]
  <2> DEFINE f == With(before, t, tr)
  <2>1. /\ DOMAIN f = DOMAIN before \cup {t} /\ f[t] = tr
        /\ \A x \in DOMAIN before \ {t} : f[x] = before[x]
        /\ f = [x \in DOMAIN f |-> f[x]]
    BY DEF With
  <2> HIDE DEF f
  <2>2. None \notin DOMAIN s.index
    BY <1>1, StoreIs, SpanBounds
  <2>3. idx = IF t = None THEN before ELSE f
    BY <1>8 DEF f
  <2>4. CASE t = None
    BY <1>7, <2>2, <2>3, <2>4
  <2>5. CASE t # None
    BY <1>7, <2>1, <2>3, <2>5
  <2> QED
    BY <2>4, <2>5
<1>10. e \in Stores
  <2>1. idx \in UNION {[D -> TraceIds] : D \in SUBSET Tasks}
    <3>1. DOMAIN s.index \subseteq Tasks /\ \A x \in DOMAIN s.index : s.index[x] \in TraceIds
      BY <1>1, StoreIs
    <3>2. DOMAIN idx \subseteq Tasks /\ \A x \in DOMAIN idx : idx[x] \in TraceIds
      BY <1>2, <1>7, <1>9, <3>1
    <3>3. idx = [x \in DOMAIN idx |-> idx[x]]
      BY <1>9
    <3> QED
      BY <3>2, <3>3, PartOf
  <2>2. /\ e.order \in Seq(TraceIds) /\ e.exported \in Nat /\ e.rejected \in Nat
        /\ e.evicted \in Nat /\ e.gone \in Nat
    BY <1>1, <1>5 DEF Stores
  <2> QED
    BY <1>5, <1>6, <2>1, <2>2 DEF Stores
<1>11. InOrder(e)
  BY <1>1, <1>5, <1>6 DEF InOrder
<1>12. Indexes(e, more)
  <2> SUFFICES ASSUME NEW x \in DOMAIN idx
               PROVE  idx[x] \in DOMAIN e.traces /\ idx[x] \in more[x] /\ e.traces[idx[x]].task = x
    BY <1>5 DEF Indexes
  <2>1. CASE x = t
    <3>1. t # None
      BY <1>1, <1>9, <2>1, StoreIs, SpanBounds
    <3> QED
      BY <1>3, <1>6, <1>9, <2>1, <3>1
  <2>2. CASE x # t
    <3>1. x \in DOMAIN before /\ idx[x] = s.index[x] /\ x \in DOMAIN s.index /\ x \in Tasks
      BY <1>1, <1>7, <1>9, <2>2, StoreIs
    <3>2. s.index[x] \in DOMAIN s.traces /\ s.index[x] \in on[x] /\ s.traces[s.index[x]].task = x
      BY <1>1, <3>1 DEF Indexes
    <3>3. CASE s.index[x] # tr
      BY <1>6, <3>1, <3>2, <3>3
    <3>4. CASE s.index[x] = tr
      <4>1. rec.task = x /\ t = None
        BY <1>7, <2>2, <3>1, <3>2, <3>4
      <4> QED
        BY <1>3, <1>6, <3>1, <3>2, <3>4, <4>1
    <3> QED
      BY <3>3, <3>4
  <2> QED
    BY <2>1, <2>2
<1>13. Counts(e)
  <2>1. \A x \in DOMAIN s.traces : e.traces[x].spans = s.traces[x].spans
    BY <1>3, <1>6
  <2>2. KeptOf(e) = KeptOf(s)
    BY <1>6, <2>1 DEF KeptOf
  <2> QED
    BY <1>1, <1>5, <2>2 DEF Counts
<1> QED
  BY <1>1, <1>5, <1>10, <1>11, <1>12, <1>13 DEF Agrees, e

\* Calls of a span or of a link, one at a time.
LEMMA StoreStep ==
    ASSUME Agrees(store, onTrace), onTrace \in [Tasks -> SUBSET TraceIds], NEW tr \in TraceIds,
           \/ ExportSpan(tr)
           \/ \E u \in Users : LinkRequest(tr, u)
           \/ \E t \in Tasks : LinkTask(tr, t)
    PROVE  Agrees(store', onTrace') /\ onTrace' \in [Tasks -> SUBSET TraceIds]
<1> DEFINE s == EnsureLocked(store, tr)
<1>1. Agrees(s, onTrace) /\ tr \in DOMAIN s.traces
  BY EnsuredAgrees
<1>2. CASE ExportSpan(tr)
  <2>1. store' = Stored(s, tr) /\ onTrace' = onTrace
    BY <1>2 DEF ExportSpan
  <2> HIDE DEF s
  <2>2. Agrees(Stored(s, tr), onTrace)
    BY <1>1, StoredAgrees
  <2> QED
    BY <2>1, <2>2
<1>3. ASSUME NEW u \in Users, LinkRequest(tr, u)
      PROVE  Agrees(store', onTrace') /\ onTrace' \in [Tasks -> SUBSET TraceIds]
  <2>1. store' = Linked(s, tr, None, u) /\ onTrace' = onTrace
    BY <1>3 DEF LinkRequest
  <2> HIDE DEF s
  <2>2. Agrees(Linked(s, tr, None, u), onTrace)
    BY <1>1, LinkedAgrees
  <2> QED
    BY <2>1, <2>2
<1>4. ASSUME NEW t \in Tasks, LinkTask(tr, t)
      PROVE  Agrees(store', onTrace') /\ onTrace' \in [Tasks -> SUBSET TraceIds]
  <2>1. store' = Linked(s, tr, t, UserOf[t]) /\ onTrace' = [onTrace EXCEPT ![t] = onTrace[t] \cup {tr}]
    BY <1>4 DEF LinkTask
  <2> HIDE DEF s
  <2>2. UserOf[t] \in Users
    BY SpanBounds
  <2> DEFINE more == [onTrace EXCEPT ![t] = onTrace[t] \cup {tr}]
  <2>3. more \in [Tasks -> SUBSET TraceIds] /\ tr \in more[t] /\ \A x \in Tasks : onTrace[x] \subseteq more[x]
    OBVIOUS
  <2>4. more = onTrace'
    BY <2>1
  <2> HIDE DEF more
  <2>5. Agrees(Linked(s, tr, t, UserOf[t]), more)
    BY <1>1, <2>2, <2>3, LinkedAgrees
  <2> QED
    BY <2>1, <2>3, <2>4, <2>5
<1> QED
  BY <1>2, <1>3, <1>4

LEMMA OrderCounts ==
    ASSUME NEW s \in Stores, InOrder(s)
    PROVE  Len(s.order) = Cardinality(DOMAIN s.traces) /\ Range(s.order) = DOMAIN s.traces
<1> DEFINE S == DOMAIN s.traces
           q == s.order
<1>1. q \in Seq(TraceIds) /\ Len(q) \in Nat /\ DOMAIN q = 1..Len(q)
  BY DEF Stores
<1>2. /\ \A i \in DOMAIN q : q[i] \in S
      /\ \A x \in S : \E i \in DOMAIN q : q[i] = x
      /\ \A i, j \in DOMAIN q : q[i] = q[j] => i = j
  BY DEF InOrder
<1> HIDE DEF S, q
<1>3. q \in Bijection(1..Len(q), S)
  BY <1>1, <1>2 DEF Bijection, Injection, Surjection, IsInjective
<1>4. IsFiniteSet(1..Len(q)) /\ Cardinality(1..Len(q)) = Len(q)
  BY <1>1, FS_Interval
<1>5. Len(q) = Cardinality(S)
  BY <1>3, <1>4, FS_Bijection DEF ExistsBijection
<1>6. Range(q) = S
  BY <1>2 DEF Range
<1> QED
  BY <1>5, <1>6 DEF S, q

\* The order, the traces, the index of spans and the counters of the span store
\* agree after any series of SaveSpan and LinkTaskTrace, evictions included
\* (tracing/store.go:213-216).
THEOREM SpansAgree == SpanSpec => []StoreAgrees
<1> DEFINE Inv == Agrees(store, onTrace) /\ onTrace \in [Tasks -> SUBSET TraceIds]
<1>1. ASSUME SpanInit PROVE Inv
  <2>1. /\ store = [traces |-> <<>>, order |-> <<>>, index |-> <<>>,
                    exported |-> 0, rejected |-> 0, evicted |-> 0, gone |-> 0]
        /\ onTrace \in [Tasks -> SUBSET TraceIds]
    BY <1>1 DEF SpanInit
  <2>2. /\ store.traces = <<>> /\ store.order = <<>> /\ store.index = <<>>
        /\ store.exported = 0 /\ store.gone = 0
    BY <2>1
  <2> DEFINE f == <<>>
  <2>3. f = [x \in DOMAIN f |-> f[x]] /\ DOMAIN f = {}
    OBVIOUS
  <2>4. f \in UNION {[D -> TraceRecord] : D \in SUBSET TraceIds}
    <3> HIDE DEF f
    <3> QED
      BY <2>3, PartOf
  <2>5. f \in UNION {[D -> TraceIds] : D \in SUBSET Tasks}
    <3> HIDE DEF f
    <3> QED
      BY <2>3, PartOf
  <2>6. store \in Stores
    BY <2>1, <2>4, <2>5 DEF Stores
  <2>7. DOMAIN store.traces = {} /\ DOMAIN store.index = {} /\ DOMAIN store.order = {} /\ Len(store.order) = 0
    BY <2>2
  <2>8. KeptOf(store) = {}
    BY <2>7 DEF KeptOf
  <2>9. Counts(store)
    BY <2>2, <2>8, FS_EmptySet DEF Counts
  <2>10. InOrder(store) /\ Indexes(store, onTrace)
    BY <2>7 DEF InOrder, Indexes
  <2> QED
    BY <2>1, <2>6, <2>7, <2>9, <2>10, SpanBounds DEF Agrees
<1>2. ASSUME Inv, SpanNext PROVE Inv'
  BY <1>2, StoreStep DEF SpanNext
<1>3. ASSUME Inv, UNCHANGED spanVars PROVE Inv'
  BY <1>3 DEF spanVars
<1>4. ASSUME Inv PROVE StoreAgrees
  <2>1. store \in Stores /\ InOrder(store) /\ Len(store.order) <= MaxTraces /\ Counts(store) /\ Indexes(store, onTrace)
    BY <1>4 DEF Agrees
  <2>2. Len(store.order) = Cardinality(DOMAIN store.traces) /\ Range(store.order) = DOMAIN store.traces
    BY <2>1, OrderCounts
  <2>3. Kept = KeptOf(store)
    BY DEF Kept, KeptOf
  <2>4. ASSUME NEW t \in Tasks, NEW u \in Users PROVE ByTask(t, u) \in onTrace[t] \cup {None}
    BY <2>1 DEF ByTask, Write, TraceForTask, Indexes
  <2>5. \A t \in DOMAIN store.index :
           store.index[t] \in DOMAIN store.traces /\ store.traces[store.index[t]].task = t
    BY <2>1 DEF Indexes
  <2> QED
    BY <2>1, <2>2, <2>3, <2>4, <2>5 DEF StoreAgrees, Counts
<1> QED
  BY <1>1, <1>2, <1>3, <1>4, PTL DEF SpanSpec

-----------------------------------------------------------------------------
(* Providers and their keys. *)

\* A key with at most one layer around it, which a prefix announces truly.
GoodKeys == {k \in Key : (k.prefix => k.layers # <<>>) /\ (k.secret = "" => k.layers = <<>>)}
GoodRows == [there : {TRUE}, key : GoodKeys, url : Urls, enabled : BOOLEAN]

\* A row that waits for its encryption: in the clear, and not empty.
ClearRows == {r \in GoodRows : r.key.layers = <<>> /\ r.key.secret # ""}
Waiting   == [name : Names, row : ClearRows]

RequestOK(q) ==
    /\ request[q].at \in Instances /\ request[q].name \in Names /\ request[q].row \in GoodRows
    /\ KeyOf[request[q].at] # "none" => request[q].row.key.layers = <<>>

Clear(list) == \A j \in DOMAIN list : list[j].key.layers = <<>>

InstanceOK(i) ==
    /\ inst[i] = [pc |-> inst[i].pc, pending |-> inst[i].pending, gateway |-> inst[i].gateway,
                  starts |-> inst[i].starts]
    /\ inst[i].pending \in Seq(Waiting)
    /\ inst[i].pending # <<>> => KeyOf[i] # "none"
    /\ KeyOf[i] # "none" => Clear(inst[i].gateway)

ProviderInv ==
    /\ rows \in [Names -> {Absent} \cup GoodRows]
    /\ DOMAIN inst = Instances /\ inst = [i \in Instances |-> inst[i]]
    /\ \A i \in Instances : InstanceOK(i)
    /\ DOMAIN request = Requests /\ request = [q \in Requests |-> request[q]]
    /\ \A q \in Requests : request[q] # NoRequest => RequestOK(q)

LEMMA ProviderBounds ==
    /\ LooksEncrypted \subseteq Secrets /\ "" \notin Secrets /\ "none" \notin Ciphers
    /\ Urls # {} /\ Order \in Seq(Names) /\ KeyOf \in [Instances -> Ciphers \cup {"none"}]
BY ProviderAssumption

LEMMA KeyIs ==
    ASSUME NEW k \in GoodKeys
    PROVE  /\ k.secret \in Secrets \cup {""} /\ k.prefix \in BOOLEAN
           /\ k.layers = <<>> \/ \E c \in Ciphers : k.layers = <<c>>
           /\ k.prefix => k.layers # <<>>
           /\ k.secret = "" => k.layers = <<>>
           /\ k = [secret |-> k.secret, layers |-> k.layers, prefix |-> k.prefix]
BY DEF GoodKeys, Key

LEMMA GoodIs ==
    ASSUME NEW s \in Secrets \cup {""}, NEW p \in BOOLEAN, NEW l, l = <<>> \/ \E c \in Ciphers : l = <<c>>,
           p => l # <<>>, s = "" => l = <<>>
    PROVE  [secret |-> s, layers |-> l, prefix |-> p] \in GoodKeys
<1> DEFINE k == [secret |-> s, layers |-> l, prefix |-> p]
<1>1. k.secret = s /\ k.layers = l /\ k.prefix = p
  OBVIOUS
<1>2. l \in {<<>>} \cup {<<c>> : c \in Ciphers}
  OBVIOUS
<1>3. k \in Key
  BY <1>2 DEF Key
<1> HIDE DEF k
<1>4. k \in GoodKeys
  BY <1>1, <1>3 DEF GoodKeys
<1> QED
  BY <1>4 DEF k

LEMMA PlainIs ==
    ASSUME NEW s \in Secrets \cup {""}
    PROVE  /\ Plain(s) \in GoodKeys /\ Plain(s).layers = <<>>
           /\ Plain(s).secret = s /\ ~Plain(s).prefix
BY GoodIs DEF Plain

LEMMA OneLayer == ASSUME NEW c PROVE Last(<<c>>) = c /\ Front(<<c>>) = <<>>
BY DEF Last, Front

LEMMA AppendOne == ASSUME NEW c PROVE Append(<<>>, c) = <<c>>
OBVIOUS

\* What is encrypted once has one layer.
LEMMA EncryptIs ==
    ASSUME NEW k \in GoodKeys, NEW c \in Ciphers, k.layers = <<>>, k.secret # ""
    PROVE  EncryptStored(k, c) \in GoodKeys
<1>1. EncryptStored(k, c) = [secret |-> k.secret, layers |-> <<c>>, prefix |-> TRUE]
  <2>1. k = [secret |-> k.secret, layers |-> k.layers, prefix |-> k.prefix]
    BY KeyIs
  <2>2. Append(k.layers, c) = <<c>>
    BY AppendOne
  <2>3. EncryptStored(k, c) = [k EXCEPT !.layers = <<c>>, !.prefix = TRUE]
    BY <2>2 DEF EncryptStored
  <2> QED
    BY <2>1, <2>3
<1>2. [secret |-> k.secret, layers |-> <<c>>, prefix |-> TRUE] \in GoodKeys
  <2>1. <<c>> # <<>> /\ k.secret \in Secrets \cup {""}
    BY KeyIs
  <2> QED
    BY <2>1, GoodIs
<1> QED
  BY <1>1, <1>2

\* A key in the clear is stored with one layer, or with none.
LEMMA StoredIs ==
    ASSUME NEW k \in GoodKeys, NEW c \in Ciphers \cup {"none"}, c # "none" => k.layers = <<>>
    PROVE  StoredKey(k, c) \in GoodKeys
<1>1. CASE c = "none" \/ ClassifyStoredKey(k) \in {"empty", "v1"}
  BY <1>1 DEF StoredKey
<1>2. CASE c # "none" /\ ClassifyStoredKey(k) \notin {"empty", "v1"}
  <2>1. k.secret # ""
    BY <1>2 DEF ClassifyStoredKey
  <2>2. StoredKey(k, c) = EncryptStored(k, c)
    BY <1>2 DEF StoredKey
  <2> QED
    BY <1>2, <2>1, <2>2, EncryptIs
<1> QED
  BY <1>1, <1>2

\* What an instance that encrypts can read, it has in the clear.
LEMMA DecryptIs ==
    ASSUME NEW k \in GoodKeys, NEW c \in Ciphers \cup {"none"}, ~Undecryptable(k, c)
    PROVE  DecryptStored(k, c) \in GoodKeys /\ (c # "none" => DecryptStored(k, c).layers = <<>>)
<1>1. CASE c = "none"
  BY <1>1 DEF DecryptStored
<1>2. CASE c # "none" /\ ClassifyStoredKey(k) \in {"empty", "plain"}
  <2>1. k.layers = <<>>
    BY <1>2, KeyIs DEF ClassifyStoredKey
  <2> QED
    BY <1>2, <2>1 DEF DecryptStored
<1>3. CASE c # "none" /\ ClassifyStoredKey(k) \notin {"empty", "plain"}
  <2>1. ClassifyStoredKey(k) \in {"v1", "legacy"}
    BY <1>3 DEF ClassifyStoredKey
  <2>2. Decrypts(k, c)
    BY <1>3, <2>1 DEF Undecryptable
  <2>3. k.layers # <<>>
    BY <2>2 DEF Decrypts
  <2>4. PICK d \in Ciphers : k.layers = <<d>>
    BY <2>3, KeyIs
  <2>5. Front(k.layers) = <<>>
    BY <2>4, OneLayer
  <2>6. DecryptStored(k, c) = [secret |-> k.secret, layers |-> <<>>, prefix |-> FALSE]
    <3>1. k = [secret |-> k.secret, layers |-> k.layers, prefix |-> k.prefix]
      BY KeyIs
    <3>2. DecryptStored(k, c) = [k EXCEPT !.layers = <<>>, !.prefix = FALSE]
      BY <1>3, <2>5 DEF DecryptStored
    <3> QED
      BY <3>1, <3>2
  <2>7. [secret |-> k.secret, layers |-> <<>>, prefix |-> FALSE] \in GoodKeys
    BY KeyIs, GoodIs
  <2> QED
    BY <2>6, <2>7
<1> QED
  BY <1>1, <1>2, <1>3

\* The list holds names of S only: the rank of a place among the chosen ones is a bijection.
LEMMA ListedIn ==
    ASSUME NEW S
    PROVE  /\ Listed(S) = [j \in DOMAIN Listed(S) |-> Listed(S)[j]]
           /\ \E n \in Nat : DOMAIN Listed(S) = 1..n
           /\ \A j \in DOMAIN Listed(S) : Listed(S)[j] \in S
<1> DEFINE at   == {k \in DOMAIN Order : Order[k] \in S}
           n    == Cardinality(at)
           up(k) == {m \in at : m <= k}
           rank == [k \in at |-> Cardinality(up(k))]
<1>1. DOMAIN Order = 1..Len(Order) /\ Len(Order) \in Nat
  <2>1. Order \in Seq(Names)
    BY ProviderBounds
  <2> QED
    BY <2>1
<1>2. at \subseteq Nat /\ IsFiniteSet(at) /\ n \in Nat
  <2>1. IsFiniteSet(1..Len(Order))
    BY <1>1, FS_Interval
  <2>2. at \in SUBSET (1..Len(Order))
    BY <1>1
  <2>3. IsFiniteSet(at)
    BY <2>1, <2>2, FS_Subset
  <2> QED
    BY <2>2, <2>3, FS_CardinalityType
<1>3. Listed(S) = [j \in 1..n |-> Order[CHOOSE k \in at : Cardinality(up(k)) = j]]
  BY DEF Listed
<1>4. \A k \in at : Order[k] \in S
  OBVIOUS
<1> HIDE DEF at, n
<1>5. ASSUME NEW k \in at PROVE IsFiniteSet(up(k)) /\ Cardinality(up(k)) \in 1..n
  <2>1. up(k) \in SUBSET at /\ k \in up(k)
    BY <1>2
  <2>2. IsFiniteSet(up(k)) /\ Cardinality(up(k)) <= n /\ Cardinality(up(k)) \in Nat
    BY <1>2, <2>1, FS_Subset, FS_CardinalityType DEF n
  <2>3. Cardinality(up(k)) # 0
    BY <2>1, <2>2, FS_EmptySet
  <2> QED
    BY <1>2, <2>2, <2>3
<1>6. ASSUME NEW k \in at, NEW m \in at, k < m PROVE Cardinality(up(k)) # Cardinality(up(m))
  <2>1. up(k) \in SUBSET up(m) /\ m \in up(m) /\ m \notin up(k)
    <3>1. k \in Nat /\ m \in Nat
      BY <1>2
    <3>2. \A x \in at : x <= k => x <= m
      BY <1>2, <1>6, <3>1
    <3>3. m <= m /\ ~(m <= k)
      BY <1>6, <3>1
    <3> QED
      BY <3>2, <3>3
  <2>2. IsFiniteSet(up(m))
    BY <1>5
  <2> QED
    BY <2>1, <2>2, FS_Subset
<1>7. rank \in Injection(at, 1..n)
  <2>1. rank \in [at -> 1..n]
    BY <1>5
  <2>2. ASSUME NEW k \in at, NEW m \in at, rank[k] = rank[m] PROVE k = m
    <3>1. k \in Nat /\ m \in Nat /\ Cardinality(up(k)) = Cardinality(up(m))
      BY <1>2, <2>2
    <3>2. ~(k < m) /\ ~(m < k)
      BY <1>6, <3>1
    <3> QED
      BY <3>1, <3>2
  <2> HIDE DEF rank
  <2> QED
    BY <2>1, <2>2 DEF Injection, IsInjective
<1>8. rank \in Surjection(at, 1..n)
  <2>1. IsFiniteSet(1..n) /\ Cardinality(1..n) = n
    BY <1>2, FS_Interval
  <2>2. Cardinality(at) = Cardinality(1..n)
    BY <2>1 DEF n
  <2> QED
    BY <1>7, <2>1, <2>2, FS_Injection
<1>9. \A j \in 1..n : \E k \in at : Cardinality(up(k)) = j
  BY <1>8 DEF Surjection
<1>10. ASSUME NEW j \in 1..n PROVE Listed(S)[j] \in S
  <2> DEFINE k == CHOOSE x \in at : Cardinality(up(x)) = j
  <2>1. k \in at
    BY <1>9
  <2>2. Listed(S)[j] = Order[k]
    BY <1>3
  <2> HIDE DEF k
  <2> QED
    BY <1>4, <2>1, <2>2
<1>11. DOMAIN Listed(S) = 1..n /\ Listed(S) = [j \in DOMAIN Listed(S) |-> Listed(S)[j]]
  BY <1>3
<1> QED
  BY <1>2, <1>10, <1>11

\* A row of the table.
LEMMA RowIs ==
    ASSUME ProviderInv, NEW n \in Names, There(n)
    PROVE  /\ rows[n] \in GoodRows /\ rows[n].key \in GoodKeys
<1>1. rows[n] \in {Absent} \cup GoodRows
  BY DEF ProviderInv
<1>2. rows[n] # Absent
  <2>1. Absent.there = FALSE
    BY DEF Absent
  <2> QED
    BY <2>1 DEF There
<1>3. rows[n] \in GoodRows
  BY <1>1, <1>2
<1> QED
  BY <1>3 DEF GoodRows

LEMMA MockIs == Clear(Mock)
<1> DEFINE m == [label |-> "mock", url |-> "", key |-> Plain("")]
<1>1. m.key.layers = <<>>
  BY DEF Plain
<1> HIDE DEF m
<1>2. \A j \in DOMAIN <<m>> : <<m>>[j] = m
  OBVIOUS
<1>3. Mock = <<m>>
  BY DEF Mock, m
<1> QED
  BY <1>1, <1>2, <1>3 DEF Clear

\* What an instance that encrypts loads has no key under a layer.
LEMMA LoadsClear ==
    ASSUME ProviderInv, NEW i \in Instances, KeyOf[i] # "none", NEW read \in Reads(i)
    PROVE  Clear(read.list)
<1>1. Clear(Mock)
  BY MockIs
<1>2. Clear(LoadProviders(i))
  <2> DEFINE S  == {n \in Names : There(n) /\ rows[n].enabled}
             en == Listed(S)
             Client(n) == [label |-> Label[n], url |-> rows[n].url, key |-> DecryptStored(rows[n].key, KeyOf[i])]
             list == [j \in DOMAIN en |-> Client(en[j])]
  <2>1. LoadProviders(i) = IF ~Readable(i) \/ en = <<>> THEN Mock ELSE list
    BY DEF LoadProviders
  <2>2. CASE Readable(i)
    <3>1. ASSUME NEW j \in DOMAIN en PROVE DecryptStored(rows[en[j]].key, KeyOf[i]).layers = <<>>
      <4>1. en[j] \in S
        BY ListedIn
      <4>2. PICK n \in Names : n = en[j] /\ There(n)
        BY <4>1
      <4>3. rows[n] \in GoodRows /\ rows[n].key \in GoodKeys
        BY <4>2, RowIs
      <4>4. ~Undecryptable(rows[n].key, KeyOf[i]) /\ KeyOf[i] \in Ciphers \cup {"none"}
        BY <2>2, <4>2, ProviderBounds DEF Readable
      <4> QED
        BY <4>2, <4>3, <4>4, DecryptIs
    <3> HIDE DEF en
    <3>2. \A j \in DOMAIN list : list[j].key.layers = <<>>
      BY <3>1
    <3> HIDE DEF list
    <3>3. Clear(list)
      BY <3>2 DEF Clear
    <3> QED
      BY <1>1, <2>1, <3>3
  <2>3. CASE ~Readable(i)
    BY <1>1, <2>1, <2>3
  <2> QED
    BY <2>2, <2>3
<1> QED
  BY <1>1, <1>2 DEF Reads

\* An instance that changes alone.
LEMMA InstanceMoves ==
    ASSUME ProviderInv, NEW i \in Instances, NEW c, inst' = [inst EXCEPT ![i] = c],
           c = [pc |-> c.pc, pending |-> c.pending, gateway |-> c.gateway, starts |-> c.starts],
           c.pending \in Seq(Waiting), c.pending # <<>> => KeyOf[i] # "none",
           KeyOf[i] # "none" => Clear(c.gateway)
    PROVE  /\ DOMAIN inst' = Instances /\ inst' = [x \in Instances |-> inst'[x]]
           /\ \A x \in Instances : InstanceOK(x)'
<1>1. DOMAIN inst = Instances
  BY DEF ProviderInv
<1>2. DOMAIN inst' = Instances /\ inst' = [x \in Instances |-> inst'[x]] /\ inst'[i] = c
  BY <1>1
<1>3. ASSUME NEW x \in Instances PROVE InstanceOK(x)'
  <2>1. CASE x = i
    <3>1. inst'[x] = c /\ x = i
      BY <1>2, <2>1
    <3> QED
      BY <3>1 DEF InstanceOK
  <2>2. CASE x # i
    <3>1. inst'[x] = inst[x]
      BY <1>1, <2>2
    <3>2. InstanceOK(x)
      BY DEF ProviderInv
    <3> QED
      BY <3>1, <3>2 DEF InstanceOK
  <2> QED
    BY <2>1, <2>2
<1> QED
  BY <1>2, <1>3

LEMMA RowsMove ==
    ASSUME ProviderInv, NEW n \in Names, NEW row \in {Absent} \cup GoodRows, rows' = [rows EXCEPT ![n] = row]
    PROVE  rows' \in [Names -> {Absent} \cup GoodRows]
BY DEF ProviderInv

LEMMA RequestsStay ==
    ASSUME ProviderInv, request' = request
    PROVE  /\ DOMAIN request' = Requests /\ request' = [q \in Requests |-> request'[q]]
           /\ \A q \in Requests : request'[q] # NoRequest => RequestOK(q)'
BY DEF ProviderInv, RequestOK

LEMMA InstancesStay ==
    ASSUME ProviderInv, inst' = inst
    PROVE  /\ DOMAIN inst' = Instances /\ inst' = [x \in Instances |-> inst'[x]]
           /\ \A x \in Instances : InstanceOK(x)'
BY DEF ProviderInv, InstanceOK

LEMMA StartKeeps == ASSUME ProviderInv, NEW i \in Instances, Start(i) PROVE ProviderInv'
<1>1. /\ inst[i] = [pc |-> inst[i].pc, pending |-> inst[i].pending, gateway |-> inst[i].gateway,
                    starts |-> inst[i].starts]
      /\ inst[i].pending \in Seq(Waiting) /\ (inst[i].pending # <<>> => KeyOf[i] # "none")
      /\ KeyOf[i] # "none" => Clear(inst[i].gateway)
  BY DEF ProviderInv, InstanceOK
<1>2. rows' = rows /\ request' = request
  BY DEF Start
<1>5. PICK s : s = inst[i].starts + 1
  OBVIOUS
<1>6. i \in DOMAIN inst
  BY DEF ProviderInv
<1>3. CASE KeyOf[i] # "none" /\ Judge(i)
  <2> DEFINE S    == {n \in Names : There(n) /\ ClassifyStoredKey(rows[n].key) = "plain"}
             todo == [j \in DOMAIN Plaintexts |-> [name |-> Plaintexts[j], row |-> rows[Plaintexts[j]]]]
             c    == [inst[i] EXCEPT !.pc = "migrate", !.starts = s, !.pending = todo]
  <2>1. inst' = [inst EXCEPT ![i] = c]
    <3> HIDE DEF todo
    <3>1. inst' = [inst EXCEPT ![i].pc = "migrate", ![i].starts = s, ![i].pending = todo]
      BY <1>3, <1>5 DEF Judge, todo
    <3> QED
      BY <1>6, <3>1
  <2>2. todo \in Seq(Waiting)
    <3> DEFINE p == Plaintexts
    <3>1. p = Listed(S)
      BY DEF Plaintexts
    <3>2. PICK n \in Nat : DOMAIN p = 1..n
      BY <3>1, ListedIn
    <3>3. ASSUME NEW j \in DOMAIN p PROVE [name |-> p[j], row |-> rows[p[j]]] \in Waiting
      <4>1. p[j] \in S
        BY <3>1, ListedIn
      <4>2. PICK m \in Names : m = p[j] /\ There(m) /\ ClassifyStoredKey(rows[m].key) = "plain"
        BY <4>1
      <4>3. rows[m] \in GoodRows
        BY <4>2, RowIs
      <4>4. rows[m].key.secret # "" /\ rows[m].key.layers = <<>>
        BY <4>2 DEF ClassifyStoredKey
      <4> QED
        BY <4>2, <4>3, <4>4 DEF Waiting, ClearRows
    <3> HIDE DEF p
    <3>4. [j \in DOMAIN p |-> [name |-> p[j], row |-> rows[p[j]]]] \in [1..n -> Waiting]
      BY <3>2, <3>3
    <3> QED
      BY <3>4 DEF p
  <2> HIDE DEF todo
  <2>3. /\ c = [pc |-> c.pc, pending |-> c.pending, gateway |-> c.gateway, starts |-> c.starts]
        /\ c.pending = todo /\ c.gateway = inst[i].gateway
    <3>1. PICK r : r = inst[i]
      OBVIOUS
    <3>2. r = [pc |-> r.pc, pending |-> r.pending, gateway |-> r.gateway, starts |-> r.starts]
      BY <1>1, <3>1
    <3>3. c = [r EXCEPT !.pc = "migrate", !.starts = s, !.pending = todo]
      BY <3>1
    <3> HIDE DEF c
    <3> QED
      BY <3>1, <3>2, <3>3
  <2> HIDE DEF c
  <2>4. /\ DOMAIN inst' = Instances /\ inst' = [x \in Instances |-> inst'[x]]
        /\ \A x \in Instances : InstanceOK(x)'
    BY <1>1, <1>3, <2>1, <2>2, <2>3, InstanceMoves
  <2> QED
    BY <1>2, <2>4, RequestsStay DEF ProviderInv
<1>4. CASE inst' = [inst EXCEPT ![i].pc = "migrate", ![i].starts = inst[i].starts + 1]
  <2> DEFINE c == [inst[i] EXCEPT !.pc = "migrate", !.starts = s]
  <2>1. inst' = [inst EXCEPT ![i] = c]
    <3>1. inst' = [inst EXCEPT ![i].pc = "migrate", ![i].starts = s]
      BY <1>4, <1>5
    <3> QED
      BY <1>6, <3>1
  <2>2. /\ c = [pc |-> c.pc, pending |-> c.pending, gateway |-> c.gateway, starts |-> c.starts]
        /\ c.pending = inst[i].pending /\ c.gateway = inst[i].gateway
    <3>1. PICK r : r = inst[i]
      OBVIOUS
    <3>2. r = [pc |-> r.pc, pending |-> r.pending, gateway |-> r.gateway, starts |-> r.starts]
      BY <1>1, <3>1
    <3>3. c = [r EXCEPT !.pc = "migrate", !.starts = s]
      BY <3>1
    <3> HIDE DEF c
    <3> QED
      BY <3>1, <3>2, <3>3
  <2> HIDE DEF c
  <2>3. /\ DOMAIN inst' = Instances /\ inst' = [x \in Instances |-> inst'[x]]
        /\ \A x \in Instances : InstanceOK(x)'
    BY <1>1, <2>1, <2>2, InstanceMoves
  <2> QED
    BY <1>2, <2>3, RequestsStay DEF ProviderInv
<1> QED
  BY <1>3, <1>4 DEF Start

LEMMA MigrateKeeps == ASSUME ProviderInv, NEW i \in Instances, MigrateOne(i) PROVE ProviderInv'
<1>1. /\ inst[i] = [pc |-> inst[i].pc, pending |-> inst[i].pending, gateway |-> inst[i].gateway,
                    starts |-> inst[i].starts]
      /\ inst[i].pending \in Seq(Waiting) /\ inst[i].pending # <<>> /\ KeyOf[i] # "none"
      /\ Clear(inst[i].gateway)
  BY DEF ProviderInv, InstanceOK, MigrateOne
<1>2. request' = request /\ i \in DOMAIN inst
  BY DEF MigrateOne, ProviderInv
<1>3. PICK p \in Waiting : p = Head(inst[i].pending)
  BY <1>1
<1>4. rows' \in [Names -> {Absent} \cup GoodRows]
  <2>1. CASE rows' = [rows EXCEPT ![p.name] = [p.row EXCEPT !.key = EncryptStored(p.row.key, KeyOf[i])]]
    <3>1. PICK key \in GoodKeys : key = EncryptStored(p.row.key, KeyOf[i])
      <4>1. p.row.key \in GoodKeys /\ p.row.key.layers = <<>> /\ p.row.key.secret # ""
        BY DEF Waiting, ClearRows, GoodRows
      <4>2. KeyOf[i] \in Ciphers
        BY <1>1, ProviderBounds
      <4> QED
        BY <4>1, <4>2, EncryptIs
    <3>2. p.name \in Names /\ p.row \in GoodRows
      BY DEF Waiting, ClearRows
    <3>3. [p.row EXCEPT !.key = key] \in GoodRows
      BY <3>2 DEF GoodRows
    <3> QED
      BY <2>1, <3>1, <3>2, <3>3, RowsMove
  <2>2. CASE rows' = rows
    BY <2>2 DEF ProviderInv
  <2> QED
    BY <1>3, <2>1, <2>2 DEF MigrateOne
<1> DEFINE rest == Tail(inst[i].pending)
           c    == [inst[i] EXCEPT !.pending = rest]
<1>5. inst' = [inst EXCEPT ![i] = c]
  BY <1>2 DEF MigrateOne
<1>6. rest \in Seq(Waiting)
  BY <1>1
<1> HIDE DEF rest
<1>7. /\ c = [pc |-> c.pc, pending |-> c.pending, gateway |-> c.gateway, starts |-> c.starts]
      /\ c.pending = rest /\ c.gateway = inst[i].gateway
  BY <1>1
<1> HIDE DEF c
<1>8. /\ DOMAIN inst' = Instances /\ inst' = [x \in Instances |-> inst'[x]]
      /\ \A x \in Instances : InstanceOK(x)'
  BY <1>1, <1>5, <1>6, <1>7, InstanceMoves
<1> QED
  BY <1>2, <1>4, <1>8, RequestsStay DEF ProviderInv

\* The list of the gateway is replaced by the one that was read.
LEMMA ListKeeps ==
    ASSUME ProviderInv, NEW i \in Instances, BuildLLM(i) \/ Refresh(i)
    PROVE  ProviderInv'
<1>1. /\ inst[i] = [pc |-> inst[i].pc, pending |-> inst[i].pending, gateway |-> inst[i].gateway,
                    starts |-> inst[i].starts]
      /\ inst[i].pending \in Seq(Waiting) /\ (inst[i].pending # <<>> => KeyOf[i] # "none")
  BY DEF ProviderInv, InstanceOK
<1>2. UNCHANGED <<rows, request>> /\ i \in DOMAIN inst
  BY DEF BuildLLM, Refresh, ProviderInv
<1>3. PICK read \in Reads(i) :
          \/ inst' = [inst EXCEPT ![i].pc = "up", ![i].gateway = read.list]
          \/ inst' = [inst EXCEPT ![i].gateway = read.list]
  BY DEF BuildLLM, Refresh
<1>4. KeyOf[i] # "none" => Clear(read.list)
  BY LoadsClear
<1>5. PICK g : g = read.list
  OBVIOUS
<1> DEFINE c == [inst[i] EXCEPT !.pc = "up", !.gateway = g]
           d == [inst[i] EXCEPT !.gateway = g]
<1>6. CASE inst' = [inst EXCEPT ![i].pc = "up", ![i].gateway = read.list]
  <2>1. inst' = [inst EXCEPT ![i] = c]
    BY <1>2, <1>5, <1>6
  <2>2. /\ c = [pc |-> c.pc, pending |-> c.pending, gateway |-> c.gateway, starts |-> c.starts]
        /\ c.pending = inst[i].pending /\ c.gateway = g
    <3>1. PICK r : r = inst[i]
      OBVIOUS
    <3>2. r = [pc |-> r.pc, pending |-> r.pending, gateway |-> r.gateway, starts |-> r.starts]
      BY <1>1, <3>1
    <3>3. c = [r EXCEPT !.pc = "up", !.gateway = g]
      BY <3>1
    <3> HIDE DEF c
    <3> QED
      BY <3>1, <3>2, <3>3
  <2> HIDE DEF c, d
  <2>3. /\ DOMAIN inst' = Instances /\ inst' = [x \in Instances |-> inst'[x]]
        /\ \A x \in Instances : InstanceOK(x)'
    BY <1>1, <1>4, <1>5, <2>1, <2>2, InstanceMoves
  <2>4. rows' \in [Names -> {Absent} \cup GoodRows]
    BY <1>2 DEF ProviderInv
  <2> QED
    BY <1>2, <2>3, <2>4, RequestsStay DEF ProviderInv
<1>7. CASE inst' = [inst EXCEPT ![i].gateway = read.list]
  <2>1. inst' = [inst EXCEPT ![i] = d]
    BY <1>2, <1>5, <1>7
  <2>2. /\ d = [pc |-> d.pc, pending |-> d.pending, gateway |-> d.gateway, starts |-> d.starts]
        /\ d.pending = inst[i].pending /\ d.gateway = g
    BY <1>1
  <2> HIDE DEF c, d
  <2>3. /\ DOMAIN inst' = Instances /\ inst' = [x \in Instances |-> inst'[x]]
        /\ \A x \in Instances : InstanceOK(x)'
    BY <1>1, <1>4, <1>5, <2>1, <2>2, InstanceMoves
  <2>4. rows' \in [Names -> {Absent} \cup GoodRows]
    BY <1>2 DEF ProviderInv
  <2> QED
    BY <1>2, <2>3, <2>4, RequestsStay DEF ProviderInv
<1> QED
  BY <1>3, <1>6, <1>7

\* A process that is down holds no list but the mock.
LEMMA DownIs ==
    /\ Down = [pc |-> Down.pc, pending |-> Down.pending, gateway |-> Down.gateway, starts |-> Down.starts]
    /\ Down.pending = <<>> /\ Clear(Down.gateway)
<1>1. Down.gateway = Mock /\ Down.pending = <<>>
  BY DEF Down
<1>2. Clear(Mock)
  BY MockIs
<1>3. Down = [pc |-> Down.pc, pending |-> Down.pending, gateway |-> Down.gateway, starts |-> Down.starts]
  BY DEF Down
<1> QED
  BY <1>1, <1>2, <1>3

LEMMA StopKeeps == ASSUME ProviderInv, NEW i \in Instances, Stop(i) PROVE ProviderInv'
<1>1. PICK n : n = inst[i].starts
  OBVIOUS
<1> DEFINE c == [Down EXCEPT !.starts = n]
<1>2. inst' = [inst EXCEPT ![i] = c] /\ rows' = rows
  BY <1>1 DEF Stop
<1>3. /\ c = [pc |-> c.pc, pending |-> c.pending, gateway |-> c.gateway, starts |-> c.starts]
      /\ c.pending = <<>> /\ c.gateway = Down.gateway
  BY DownIs
<1> HIDE DEF c
<1>4. c.pending \in Seq(Waiting) /\ Clear(c.gateway)
  BY <1>3, DownIs
<1>5. /\ DOMAIN inst' = Instances /\ inst' = [x \in Instances |-> inst'[x]]
      /\ \A x \in Instances : InstanceOK(x)'
  BY <1>2, <1>3, <1>4, InstanceMoves
<1>6. request' = [q \in Requests |-> IF request[q] # NoRequest /\ request[q].at = i THEN NoRequest ELSE request[q]]
  BY DEF Stop
<1>7. /\ DOMAIN request' = Requests /\ request' = [q \in Requests |-> request'[q]]
      /\ \A q \in Requests : request'[q] # NoRequest => RequestOK(q)'
  <2>1. ASSUME NEW q \in Requests, request'[q] # NoRequest PROVE RequestOK(q)'
    <3>1. request'[q] = request[q] /\ request[q] # NoRequest
      BY <1>6, <2>1
    <3>2. RequestOK(q)
      BY <3>1 DEF ProviderInv
    <3> QED
      BY <3>1, <3>2 DEF RequestOK
  <2> QED
    BY <1>6, <2>1
<1> QED
  BY <1>2, <1>5, <1>7 DEF ProviderInv

LEMMA ChangeKeeps ==
    ASSUME ProviderInv, NEW i \in Instances, NEW n \in Names, CreateProvider(i, n) \/ DeleteProvider(i, n)
    PROVE  ProviderInv'
<1>1. inst' = inst /\ request' = request
  BY DEF CreateProvider, DeleteProvider
<1>2. rows' \in [Names -> {Absent} \cup GoodRows]
  <2>1. CASE DeleteProvider(i, n)
    BY <2>1, RowsMove DEF DeleteProvider
  <2>2. CASE CreateProvider(i, n)
    <3>1. PICK s \in Secrets \cup {""}, u \in Urls : rows' = [rows EXCEPT ![n] = Row(StoredKey(Plain(s), KeyOf[i]), u, TRUE)]
      BY <2>2 DEF CreateProvider
    <3>2. PICK key \in GoodKeys : key = StoredKey(Plain(s), KeyOf[i])
      <4>1. KeyOf[i] \in Ciphers \cup {"none"}
        BY ProviderBounds
      <4> QED
        BY <4>1, PlainIs, StoredIs
    <3>3. Row(key, u, TRUE) \in GoodRows
      BY DEF Row, GoodRows
    <3> QED
      BY <3>1, <3>2, <3>3, RowsMove
  <2> QED
    BY <2>1, <2>2
<1> QED
  BY <1>1, <1>2, InstancesStay, RequestsStay DEF ProviderInv

LEMMA RequestMoves ==
    ASSUME ProviderInv, NEW q \in Requests, NEW r, request' = [request EXCEPT ![q] = r],
           \/ r = NoRequest
           \/ /\ r.at \in Instances /\ r.name \in Names /\ r.row \in GoodRows
              /\ KeyOf[r.at] # "none" => r.row.key.layers = <<>>
    PROVE  /\ DOMAIN request' = Requests /\ request' = [x \in Requests |-> request'[x]]
           /\ \A x \in Requests : request'[x] # NoRequest => RequestOK(x)'
<1>1. DOMAIN request = Requests
  BY DEF ProviderInv
<1>2. DOMAIN request' = Requests /\ request' = [x \in Requests |-> request'[x]] /\ request'[q] = r
  BY <1>1
<1>3. ASSUME NEW x \in Requests, request'[x] # NoRequest PROVE RequestOK(x)'
  <2>1. CASE x = q
    <3>1. request'[x] = r
      BY <1>2, <2>1
    <3> QED
      BY <1>3, <3>1 DEF RequestOK
  <2>2. CASE x # q
    <3>1. request'[x] = request[x]
      BY <1>1, <2>2
    <3>2. RequestOK(x)
      BY <1>3, <3>1 DEF ProviderInv
    <3> QED
      BY <3>1, <3>2 DEF RequestOK
  <2> QED
    BY <2>1, <2>2
<1> QED
  BY <1>2, <1>3

LEMMA GetKeeps ==
    ASSUME ProviderInv, NEW q \in Requests, NEW i \in Instances, NEW n \in Names, GetProvider(q, i, n)
    PROVE  ProviderInv'
<1>1. inst' = inst /\ rows' = rows
  BY DEF GetProvider
<1>2. /\ rows[n] \in GoodRows /\ rows[n].key \in GoodKeys
      /\ ~Undecryptable(rows[n].key, KeyOf[i]) /\ KeyOf[i] \in Ciphers \cup {"none"}
  BY RowIs, ProviderBounds DEF GetProvider
<1>3. PICK key \in GoodKeys : /\ key = DecryptStored(rows[n].key, KeyOf[i])
                              /\ KeyOf[i] # "none" => key.layers = <<>>
  BY <1>2, DecryptIs
<1> DEFINE row == [rows[n] EXCEPT !.key = key]
           r   == [pc |-> "write", at |-> i, name |-> n, row |-> row]
<1>4. row \in GoodRows /\ row.key = key
  BY <1>2 DEF GoodRows
<1>5. request' = [request EXCEPT ![q] = r]
  BY <1>3 DEF GetProvider
<1> HIDE DEF row
<1>6. r.at = i /\ r.name = n /\ r.row = row
  OBVIOUS
<1> HIDE DEF r
<1>7. /\ DOMAIN request' = Requests /\ request' = [x \in Requests |-> request'[x]]
      /\ \A x \in Requests : request'[x] # NoRequest => RequestOK(x)'
  BY <1>3, <1>4, <1>5, <1>6, RequestMoves
<1>8. rows' \in [Names -> {Absent} \cup GoodRows]
  BY <1>1 DEF ProviderInv
<1> QED
  BY <1>1, <1>7, <1>8, InstancesStay DEF ProviderInv

LEMMA UpsertKeeps == ASSUME ProviderInv, NEW q \in Requests, UpsertProvider(q) PROVE ProviderInv'
<1>1. inst' = inst /\ request' = [request EXCEPT ![q] = NoRequest] /\ RequestOK(q)
  BY DEF UpsertProvider, ProviderInv
<1>2. PICK row \in Edits(request[q].row) :
          rows' = [rows EXCEPT ![request[q].name] = [row EXCEPT !.key = StoredKey(row.key, KeyOf[request[q].at])]]
  BY DEF UpsertProvider
<1>3. PICK i \in Instances, n \in Names, old \in GoodRows :
          /\ i = request[q].at /\ n = request[q].name /\ old = request[q].row
          /\ KeyOf[i] # "none" => old.key.layers = <<>>
  BY <1>1 DEF RequestOK
<1>4. PICK k : k = row.key
  OBVIOUS
<1>5. k \in GoodKeys /\ (KeyOf[i] # "none" => k.layers = <<>>)
  <2>1. old.key \in GoodKeys
    BY DEF GoodRows
  <2>2. k \in {old.key} \cup {Plain(s) : s \in Secrets}
    BY <1>2, <1>3, <1>4 DEF Edits
  <2> QED
    BY <1>3, <2>1, <2>2, PlainIs
<1>6. row \in GoodRows /\ row.key = k
  BY <1>2, <1>3, <1>4, <1>5 DEF GoodRows, Edits
<1>7. KeyOf[i] \in Ciphers \cup {"none"}
  BY ProviderBounds
<1>8. PICK key \in GoodKeys : key = StoredKey(k, KeyOf[i])
  BY <1>5, <1>7, StoredIs
<1>9. [row EXCEPT !.key = key] \in GoodRows
  BY <1>6 DEF GoodRows
<1>10. rows' = [rows EXCEPT ![n] = [row EXCEPT !.key = key]]
  BY <1>2, <1>3, <1>6, <1>8
<1>11. rows' \in [Names -> {Absent} \cup GoodRows]
  BY <1>9, <1>10, RowsMove
<1>12. /\ DOMAIN request' = Requests /\ request' = [x \in Requests |-> request'[x]]
       /\ \A x \in Requests : request'[x] # NoRequest => RequestOK(x)'
  BY <1>1, RequestMoves
<1> QED
  BY <1>1, <1>11, <1>12, InstancesStay DEF ProviderInv

\* Every stored key is in the clear or under one layer, and what an instance that
\* encrypts has read is in the clear (provider_encryption.go:54-135).
THEOREM Providing == ProviderSpec => []ProviderInv
<1>1. ASSUME ProviderInit PROVE ProviderInv
  <2>1. rows \in [Names -> {Absent} \cup GoodRows]
    <3>1. PICK u0 \in Urls : u0 = CHOOSE u \in Urls : TRUE
      BY ProviderBounds
    <3>2. ASSUME NEW k \in GoodKeys PROVE Row(k, u0, TRUE) \in GoodRows
      BY DEF Row, GoodRows
    <3>3. \A s \in Secrets : Plain(s) \in GoodKeys
      BY PlainIs
    <3>4. ASSUME NEW s \in Secrets, NEW c \in Ciphers PROVE [Plain(s) EXCEPT !.layers = <<c>>] \in GoodKeys
      <4>1. PICK k \in GoodKeys : k = Plain(s) /\ k.secret = s /\ ~k.prefix
        BY PlainIs
      <4>2. s # ""
        BY ProviderBounds
      <4> DEFINE e == [k EXCEPT !.layers = <<c>>]
      <4>3. e \in Key /\ e.secret = s /\ ~e.prefix
        BY <4>1 DEF GoodKeys, Key
      <4> HIDE DEF e
      <4>4. e \in GoodKeys
        BY <4>2, <4>3 DEF GoodKeys
      <4> QED
        BY <4>1, <4>4 DEF e
    <3>5. OldKeys \subseteq GoodKeys
      BY <3>3, <3>4 DEF OldKeys
    <3>6. {Row(k, CHOOSE u \in Urls : TRUE, TRUE) : k \in OldKeys} \subseteq GoodRows
      BY <3>1, <3>2, <3>5
    <3> QED
      BY <1>1, <3>6 DEF ProviderInit
  <2>2. inst = [i \in Instances |-> Down] /\ request = [q \in Requests |-> NoRequest]
    BY <1>1 DEF ProviderInit
  <2>3. ASSUME NEW i \in Instances PROVE InstanceOK(i)
    <3>1. inst[i] = Down
      BY <2>2
    <3> QED
      BY <3>1, DownIs DEF InstanceOK
  <2> QED
    BY <2>1, <2>2, <2>3 DEF ProviderInv
<1>2. ASSUME ProviderInv, ProviderNext PROVE ProviderInv'
  BY <1>2, StartKeeps, MigrateKeeps, ListKeeps, StopKeeps, ChangeKeeps, GetKeeps, UpsertKeeps DEF ProviderNext
<1>3. ASSUME ProviderInv, UNCHANGED providerVars PROVE ProviderInv'
  <2>1. rows' = rows /\ inst' = inst /\ request' = request
    BY <1>3 DEF providerVars
  <2>2. rows' \in [Names -> {Absent} \cup GoodRows]
    BY <1>3, <2>1 DEF ProviderInv
  <2> QED
    BY <1>3, <2>1, <2>2, InstancesStay, RequestsStay DEF ProviderInv
<1> QED
  BY <1>1, <1>2, <1>3, PTL DEF ProviderSpec

\* An instance that encrypts with the cipher of a row gets the secret of its key
\* back, whatever migrations and updates have run: no key is under two layers
\* (provider_encryption.go:126-128, main.go:229-233).
THEOREM KeysComeBack == ProviderSpec => []KeysRecoverable
<1>1. ASSUME ProviderInv PROVE KeysRecoverable
  <2> SUFFICES ASSUME NEW n \in Names, There(n) PROVE rows[n].key \in Key
    BY DEF KeysRecoverable
  <2> QED
    BY <1>1, RowIs DEF GoodKeys
<1> QED
  BY <1>1, Providing, PTL

\* No instance that encrypts calls a provider with a key that is still under a
\* layer (provider_encryption.go:107-111).
THEOREM KeysUsedClear == ProviderSpec => []NoCiphertextUsed
<1>1. ASSUME ProviderInv PROVE NoCiphertextUsed
  BY <1>1 DEF ProviderInv, InstanceOK, Clear, NoCiphertextUsed
<1> QED
  BY <1>1, Providing, PTL

-----------------------------------------------------------------------------
(* The view of a trace.  Inductions are over sets of numbers: a set that  *)
(* is not empty has a least member.                                       *)

LEMMA LeastNumber == ASSUME NEW S \in SUBSET Nat, S # {} PROVE \E x \in S : \A y \in S : x <= y
<1> DEFINE R == OpToRel(<, Nat)
<1>1. IsWellFoundedOn(R, Nat)
  BY NatLessThanWellFounded
<1>2. \A x, y \in Nat : y < x => <<y, x>> \in R
  BY DEF OpToRel
<1> HIDE DEF R
<1>3. S \subseteq Nat
  OBVIOUS
<1>4. \E x \in S : \A y \in S : ~(<<y, x>> \in R)
  BY <1>1, <1>3, WFMin
<1>5. \A x, y \in Nat : ~(y < x) => x <= y
  OBVIOUS
<1> QED
  BY <1>2, <1>3, <1>4, <1>5

\* What holds of the first and is handed on holds of all.
LEMMA OneByOne ==
    ASSUME NEW n \in Nat, NEW m \in {0, 1}, NEW G, m \in G, \A k \in m..(n - 1) : k \in G => k + 1 \in G
    PROVE  m..n \subseteq G
<1> SUFFICES ASSUME ~(m..n \subseteq G) PROVE FALSE
  OBVIOUS
<1>1. PICK x \in (m..n) \ G : \A y \in (m..n) \ G : x <= y
  <2>1. (m..n) \ G \in SUBSET Nat /\ (m..n) \ G # {}
    OBVIOUS
  <2> QED
    BY <2>1, LeastNumber
<1>2. x # m /\ x \in Nat /\ x >= m /\ x <= n
  OBVIOUS
<1>3. x - 1 \in m..(n - 1) /\ x - 1 \in m..n /\ ~(x <= x - 1) /\ (x - 1) + 1 = x
  BY <1>2
<1> QED
  BY <1>1, <1>3

LEMMA LatestOf ==
    ASSUME NEW S, NEW h \in Nat, S \subseteq 0..h, S # {}
    PROVE  Latest(S) \in S /\ \A u \in S : u <= Latest(S)
<1> DEFINE D == {d \in 0..h : h - d \in S}
<1>1. PICK s \in S : TRUE
  OBVIOUS
<1>2. h - s \in D
  <2>1. s \in 0..h
    BY <1>1
  <2> QED
    BY <2>1
<1>3. PICK x \in D : \A y \in D : x <= y
  <2>1. D \in SUBSET Nat
    OBVIOUS
  <2> HIDE DEF D
  <2>2. D # {}
    BY <1>2
  <2> QED
    BY <2>1, <2>2, LeastNumber
<1>4. h - x \in S
  BY <1>3
<1>5. \A u \in S : u <= h - x
  <2> SUFFICES ASSUME NEW u \in S PROVE u <= h - x
    OBVIOUS
  <2>1. u \in 0..h
    OBVIOUS
  <2>2. h - (h - u) = u /\ h - u \in 0..h
    BY <2>1
  <2>3. h - u \in D
    BY <2>2
  <2>4. x <= h - u
    BY <1>3, <2>3
  <2> QED
    BY <1>3, <2>1, <2>4
<1> QED
  BY <1>4, <1>5 DEF Latest

-----------------------------------------------------------------------------

\* The time the pass has dealt with: what it has added up lies before the current interval.
Swept(acc, from, U) ==
    /\ acc = [total |-> acc.total, s |-> acc.s, e |-> acc.e]
    /\ acc.total \in Nat /\ acc.s \in Nat /\ acc.e \in Nat
    /\ acc.s < acc.e /\ acc.s <= from
    /\ \E B \in SUBSET Nat :
           /\ IsFiniteSet(B) /\ Cardinality(B) = acc.total
           /\ \A t \in B : t < acc.s
           /\ U = B \cup (acc.s..(acc.e - 1))

LEMMA Width ==
    ASSUME NEW s \in Nat, NEW e \in Nat, s < e
    PROVE  IsFiniteSet(s..(e - 1)) /\ Cardinality(s..(e - 1)) = e - s
<1>1. s \in Int /\ e - 1 \in Int
  OBVIOUS
<1>2. IsFiniteSet(s..(e - 1)) /\ Cardinality(s..(e - 1)) = IF s > e - 1 THEN 0 ELSE (e - 1) - s + 1
  BY <1>1, FS_Interval
<1> QED
  BY <1>2

LEMMA SweptOne ==
    ASSUME NEW s \in Nat, NEW e \in Nat, s < e
    PROVE  Swept([total |-> 0, s |-> s, e |-> e], s, s..(e - 1))
<1>1. IsFiniteSet({}) /\ Cardinality({}) = 0 /\ {} \in SUBSET Nat /\ s..(e - 1) = {} \cup (s..(e - 1))
  BY FS_EmptySet
<1> DEFINE a == [total |-> 0, s |-> s, e |-> e]
<1>2. a.total = 0 /\ a.s = s /\ a.e = e /\ a = [total |-> a.total, s |-> a.s, e |-> a.e]
  OBVIOUS
<1> HIDE DEF a
<1>3. Swept(a, s, s..(e - 1))
  <2>1. \E B \in SUBSET Nat : /\ IsFiniteSet(B) /\ Cardinality(B) = a.total
                              /\ \A t \in B : t < a.s
                              /\ s..(e - 1) = B \cup (a.s..(a.e - 1))
    BY <1>1, <1>2
  <2> QED
    BY <1>2, <2>1 DEF Swept
<1> QED
  BY <1>3 DEF a

\* An interval that starts no earlier than the last is swept with the rest.
LEMMA MergeSweeps ==
    ASSUME NEW a, NEW from \in Nat, NEW U, Swept(a, from, U),
           NEW v, v.s \in Nat, v.e \in Nat, v.s < v.e, from <= v.s
    PROVE  Swept(Merge(a, v), v.s, U \cup (v.s..(v.e - 1)))
<1> DEFINE m == Merge(a, v)
           W == U \cup (v.s..(v.e - 1))
<1>1. PICK B \in SUBSET Nat :
          /\ IsFiniteSet(B) /\ Cardinality(B) = a.total
          /\ \A t \in B : t < a.s
          /\ U = B \cup (a.s..(a.e - 1))
  BY DEF Swept
<1>2. a.total \in Nat /\ a.s \in Nat /\ a.e \in Nat /\ a.s < a.e /\ a.s <= v.s
  BY DEF Swept
<1>3. CASE v.s <= a.e
  <2> DEFINE x == Larger(a.e, v.e)
  <2>1. x \in Nat /\ a.e <= x /\ v.e <= x /\ (x = a.e \/ x = v.e) /\ a.s < x
    BY <1>2 DEF Larger
  <2> HIDE DEF x
  <2>2. /\ m = [a EXCEPT !.e = x]
        /\ a = [total |-> a.total, s |-> a.s, e |-> a.e]
    BY <1>3 DEF Merge, x, Swept
  <2>3. /\ m.total = a.total /\ m.s = a.s /\ m.e = x
        /\ m = [total |-> m.total, s |-> m.s, e |-> m.e]
    <3> HIDE DEF m
    <3>1. m = [total |-> a.total, s |-> a.s, e |-> x]
      BY <2>2
    <3> QED
      BY <3>1
  <2> HIDE DEF m
  <2>4. W = B \cup (a.s..(x - 1))
    <3>1. \A t \in Nat : (t >= a.s /\ t <= x - 1) <=>
                         (t >= a.s /\ t <= a.e - 1) \/ (t >= v.s /\ t <= v.e - 1)
      BY <1>2, <1>3, <2>1
    <3>2. a.s..(x - 1) = (a.s..(a.e - 1)) \cup (v.s..(v.e - 1))
      BY <1>2, <2>1, <3>1
    <3> QED
      BY <1>1, <3>2
  <2> HIDE DEF W
  <2> QED
    BY <1>1, <1>2, <2>1, <2>3, <2>4 DEF Swept, m, W
<1>4. CASE ~(v.s <= a.e)
  <2> DEFINE C == a.s..(a.e - 1)
             D == B \cup C
  <2>1. m = [total |-> a.total + a.e - a.s, s |-> v.s, e |-> v.e]
    BY <1>4 DEF Merge
  <2> HIDE DEF m
  <2>2. /\ m.total = a.total + a.e - a.s /\ m.s = v.s /\ m.e = v.e
        /\ m = [total |-> m.total, s |-> m.s, e |-> m.e]
    BY <2>1
  <2>3. IsFiniteSet(C) /\ Cardinality(C) = a.e - a.s
    BY <1>2, Width
  <2>4. B \cap C = {}
    BY <1>1, <1>2
  <2>5. IsFiniteSet(D) /\ Cardinality(D) = a.total + (a.e - a.s)
    <3>1. Cardinality(B \cap C) = 0
      BY <2>4, FS_EmptySet
    <3> HIDE DEF C
    <3>2. IsFiniteSet(D) /\ Cardinality(D) = Cardinality(B) + Cardinality(C) - Cardinality(B \cap C)
      BY <1>1, <2>3, FS_Union
    <3> QED
      BY <1>1, <1>2, <2>3, <3>1, <3>2
  <2>6. D \in SUBSET Nat /\ \A t \in D : t < v.s
    <3>1. \A t \in C : t \in Nat /\ t < v.s
      BY <1>2, <1>4
    <3>2. \A t \in B : t \in Nat /\ t < v.s
      BY <1>1, <1>2
    <3> HIDE DEF C
    <3> QED
      BY <3>1, <3>2
  <2>7. W = D \cup (v.s..(v.e - 1))
    BY <1>1
  <2>8. m.total \in Nat /\ m.total = a.total + (a.e - a.s)
    BY <1>2, <2>2
  <2> HIDE DEF W, D
  <2>9. Cardinality(D) = m.total
    BY <2>5, <2>8
  <2>10. Swept(m, v.s, W)
    BY <2>2, <2>5, <2>6, <2>7, <2>8, <2>9 DEF Swept
  <2> QED
    BY <2>10 DEF m, W
<1> QED
  BY <1>3, <1>4

LEMMA SweptTotal ==
    ASSUME NEW a, NEW from \in Nat, NEW U, Swept(a, from, U)
    PROVE  IsFiniteSet(U) /\ Cardinality(U) = a.total + a.e - a.s
<1>1. PICK B \in SUBSET Nat :
          /\ IsFiniteSet(B) /\ Cardinality(B) = a.total
          /\ \A t \in B : t < a.s
          /\ U = B \cup (a.s..(a.e - 1))
  BY DEF Swept
<1>2. a.total \in Nat /\ a.s \in Nat /\ a.e \in Nat /\ a.s < a.e
  BY DEF Swept
<1> DEFINE C == a.s..(a.e - 1)
<1>3. IsFiniteSet(C) /\ Cardinality(C) = a.e - a.s
  BY <1>2, Width
<1>4. B \cap C = {}
  BY <1>1, <1>2
<1>5. Cardinality(B \cap C) = 0
  BY <1>4, FS_EmptySet
<1>6. U = B \cup C
  BY <1>1
<1> HIDE DEF C
<1>7. IsFiniteSet(B \cup C) /\ Cardinality(B \cup C) = Cardinality(B) + Cardinality(C) - Cardinality(B \cap C)
  BY <1>1, <1>3, FS_Union
<1> QED
  <2>1. Cardinality(U) = a.total + (a.e - a.s) - 0
    BY <1>1, <1>3, <1>5, <1>6, <1>7
  <2>2. a.total + (a.e - a.s) - 0 = a.total + a.e - a.s
    BY <1>2
  <2> QED
    BY <1>6, <1>7, <2>1, <2>2

\* A span that has ended: it ends no earlier than it starts, and its parent has a smaller number.
ViewInv ==
    /\ Ended \subseteq SpanIds
    /\ \A i \in Ended :
           /\ spans[i].parent \in {NoParent, Lost} \cup 1..(i - 1)
           /\ spans[i].start \in 0..Horizon /\ spans[i].end \in 0..Horizon
           /\ spans[i].start <= spans[i].end

\* Child j is under way at the instant t of i.
Under(i, j, t) == spans[j].start <= spans[i].start + t /\ spans[i].start + t < spans[j].end
Instants(i)    == 0..(Duration(i) - 1)
Busy(i)        == {t \in Instants(i) : \E j \in Kids(i) : Under(i, j, t)}

LEMMA SpanIs ==
    ASSUME ViewInv, NEW i \in Ended
    PROVE  /\ i \in Nat /\ i \in 1..MaxSpanId
           /\ spans[i].start \in Nat /\ spans[i].end \in Nat /\ spans[i].start <= spans[i].end
           /\ spans[i].end \in 0..Horizon
           /\ Duration(i) \in Nat /\ Duration(i) = spans[i].end - spans[i].start
<1>1. i \in 1..MaxSpanId
  BY DEF ViewInv, SpanIds
<1>2. i \in Nat
  BY <1>1, ViewAssumption
<1>3. spans[i].start \in 0..Horizon /\ spans[i].end \in 0..Horizon /\ spans[i].start <= spans[i].end
  BY DEF ViewInv
<1>4. spans[i].start \in Nat /\ spans[i].end \in Nat
  BY <1>3, ViewAssumption
<1>5. Duration(i) = spans[i].end - spans[i].start
  BY DEF Duration
<1>6. Duration(i) \in Nat
  BY <1>3, <1>4, <1>5
<1> QED
  BY <1>1, <1>2, <1>3, <1>4, <1>5, <1>6

LEMMA ClipIs ==
    ASSUME ViewInv, NEW i \in Ended, NEW j \in Kids(i)
    PROVE  /\ Clip(i, j).s \in Nat /\ Clip(i, j).e \in Int /\ Clip(i, j).e <= Duration(i)
           /\ \A t \in Instants(i) : Clip(i, j).s <= t /\ t < Clip(i, j).e <=> Under(i, j, t)
<1>1. j \in Ended
  BY DEF Kids
<1>2. PICK a \in Nat, b \in Nat, c \in Nat, d \in Nat :
          a = spans[i].start /\ b = spans[i].end /\ c = spans[j].start /\ d = spans[j].end
  BY <1>1, SpanIs
<1>3. a <= b /\ c <= d /\ Duration(i) = b - a
  BY <1>1, <1>2, SpanIs
<1>4. Clip(i, j) = [s |-> Larger(0, c - a), e |-> Smaller(b - a, d - a)]
  BY <1>2, <1>3 DEF Clip
<1>5. Clip(i, j).s = Larger(0, c - a) /\ Clip(i, j).e = Smaller(b - a, d - a)
  BY <1>4
<1>6. Larger(0, c - a) \in Nat /\ Smaller(b - a, d - a) \in Int /\ Smaller(b - a, d - a) <= b - a
  BY <1>3 DEF Larger, Smaller
<1>7. ASSUME NEW t \in Instants(i)
      PROVE  Larger(0, c - a) <= t /\ t < Smaller(b - a, d - a) <=> c <= a + t /\ a + t < d
  <2>1. t \in Nat /\ t < b - a
    BY <1>3 DEF Instants
  <2> QED
    BY <2>1 DEF Larger, Smaller
<1> QED
  BY <1>2, <1>3, <1>5, <1>6, <1>7 DEF Under

LEMMA ClippedIs ==
    ASSUME ViewInv, NEW i \in Ended
    PROVE  /\ Clipped(i) \subseteq Kids(i) /\ Clipped(i) \subseteq Nat
           /\ IsFiniteSet(Clipped(i)) /\ Cardinality(Clipped(i)) \in Nat
           /\ \A j \in Clipped(i) : /\ Clip(i, j).s \in Nat /\ Clip(i, j).e \in Nat
                                    /\ Clip(i, j).s < Clip(i, j).e /\ Clip(i, j).e <= Duration(i)
<1>1. Clipped(i) \subseteq Kids(i)
  BY DEF Clipped
<1>2. Kids(i) \subseteq 1..MaxSpanId
  BY DEF Kids, ViewInv, SpanIds
<1>3. IsFiniteSet(1..MaxSpanId)
  BY ViewAssumption, FS_Interval
<1>4. Clipped(i) \in SUBSET (1..MaxSpanId)
  BY <1>1, <1>2
<1>5. IsFiniteSet(Clipped(i)) /\ Cardinality(Clipped(i)) \in Nat
  BY <1>3, <1>4, FS_Subset, FS_CardinalityType
<1>6. ASSUME NEW j \in Clipped(i)
      PROVE  /\ Clip(i, j).s \in Nat /\ Clip(i, j).e \in Nat
             /\ Clip(i, j).s < Clip(i, j).e /\ Clip(i, j).e <= Duration(i)
  <2>1. Clip(i, j).s < Clip(i, j).e
    BY DEF Clipped
  <2>2. Clip(i, j).s \in Nat /\ Clip(i, j).e \in Int /\ Clip(i, j).e <= Duration(i)
    BY <1>1, ClipIs
  <2> QED
    BY <2>1, <2>2
<1>7. Clipped(i) \subseteq Nat
  BY <1>4, ViewAssumption
<1> QED
  BY <1>1, <1>5, <1>6, <1>7

StartOf(i, q) == [total |-> 0, s |-> Clip(i, q[1]).s, e |-> Clip(i, q[1]).e]

IsPass(f, i, q, n) ==
    f = [k \in 1..n |-> IF k = 1 THEN StartOf(i, q) ELSE Merge(f[k - 1], Clip(i, q[k]))]

\* The recursion of the pass has a solution.
LEMMA PassExists ==
    ASSUME NEW n \in Nat, NEW i, NEW q
    PROVE  \E f : IsPass(f, i, q, n)
<1> DEFINE G == {m \in 0..n : \E f : IsPass(f, i, q, m)}
<1>1. 0 \in G
  <2> DEFINE f == [k \in 1..0 |-> StartOf(i, q)]
  <2>1. IsPass(f, i, q, 0)
    BY DEF IsPass
  <2> HIDE DEF f
  <2> QED
    BY <2>1
<1>2. ASSUME NEW m \in 0..(n - 1), m \in G PROVE m + 1 \in G
  <2>1. PICK f : IsPass(f, i, q, m)
    BY <1>2
  <2> DEFINE g == [k \in 1..(m + 1) |-> IF k = 1 THEN StartOf(i, q) ELSE Merge(f[k - 1], Clip(i, q[k]))]
  <2>2. \A k \in 1..m : g[k] = f[k]
    <3> SUFFICES ASSUME NEW k \in 1..m PROVE g[k] = f[k]
      OBVIOUS
    <3>1. k \in 1..(m + 1)
      OBVIOUS
    <3>2. f[k] = IF k = 1 THEN StartOf(i, q) ELSE Merge(f[k - 1], Clip(i, q[k]))
      BY <2>1 DEF IsPass
    <3>3. g[k] = IF k = 1 THEN StartOf(i, q) ELSE Merge(f[k - 1], Clip(i, q[k]))
      BY <3>1
    <3> QED
      BY <3>2, <3>3
  <2>3. \A k \in 1..(m + 1) : k # 1 => g[k - 1] = f[k - 1]
    <3> HIDE DEF g
    <3> QED
      BY <2>2
  <2>4. \A k \in 1..(m + 1) : (IF k = 1 THEN StartOf(i, q) ELSE Merge(f[k - 1], Clip(i, q[k])))
                                = IF k = 1 THEN StartOf(i, q) ELSE Merge(g[k - 1], Clip(i, q[k]))
    BY <2>3
  <2>5. g = [k \in 1..(m + 1) |-> IF k = 1 THEN StartOf(i, q) ELSE Merge(f[k - 1], Clip(i, q[k]))]
    OBVIOUS
  <2> HIDE DEF g
  <2>6. IsPass(g, i, q, m + 1)
    BY <2>4, <2>5 DEF IsPass
  <2>7. m + 1 \in 0..n
    OBVIOUS
  <2> QED
    BY <2>6, <2>7
<1> HIDE DEF G
<1>3. 0..n \subseteq G
  BY <1>1, <1>2, OneByOne
<1>4. n \in G
  BY <1>3
<1> QED
  BY <1>4 DEF G

LEMMA PassIs ==
    ASSUME NEW n \in Nat, NEW i, NEW q, DOMAIN q = 1..n
    PROVE  /\ n # 0 => Pass(i, q)[1] = StartOf(i, q)
           /\ \A k \in 2..n : Pass(i, q)[k] = Merge(Pass(i, q)[k - 1], Clip(i, q[k]))
<1> DEFINE P == Pass(i, q)
<1>1. \E f : IsPass(f, i, q, n)
  BY PassExists
<1>2. P = [k \in 1..n |-> IF k = 1 THEN StartOf(i, q) ELSE Merge(P[k - 1], Clip(i, q[k]))]
  BY <1>1 DEF Pass, IsPass, StartOf
<1> HIDE DEF P
<1>3. n # 0 => P[1] = StartOf(i, q)
  BY <1>2
<1>4. \A k \in 2..n : P[k] = Merge(P[k - 1], Clip(i, q[k]))
  BY <1>2
<1> QED
  BY <1>3, <1>4 DEF P

LEMMA PassNext ==
    ASSUME NEW n \in Nat, NEW i, NEW q, DOMAIN q = 1..n, NEW k \in 2..n
    PROVE  Pass(i, q)[k] = Merge(Pass(i, q)[k - 1], Clip(i, q[k]))
BY PassIs

\* Numbers can be put in the order of a key of theirs.
LEMMA CanBeSorted ==
    ASSUME NEW S \in SUBSET Nat, IsFiniteSet(S), NEW f, \A x \in S : f[x] \in Nat
    PROVE  \E q \in [1..Cardinality(S) -> S] :
               /\ \A x \in S : \E k \in 1..Cardinality(S) : q[k] = x
               /\ \A k, m \in 1..Cardinality(S) : k < m => f[q[k]] <= f[q[m]]
<1> DEFINE n == Cardinality(S)
           Before(a, b) == f[a] < f[b] \/ (f[a] = f[b] /\ a <= b)
           up(x) == {y \in S : Before(y, x)}
           rank == [x \in S |-> Cardinality(up(x))]
<1>1. n \in Nat
  BY FS_CardinalityType
<1>2. ASSUME NEW x \in S PROVE x \in Nat /\ f[x] \in Nat
  OBVIOUS
<1>3. ASSUME NEW x \in S PROVE IsFiniteSet(up(x)) /\ Cardinality(up(x)) \in 1..n
  <2>1. up(x) \in SUBSET S /\ x \in up(x)
    BY <1>2
  <2> HIDE DEF up
  <2>2. IsFiniteSet(up(x)) /\ Cardinality(up(x)) <= n /\ Cardinality(up(x)) \in Nat
    BY <2>1, FS_Subset, FS_CardinalityType
  <2>3. Cardinality(up(x)) # 0
    BY <2>1, <2>2, FS_EmptySet
  <2> QED
    BY <1>1, <2>2, <2>3
<1>4. ASSUME NEW x \in S, NEW y \in S, x # y, Before(x, y)
      PROVE  Cardinality(up(x)) < Cardinality(up(y))
  <2>1. ASSUME NEW z \in S, Before(z, x) PROVE Before(z, y)
    <3>1. f[x] \in Nat /\ f[y] \in Nat /\ f[z] \in Nat /\ x \in Nat /\ y \in Nat /\ z \in Nat
      BY <1>2
    <3> QED
      BY <1>4, <2>1, <3>1
  <2>2. ~Before(y, x)
    <3>1. f[x] \in Nat /\ f[y] \in Nat /\ x \in Nat /\ y \in Nat
      BY <1>2
    <3> QED
      BY <1>4, <3>1
  <2>3. y \in up(y)
    BY <1>2
  <2>4. up(x) \in SUBSET up(y) /\ up(x) # up(y)
    BY <2>1, <2>2, <2>3
  <2>5. IsFiniteSet(up(y)) /\ Cardinality(up(x)) \in Nat /\ Cardinality(up(y)) \in Nat
    BY <1>1, <1>3
  <2> HIDE DEF up
  <2> QED
    BY <2>4, <2>5, FS_Subset
<1>5. ASSUME NEW x \in S, NEW y \in S, x # y PROVE Before(x, y) \/ Before(y, x)
  <2>1. f[x] \in Nat /\ f[y] \in Nat /\ x \in Nat /\ y \in Nat
    BY <1>2
  <2> QED
    BY <1>5, <2>1
<1> HIDE DEF up
<1>6. ASSUME NEW x \in S, NEW y \in S, Cardinality(up(x)) = Cardinality(up(y)) PROVE x = y
  <2>1. Cardinality(up(x)) \in Nat /\ Cardinality(up(y)) \in Nat
    BY <1>1, <1>3
  <2> QED
    BY <1>4, <1>5, <1>6, <2>1
<1> HIDE DEF n
<1>7. rank \in Injection(S, 1..n)
  <2>1. rank \in [S -> 1..n]
    BY <1>3
  <2>2. \A x, y \in S : rank[x] = rank[y] => x = y
    BY <1>6
  <2> HIDE DEF rank
  <2> QED
    BY <2>1, <2>2 DEF Injection, IsInjective
<1>8. rank \in Surjection(S, 1..n)
  <2>1. IsFiniteSet(1..n) /\ Cardinality(1..n) = n
    BY <1>1, FS_Interval
  <2>2. Cardinality(S) = Cardinality(1..n)
    BY <2>1 DEF n
  <2> QED
    BY <1>7, <2>1, <2>2, FS_Injection
<1>9. \A j \in 1..n : \E x \in S : Cardinality(up(x)) = j
  BY <1>8 DEF Surjection
<1> DEFINE q == [j \in 1..n |-> CHOOSE x \in S : Cardinality(up(x)) = j]
<1>10. \A j \in 1..n : q[j] \in S /\ Cardinality(up(q[j])) = j
  BY <1>9
<1>11. q \in [1..n -> S]
  BY <1>10
<1> HIDE DEF q
<1>12. ASSUME NEW x \in S PROVE \E k \in 1..n : q[k] = x
  <2>1. Cardinality(up(x)) \in 1..n
    BY <1>3
  <2>2. q[Cardinality(up(x))] = x
    BY <1>6, <1>10, <2>1
  <2> QED
    BY <2>1, <2>2
<1>13. ASSUME NEW k \in 1..n, NEW m \in 1..n, k < m PROVE f[q[k]] <= f[q[m]]
  <2>1. q[k] \in S /\ q[m] \in S /\ Cardinality(up(q[k])) = k /\ Cardinality(up(q[m])) = m
    BY <1>10
  <2>2. q[k] # q[m]
    BY <1>13, <2>1
  <2>3. ~Before(q[m], q[k])
    <3>1. ~(m < k)
      BY <1>13
    <3> HIDE DEF Before
    <3> QED
      BY <1>4, <2>1, <2>2, <3>1
  <2>4. f[q[k]] \in Nat /\ f[q[m]] \in Nat
    BY <1>2, <2>1
  <2> QED
    BY <2>3, <2>4
<1> QED
  BY <1>11, <1>12, <1>13 DEF n

LEMMA OrderExists == ASSUME ViewInv, NEW i \in Ended PROVE Orders(i) # {}
<1> DEFINE f == [j \in Clipped(i) |-> Clip(i, j).s]
<1>1. \A j \in Clipped(i) : f[j] = Clip(i, j).s /\ f[j] \in Nat
  BY ClippedIs
<1>2. Clipped(i) \in SUBSET Nat /\ IsFiniteSet(Clipped(i))
  BY ClippedIs
<1> HIDE DEF f
<1>3. PICK q \in [1..Cardinality(Clipped(i)) -> Clipped(i)] :
          /\ \A x \in Clipped(i) : \E k \in 1..Cardinality(Clipped(i)) : q[k] = x
          /\ \A k, m \in 1..Cardinality(Clipped(i)) : k < m => f[q[k]] <= f[q[m]]
  BY <1>1, <1>2, CanBeSorted
<1>4. \A k, m \in DOMAIN q : k < m => Clip(i, q[k]).s <= Clip(i, q[m]).s
  BY <1>1, <1>3
<1>5. q \in Orders(i)
  BY <1>3, <1>4 DEF Orders
<1> QED
  BY <1>5

\* What the first k intervals of an order cover.
Hit(i, q, k) == {t \in Nat : \E m \in 1..k : Clip(i, q[m]).s <= t /\ t < Clip(i, q[m]).e}

\* The pass covers what the intervals cover, whatever order the sort has left.
LEMMA PassSweeps ==
    ASSUME ViewInv, NEW i \in Ended, NEW q \in Orders(i), NEW n \in Nat, n = Cardinality(Clipped(i)),
           NEW k \in 1..n
    PROVE  Swept(Pass(i, q)[k], Clip(i, q[k]).s, Hit(i, q, k))
<1>1. /\ q \in [1..n -> Clipped(i)] /\ DOMAIN q = 1..n
      /\ \A a, b \in 1..n : a < b => Clip(i, q[a]).s <= Clip(i, q[b]).s
  BY DEF Orders
<1>2. ASSUME NEW m \in 1..n
      PROVE  Clip(i, q[m]).s \in Nat /\ Clip(i, q[m]).e \in Nat /\ Clip(i, q[m]).s < Clip(i, q[m]).e
  BY <1>1, ClippedIs
<1> DEFINE P == Pass(i, q)
           G == {m \in 1..n : Swept(P[m], Clip(i, q[m]).s, Hit(i, q, m))}
<1>3. P[1] = StartOf(i, q) /\ \A m \in 2..n : P[m] = Merge(P[m - 1], Clip(i, q[m]))
  <2>1. n # 0
    OBVIOUS
  <2>2. DOMAIN q = 1..n
    BY <1>1
  <2>3. P[1] = StartOf(i, q)
    BY <2>1, <2>2, PassIs
  <2>4. \A m \in 2..n : P[m] = Merge(P[m - 1], Clip(i, q[m]))
    BY <2>2, PassNext
  <2> QED
    BY <2>3, <2>4
<1> HIDE DEF P
<1>4. 1 \in G
  <2> DEFINE s == Clip(i, q[1]).s
             e == Clip(i, q[1]).e
  <2>0. 1 \in 1..n
    OBVIOUS
  <2>1. s \in Nat /\ e \in Nat /\ s < e
    BY <1>2, <2>0
  <2>2. Hit(i, q, 1) = {t \in Nat : s <= t /\ t < e}
    BY DEF Hit
  <2> HIDE DEF s, e
  <2>3. {t \in Nat : s <= t /\ t < e} = s..(e - 1)
    BY <2>1
  <2>4. P[1] = [total |-> 0, s |-> s, e |-> e]
    BY <1>3 DEF StartOf, s, e
  <2>5. Swept(P[1], s, Hit(i, q, 1))
    BY <2>1, <2>2, <2>3, <2>4, SweptOne
  <2> QED
    BY <2>0, <2>5 DEF s
<1>5. ASSUME NEW m \in 1..(n - 1), m \in G PROVE m + 1 \in G
  <2> DEFINE v == Clip(i, q[m + 1])
             U == Hit(i, q, m)
             from == Clip(i, q[m]).s
  <2>1. m \in 1..n /\ m + 1 \in 1..n /\ m + 1 \in 2..n /\ m < m + 1 /\ (m + 1) - 1 = m
    OBVIOUS
  <2>2. v.s \in Nat /\ v.e \in Nat /\ v.s < v.e /\ from \in Nat /\ from <= v.s
    BY <1>1, <1>2, <2>1
  <2>3. Hit(i, q, m + 1) = U \cup {t \in Nat : v.s <= t /\ t < v.e}
    <3>1. \A x : x \in 1..(m + 1) <=> x \in 1..m \/ x = m + 1
      BY <2>1
    <3> QED
      BY <3>1 DEF Hit
  <2>4. P[m + 1] = Merge(P[m], v)
    BY <1>3, <2>1
  <2>5. Swept(P[m], from, U)
    BY <1>5
  <2> HIDE DEF v, U, from
  <2>6. {t \in Nat : v.s <= t /\ t < v.e} = v.s..(v.e - 1)
    BY <2>2
  <2>7. Swept(P[m + 1], v.s, Hit(i, q, m + 1))
    BY <2>2, <2>3, <2>4, <2>5, <2>6, MergeSweeps
  <2> QED
    BY <2>1, <2>7 DEF v
<1> HIDE DEF G
<1>6. 1..n \subseteq G
  BY <1>4, <1>5, OneByOne
<1>7. k \in G
  BY <1>6
<1> QED
  BY <1>7 DEF G, P

LEMMA CoveredIs ==
    ASSUME ViewInv, NEW i \in Ended, NEW q \in Orders(i)
    PROVE  IsFiniteSet(Busy(i)) /\ CoveredMS(i, q) = Cardinality(Busy(i))
<1> DEFINE n == Cardinality(Clipped(i))
<1>1. n \in Nat /\ IsFiniteSet(Clipped(i))
  BY ClippedIs
<1>2. /\ q \in [1..n -> Clipped(i)]
      /\ \A j \in Clipped(i) : \E k \in 1..n : q[k] = j
  BY DEF Orders
<1>3. Duration(i) \in Nat
  BY SpanIs
<1>4. ASSUME NEW t \in Busy(i) PROVE t \in Hit(i, q, n)
  <2>1. PICK j \in Kids(i) : Under(i, j, t)
    BY DEF Busy
  <2>2. t \in Instants(i) /\ t \in Nat
    BY <1>3 DEF Busy, Instants
  <2>3. Clip(i, j).s \in Nat /\ Clip(i, j).e \in Int /\ Clip(i, j).s <= t /\ t < Clip(i, j).e
    BY <2>1, <2>2, ClipIs
  <2>4. Clip(i, j).s < Clip(i, j).e
    BY <2>2, <2>3
  <2>5. j \in Clipped(i)
    BY <2>4 DEF Clipped
  <2>6. PICK k \in 1..n : q[k] = j
    BY <1>2, <2>5
  <2> HIDE DEF n
  <2> QED
    BY <2>2, <2>3, <2>6 DEF Hit
<1>5. ASSUME NEW t \in Hit(i, q, n) PROVE t \in Busy(i)
  <2>1. PICK k \in 1..n : Clip(i, q[k]).s <= t /\ t < Clip(i, q[k]).e
    BY DEF Hit
  <2>2. t \in Nat
    BY DEF Hit
  <2>3. PICK j \in Clipped(i) : j = q[k]
    BY <1>2, <2>1
  <2>4. j \in Kids(i) /\ Clip(i, j).e \in Nat /\ Clip(i, j).e <= Duration(i)
    BY ClippedIs
  <2>5. Clip(i, j).s <= t /\ t < Clip(i, j).e
    BY <2>1, <2>3
  <2>6. t \in Instants(i)
    BY <1>3, <2>2, <2>4, <2>5 DEF Instants
  <2> QED
    BY <2>4, <2>5, <2>6, ClipIs DEF Busy
<1>6. Hit(i, q, n) = Busy(i)
  BY <1>4, <1>5
<1>7. CASE n = 0
  <2>1. Clipped(i) = {}
    BY <1>1, <1>7, FS_EmptySet
  <2>2. Hit(i, q, n) = {}
    <3>1. 1..n = {}
      BY <1>7
    <3> HIDE DEF n
    <3> QED
      BY <3>1 DEF Hit
  <2>3. CoveredMS(i, q) = 0
    BY <2>1 DEF CoveredMS
  <2> QED
    BY <1>6, <2>2, <2>3, FS_EmptySet
<1>8. CASE n # 0
  <2>1. n \in 1..n
    BY <1>1, <1>8
  <2>2. Clip(i, q[n]).s \in Nat
    <3>1. q[n] \in Clipped(i)
      BY <1>2, <2>1
    <3> QED
      BY <3>1, ClippedIs
  <2>3. Swept(Pass(i, q)[n], Clip(i, q[n]).s, Hit(i, q, n))
    BY <1>1, <2>1, PassSweeps
  <2>4. Clipped(i) # {}
    BY <1>8, FS_EmptySet
  <2>5. CoveredMS(i, q) = Pass(i, q)[n].total + Pass(i, q)[n].e - Pass(i, q)[n].s
    BY <2>4 DEF CoveredMS
  <2> HIDE DEF n
  <2> QED
    BY <1>6, <2>2, <2>3, <2>5, SweptTotal
<1> QED
  BY <1>7, <1>8

\* The first part of the property: computeSelfTimes.
LEMMA SelfTimes == ASSUME ViewInv PROVE SelfTimeIsExact
<1> SUFFICES ASSUME NEW i \in Ended
             PROVE  SelfMS(i) = {Cardinality({t \in 0..(Duration(i) - 1) : \A k \in Kids(i) :
                        ~(spans[k].start <= spans[i].start + t /\ spans[i].start + t < spans[k].end)})}
  BY DEF SelfTimeIsExact
<1> DEFINE d == Duration(i)
           B == Busy(i)
           own == {t \in 0..(d - 1) : \A k \in Kids(i) :
                     ~(spans[k].start <= spans[i].start + t /\ spans[i].start + t < spans[k].end)}
<1>1. d \in Nat
  BY SpanIs
<1>2. own = Instants(i) \ B
  BY DEF Instants, Busy, Under
<1>3. B \subseteq Instants(i)
  BY DEF Busy
<1>4. PICK p \in Orders(i) : TRUE
  BY OrderExists
<1>5. IsFiniteSet(B) /\ Cardinality(B) \in Nat
  BY <1>4, CoveredIs, FS_CardinalityType
<1>6. IsFiniteSet(Instants(i)) /\ Cardinality(Instants(i)) = d
  <2>1. IsFiniteSet(0..(d - 1)) /\ Cardinality(0..(d - 1)) = d
    <3> HIDE DEF d
    <3>1. 0 \in Int /\ d - 1 \in Int
      BY <1>1
    <3>2. IsFiniteSet(0..(d - 1)) /\ Cardinality(0..(d - 1)) = IF 0 > d - 1 THEN 0 ELSE (d - 1) - 0 + 1
      BY <3>1, FS_Interval
    <3> QED
      BY <1>1, <3>2
  <2> QED
    BY <2>1 DEF Instants
<1>7. Cardinality(own) = d - Cardinality(B)
  <2>1. Instants(i) \cap B = B
    BY <1>3
  <2> HIDE DEF own, B
  <2>2. Cardinality(Instants(i) \ B) = Cardinality(Instants(i)) - Cardinality(Instants(i) \cap B)
    BY <1>6, FS_Difference
  <2> QED
    BY <1>2, <1>6, <2>1, <2>2
<1>8. Cardinality(B) <= d
  <2> HIDE DEF B
  <2> QED
    BY <1>3, <1>6, FS_Subset
<1>9. \A q \in Orders(i) : Larger(0, d - CoveredMS(i, q)) = Cardinality(own)
  <2> SUFFICES ASSUME NEW q \in Orders(i) PROVE Larger(0, d - CoveredMS(i, q)) = Cardinality(own)
    OBVIOUS
  <2>1. CoveredMS(i, q) = Cardinality(B)
    BY CoveredIs
  <2> HIDE DEF d, B, own
  <2>2. Larger(0, d - Cardinality(B)) = d - Cardinality(B)
    BY <1>1, <1>5, <1>8 DEF Larger
  <2> QED
    BY <1>7, <2>1, <2>2
<1>10. SelfMS(i) = {Larger(0, d - CoveredMS(i, q)) : q \in Orders(i)}
  BY DEF SelfMS
<1>11. SelfMS(i) = {Cardinality(own)}
  <2> HIDE DEF d, own
  <2> QED
    BY <1>4, <1>9, <1>10
<1> QED
  BY <1>11

\* The least span outside of the tree would have its parent, which has a smaller number, in it.
LEMMA AllShown == ASSUME ViewInv PROVE Tree = Ended
<1>1. ASSUME NEW r \in Ended
      PROVE  /\ Descendants(r) \subseteq Ended
             /\ Kids(r) \subseteq Descendants(r)
             /\ \A m \in Descendants(r) : Kids(m) \subseteq Descendants(r)
  <2>1. \A m : Kids(m) \subseteq Ended
    BY DEF Kids
  <2> QED
    BY <2>1 DEF Descendants
<1>2. Roots \subseteq Ended
  BY DEF Roots
<1>3. Tree \subseteq Ended
  BY <1>1, <1>2 DEF Tree
<1>4. ASSUME NEW m \in Tree PROVE Kids(m) \subseteq Tree
  <2>1. CASE m \in Roots
    <3>1. Kids(m) \subseteq Descendants(m)
      BY <1>1, <1>2, <2>1
    <3> QED
      BY <2>1, <3>1 DEF Tree
  <2>2. CASE m \notin Roots
    <3>1. PICK r \in Roots : m \in Descendants(r)
      BY <2>2 DEF Tree
    <3>2. Kids(m) \subseteq Descendants(r)
      BY <1>1, <1>2, <3>1
    <3> QED
      BY <3>2 DEF Tree
  <2> QED
    BY <2>1, <2>2
<1>5. Roots \subseteq Tree
  BY DEF Tree
<1> HIDE DEF Tree
<1>6. ASSUME Ended \ Tree # {} PROVE FALSE
  <2>1. Ended \ Tree \in SUBSET Nat
    BY SpanIs
  <2>2. PICK x \in Ended \ Tree : \A y \in Ended \ Tree : x <= y
    BY <1>6, <2>1, LeastNumber
  <2> DEFINE p == spans[x].parent
  <2>3. p # NoParent /\ p \in Ended
    BY <1>5, <2>2 DEF Roots
  <2>4. p \in {NoParent, Lost} \cup 1..(x - 1)
    BY <2>2 DEF ViewInv
  <2>5. x \in Nat /\ p \in Nat
    BY <2>2, <2>3, SpanIs
  <2>6. p < x
    <3>1. p # Lost
      BY <2>5 DEF Lost
    <3>2. p \in 1..(x - 1)
      BY <2>3, <2>4, <3>1
    <3> HIDE DEF p
    <3> QED
      BY <2>5, <3>2
  <2>7. p \in Tree
    <3> HIDE DEF p
    <3> QED
      BY <2>2, <2>3, <2>5, <2>6
  <2>8. x \in Kids(p)
    BY <2>2 DEF Kids
  <2> HIDE DEF p
  <2> QED
    BY <1>4, <2>2, <2>7, <2>8
<1> QED
  BY <1>3, <1>6

LEMMA NothingWithin ==
    ASSUME ViewInv, QueueWaitMS > 0, NEW i \in Ended \ (Descendants(Exec) \cup {Exec})
    PROVE  spans[i].end \notin (spans[Exec].start - QueueWaitMS + 1)..(spans[Exec].start - 1)
<1>1. Executing # {} /\ Anchors # {} /\ QueueWaitMS = spans[Exec].start - Latest(Anchors)
  BY DEF QueueWaitMS
<1>2. Exec \in Ended
  <2>1. Exec \in Executing
    BY <1>1 DEF Exec
  <2> QED
    BY <2>1 DEF Executing
<1>3. PICK e \in Nat : e = spans[Exec].start
  BY <1>2, SpanIs
<1>4. Anchors \subseteq 0..Horizon
  BY SpanIs DEF Anchors
<1>5. PICK a \in Nat : a = Latest(Anchors) /\ \A u \in Anchors : u <= a
  <2>1. Latest(Anchors) \in Anchors /\ \A u \in Anchors : u <= Latest(Anchors)
    BY <1>1, <1>4, ViewAssumption, LatestOf
  <2>2. \A u \in Anchors : u \in Nat
    BY SpanIs DEF Anchors
  <2>3. Latest(Anchors) \in Nat
    BY <2>1, <2>2
  <2> QED
    BY <2>1, <2>3
<1>6. PICK z \in Nat : z = spans[i].end
  BY SpanIs
<1>7. z < e => z <= a
  <2>1. z < e => z \in Anchors
    BY <1>3, <1>6 DEF Anchors
  <2> QED
    BY <1>5, <2>1
<1>8. QueueWaitMS = e - a
  BY <1>1, <1>3, <1>5
<1>9. z \notin (e - (e - a) + 1)..(e - 1)
  BY <1>3, <1>5, <1>6, <1>7
<1> QED
  BY <1>3, <1>6, <1>8, <1>9

LEMMA EndKeeps == ASSUME ViewInv, NEW i \in SpanIds, EndSpan(i) PROVE ViewInv'
<1>1. PICK parent \in {NoParent, Lost} \cup 1..(i - 1), s \in 0..Horizon, e \in 0..Horizon, x \in BOOLEAN :
          spans' = [j \in Ended \cup {i} |-> IF j = i THEN SnapshotSpan(parent, s, e, x) ELSE spans[j]]
  BY DEF EndSpan
<1>2. i \notin Ended
  BY DEF EndSpan
<1> DEFINE new == SnapshotSpan(parent, s, e, x)
<1>3. new.parent = parent /\ new.start = s /\ new.end \in {s, e} /\ s <= new.end
  <2>1. s \in Nat /\ e \in Nat
    BY ViewAssumption
  <2>2. new.parent = parent /\ new.start = s /\ new.end = IF e < s THEN s ELSE e
    BY DEF SnapshotSpan
  <2> HIDE DEF new
  <2> QED
    BY <2>1, <2>2
<1> HIDE DEF new
<1>4. Ended' = Ended \cup {i}
  BY <1>1 DEF Ended
<1>5. spans'[i] = new /\ \A j \in Ended : spans'[j] = spans[j]
  BY <1>1, <1>2 DEF new
<1>6. Ended' \subseteq SpanIds
  BY <1>4 DEF ViewInv
<1>7. ASSUME NEW j \in Ended'
      PROVE  /\ spans'[j].parent \in {NoParent, Lost} \cup 1..(j - 1)
             /\ spans'[j].start \in 0..Horizon /\ spans'[j].end \in 0..Horizon
             /\ spans'[j].start <= spans'[j].end
  <2>1. CASE j = i
    BY <1>3, <1>5, <2>1
  <2>2. CASE j # i
    <3>1. j \in Ended /\ spans'[j] = spans[j]
      BY <1>4, <1>5, <2>2
    <3> QED
      BY <3>1 DEF ViewInv
  <2> QED
    BY <2>1, <2>2
<1> QED
  BY <1>6, <1>7 DEF ViewInv

\* What the view tells about a trace is what was recorded, for every order the sort may
\* leave and wherever the chain of parents has a hole (tracing/store.go:62-66, :530-535,
\* :588-595).
THEOREM TraceTold == ViewSpec => []TraceIsFaithful
<1>1. ViewInit => ViewInv
  <2> SUFFICES ASSUME ViewInit PROVE ViewInv
    OBVIOUS
  <2>1. Ended = {}
    BY DEF ViewInit, Ended
  <2> QED
    BY <2>1 DEF ViewInv
<1>2. ViewInv /\ [ViewNext]_spans => ViewInv'
  <2>1. ASSUME ViewInv, UNCHANGED spans PROVE ViewInv'
    BY <2>1 DEF ViewInv, Ended
  <2> QED
    BY <2>1, EndKeeps DEF ViewNext
<1>3. ViewInv => TraceIsFaithful
  BY SelfTimes, AllShown, NothingWithin DEF TraceIsFaithful, NothingHidden
<1> QED
  BY <1>1, <1>2, <1>3, PTL DEF ViewSpec
=============================================================================
