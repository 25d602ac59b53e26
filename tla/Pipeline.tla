------------------------------ MODULE Pipeline ------------------------------
(***************************************************************************)
(* The event pipeline: the gateway stores blobs and publishes requests,    *)
(* the router sends every event to a worker or to the engine, the workers  *)
(* (chunker, vision, embedder) publish what they derive back to the        *)
(* ingress topic, and the engine indexes documents and answers searches.   *)
(* A handler call is a Deliver step and a later step that runs the handler *)
(* and settles the delivery, so calls of all consumers overlap.            *)
(***************************************************************************)
EXTENDS Bus, FiniteSetsExt

CONSTANTS
    Engines,  \* engine processes, each with its own in-memory vector store
    Input     \* what each request asks for

\* What the HTTP handlers can pass on. A text and a file are ingested by
\* separate calls; a file without bytes has file = None. pieces: how many
\* non-blank chunks the content splits into.
InputType == [kind : {"ingest", "search"}, tenant : Tenants,
              text : {"none", "short", "long"}, file : FileNames \cup {None},
              mime : Mimes, topk : Nat, pieces : Nat]

\* HandleSearch replaces a top_k that is not positive by 5.
ASSUME InputAssumption ==
    /\ Input \in [Requests -> InputType]
    /\ \A r \in Requests : Input[r].kind = "ingest" /\ Input[r].text # "none" =>
            Input[r].file = None /\ Input[r].mime = "text"
    /\ \A r \in Requests : Input[r].kind = "search" => Input[r].topk > 0

VARIABLES
    stage,  \* how far the gateway is with each request
    blobs,  \* the blob store: the request whose content a URI holds, or None
    db,     \* the rows of each engine's vector store
    stuck   \* topics whose consumer waits for a call that never returns

vars == <<stream, faults, stage, blobs, db, stuck>>

\* The topics of the workers. One process consumes each of them.
WorkerTopics == {"chunk", "vision", "embed"}

TypeOK ==
    /\ BusTypeOK
    /\ stage \in [Requests -> {"new", "uploaded", "accepted", "failed"}]
    /\ blobs \in [URIs -> Requests \cup {None}]
    /\ db \in [Engines -> SUBSET Records]
    /\ stuck \subseteq WorkerTopics

Init ==
    /\ stream = {}
    /\ faults = 0
    /\ stage = [r \in Requests |-> "new"]
    /\ blobs = [u \in URIs |-> None]
    /\ db = [e \in Engines |-> {}]
    /\ stuck = {}

-----------------------------------------------------------------------------
(* Gateway *)

\* A long ingest text goes to the blob store under a generated name; a search
\* text is never offloaded.
Offloaded(r) == Input[r].kind = "ingest" /\ Input[r].text = "long"
HasUpload(r) == Offloaded(r) \/ Input[r].file # None

UriOf(r) == [tenant |-> Input[r].tenant,
             name |-> IF Input[r].file # None THEN Input[r].file ELSE r]

\* Mutant of Stored: the object key lacks the tenant.
StoredWithoutTenant(r) ==
    [u \in URIs |-> IF u.name = UriOf(r).name THEN r ELSE blobs[u]]

\* Upload writes the object under tenant/filename, whatever was there.
Stored(r) == [blobs EXCEPT ![UriOf(r)] = r]

Upload(r) ==
    /\ stage[r] = "new"
    /\ HasUpload(r)
    /\ \/ /\ blobs' = Stored(r)
          /\ stage' = [stage EXCEPT ![r] = "uploaded"]
          /\ UNCHANGED faults
       \/ /\ Fault("adapter")
          /\ stage' = [stage EXCEPT ![r] = "failed"]
          /\ UNCHANGED blobs
    /\ UNCHANGED <<stream, db, stuck>>

\* The envelope IngestDocument and SearchDocuments publish. Offloading clears
\* the text; a text search and an ingested text carry it in the payload.
RequestEnv(r) ==
    LET in == Input[r]
        payload == [NoPayload EXCEPT
                        !.text = IF in.text = "none" \/ Offloaded(r) THEN NoText ELSE Whole(r),
                        !.blob = IF HasUpload(r) THEN UriOf(r) ELSE NoBlob,
                        !.mime = in.mime]
    IN  IF in.kind = "ingest"
        THEN NewEnvelope(in.tenant, r, "ingest.requested", [payload EXCEPT !.doc = r])
        ELSE NewEnvelope(in.tenant, r, "search.requested", [payload EXCEPT !.topk = in.topk])

\* A publish that returns an error may still have stored the event.
Submit(r) ==
    LET root == NewMessage(<<>>, "ingress", RequestEnv(r))
    IN  /\ stage[r] = IF HasUpload(r) THEN "uploaded" ELSE "new"
        /\ \/ /\ stream' = stream \cup {root}
              /\ stage' = [stage EXCEPT ![r] = "accepted"]
              /\ UNCHANGED faults
           \/ /\ Fault("publish")
              /\ stream' \in {stream, stream \cup {root}}
              /\ stage' = [stage EXCEPT ![r] = "failed"]
        /\ UNCHANGED <<blobs, db, stuck>>

-----------------------------------------------------------------------------
(* What a handler call does with one message: the events it publishes, with *)
(* their topics, and the verdict it gives the message.                      *)

Result(out, verdict) == [out |-> out, verdict |-> verdict]
To(topic, env) == [topic |-> topic, env |-> env]

\* A delivery of m that waits for, or is in, the handler of its topic. The
\* consumer calls its handler for one message after the other.
Running(m, topic) == m.topic = topic /\ m.held > 0 /\ topic \notin stuck

\* The events the embedder has a branch for.
Embeddable == {"ingest.requested", "search.requested", "vision.completed", "chunk.completed"}

\* The worker has a branch for the event, and in it calls the blob store or a
\* model.
Calls(m) ==
    \/ m.topic = "chunk" /\ m.env.type = "ingest.requested"
    \/ m.topic = "vision" /\ m.env.type \in {"ingest.requested", "search.requested"}
    \/ m.topic = "embed" /\ m.env.type \in Embeddable

\* A worker's call. Publish errors are ignored: the task is acked all the same.
Handle(m, res) ==
    /\ \/ Finish(m, res.out, res.verdict, "acked")
       \/ Calls(m) /\ AdapterError(m)
    /\ UNCHANGED <<stage, blobs, db, stuck>>

\* A worker's call waits for an answer that never comes: the HTTP clients have
\* no timeout and the context of the call is never cancelled.
Hang(m) ==
    /\ Running(m, m.topic)
    /\ Calls(m)
    /\ Fault("silence")
    /\ stuck' = stuck \cup {m.topic}
    /\ UNCHANGED <<stream, stage, blobs, db>>

\* Mutant of Classify: the rule for completed chunks is missing.
ClassifyWithoutChunks(env) ==
    CASE env.type \in {"ingest.requested", "search.requested"} ->
            IF env.data.mime = "image" THEN "vision"
            ELSE IF env.data.blob # NoBlob /\ env.data.mime = "text" THEN "chunk"
            ELSE "embed"
      [] env.type = "vision.completed" -> "embed"
      [] env.type = "embed.completed" -> "engine"
      [] OTHER -> "unroutable"

\* Mutant of Classify: the rule for vision.completed is forgotten.
ClassifyWithoutVision(env) ==
    CASE env.type \in {"ingest.requested", "search.requested"} ->
            IF env.data.mime = "image" THEN "vision"
            ELSE IF env.data.blob # NoBlob /\ env.data.mime = "text" THEN "chunk"
            ELSE "embed"
      [] env.type = "chunk.completed" -> "embed"
      [] env.type = "embed.completed" -> "engine"
      [] OTHER -> "unroutable"

\* StaticRuleEngine.Classify; "unroutable" is its ErrNoRouteFound.
Classify(env) ==
    CASE env.type \in {"ingest.requested", "search.requested"} ->
            IF env.data.mime = "image" THEN "vision"
            ELSE IF env.data.blob # NoBlob /\ env.data.mime = "text" THEN "chunk"
            ELSE "embed"
      [] env.type \in {"vision.completed", "chunk.completed"} -> "embed"
      [] env.type = "embed.completed" -> "engine"
      [] OTHER -> "unroutable"

RouterResult(m) ==
    LET target == Classify(m.env)
    IN  IF target = "unroutable"
        THEN Result(<<To("dlq", m.env)>>, "termed")
        ELSE Result(<<To(target, m.env)>>, "acked")

\* The classifier calls nothing that can fail, so the router has no
\* AdapterError. A publish error naks the event, but the one of the DLQ is
\* ignored.
Router(m) ==
    LET res == RouterResult(m)
    IN  /\ Running(m, "ingress")
        /\ Finish(m, res.out, res.verdict, IF res.verdict = "termed" THEN "termed" ELSE "nak")
        /\ UNCHANGED <<stage, blobs, db, stuck>>

Downloads(env) == env.data.blob # NoBlob /\ blobs[env.data.blob] # None

\* The event made of the last text that a broken download gave.
CutEnv(env) == NewEnvelope(env.tenant, env.corr, env.type,
                           [env.data EXCEPT !.text = CutOff(env.data.text)])

\* What a worker publishes when the download breaks off in the n-th text.
BrokenOff(out, n) ==
    [k \in 1..n |-> IF k = n THEN To(out[k].topic, CutEnv(out[k].env)) ELSE out[k]]

\* The object store's stream breaks off while the worker reads it: the error
\* of io.ReadAll is ignored, what was read counts as all there is, and the
\* task is acked. texts: how many texts that can give of those in out.
ReadBreaks(m, out, texts) ==
    /\ Downloads(m.env)
    /\ Fault("read")
    /\ \E n \in texts : stream' = After(m, "acked", BrokenOff(out, n), 1..n)
    /\ UNCHANGED <<stage, blobs, db, stuck>>

\* The fields every EmbedRequestedPayload takes over from the request. TopK
\* and the query text have no field there.
Derived(env, doc) == [NoPayload EXCEPT !.doc = doc, !.blob = env.data.blob,
                                       !.mime = env.data.mime, !.orig = env.type]

\* Mutant of ChunkEnv: every event carries the first piece.
ChunkEnvSamePiece(m, k) ==
    NewEnvelope(m.env.tenant, m.env.corr, "chunk.completed",
        [Derived(m.env, m.env.data.doc) EXCEPT
            !.chunk = [doc |-> m.env.data.doc, tag |-> "piece", path |-> ChildPath(m, k)],
            !.text = Piece(blobs[m.env.data.blob], 1)])

ChunkEnv(m, k) ==
    NewEnvelope(m.env.tenant, m.env.corr, "chunk.completed",
        [Derived(m.env, m.env.data.doc) EXCEPT
            !.chunk = [doc |-> m.env.data.doc, tag |-> "piece", path |-> ChildPath(m, k)],
            !.text = Piece(blobs[m.env.data.blob], k)])

\* Mutant of ChunkerResult: a blob that cannot be read is acked away.
ChunkerResultAcksMissing(m) ==
    IF m.env.type # "ingest.requested" \/ ~Downloads(m.env) THEN Result(<<>>, "acked")
    ELSE Result([k \in 1..Input[blobs[m.env.data.blob]].pieces |->
                    To("ingress", ChunkEnv(m, k))], "acked")

ChunkerResult(m) ==
    IF m.env.type # "ingest.requested" THEN Result(<<>>, "acked")
    ELSE IF ~Downloads(m.env) THEN Result(<<>>, "nak")
    ELSE Result([k \in 1..Input[blobs[m.env.data.blob]].pieces |->
                    To("ingress", ChunkEnv(m, k))], "acked")

Chunker(m) ==
    LET res == ChunkerResult(m)
    IN  /\ Running(m, "chunk")
        /\ \/ Handle(m, res)
           \/ Calls(m) /\ ReadBreaks(m, res.out, 0..Len(res.out))

\* Mutant of VisionEnv: the chunk id is a fresh UUID, as in the chunker.
VisionEnvFreshId(m) ==
    LET doc == IF m.env.type = "ingest.requested" THEN m.env.data.doc ELSE SearchDoc
    IN  NewEnvelope(m.env.tenant, m.env.corr, "vision.completed",
            [Derived(m.env, doc) EXCEPT
                !.chunk = [doc |-> doc, tag |-> "vision", path |-> ChildPath(m, 1)],
                !.text = Whole(blobs[m.env.data.blob])])

VisionEnv(m) ==
    LET doc == IF m.env.type = "ingest.requested" THEN m.env.data.doc ELSE SearchDoc
    IN  NewEnvelope(m.env.tenant, m.env.corr, "vision.completed",
            [Derived(m.env, doc) EXCEPT
                !.chunk = [doc |-> doc, tag |-> "vision", path |-> <<>>],
                !.text = Whole(blobs[m.env.data.blob])])

\* Mutant of VisionResult: a blob that cannot be read is acked away.
VisionResultAcksMissing(m) ==
    IF ~Downloads(m.env) THEN Result(<<>>, "acked")
    ELSE Result(<<To("ingress", VisionEnv(m))>>, "acked")

VisionResult(m) ==
    IF m.env.type \notin {"ingest.requested", "search.requested"} THEN Result(<<>>, "acked")
    ELSE IF ~Downloads(m.env) THEN Result(<<>>, "nak")
    ELSE Result(<<To("ingress", VisionEnv(m))>>, "acked")

\* An image that was read in part is described as if it were the whole.
Vision(m) ==
    LET res == VisionResult(m)
    IN  /\ Running(m, "vision")
        /\ \/ Handle(m, res)
           \/ Calls(m) /\ ReadBreaks(m, res.out, {1})

\* The search payload is the only one that carries a TopK to the engine.
EmbedEnv(m, dim) ==
    LET env == m.env
        request == env.type \in {"ingest.requested", "search.requested"}
        doc == IF env.type = "search.requested" THEN SearchDoc ELSE env.data.doc
    IN  NewEnvelope(env.tenant, env.corr, "embed.completed",
            [NoPayload EXCEPT
                !.doc = doc,
                !.chunk = IF request THEN [doc |-> doc, tag |-> "whole", path |-> <<>>]
                                     ELSE env.data.chunk,
                !.text = env.data.text,
                !.blob = env.data.blob,
                !.mime = env.data.mime,
                !.orig = IF request THEN env.type ELSE env.data.orig,
                !.topk = IF env.type = "search.requested" THEN env.data.topk ELSE 0,
                !.dim = dim])

\* What the embedder does when the model answers; an empty vector drops the
\* task.
EmbedderResult(m, empty, dim) ==
    IF m.env.type \notin Embeddable \/ empty
    THEN Result(<<>>, "acked")
    ELSE Result(<<To("ingress", EmbedEnv(m, dim))>>, "acked")

\* Only the empty text can have an empty vector: the mock model gives it a
\* full vector, ollama an empty one. The model may be swapped between two
\* calls, and with it the length of the vectors.
Embedder(m) ==
    /\ Running(m, "embed")
    /\ \E empty \in {FALSE} \cup {m.env.data.text = NoText} : \E dim \in Dims :
            Handle(m, EmbedderResult(m, empty, dim))

-----------------------------------------------------------------------------
(* Engine *)

RowOf(env) == [tenant |-> env.tenant, chunk |-> env.data.chunk, doc |-> env.data.doc,
               text |-> env.data.text, blob |-> env.data.blob, mime |-> env.data.mime,
               dim |-> env.data.dim]

\* MemoryVectorDB.Upsert: a row replaces the tenant's row of the same chunk id.
Upserted(rows, row) ==
    {old \in rows : ~(old.tenant = row.tenant /\ old.chunk = row.chunk)} \cup {row}

\* Mutant of RowsOf: the search does not look at the tenant.
RowsOfAnyTenant(e, tenant) == db[e]

RowsOf(e, tenant) == {row \in db[e] : row.tenant = tenant}

TopK(env) == IF env.data.topk <= 0 THEN 5 ELSE env.data.topk

\* Search skips the rows whose vector is longer or shorter than the query's.
Comparable(e, env) == {row \in RowsOf(e, env.tenant) : row.dim = env.data.dim}

\* Mutant of Nearest: the result list is not cut to TopK.
NearestUncut(e, env) == {Comparable(e, env)}

\* Mutant of Nearest: the list is cut before the rows of another length are
\* skipped.
NearestCutFirst(e, env) ==
    LET rows == RowsOf(e, env.tenant)
    IN  {few \cap Comparable(e, env) : few \in kSubset(Min({TopK(env), Cardinality(rows)}), rows)}

\* MemoryVectorDB.Search: the TopK rows nearest to the query. Which rows are
\* nearest is up to the vectors, so any choice of that many is possible.
Nearest(e, env) ==
    LET rows == Comparable(e, env)
    IN  kSubset(Min({TopK(env), Cardinality(rows)}), rows)

ReplyEnv(m, hits) ==
    NewEnvelope(m.env.tenant, m.env.corr, "search.completed", [NoPayload EXCEPT !.hits = hits])

\* What the original request wants of the engine; an event that is neither
\* an ingest nor a search, or not an embedding, is acked and dropped.
Intent(env) ==
    IF env.type # "embed.completed" THEN "none"
    ELSE CASE env.data.orig = "ingest.requested" -> "upsert"
           [] env.data.orig = "search.requested" -> "search"
           [] OTHER -> "none"

EngineUpsert(m, e) ==
    /\ Running(m, "engine")
    /\ Intent(m.env) = "upsert"
    /\ db' = [db EXCEPT ![e] = Upserted(@, RowOf(m.env))]
    /\ Finish(m, <<>>, "acked", "nak")
    /\ UNCHANGED <<stage, blobs, stuck>>

EngineSearch(m, e) ==
    /\ Running(m, "engine")
    /\ Intent(m.env) # "upsert"
    /\ \E out \in IF Intent(m.env) = "search"
                  THEN {<<To("replies", ReplyEnv(m, hits))>> : hits \in Nearest(e, m.env)}
                  ELSE {<<>>} :
            Finish(m, out, "acked", "nak")
    /\ UNCHANGED <<stage, blobs, db, stuck>>

\* An engine process restarts: its vector store was in memory only, and the
\* deliveries it holds end without a verdict. left: the deliveries that other
\* engine processes hold.
EngineRestart(e) ==
    LET held == {m \in stream : Running(m, "engine")}
    IN  /\ Fault("restart")
        /\ db' = [db EXCEPT ![e] = {}]
        /\ \E left \in [held -> 0..MaxDeliver] :
                /\ \A m \in held : left[m] <= m.held
                /\ stream' = (stream \ held) \cup {[m EXCEPT !.held = left[m]] : m \in held}
        /\ UNCHANGED <<stage, blobs, stuck>>

\* The monolith dies and starts again. The broker in it has the stream with
\* its acks on disk; blobs and rows were in memory. Every delivery ends
\* without a verdict, and so does a request between its upload and its event.
Reboot ==
    /\ Fault("reboot")
    /\ stream' = {[m EXCEPT !.held = 0] : m \in stream}
    /\ stage' = [r \in Requests |-> IF stage[r] = "uploaded" THEN "failed" ELSE stage[r]]
    /\ blobs' = [u \in URIs |-> None]
    /\ db' = [e \in Engines |-> {}]
    /\ stuck' = {}

-----------------------------------------------------------------------------
DeliverTask(m) ==
    /\ Deliver(m)
    /\ UNCHANGED <<stage, blobs, db, stuck>>

\* The consumers: a delivery of m, or the rest of a handler call on it.
Consume(m) ==
    \/ DeliverTask(m) \/ Router(m) \/ Chunker(m) \/ Vision(m) \/ Embedder(m)
    \/ \E e \in Engines : EngineUpsert(m, e) \/ EngineSearch(m, e)

Next ==
    \/ \E r \in Requests : Upload(r) \/ Submit(r)
    \/ \E m \in stream : Consume(m) \/ Hang(m)
    \/ \E e \in Engines : EngineRestart(e)
    \/ Reboot

Spec == Init /\ [][Next]_vars

\* The consumers go on as long as one of them can: a handler returns unless
\* its worker is stuck, and a stuck worker has no step to take. Deliveries are
\* limited, so no consumer has to be treated fairly among the others. Clients
\* need not send anything and no fault has to happen.
Fairness == WF_vars(\E m \in stream : Consume(m))

FairSpec == Spec /\ Fairness

-----------------------------------------------------------------------------
(* Properties *)

Replies == {m \in stream : m.topic = "replies"}

\* No search shows one tenant what belongs to another (engine "strict
\* multitenant search", src/internal/modules/engine/service.go:107): an answer
\* goes out under the tenant that asked, and every hit is a document of that
\* tenant whose text was taken from content that this tenant sent. The text
\* passes through the shared blob store and three workers before it gets
\* there. Answers are all it is about: /v1/blob hands out a blob to anyone who
\* knows its URI.
TenantIsolation ==
    \A m \in Replies :
        /\ m.env.tenant = Input[m.env.corr].tenant
        /\ \A hit \in m.env.data.hits :
            /\ hit.doc \in Requests => Input[hit.doc].tenant = m.env.tenant
            /\ hit.text.src # None => Input[hit.text.src].tenant = m.env.tenant

Route(r) == Classify(RequestEnv(r))

\* A search that brings a text file. The classifier sends it to the chunker,
\* whose only branch for searches acks and forgets it
\* (src/internal/modules/workers/chunker/service.go:51).
TextFileSearch(r) == Input[r].kind = "search" /\ Route(r) = "chunk"

\* Every event lands where a branch is written for it: the classifier finds a
\* route for whatever the components publish to ingress, so nothing goes to
\* the DLQ or is terminated, and no worker or engine task runs into the
\* branch that acks and forgets an unsupported type. The one exception is the
\* search with a text file: the chunker acks it away.
EveryEventHasAHandler ==
    \A m \in stream :
        /\ m.topic # "dlq" /\ m.st # "termed"
        /\ m.topic = "ingress" => Classify(m.env) # "unroutable"
        /\ m.topic = "chunk" => m.env.type = "ingest.requested" \/ TextFileSearch(m.env.corr)
        /\ m.topic = "vision" => m.env.type \in {"ingest.requested", "search.requested"}
        /\ m.topic = "embed" => m.env.type \in Embeddable
        /\ m.topic = "engine" => Intent(m.env) # "none"

\* The parts of a document that are indexed one by one.
PartsOf(r) == IF Route(r) = "chunk" THEN 1..Input[r].pieces ELSE {0}

\* Nobody else writes to the URI of r.
Alone(r) == \A q \in Requests \ {r} : HasUpload(q) /\ HasUpload(r) => UriOf(q) # UriOf(r)

\* A document with something to embed. The vector of an empty text may be
\* empty, and then the document is dropped.
Indexable(r) == Route(r) = "embed" => RequestEnv(r).data.text # NoText

Unsettled(m) == m.topic \in GroupTopics /\ m.st = "pending"
Exhausted(m) == Unsettled(m) /\ m.dlv = MaxDeliver /\ m.held = 0

\* It waits behind a call that never returns, or is that call's message.
Blocked(m) == Unsettled(m) /\ m.topic \in stuck

\* The request itself leads to all parts of it, a derived event to one.
Carries(m, r, n) ==
    m.env.corr = r /\ (m.env.type = "ingest.requested" \/ m.env.data.text.n = n)

\* Some message still leads to the part.
InProgress(r, n) == \E m \in stream : Unsettled(m) /\ Carries(m, r, n)

Indexed(r, n) == \E e \in Engines : \E row \in db[e] : row.doc = r /\ row.text.n = n

\* Redelivery does not multiply rows: the chunk ids of a text or an image are
\* derived from the document id, so handling a task twice overwrites the row.
\* The chunker takes fresh ids on every run; two rows for one piece of a file
\* are possible, but only after the request was delivered more than once.
OneRowPerPart ==
    \A e \in Engines : \A a, b \in db[e] :
        a # b /\ a.doc = b.doc /\ a.text.n = b.text.n =>
            /\ Route(a.doc) = "chunk"
            /\ \E m \in stream : /\ m.env.corr = a.doc
                                 /\ m.env.type = "ingest.requested"
                                 /\ m.dlv > 1

\* A row holds the content of its own document, or of a request of the same
\* tenant that uploaded a file of the same name: mix-ups through the blob
\* store go no further than that.
ContentOfOwnUri ==
    \A e \in Engines : \A row \in db[e] :
        \/ row.text = NoText
        \/ row.text.src = row.doc
        \/ UriOf(row.text.src) = UriOf(row.doc)

\* No lost ack, redelivery, error or silence of a service makes the pipeline
\* forget part of an accepted document: each part is in the index or some
\* message that leads to it is still unsettled (and possibly out of deliveries
\* or stuck). It takes that no publish fails, that a download that has begun
\* comes to its end, and that no engine restarts; see AckConfirmsProcessing
\* and AckedFilesAreRead for what is lost otherwise.
NothingAckedAway ==
    \A r \in Requests :
        stage[r] = "accepted" /\ Input[r].kind = "ingest" /\ Indexable(r) /\ Alone(r) =>
            \A n \in PartsOf(r) : Indexed(r, n) \/ InProgress(r, n)

\* An engine has acked the task to index this part.
AckedByEngine(r, n) ==
    \E m \in stream :
        m.topic = "engine" /\ m.st = "acked" /\ Intent(m.env) = "upsert" /\ Carries(m, r, n)

\* Rows are in memory and may be lost after the ack, but nothing is lost before
\* it: engines and the monolith may die with their rows and blobs, and each
\* part of an accepted document has been given to an engine that acked it or
\* is still unsettled. In particular nobody acks a task whose blob is gone.
\* It takes that no publish fails and that a download that has begun comes to
\* its end.
PartsReachEngine ==
    \A r \in Requests :
        stage[r] = "accepted" /\ Input[r].kind = "ingest" /\ Indexable(r) /\ Alone(r) =>
            \A n \in PartsOf(r) : AckedByEngine(r, n) \/ InProgress(r, n)

Answered(r) == \E m \in Replies : m.env.corr = r
InWork(r)   == \E m \in stream : m.env.corr = r /\ Unsettled(m)

\* A search that reached the bus is answered or has a message without a
\* verdict, which may also be out of deliveries or stuck: no worker and no
\* engine acks it away. The exceptions are the searches the chunker receives
\* and those without text to embed. It takes that no publish fails.
SearchNotDropped ==
    \A r \in Requests :
        stage[r] = "accepted" /\ Input[r].kind = "search" /\ Indexable(r) /\ Route(r) # "chunk" =>
            Answered(r) \/ InWork(r)

\* A text search gets at most the top_k it asked for, through all the events
\* that have to carry the number to the engine.
TextSearchWithinTopK ==
    \A m \in Replies :
        Route(m.env.corr) = "embed" => Cardinality(m.env.data.hits) <= Input[m.env.corr].topk

\* Some engine has the chunk, with a vector that the query cannot be compared
\* with.
OtherLength(t, query) ==
    \E e \in Engines : \E row \in RowsOf(e, t.env.tenant) :
        row.chunk = t.env.data.chunk /\ row.dim # query.env.data.dim

\* An answer to a text search that is shorter than asked for is complete: it
\* has a hit for every chunk the engine had acked for that tenant when it
\* answered, but for chunks whose vector has another length than that of the
\* query it answers, as after a change of the model. With one engine that
\* does not restart.
ShortAnswerIsComplete ==
    [][\A m \in stream' \ stream :
        m.topic = "replies" /\ Route(m.env.corr) = "embed"
            /\ Cardinality(m.env.data.hits) < Input[m.env.corr].topk =>
                \E query \in stream :
                    /\ query.topic = "engine" /\ query.env.corr = m.env.corr
                    /\ m.path = ChildPath(query, 1)
                    /\ \A t \in stream :
                        t.topic = "engine" /\ t.st = "acked" /\ Intent(t.env) = "upsert"
                            /\ t.env.tenant = m.env.tenant =>
                                \/ \E hit \in m.env.data.hits : hit.chunk = t.env.data.chunk
                                \/ OtherLength(t, query)]_vars

\* Every part of an accepted document eventually reaches an engine that acks
\* it, or a message on its way has used up its deliveries, or waits for a
\* worker whose service has gone silent; also when engines or the whole
\* monolith die on the way. It takes that no publish fails and that a download
\* that has begun comes to its end.
IngestSettles ==
    \A r \in Requests :
        Input[r].kind = "ingest" /\ Indexable(r) /\ Alone(r) =>
            (stage[r] = "accepted" ~>
                \A n \in PartsOf(r) :
                    \/ AckedByEngine(r, n)
                    \/ \E m \in stream : (Exhausted(m) \/ Blocked(m)) /\ Carries(m, r, n))

\* Every accepted search with something to embed is eventually answered on
\* the reply topic, or a message on its way has used up its deliveries (as
\* that of a search by a file without bytes, which is never uploaded), or
\* waits for a worker whose service has gone silent.
SearchSettles ==
    \A r \in Requests :
        Input[r].kind = "search" /\ Indexable(r) /\ Route(r) # "chunk" =>
            (stage[r] = "accepted" ~>
                Answered(r) \/ \E m \in stream : m.env.corr = r /\ (Exhausted(m) \/ Blocked(m)))

\* The pipeline implements the index of TenantIndex: only documents that are
\* in the stream are indexed, part by part, and an answer consists of what
\* the answering engine has indexed for the tenant of an accepted search at
\* the moment it answers ("perform strict multitenant search",
\* src/internal/modules/engine/service.go:107). A request counts as accepted
\* when it is in the stream, even if the gateway was told otherwise. A
\* document whose file was replaced by one of the same name may be indexed in
\* as many parts as that one has.
Kind(k) == {r \in Requests : Input[r].kind = k}

PartOf(row) == [doc |-> row.doc, part |-> row.text.n]

Index == INSTANCE TenantIndex WITH
    Documents <- Kind("ingest"),
    Searches  <- Kind("search"),
    TenantOf  <- [r \in Requests |-> Input[r].tenant],
    Parts     <- UNION {0..Input[r].pieces : r \in Requests},
    accepted  <- {m.env.corr : m \in stream},
    index     <- [e \in Engines |-> {PartOf(row) : row \in db[e]}],
    answers   <- {[search |-> m.env.corr, hits |-> {PartOf(hit) : hit \in m.env.data.hits}] :
                    m \in {m \in stream : m.topic = "replies"}}

ImplementsTenantIndex == Index!IndexSpec

-----------------------------------------------------------------------------
(* What the repository says of itself and the code does not do. Each of the *)
(* following is stated from a comment and refuted by a run.                 *)

\* "Upload saves the data stream and returns a unique URI"
\* (src/internal/modules/gateway/ports.go:30): a document's row is made from
\* the content that was uploaded for this document.
RowHasOwnContent ==
    \A e \in Engines : \A row \in db[e] : row.text = NoText \/ row.text.src = row.doc

\* SearchTopK is "Passed through from SearchPayload for the Engine"
\* (src/pkg/events/payload.go:48): no answer is longer than its search asked
\* for, whatever the search was made by.
AnswerWithinTopK ==
    \A m \in Replies : Cardinality(m.env.data.hits) <= Input[m.env.corr].topk

\* "Ack confirms successful processing" (src/pkg/events/message.go:9): a
\* vision or embedding task that is acked and had something to process has a
\* result event in the stream.
AckConfirmsProcessing ==
    \A m \in stream :
        /\ m.st = "acked"
        /\ m.topic = "vision" \/ (m.topic = "embed" /\ m.env.data.text # NoText)
        => \E c \in stream : /\ c.env.corr = m.env.corr
                             /\ Len(c.path) > Len(m.path)
                             /\ SubSeq(c.path, 1, Len(m.path)) = m.path

\* "Ack confirms successful processing" (src/pkg/events/message.go:9), and what
\* fails for a while is nacked: a chunk or vision task that is acked has had
\* its file read to the end, every text of it is in an event.
AckedFilesAreRead ==
    \A m \in stream :
        LET r == m.env.corr
        IN  m.st = "acked" /\ m.topic = Route(r) /\ Route(r) \in {"chunk", "vision"}
                /\ Input[r].kind = "ingest" /\ Alone(r) =>
                \A n \in PartsOf(r) : \E c \in stream :
                    /\ c.env.corr = r
                    /\ c.env.data.text = [src |-> r, n |-> n, cut |-> FALSE]

\* "external VectorDB. Scales infinitely" (src/README.md:41): with several engine
\* processes, too, an answer that is shorter than asked for has a hit for
\* every row that any of them holds for the tenant.
AnyReplicaAnswersCompletely ==
    [][\A m \in stream' \ stream :
        m.topic = "replies" /\ Route(m.env.corr) = "embed"
            /\ Cardinality(m.env.data.hits) < Input[m.env.corr].topk =>
                \A e \in Engines : RowsOf(e, m.env.tenant) \subseteq m.env.data.hits]_vars

=============================================================================
