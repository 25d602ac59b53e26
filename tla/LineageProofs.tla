---------------------------- MODULE LineageProofs -----------------------------
(***************************************************************************)
(* What a message or a row can be, given the request it belongs to, and    *)
(* what follows from it: every event has a handler, content stays with its *)
(* URI, rows do not multiply, text searches respect top_k.                 *)
(***************************************************************************)
EXTENDS PipelineSteps, SequenceTheorems, FiniteSetTheorems

\* The types of a request's event.
Requested == {"ingest.requested", "search.requested"}

\* The document id in whatever is derived from the request.
DocFor(r) == IF Input[r].kind = "ingest" THEN r ELSE SearchDoc

\* The request was delivered c times, to the router or to a worker.
Delivered(r, c) == \E m \in stream : m.env = RequestEnv(r) /\ c \in 1..m.dlv

\* The message is the request, as the gateway or as the router published it.
IsRequest(m) ==
    LET r == m.env.corr
    IN  /\ m.env = RequestEnv(r)
        /\ \/ m.topic = "ingress" /\ m.path = <<>>
           \/ m.topic = Route(r) /\ \E c \in Nat : m.path = <<c, 1>> /\ Delivered(r, c)

\* A text of the request: its own, or what its worker has read at its URI.
PartText(r, text) ==
    IF Route(r) = "embed" THEN text = RequestEnv(r).data.text
    ELSE /\ text.src \in Requests
         /\ UriOf(text.src) = UriOf(r)
         /\ IF Route(r) = "chunk" THEN text.n \in 1..Input[text.src].pieces ELSE text.n = 0

\* The chunk id of its n-th part: of the document, or of a run of the chunker.
PartChunk(r, chunk, n) ==
    /\ chunk.doc = DocFor(r)
    /\ \/ Route(r) = "embed" /\ chunk.tag = "whole" /\ chunk.path = <<>>
       \/ Route(r) = "vision" /\ chunk.tag = "vision" /\ chunk.path = <<>>
       \/ /\ Route(r) = "chunk" /\ chunk.tag = "piece"
          /\ \E c, d \in Nat : chunk.path = <<c, 1, d, n>> /\ Delivered(r, c) /\ Delivered(r, d)

IsPart(r, chunk, text) == PartText(r, text) /\ PartChunk(r, chunk, text.n)

\* The event carries a part of its request.
IsDerived(env) ==
    LET r == env.corr
    IN  /\ env.data.orig = RequestEnv(r).type
        /\ env.data.doc = DocFor(r)
        /\ IsPart(r, env.data.chunk, env.data.text)
        /\ Route(r) = "chunk" => Input[r].kind = "ingest"

\* Requests go to ingress and to the worker of their route, what the first
\* worker derives goes over ingress to the embedder, its result over ingress
\* to the engine, and the answer to the gateways.
Lineage(m) ==
    LET r == m.env.corr
        type == m.env.type
    IN  \/ type \in Requested /\ IsRequest(m)
        \/ /\ <<type, Route(r)>> \in {<<"chunk.completed", "chunk">>, <<"vision.completed", "vision">>}
           /\ m.topic \in {"ingress", "embed"}
           /\ IsDerived(m.env)
        \/ /\ type = "embed.completed"
           /\ m.topic \in {"ingress", "engine"}
           /\ IsDerived(m.env)
           /\ Route(r) = "embed" => m.env.data.topk = RequestEnv(r).data.topk
        \/ type = "search.completed" /\ m.topic = "replies" /\ Input[r].kind = "search"

\* A row is a part of a document.
RowLineage(row) ==
    /\ row.doc \in Requests
    /\ Input[row.doc].kind = "ingest"
    /\ row.tenant = Input[row.doc].tenant
    /\ IsPart(row.doc, row.chunk, row.text)

MessagesInv == \A m \in stream : Lineage(m) /\ m.st # "termed"

\* Rows are keyed by tenant and chunk id.
RowsInv ==
    \A e \in Engines :
        /\ \A row \in db[e] : RowLineage(row)
        /\ \A a, b \in db[e] : a.tenant = b.tenant /\ a.chunk = b.chunk => a = b

\* A URI holds the content of a request with that URI.
BlobsInv == \A u \in URIs : blobs[u] # None => UriOf(blobs[u]) = u

LInv == MessagesInv /\ RowsInv /\ BlobsInv

-----------------------------------------------------------------------------
\* The fields of a request's envelope.
LEMMA RequestEnvIs ==
    ASSUME NEW r \in Requests
    PROVE  /\ RequestEnv(r).type = IF Input[r].kind = "ingest" THEN "ingest.requested" ELSE "search.requested"
           /\ RequestEnv(r).corr = r
           /\ RequestEnv(r).tenant = Input[r].tenant
           /\ RequestEnv(r).data.doc = IF Input[r].kind = "ingest" THEN r ELSE None
           /\ RequestEnv(r).data.text = IF Input[r].text = "none" \/ Offloaded(r) THEN NoText ELSE Whole(r)
           /\ RequestEnv(r).data.blob = IF HasUpload(r) THEN UriOf(r) ELSE NoBlob
           /\ RequestEnv(r).data.mime = Input[r].mime
           /\ RequestEnv(r).data.topk = IF Input[r].kind = "ingest" THEN 0 ELSE Input[r].topk
  BY DEF RequestEnv, NewEnvelope, NoPayload

\* What a request asks for, and the three routes there are.
LEMMA RouteType ==
    ASSUME NEW r \in Requests
    PROVE  /\ Route(r) \in {"vision", "chunk", "embed"}
           /\ RequestEnv(r).type \in Requested
           /\ Input[r].kind \in {"ingest", "search"}
<1>1. Input[r].kind \in {"ingest", "search"}
  BY InputAssumption DEF InputType
<1>2. RequestEnv(r).type \in Requested
  BY RequestEnvIs DEF Requested
<1> QED
  BY <1>1, <1>2 DEF Route, Classify, Requested

\* What was delivered stays delivered.
LEMMA DeliveredStays ==
    ASSUME IInv, [Next]_vars, NEW r, NEW c, Delivered(r, c)
    PROVE  Delivered(r, c)'
<1>1. PICK m \in stream : m.env = RequestEnv(r) /\ c \in 1..m.dlv
  BY DEF Delivered
<1>2. PICK x \in stream' : Later(m, x)
  BY MessagesStay
<1>3. m.dlv \in Nat /\ x.dlv \in Nat
  <2>1. m \in Messages
    BY DEF IInv, TypeOK, BusTypeOK
  <2>2. IInv'
    BY NextPreserves
  <2> QED
    BY <2>1, <2>2, BusAssumption DEF IInv, TypeOK, BusTypeOK, Messages
<1> QED
  BY <1>1, <1>2, <1>3 DEF Later, Same, Delivered

\* So what a message or a row is by its lineage, it remains.
LEMMA PartStays ==
    ASSUME IInv, [Next]_vars, NEW r, NEW chunk, NEW text, IsPart(r, chunk, text)
    PROVE  IsPart(r, chunk, text)'
<1>1. PartText(r, text)'
  BY DEF IsPart, PartText
<1>2. PartChunk(r, chunk, text.n)'
  BY DeliveredStays DEF IsPart, PartChunk
<1> QED
  BY <1>1, <1>2 DEF IsPart

\* The same for messages.
LEMMA LineageStays ==
    ASSUME IInv, [Next]_vars, NEW m, Lineage(m)
    PROVE  Lineage(m)'
<1>1. IsRequest(m) => IsRequest(m)'
  BY DeliveredStays DEF IsRequest
<1>2. IsDerived(m.env) => IsDerived(m.env)'
  BY PartStays DEF IsDerived
<1> QED
  BY <1>1, <1>2 DEF Lineage

\* And for rows.
LEMMA RowStays ==
    ASSUME IInv, [Next]_vars, NEW row, RowLineage(row)
    PROVE  RowLineage(row)'
  BY PartStays DEF RowLineage

\* Lineage does not depend on deliveries and verdicts of the message itself.
LEMMA LineageOfSame ==
    ASSUME NEW y, NEW x, Same(y, x), Lineage(y)
    PROVE  Lineage(x)
  BY DEF Same, Lineage, IsRequest

-----------------------------------------------------------------------------
\* A message that is being handled, as the lemmas below use it.
LEMMA HandledMessage ==
    ASSUME IInv, NEW m \in stream, m.held > 0
    PROVE  /\ m.env.corr \in Requests
           /\ m.path \in Seq(Nat)
           /\ m.dlv - m.held + 1 \in 1..m.dlv
           /\ m.env.tenant = Input[m.env.corr].tenant
<1>1. m \in Messages /\ m.held <= m.dlv /\ EnvOK(m.env)
  BY DEF IInv, TypeOK, BusTypeOK
<1>2. m.path \in Seq(Nat) /\ m.held \in Nat /\ m.dlv \in Nat
  BY <1>1, BusAssumption DEF Messages
<1>3. m.dlv - m.held + 1 \in 1..m.dlv
  BY <1>1, <1>2
<1> QED
  BY <1>1, <1>2, <1>3 DEF EnvOK, Envelopes

\* The router sends a request to the worker of its route, and an event that
\* is derived from one to where its lineage says.
LEMMA RouterLineage ==
    ASSUME IInv, NEW m \in stream, m.held > 0, m.topic = "ingress", Lineage(m),
           NEW topic, Emits(m, 1, topic, m.env)
    PROVE  Lineage(NewMessage(ChildPath(m, 1), topic, m.env))
<1> DEFINE r == m.env.corr
           x == NewMessage(ChildPath(m, 1), topic, m.env)
           c == m.dlv - m.held + 1
<1>1. r \in Requests /\ c \in 1..m.dlv /\ c \in Nat
  BY HandledMessage DEF IInv, TypeOK, BusTypeOK
<1>2. topic = IF Classify(m.env) = "unroutable" THEN "dlq" ELSE Classify(m.env)
  BY DEF Emits
<1>3. x.env = m.env /\ x.topic = topic /\ x.path = m.path \o <<c, 1>>
  BY DEF NewMessage, ChildPath
<1> HIDE DEF x, c
<1>4. CASE m.env.type \in Requested /\ IsRequest(m)
  <2>1. m.env = RequestEnv(r) /\ Route(r) # "ingress"
    BY <1>1, <1>4, RouteType DEF IsRequest
  <2>2. m.path = <<>>
    BY <1>4, <2>1 DEF IsRequest
  <2>3. x.path = <<c, 1>>
    BY <1>3, <2>2
  <2>4. topic = Route(r)
    BY <1>1, <1>2, <2>1, RouteType DEF Route
  <2>5. Delivered(r, c)
    BY <1>1, <2>1 DEF Delivered
  <2>6. IsRequest(x)
    BY <1>1, <1>3, <2>1, <2>3, <2>4, <2>5 DEF IsRequest
  <2> QED
    BY <1>3, <1>4, <2>6 DEF Lineage, x
<1>5. CASE m.env.type \in {"chunk.completed", "vision.completed"}
  <2>1. topic = "embed"
    BY <1>2, <1>5 DEF Classify
  <2> QED
    BY <1>3, <1>5, <2>1 DEF Lineage, Requested, x
<1>6. CASE m.env.type = "embed.completed"
  <2>1. topic = "engine"
    BY <1>2, <1>6 DEF Classify
  <2> QED
    BY <1>3, <1>6, <2>1 DEF Lineage, Requested, x
<1> QED
  BY <1>4, <1>5, <1>6 DEF Lineage

\* A task of the chunker is a document of that route, and a task of the
\* vision worker a request of that one.
LEMMA WorkerTask ==
    ASSUME IInv, NEW m \in stream, m.topic \in {"chunk", "vision"}, Lineage(m)
    PROVE  /\ m.env.corr \in Requests
           /\ m.env = RequestEnv(m.env.corr)
           /\ m.topic = Route(m.env.corr)
           /\ \E c \in Nat : m.path = <<c, 1>> /\ Delivered(m.env.corr, c)
<1>1. EnvOK(m.env)
  BY DEF IInv
<1> QED
  BY <1>1 DEF Lineage, IsRequest, Requested, EnvOK, Envelopes

\* What a worker downloads for a request comes from a request with that URI.
LEMMA DownloadFrom ==
    ASSUME IInv, BlobsInv, NEW r \in Requests, Downloads(RequestEnv(r))
    PROVE  /\ HasUpload(r)
           /\ RequestEnv(r).data.blob = UriOf(r)
           /\ blobs[UriOf(r)] \in Requests
           /\ UriOf(blobs[UriOf(r)]) = UriOf(r)
<1>1. HasUpload(r) /\ RequestEnv(r).data.blob = UriOf(r)
  BY RequestEnvIs DEF Downloads
<1>2. UriOf(r) \in URIs
  BY UriOfType
<1>3. blobs[UriOf(r)] # None
  BY <1>1 DEF Downloads
<1> QED
  BY <1>1, <1>2, <1>3 DEF IInv, TypeOK, BlobsInv

\* Two pairs of numbers, one after the other.
LEMMA PairsConcat ==
    ASSUME NEW a \in Nat, NEW b \in Nat, NEW c \in Nat, NEW d \in Nat
    PROVE  <<a, b>> \o <<c, d>> = <<a, b, c, d>>
<1> DEFINE s == <<a, b>>
           t == <<c, d>>
           u == <<a, b, c, d>>
<1>1. s \in Seq(Nat) /\ t \in Seq(Nat) /\ u \in Seq(Nat)
  OBVIOUS
<1>2. Len(s) = 2 /\ Len(t) = 2 /\ Len(u) = 4
  OBVIOUS
<1>3. s \o t \in Seq(Nat) /\ Len(s \o t) = 4
  BY <1>1, <1>2, ConcatProperties
<1>4. ASSUME NEW i \in 1..4 PROVE (s \o t)[i] = u[i]
  <2>1. CASE i <= 2
    BY <1>1, <1>2, <2>1, ConcatProperties
  <2>2. CASE i > 2
    BY <1>1, <1>2, <2>2, ConcatProperties
  <2> QED
    BY <2>1, <2>2
<1> QED
  BY <1>1, <1>2, <1>3, <1>4, SeqEqual

\* A piece of a document.
LEMMA ChunkLineage ==
    ASSUME IInv, BlobsInv, NEW m \in stream, m.held > 0, m.topic = "chunk", Lineage(m),
           NEW k \in Nat, NEW topic, NEW env, Emits(m, k, topic, env)
    PROVE  Lineage(NewMessage(ChildPath(m, k), topic, env))
<1> DEFINE r == m.env.corr
           q == blobs[m.env.data.blob]
           d == m.dlv - m.held + 1
           x == NewMessage(ChildPath(m, k), topic, env)
<1>1. /\ m.env.type = "ingest.requested" /\ Downloads(m.env)
      /\ k \in 1..Input[q].pieces
      /\ topic = "ingress" /\ env \in OrCut(ChunkEnv(m, k))
  BY DEF Emits
<1>2. r \in Requests /\ m.env = RequestEnv(r) /\ Route(r) = "chunk"
  BY WorkerTask
<1>3. PICK c \in Nat : m.path = <<c, 1>> /\ Delivered(r, c)
  BY WorkerTask
<1>4. q \in Requests /\ UriOf(q) = UriOf(r)
  BY <1>1, <1>2, DownloadFrom
<1>5. Input[r].kind = "ingest" /\ DocFor(r) = r /\ m.env.data.doc = r
  BY <1>1, <1>2, RequestEnvIs DEF DocFor
<1>6. d \in Nat /\ Delivered(r, d)
  BY <1>2, HandledMessage DEF Delivered
<1>7. ChildPath(m, k) = <<c, 1, d, k>>
  <2>1. ChildPath(m, k) = <<c, 1>> \o <<d, k>>
    BY <1>3 DEF ChildPath
  <2> HIDE DEF d
  <2> QED
    BY <1>6, <2>1, PairsConcat
<1>8. /\ env.type = "chunk.completed" /\ env.corr = r
      /\ env.data.doc = r /\ env.data.orig = "ingest.requested"
      /\ env.data.text.src = q /\ env.data.text.n = k
      /\ env.data.chunk = [doc |-> r, tag |-> "piece", path |-> ChildPath(m, k)]
  <2> DEFINE whole == ChunkEnv(m, k)
  <2>1. EnvOK(whole) /\ env \in OrCut(whole)
    BY <1>1, ChunkEnvOK
  <2>2. /\ whole.type = "chunk.completed" /\ whole.corr = r
        /\ whole.data.doc = r /\ whole.data.orig = "ingest.requested"
        /\ whole.data.text.src = q /\ whole.data.text.n = k
        /\ whole.data.chunk = [doc |-> r, tag |-> "piece", path |-> ChildPath(m, k)]
    BY <1>1, <1>5 DEF ChunkEnv, NewEnvelope, Derived, NoPayload, Piece
  <2> HIDE DEF whole
  <2> QED
    BY <2>1, <2>2, OrCutIs
<1> HIDE DEF q, d
<1>9. PartText(r, env.data.text)
  BY <1>1, <1>2, <1>4, <1>8 DEF PartText
<1>10. PartChunk(r, env.data.chunk, env.data.text.n)
  BY <1>2, <1>3, <1>5, <1>6, <1>7, <1>8 DEF PartChunk
<1>11. IsDerived(env)
  BY <1>2, <1>5, <1>8, <1>9, <1>10, RequestEnvIs DEF IsDerived, IsPart
<1>12. x.env = env /\ x.topic = topic
  BY DEF NewMessage
<1> HIDE DEF x
<1> QED
  BY <1>1, <1>2, <1>8, <1>11, <1>12 DEF Lineage, x

\* The description of an image.
LEMMA VisionLineage ==
    ASSUME IInv, BlobsInv, NEW m \in stream, m.held > 0, m.topic = "vision", Lineage(m),
           NEW k \in Nat, NEW topic, NEW env, Emits(m, k, topic, env)
    PROVE  Lineage(NewMessage(ChildPath(m, k), topic, env))
<1> DEFINE r == m.env.corr
           q == blobs[m.env.data.blob]
           x == NewMessage(ChildPath(m, k), topic, env)
<1>1. Downloads(m.env) /\ topic = "ingress" /\ env \in OrCut(VisionEnv(m))
  BY DEF Emits
<1>2. r \in Requests /\ m.env = RequestEnv(r) /\ Route(r) = "vision"
  BY WorkerTask
<1>3. q \in Requests /\ UriOf(q) = UriOf(r)
  BY <1>1, <1>2, DownloadFrom
<1>4. (IF m.env.type = "ingest.requested" THEN m.env.data.doc ELSE SearchDoc) = DocFor(r)
  BY <1>2, RequestEnvIs, RouteType DEF DocFor
<1>5. /\ env.type = "vision.completed" /\ env.corr = r
      /\ env.data.doc = DocFor(r) /\ env.data.orig = m.env.type
      /\ env.data.text.src = q /\ env.data.text.n = 0
      /\ env.data.chunk = [doc |-> DocFor(r), tag |-> "vision", path |-> <<>>]
  <2> DEFINE whole == VisionEnv(m)
  <2>1. EnvOK(whole) /\ env \in OrCut(whole)
    BY <1>1, VisionEnvOK
  <2>2. /\ whole.type = "vision.completed" /\ whole.corr = r
        /\ whole.data.doc = DocFor(r) /\ whole.data.orig = m.env.type
        /\ whole.data.text.src = q /\ whole.data.text.n = 0
        /\ whole.data.chunk = [doc |-> DocFor(r), tag |-> "vision", path |-> <<>>]
    BY <1>1, <1>4 DEF VisionEnv, NewEnvelope, Derived, NoPayload, Whole
  <2> HIDE DEF whole
  <2> QED
    BY <2>1, <2>2, OrCutIs
<1> HIDE DEF q
<1>6. PartText(r, env.data.text)
  BY <1>2, <1>3, <1>5 DEF PartText
<1>7. PartChunk(r, env.data.chunk, env.data.text.n)
  BY <1>2, <1>5 DEF PartChunk
<1>8. IsDerived(env)
  BY <1>2, <1>5, <1>6, <1>7 DEF IsDerived, IsPart
<1>9. x.env = env /\ x.topic = topic
  BY DEF NewMessage
<1> HIDE DEF x
<1> QED
  BY <1>1, <1>2, <1>5, <1>8, <1>9 DEF Lineage, x

\* A task of the embedder is a request without a worker before it, or what
\* the worker before it made of the request.
LEMMA EmbedTask ==
    ASSUME IInv, NEW m \in stream, m.topic = "embed", Lineage(m)
    PROVE  /\ m.env.corr \in Requests
           /\ \/ /\ m.env = RequestEnv(m.env.corr) /\ m.env.type \in Requested
                 /\ Route(m.env.corr) = "embed"
              \/ /\ m.env.type \in {"chunk.completed", "vision.completed"}
                 /\ Route(m.env.corr) \in {"chunk", "vision"}
                 /\ IsDerived(m.env)
<1>1. EnvOK(m.env)
  BY DEF IInv
<1> QED
  BY <1>1 DEF Lineage, IsRequest, Requested, EnvOK, Envelopes

\* The embedded part.
LEMMA EmbedLineage ==
    ASSUME IInv, NEW m \in stream, m.held > 0, m.topic = "embed", Lineage(m),
           NEW k \in Nat, NEW topic, NEW env, Emits(m, k, topic, env)
    PROVE  Lineage(NewMessage(ChildPath(m, k), topic, env))
<1> DEFINE r == m.env.corr
           x == NewMessage(ChildPath(m, k), topic, env)
           request == m.env.type \in Requested
<1>1. PICK dim \in Dims : topic = "ingress" /\ env = EmbedEnv(m, dim)
  BY DEF Emits
<1>2. r \in Requests
  BY EmbedTask
<1>3. /\ env.type = "embed.completed" /\ env.corr = r
      /\ env.data.doc = IF m.env.type = "search.requested" THEN SearchDoc ELSE m.env.data.doc
      /\ env.data.orig = IF request THEN m.env.type ELSE m.env.data.orig
      /\ env.data.text = m.env.data.text
      /\ env.data.chunk = IF request THEN [doc |-> env.data.doc, tag |-> "whole", path |-> <<>>]
                                     ELSE m.env.data.chunk
      /\ env.data.topk = IF m.env.type = "search.requested" THEN m.env.data.topk ELSE 0
  BY <1>1 DEF EmbedEnv, NewEnvelope, NoPayload, Requested
<1>4. IsDerived(env) /\ (Route(r) = "embed" => env.data.topk = RequestEnv(r).data.topk)
  <2>1. CASE m.env = RequestEnv(r) /\ request /\ Route(r) = "embed"
    <3>1. env.data.doc = DocFor(r)
      BY <1>2, <1>3, <2>1, RequestEnvIs, RouteType DEF DocFor, Requested
    <3>2. PartText(r, env.data.text)
      BY <1>3, <2>1 DEF PartText
    <3>3. PartChunk(r, env.data.chunk, env.data.text.n)
      BY <1>3, <2>1, <3>1 DEF PartChunk
    <3>4. env.data.topk = RequestEnv(r).data.topk
      BY <1>2, <1>3, <2>1, RequestEnvIs, RouteType
    <3> QED
      BY <1>3, <2>1, <3>1, <3>2, <3>3, <3>4 DEF IsDerived, IsPart
  <2>2. CASE /\ m.env.type \in {"chunk.completed", "vision.completed"}
             /\ Route(r) \in {"chunk", "vision"}
             /\ IsDerived(m.env)
    BY <1>3, <2>2 DEF IsDerived, Requested
  <2> QED
    BY <2>1, <2>2, EmbedTask
<1>5. x.env = env /\ x.topic = topic
  BY DEF NewMessage
<1> HIDE DEF x
<1> QED
  BY <1>1, <1>3, <1>4, <1>5 DEF Lineage, x

\* A task of the engine is a part of its request.
LEMMA EngineTask ==
    ASSUME IInv, NEW m \in stream, m.topic = "engine", Lineage(m)
    PROVE  /\ m.env.corr \in Requests
           /\ m.env.type = "embed.completed"
           /\ IsDerived(m.env)
           /\ Route(m.env.corr) = "embed" => m.env.data.topk = RequestEnv(m.env.corr).data.topk
           /\ Intent(m.env) = IF Input[m.env.corr].kind = "ingest" THEN "upsert" ELSE "search"
<1>1. EnvOK(m.env)
  BY DEF IInv
<1>2. m.env.corr \in Requests
  BY <1>1 DEF EnvOK, Envelopes
<1>3. /\ m.env.type = "embed.completed" /\ IsDerived(m.env)
      /\ Route(m.env.corr) = "embed" => m.env.data.topk = RequestEnv(m.env.corr).data.topk
  BY <1>2, RouteType DEF Lineage, IsRequest
<1>4. m.env.data.orig = RequestEnv(m.env.corr).type
  BY <1>3 DEF IsDerived
<1> QED
  BY <1>2, <1>3, <1>4, RequestEnvIs, RouteType DEF Intent

\* The answer to a search.
LEMMA ReplyLineage ==
    ASSUME IInv, NEW m \in stream, m.held > 0, m.topic = "engine", Lineage(m),
           NEW k \in Nat, NEW topic, NEW env, Emits(m, k, topic, env)
    PROVE  Lineage(NewMessage(ChildPath(m, k), topic, env))
<1> DEFINE r == m.env.corr
           x == NewMessage(ChildPath(m, k), topic, env)
<1>1. /\ Intent(m.env) = "search" /\ topic = "replies"
      /\ \E e \in Engines : \E hits \in Nearest(e, m.env) : env = ReplyEnv(m, hits)
  BY DEF Emits
<1>2. env.type = "search.completed" /\ env.corr = r
  BY <1>1 DEF ReplyEnv, NewEnvelope
<1>3. Input[r].kind = "search"
  BY <1>1, EngineTask, RouteType
<1>4. x.env = env /\ x.topic = topic
  BY DEF NewMessage
<1> HIDE DEF x
<1> QED
  BY <1>1, <1>2, <1>3, <1>4 DEF Lineage, x

\* Whatever a handler emits has a lineage.
LEMMA EmitsLineage ==
    ASSUME IInv, BlobsInv, NEW m \in stream, m.held > 0, Lineage(m),
           NEW k \in Nat, NEW topic, NEW env, Emits(m, k, topic, env)
    PROVE  Lineage(NewMessage(ChildPath(m, k), topic, env))
<1>1. CASE m.topic = "ingress"
  <2>1. k = 1 /\ env = m.env
    BY <1>1 DEF Emits
  <2> QED
    BY <1>1, <2>1, RouterLineage
<1> QED
  BY <1>1, ChunkLineage, VisionLineage, EmbedLineage, ReplyLineage DEF Emits

-----------------------------------------------------------------------------
\* The classifier has a route for whatever is on ingress.
LEMMA IngressIsRoutable ==
    ASSUME IInv, NEW m \in stream, m.topic = "ingress", Lineage(m)
    PROVE  Classify(m.env) # "unroutable"
  BY DEF Lineage, Classify, Requested

\* Messages keep to their lineage.
LEMMA MessagesPreserved ==
    ASSUME IInv, LInv, [Next]_vars
    PROVE  MessagesInv'
<1> SUFFICES ASSUME NEW x \in stream' PROVE Lineage(x)' /\ x.st # "termed"
  BY DEF MessagesInv
<1>1. ASSUME NEW y \in stream, Later(y, x)
      PROVE  Lineage(x) /\ x.st # "termed"
  BY <1>1, LineageOfSame, IngressIsRoutable DEF LInv, MessagesInv, Later
<1>2. ASSUME NEW r \in Requests, x = NewMessage(<<>>, "ingress", RequestEnv(r))
      PROVE  Lineage(x) /\ x.st # "termed"
  <2>1. x.env = RequestEnv(r) /\ x.topic = "ingress" /\ x.path = <<>> /\ x.st = "pending"
    BY <1>2 DEF NewMessage
  <2>2. x.env.corr = r /\ x.env.type \in Requested
    BY <2>1, RequestEnvIs, RouteType
  <2> QED
    BY <2>1, <2>2 DEF Lineage, IsRequest
<1>3. ASSUME NEW m \in stream, NEW k \in Nat, NEW topic, NEW env, m.held > 0,
             Emits(m, k, topic, env), x = NewMessage(ChildPath(m, k), topic, env)
      PROVE  Lineage(x) /\ x.st # "termed"
  <2>1. Lineage(x)
    BY <1>3, EmitsLineage DEF LInv, MessagesInv
  <2>2. x.st = "pending"
    BY <1>3 DEF NewMessage
  <2> QED
    BY <2>1, <2>2
<1>4. Lineage(x) /\ x.st # "termed"
  BY <1>1, <1>2, <1>3, MessagesComeFrom
<1> QED
  BY <1>4, LineageStays

\* The row of an upsert is a part of the document.
LEMMA UpsertLineage ==
    ASSUME IInv, NEW m \in stream, m.topic = "engine", Intent(m.env) = "upsert", Lineage(m)
    PROVE  RowLineage(RowOf(m.env)) /\ RowOf(m.env).doc = m.env.corr
<1> DEFINE r == m.env.corr
<1>1. r \in Requests /\ IsDerived(m.env) /\ Input[r].kind = "ingest"
  BY EngineTask
<1>2. m.env.tenant = Input[r].tenant
  BY DEF IInv, EnvOK
<1>3. m.env.data.doc = r /\ IsPart(r, m.env.data.chunk, m.env.data.text)
  BY <1>1 DEF IsDerived, DocFor
<1> QED
  BY <1>1, <1>2, <1>3 DEF RowLineage, RowOf

\* Rows are made from messages of their lineage, one for each chunk id.
LEMMA RowsPreserved ==
    ASSUME IInv, LInv, [Next]_vars
    PROVE  RowsInv'
<1> SUFFICES ASSUME NEW e \in Engines
             PROVE  /\ \A row \in db'[e] : RowLineage(row)'
                    /\ \A a, b \in db'[e] : a.tenant = b.tenant /\ a.chunk = b.chunk => a = b
  BY DEF RowsInv
<1>1. /\ \A row \in db[e] : RowLineage(row)
      /\ \A a, b \in db[e] : a.tenant = b.tenant /\ a.chunk = b.chunk => a = b
  BY DEF LInv, RowsInv
<1>2. CASE db'[e] \in {db[e], {}}
  BY <1>1, <1>2, RowStays
<1>3. ASSUME NEW m \in stream, m.topic = "engine", Intent(m.env) = "upsert",
             db'[e] = Upserted(db[e], RowOf(m.env))
      PROVE  /\ \A row \in db'[e] : RowLineage(row)
             /\ \A a, b \in db'[e] : a.tenant = b.tenant /\ a.chunk = b.chunk => a = b
  <2> DEFINE new == RowOf(m.env)
  <2>1. RowLineage(new)
    BY <1>3, UpsertLineage DEF LInv, MessagesInv
  <2> HIDE DEF new
  <2>2. db'[e] = {old \in db[e] : ~(old.tenant = new.tenant /\ old.chunk = new.chunk)} \cup {new}
    BY <1>3 DEF Upserted, new
  <2> QED
    BY <1>1, <2>1, <2>2
<1> QED
  BY <1>2, <1>3, RowStep, RowStays

\* Uploads write to the URI of their request.
LEMMA BlobsPreserved ==
    ASSUME IInv, LInv, [Next]_vars
    PROVE  BlobsInv'
<1> SUFFICES ASSUME NEW u \in URIs, blobs'[u] # None PROVE UriOf(blobs'[u]) = u
  BY DEF BlobsInv
<1> QED
  BY BlobStep DEF LInv, BlobsInv

\* The lineage of messages and rows is an invariant.
THEOREM LineageInductive == Spec => []LInv
<1>1. Init => LInv
  BY DEF Init, LInv, MessagesInv, RowsInv, BlobsInv
<1>2. IInv /\ LInv /\ [Next]_vars => LInv'
  BY MessagesPreserved, RowsPreserved, BlobsPreserved DEF LInv
<1> QED
  BY <1>1, <1>2, Inductive, PTL DEF Spec

-----------------------------------------------------------------------------
\* Whatever the components publish, and however calls fail and overlap, each
\* event gets to a branch that is written for it, but for the searches with a
\* text file, which go to the chunker; the DLQ stays empty.
THEOREM EventsAreHandled == Spec => []EveryEventHasAHandler
<1>1. IInv /\ LInv => EveryEventHasAHandler
  <2> SUFFICES ASSUME IInv, LInv, NEW m \in stream
               PROVE  /\ m.topic # "dlq" /\ m.st # "termed"
                      /\ m.topic = "ingress" => Classify(m.env) # "unroutable"
                      /\ m.topic = "chunk" =>
                            m.env.type = "ingest.requested" \/ TextFileSearch(m.env.corr)
                      /\ m.topic = "vision" => m.env.type \in {"ingest.requested", "search.requested"}
                      /\ m.topic = "embed" => m.env.type \in Embeddable
                      /\ m.topic = "engine" => Intent(m.env) # "none"
    BY DEF EveryEventHasAHandler
  <2>1. Lineage(m) /\ m.st # "termed"
    BY DEF LInv, MessagesInv
  <2>2. m.env.corr \in Requests
    BY DEF IInv, EnvOK, Envelopes
  <2>3. m.topic # "dlq"
    BY <2>1, <2>2, RouteType DEF Lineage, IsRequest
  <2>4. m.topic = "ingress" => Classify(m.env) # "unroutable"
    BY <2>1, IngressIsRoutable
  <2>5. /\ m.topic = "chunk" => m.env.type = "ingest.requested" \/ TextFileSearch(m.env.corr)
        /\ m.topic = "vision" => m.env.type \in {"ingest.requested", "search.requested"}
    BY <2>1, <2>2, WorkerTask, RequestEnvIs, RouteType DEF TextFileSearch
  <2>6. m.topic = "embed" => m.env.type \in Embeddable
    BY <2>1 DEF Lineage, Requested, Embeddable
  <2>7. m.topic = "engine" => Intent(m.env) # "none"
    BY <2>1, EngineTask
  <2> QED
    BY <2>1, <2>3, <2>4, <2>5, <2>6, <2>7
<1> QED
  BY <1>1, Inductive, LineageInductive, PTL

\* Content is mixed up between documents only through a shared URI, that is
\* within a tenant and a file name, whichever blobs are replaced when.
THEOREM ContentStaysAtUri == Spec => []ContentOfOwnUri
<1>1. LInv => ContentOfOwnUri
  <2> SUFFICES ASSUME LInv, NEW e \in Engines, NEW row \in db[e]
               PROVE  \/ row.text = NoText
                      \/ row.text.src = row.doc
                      \/ UriOf(row.text.src) = UriOf(row.doc)
    BY DEF ContentOfOwnUri
  <2>1. row.doc \in Requests /\ PartText(row.doc, row.text)
    BY DEF LInv, RowsInv, RowLineage, IsPart
  <2>2. CASE Route(row.doc) = "embed"
    <3>1. row.text = RequestEnv(row.doc).data.text
      BY <2>1, <2>2 DEF PartText
    <3>2. RequestEnv(row.doc).data.text \in {NoText, Whole(row.doc)}
      BY <2>1, RequestEnvIs
    <3>3. Whole(row.doc).src = row.doc
      BY DEF Whole
    <3> QED
      BY <3>1, <3>2, <3>3
  <2>3. CASE Route(row.doc) # "embed"
    BY <2>1, <2>3 DEF PartText
  <2> QED
    BY <2>2, <2>3
<1> QED
  BY <1>1, LineageInductive, PTL

\* A document has one row for each part, unless it is chunked and its request
\* was delivered more than once.
THEOREM RowsDoNotMultiply == Spec => []OneRowPerPart
<1>1. IInv /\ LInv => OneRowPerPart
  <2> SUFFICES ASSUME IInv, LInv, NEW e \in Engines, NEW a \in db[e], NEW b \in db[e],
                      a # b, a.doc = b.doc, a.text.n = b.text.n
               PROVE  /\ Route(a.doc) = "chunk"
                      /\ \E m \in stream : /\ m.env.corr = a.doc
                                           /\ m.env.type = "ingest.requested"
                                           /\ m.dlv > 1
    BY DEF OneRowPerPart
  <2> DEFINE r == a.doc
             n == a.text.n
  <2>1. RowLineage(a) /\ RowLineage(b)
    BY DEF LInv, RowsInv
  <2>2. a.tenant = b.tenant
    BY <2>1 DEF RowLineage
  <2>3. a.chunk # b.chunk
    BY <2>2 DEF LInv, RowsInv
  <2>4. a.chunk \in ChunkIds /\ b.chunk \in ChunkIds
    BY DEF IInv, TypeOK, Records
  <2>5. /\ r \in Requests /\ Input[r].kind = "ingest"
        /\ PartChunk(r, a.chunk, n) /\ PartChunk(r, b.chunk, n)
    BY <2>1 DEF RowLineage, IsPart
  <2>6. ~(/\ a.chunk.doc = b.chunk.doc
          /\ a.chunk.tag = b.chunk.tag
          /\ a.chunk.path = b.chunk.path)
    BY <2>3, <2>4 DEF ChunkIds
  <2>7. Route(r) = "chunk"
    BY <2>5, <2>6, RouteType DEF PartChunk
  <2>8. PICK c \in Nat, d \in Nat :
            a.chunk.path = <<c, 1, d, n>> /\ Delivered(r, c) /\ Delivered(r, d)
    BY <2>5, <2>7 DEF PartChunk
  <2>9. PICK c2 \in Nat, d2 \in Nat :
            b.chunk.path = <<c2, 1, d2, n>> /\ Delivered(r, c2) /\ Delivered(r, d2)
    BY <2>5, <2>7 DEF PartChunk
  <2>10. c # c2 \/ d # d2
    BY <2>5, <2>6, <2>7, <2>8, <2>9 DEF PartChunk
  <2>11. ASSUME NEW k \in Nat, Delivered(r, k) PROVE k >= 1
    BY <2>11 DEF Delivered
  <2>12. PICK k \in Nat : Delivered(r, k) /\ k > 1
    BY <2>8, <2>9, <2>10, <2>11
  <2>13. PICK m \in stream : m.env = RequestEnv(r) /\ k \in 1..m.dlv
    BY <2>12 DEF Delivered
  <2>14. m.dlv > 1
    <3>1. m.dlv \in Nat
      BY BusAssumption DEF IInv, TypeOK, BusTypeOK, Messages
    <3> QED
      BY <2>12, <2>13, <3>1
  <2>15. m.env.corr = r /\ m.env.type = "ingest.requested"
    BY <2>5, <2>13, RequestEnvIs
  <2> QED
    BY <2>7, <2>14, <2>15
<1> QED
  BY <1>1, Inductive, LineageInductive, PTL

=============================================================================
