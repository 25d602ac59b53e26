--------------------------- MODULE PipelineProofs ---------------------------
(***************************************************************************)
(* Type correctness and tenant isolation of the pipeline, for every set of *)
(* requests, tenants, file names and engines, every delivery limit and     *)
(* every combination of faults.                                            *)
(***************************************************************************)
EXTENDS Pipeline, TLAPS

\* A text, a document id and a blob that belong to tenant t.
TextOf(text, t) == text.src # None => Input[text.src].tenant = t
DocOf(doc, t)   == doc \in Requests => Input[doc].tenant = t
BlobOf(blob, t) == blob # NoBlob => blob.tenant = t

RowOK(row, t) == row.tenant = t /\ DocOf(row.doc, t) /\ TextOf(row.text, t)

\* Whatever an envelope names belongs to the tenant of its request.
EnvOK(env) ==
    /\ env \in Envelopes
    /\ env.tenant = Input[env.corr].tenant
    /\ DocOf(env.data.doc, env.tenant)
    /\ TextOf(env.data.text, env.tenant)
    /\ BlobOf(env.data.blob, env.tenant)
    /\ \A hit \in env.data.hits : RowOK(hit, env.tenant)

\* The blob store keeps tenants apart, because the URI names the tenant.
BlobsOK == \A u \in URIs : blobs[u] # None => Input[blobs[u]].tenant = u.tenant

IInv ==
    /\ TypeOK
    /\ \A m \in stream : EnvOK(m.env)
    /\ BlobsOK
    /\ \A e \in Engines : \A row \in db[e] : RowOK(row, row.tenant)

\* What handlers publish.
Outs == [topic : Topics, env : Envelopes]
OutOK(out) == out \in Seq(Outs) /\ \A k \in DOMAIN out : EnvOK(out[k].env)

Verdicts == {"acked", "termed", "nak"}

\* The part of the invariant that is about the bus.
BusOK == BusTypeOK /\ \A m \in stream : EnvOK(m.env)

-----------------------------------------------------------------------------
\* A fault is counted within the bound.
LEMMA FaultCounted == ASSUME BusTypeOK, NEW kind, Fault(kind) PROVE faults' \in 0..MaxFaults
  BY BusAssumption DEF BusTypeOK, Fault

\* A new message is of type and has no delivery yet.
LEMMA NewMessageType ==
    ASSUME NEW path \in Seq(Nat), NEW topic \in Topics, NEW env \in Envelopes
    PROVE  /\ NewMessage(path, topic, env) \in Messages
           /\ NewMessage(path, topic, env).held <= NewMessage(path, topic, env).dlv
           /\ NewMessage(path, topic, env).env = env
  BY BusAssumption DEF NewMessage, Messages

\* A message with other counters is a message.
LEMMA RecountedMessage ==
    ASSUME NEW m \in Messages, NEW dlv \in 0..MaxDeliver, NEW held \in 0..MaxDeliver
    PROVE  [m EXCEPT !.dlv = dlv, !.held = held] \in Messages
  BY DEF Messages

\* A message whose delivery is over is a message.
LEMMA SettledMessage ==
    ASSUME NEW m \in Messages, NEW held \in 0..MaxDeliver,
           NEW st \in {"pending", "acked", "termed"}
    PROVE  [m EXCEPT !.held = held, !.st = st] \in Messages
  BY DEF Messages

\* Settling a delivery and storing what the handler published keeps the
\* stream's type and the envelopes in order.
LEMMA AfterOK ==
    ASSUME BusOK, NEW m \in stream, m.held > 0, NEW verdict \in Verdicts,
           NEW out, OutOK(out), NEW stored \in SUBSET DOMAIN out,
           stream' = After(m, verdict, out, stored)
    PROVE  /\ stream' \subseteq Messages
           /\ \A x \in stream' : x.held <= x.dlv /\ EnvOK(x.env)
<1>1. /\ m \in Messages
      /\ m.held <= m.dlv
      /\ EnvOK(m.env)
  BY DEF BusOK, BusTypeOK
<1>2. /\ Settle(m, verdict) \in Messages
      /\ Settle(m, verdict).held <= Settle(m, verdict).dlv
      /\ Settle(m, verdict).env = m.env
  <2> DEFINE st == IF m.st = "pending" /\ verdict # "nak" THEN verdict ELSE m.st
  <2>1. Settle(m, verdict) = [m EXCEPT !.held = m.held - 1, !.st = st]
    BY <1>1 DEF Settle, Messages
  <2>2. m.held - 1 \in 0..MaxDeliver /\ m.held - 1 <= m.dlv
    BY <1>1, BusAssumption DEF Messages
  <2>3. st \in {"pending", "acked", "termed"}
    BY <1>1 DEF Messages, Verdicts
  <2> HIDE DEF st
  <2>4. Settle(m, verdict) \in Messages
    <3>1. [m EXCEPT !.held = m.held - 1, !.st = st] \in Messages
      BY ONLY <1>1, <2>2, <2>3, SettledMessage
    <3> QED
      BY <2>1, <3>1
  <2>5. /\ Settle(m, verdict).held = m.held - 1
        /\ Settle(m, verdict).dlv = m.dlv
        /\ Settle(m, verdict).env = m.env
    BY <1>1, <2>1 DEF Messages
  <2> QED
    BY <2>2, <2>4, <2>5
<1>3. ASSUME NEW k \in stored
      PROVE  LET x == NewMessage(ChildPath(m, k), out[k].topic, out[k].env)
             IN  x \in Messages /\ x.held <= x.dlv /\ EnvOK(x.env)
  <2>1. k \in Nat /\ out[k] \in Outs /\ EnvOK(out[k].env)
    BY DEF OutOK
  <2>2. ChildPath(m, k) \in Seq(Nat)
    <3>1. m.path \in Seq(Nat) /\ m.dlv - m.held + 1 \in Nat
      BY <1>1, BusAssumption DEF Messages
    <3> QED
      BY <2>1, <3>1 DEF ChildPath
  <2> QED
    BY <2>1, <2>2, NewMessageType DEF Outs
<1>4. ASSUME NEW x \in stream'
      PROVE  x \in Messages /\ x.held <= x.dlv /\ EnvOK(x.env)
  <2>1. CASE x \in stream
    BY <2>1 DEF BusOK, BusTypeOK
  <2>2. CASE x = Settle(m, verdict)
    BY <1>1, <1>2, <2>2
  <2>3. CASE x \in Published(m, out, stored)
    BY <1>3, <2>3 DEF Published
  <2> QED
    BY <2>1, <2>2, <2>3 DEF After
<1> QED
  BY <1>4

\* So does a whole handler call, whichever way it ends.
LEMMA FinishOK ==
    ASSUME BusOK, NEW m \in stream, m.held > 0, NEW out, OutOK(out),
           NEW verdict \in Verdicts, NEW onError \in Verdicts,
           Finish(m, out, verdict, onError)
    PROVE  BusOK'
<1>1. PICK v \in Verdicts, stored \in SUBSET DOMAIN out :
        stream' = After(m, v, out, stored)
  <2>1. CASE stream' = After(m, verdict, out, DOMAIN out)
    BY <2>1
  <2>2. CASE \E k \in 0..Len(out) : stream' = After(m, "nak", out, 1..k)
    <3>1. PICK k \in 0..Len(out) : stream' = After(m, "nak", out, 1..k)
      BY <2>2
    <3>2. 1..k \in SUBSET DOMAIN out
      BY DEF OutOK
    <3> QED
      BY <3>1, <3>2 DEF Verdicts
  <2>3. CASE \E stored \in SUBSET DOMAIN out : stream' = After(m, onError, out, stored)
    BY <2>3
  <2> QED
    BY <2>1, <2>2, <2>3 DEF Finish
<1>2. faults' \in 0..MaxFaults
  BY FaultCounted DEF Finish, BusOK, BusTypeOK
<1> QED
  BY <1>1, <1>2, AfterOK DEF BusOK, BusTypeOK

\* And a call that fails early.
LEMMA AdapterErrorOK ==
    ASSUME BusOK, NEW m \in stream, m.held > 0, AdapterError(m)
    PROVE  BusOK'
<1>1. OutOK(<<>>) /\ {} \in SUBSET DOMAIN <<>>
  BY DEF OutOK
<1>2. stream' = After(m, "nak", <<>>, {}) /\ faults' \in 0..MaxFaults
  BY FaultCounted DEF AdapterError, BusOK
<1> QED
  BY <1>1, <1>2, AfterOK DEF BusOK, BusTypeOK, Verdicts

\* A delivery counts up to the limit.
LEMMA DeliverOK == ASSUME BusOK, NEW m \in stream, Deliver(m) PROVE BusOK'
<1> DEFINE d == [m EXCEPT !.dlv = @ + 1, !.held = @ + 1]
<1>1. m \in Messages /\ m.held <= m.dlv /\ EnvOK(m.env) /\ m.dlv < MaxDeliver
  BY DEF BusOK, BusTypeOK, Deliver, Deliverable
<1>2. d \in Messages /\ d.held <= d.dlv /\ d.env = m.env
  <2>1. /\ m.dlv + 1 \in 0..MaxDeliver
        /\ m.held + 1 \in 0..MaxDeliver
        /\ m.held + 1 <= m.dlv + 1
    BY <1>1, BusAssumption DEF Messages
  <2>2. d = [m EXCEPT !.dlv = m.dlv + 1, !.held = m.held + 1]
    BY <1>1 DEF Messages
  <2>3. d \in Messages
    BY <1>1, <2>1, <2>2, RecountedMessage DEF Messages
  <2>4. d.dlv = m.dlv + 1 /\ d.held = m.held + 1 /\ d.env = m.env
    BY <1>1, <2>2 DEF Messages
  <2> QED
    BY <2>1, <2>3, <2>4
<1>3. stream' = (stream \ {m}) \cup {d}
  BY DEF Deliver
<1>4. faults' \in 0..MaxFaults
  BY FaultCounted DEF Deliver, BusOK, BusTypeOK
<1> QED
  BY <1>1, <1>2, <1>3, <1>4 DEF BusOK, BusTypeOK

-----------------------------------------------------------------------------
\* The input as the proofs use it.
LEMMA InputOf ==
    ASSUME NEW r \in Requests
    PROVE  /\ Input[r].tenant \in Tenants
           /\ Input[r].file \in FileNames \cup {None}
           /\ Input[r].mime \in Mimes
           /\ Input[r].topk \in Nat
           /\ Input[r].pieces \in Nat
  BY InputAssumption DEF InputType

\* Every field that is not set has a value of its type.
LEMMA NoPayloadType == NoPayload \in Payloads
<1>1. NoChunk \in ChunkIds
  BY DEF NoChunk, ChunkIds, DocIds
<1>2. NoText \in Texts
  BY DEF NoText, Texts
<1> QED
  BY <1>1, <1>2 DEF NoPayload, Payloads, DocIds, Mimes

\* An envelope made from a payload whose parts belong to the tenant.
LEMMA EnvelopeOK ==
    ASSUME NEW corr \in Requests, NEW type \in EventTypes, NEW p \in Payloads,
           NEW tenant, tenant = Input[corr].tenant,
           DocOf(p.doc, tenant), TextOf(p.text, tenant), BlobOf(p.blob, tenant),
           \A hit \in p.hits : RowOK(hit, tenant)
    PROVE  EnvOK(NewEnvelope(tenant, corr, type, p))
<1>1. tenant \in Tenants
  BY InputOf
<1>2. NewEnvelope(tenant, corr, type, p) \in Envelopes
  BY <1>1 DEF NewEnvelope, Envelopes
<1> QED
  BY <1>2 DEF NewEnvelope, EnvOK

\* URIs name the tenant of the request.
LEMMA UriOfType ==
    ASSUME NEW r \in Requests
    PROVE  UriOf(r) \in URIs /\ UriOf(r).tenant = Input[r].tenant
  BY InputOf DEF UriOf, URIs

\* The envelope of a request belongs to its tenant.
LEMMA RequestEnvOK == ASSUME NEW r \in Requests PROVE EnvOK(RequestEnv(r))
<1> DEFINE text == IF Input[r].text = "none" \/ Offloaded(r) THEN NoText ELSE Whole(r)
           blob == IF HasUpload(r) THEN UriOf(r) ELSE NoBlob
           p == [NoPayload EXCEPT !.text = text, !.blob = blob, !.mime = Input[r].mime]
           q == [p EXCEPT !.doc = r]
           s == [p EXCEPT !.topk = Input[r].topk]
<1>1. text \in Texts /\ TextOf(text, Input[r].tenant)
  BY NoneAssumption DEF Texts, NoText, Whole, TextOf
<1>2. blob \in URIs \cup {NoBlob} /\ BlobOf(blob, Input[r].tenant)
  BY UriOfType DEF BlobOf
<1> HIDE DEF text, blob
<1>3. /\ p \in Payloads
      /\ p.doc = None /\ p.text = text /\ p.blob = blob /\ p.hits = {}
  BY <1>1, <1>2, NoPayloadType, InputOf DEF Payloads, NoPayload
<1> HIDE DEF p
<1>4. /\ q \in Payloads
      /\ q.doc = r /\ q.text = text /\ q.blob = blob /\ q.hits = {}
  BY <1>3 DEF Payloads, DocIds
<1>5. /\ s \in Payloads
      /\ s.doc = None /\ s.text = text /\ s.blob = blob /\ s.hits = {}
  BY <1>3, InputOf DEF Payloads
<1> HIDE DEF q, s
<1>6. EnvOK(NewEnvelope(Input[r].tenant, r, "ingest.requested", q))
  BY <1>1, <1>2, <1>4, EnvelopeOK DEF DocOf, EventTypes
<1>7. EnvOK(NewEnvelope(Input[r].tenant, r, "search.requested", s))
  BY <1>1, <1>2, <1>5, EnvelopeOK, NoneAssumption DEF DocOf, EventTypes
<1> QED
  BY <1>6, <1>7 DEF RequestEnv, p, q, s, text, blob

-----------------------------------------------------------------------------
\* A blob that a tenant's envelope points to holds content of that tenant.
LEMMA DownloadOwn ==
    ASSUME IInv, NEW env, EnvOK(env), Downloads(env)
    PROVE  /\ blobs[env.data.blob] \in Requests
           /\ Input[blobs[env.data.blob]].tenant = env.tenant
<1>1. env.data.blob \in URIs /\ env.data.blob.tenant = env.tenant
  BY DEF EnvOK, Envelopes, Payloads, Downloads, BlobOf
<1> QED
  BY <1>1 DEF IInv, TypeOK, BlobsOK, Downloads

\* What a worker takes over from the request.
LEMMA DerivedOK ==
    ASSUME NEW env, EnvOK(env), NEW doc \in DocIds
    PROVE  /\ Derived(env, doc) \in Payloads
           /\ Derived(env, doc).doc = doc
           /\ Derived(env, doc).blob = env.data.blob
           /\ Derived(env, doc).hits = {}
<1>1. /\ env.data.blob \in URIs \cup {NoBlob}
      /\ env.data.mime \in Mimes
      /\ env.type \in EventTypes
  BY DEF EnvOK, Envelopes, Payloads
<1> QED
  BY <1>1, NoPayloadType DEF Derived, Payloads, NoPayload

\* The tenant and the request of a derived envelope are those of its cause.
LEMMA SameOwner ==
    ASSUME NEW env, EnvOK(env)
    PROVE  /\ env.corr \in Requests
           /\ env.tenant = Input[env.corr].tenant
           /\ env.data.doc \in DocIds
           /\ env.type \in EventTypes
  BY DEF EnvOK, Envelopes, Payloads

\* The events of the chunker.
LEMMA ChunkEnvOK ==
    ASSUME IInv, NEW m \in stream, m.held > 0, Downloads(m.env), NEW k \in Nat
    PROVE  EnvOK(ChunkEnv(m, k))
<1> DEFINE chunk == [doc |-> m.env.data.doc, tag |-> "piece", path |-> ChildPath(m, k)]
           text == Piece(blobs[m.env.data.blob], k)
           p == [Derived(m.env, m.env.data.doc) EXCEPT !.chunk = chunk, !.text = text]
<1>1. EnvOK(m.env)
  BY DEF IInv
<1>2. chunk \in ChunkIds
  <2>1. m.path \in Seq(Nat) /\ m.dlv - m.held + 1 \in Nat
    BY BusAssumption DEF IInv, TypeOK, BusTypeOK, Messages
  <2>2. ChildPath(m, k) \in Seq(Nat)
    BY <2>1 DEF ChildPath
  <2> QED
    BY <1>1, <2>2, SameOwner DEF ChunkIds
<1>3. text \in Texts /\ TextOf(text, m.env.tenant)
  BY <1>1, DownloadOwn DEF Texts, Piece, TextOf
<1> HIDE DEF chunk, text
<1>4. p \in Payloads /\ p.doc = m.env.data.doc /\ p.text = text /\ p.blob = m.env.data.blob /\ p.hits = {}
  <2>1. /\ Derived(m.env, m.env.data.doc) \in Payloads
        /\ Derived(m.env, m.env.data.doc).doc = m.env.data.doc
        /\ Derived(m.env, m.env.data.doc).blob = m.env.data.blob
        /\ Derived(m.env, m.env.data.doc).hits = {}
    BY <1>1, DerivedOK, SameOwner
  <2> QED
    BY <1>2, <1>3, <2>1 DEF Payloads
<1> HIDE DEF p
<1>5. EnvOK(NewEnvelope(m.env.tenant, m.env.corr, "chunk.completed", p))
  BY <1>1, <1>3, <1>4, EnvelopeOK, SameOwner DEF EnvOK, EventTypes
<1> QED
  BY <1>5 DEF ChunkEnv, p, chunk, text

\* The event of the vision worker.
LEMMA VisionEnvOK ==
    ASSUME IInv, NEW m \in stream, Downloads(m.env)
    PROVE  EnvOK(VisionEnv(m))
<1> DEFINE doc == IF m.env.type = "ingest.requested" THEN m.env.data.doc ELSE SearchDoc
           chunk == [doc |-> doc, tag |-> "vision", path |-> <<>>]
           text == Whole(blobs[m.env.data.blob])
           p == [Derived(m.env, doc) EXCEPT !.chunk = chunk, !.text = text]
<1>1. EnvOK(m.env)
  BY DEF IInv
<1>2. doc \in DocIds /\ DocOf(doc, m.env.tenant)
  BY <1>1, SameOwner, NoneAssumption DEF EnvOK, DocOf, DocIds
<1> HIDE DEF doc
<1>3. chunk \in ChunkIds
  BY <1>2 DEF ChunkIds
<1>4. text \in Texts /\ TextOf(text, m.env.tenant)
  BY <1>1, DownloadOwn DEF Texts, Whole, TextOf
<1> HIDE DEF chunk, text
<1>5. p \in Payloads /\ p.doc = doc /\ p.text = text /\ p.blob = m.env.data.blob /\ p.hits = {}
  <2>1. /\ Derived(m.env, doc) \in Payloads
        /\ Derived(m.env, doc).doc = doc
        /\ Derived(m.env, doc).blob = m.env.data.blob
        /\ Derived(m.env, doc).hits = {}
    BY <1>1, <1>2, DerivedOK
  <2> QED
    BY <1>3, <1>4, <2>1 DEF Payloads
<1> HIDE DEF p
<1>6. EnvOK(NewEnvelope(m.env.tenant, m.env.corr, "vision.completed", p))
  BY <1>1, <1>2, <1>4, <1>5, EnvelopeOK, SameOwner DEF EnvOK, EventTypes
<1> QED
  BY <1>6 DEF VisionEnv, p, chunk, text, doc

\* The event of the embedder.
LEMMA EmbedEnvOK ==
    ASSUME IInv, NEW m \in stream, NEW dim \in Dims
    PROVE  EnvOK(EmbedEnv(m, dim))
<1> DEFINE env == m.env
           request == env.type \in {"ingest.requested", "search.requested"}
           doc == IF env.type = "search.requested" THEN SearchDoc ELSE env.data.doc
           chunk == IF request THEN [doc |-> doc, tag |-> "whole", path |-> <<>>] ELSE env.data.chunk
           orig == IF request THEN env.type ELSE env.data.orig
           topk == IF env.type = "search.requested" THEN env.data.topk ELSE 0
           p == [NoPayload EXCEPT !.doc = doc, !.chunk = chunk, !.text = env.data.text,
                                  !.blob = env.data.blob, !.mime = env.data.mime,
                                  !.orig = orig, !.topk = topk, !.dim = dim]
<1>1. EnvOK(env)
  BY DEF IInv
<1>2. /\ env.data.chunk \in ChunkIds /\ env.data.text \in Texts
      /\ env.data.blob \in URIs \cup {NoBlob} /\ env.data.mime \in Mimes
      /\ env.data.orig \in EventTypes \cup {"none"} /\ env.data.topk \in Nat
  BY <1>1 DEF EnvOK, Envelopes, Payloads
<1>3. doc \in DocIds /\ DocOf(doc, env.tenant)
  BY <1>1, SameOwner, NoneAssumption DEF EnvOK, DocOf, DocIds
<1>4. chunk \in ChunkIds /\ orig \in EventTypes \cup {"none"} /\ topk \in Nat
  BY <1>1, <1>2, <1>3, SameOwner DEF ChunkIds
<1> HIDE DEF doc, chunk, orig, topk
<1>5. p \in Payloads /\ p.doc = doc /\ p.text = env.data.text /\ p.blob = env.data.blob /\ p.hits = {}
  BY <1>2, <1>3, <1>4, NoPayloadType DEF Payloads, NoPayload
<1> HIDE DEF p
<1>6. EnvOK(NewEnvelope(env.tenant, env.corr, "embed.completed", p))
  BY <1>1, <1>3, <1>5, EnvelopeOK, SameOwner DEF EnvOK, EventTypes
<1> QED
  BY <1>6 DEF EmbedEnv, p, doc, chunk, orig, topk

\* The answer of the engine.
LEMMA ReplyEnvOK ==
    ASSUME IInv, NEW m \in stream, NEW e \in Engines, NEW hits \in Nearest(e, m.env)
    PROVE  EnvOK(ReplyEnv(m, hits))
<1> DEFINE p == [NoPayload EXCEPT !.hits = hits]
<1>1. hits \in SUBSET RowsOf(e, m.env.tenant)
  BY DEF Nearest, kSubset, Comparable
<1>2. hits \subseteq Records /\ \A hit \in hits : RowOK(hit, m.env.tenant)
  BY <1>1 DEF RowsOf, IInv, TypeOK
<1>3. p \in Payloads /\ p.doc = None /\ p.text = NoText /\ p.blob = NoBlob /\ p.hits = hits
  BY <1>2, NoPayloadType DEF Payloads, NoPayload
<1> HIDE DEF p
<1>4. EnvOK(m.env)
  BY DEF IInv
<1>5. DocOf(p.doc, m.env.tenant) /\ TextOf(p.text, m.env.tenant) /\ BlobOf(p.blob, m.env.tenant)
  BY <1>3, NoneAssumption DEF DocOf, TextOf, BlobOf, NoText
<1>6. EnvOK(NewEnvelope(m.env.tenant, m.env.corr, "search.completed", p))
  BY <1>2, <1>3, <1>4, <1>5, EnvelopeOK, SameOwner DEF EventTypes
<1> QED
  BY <1>6 DEF ReplyEnv, p

-----------------------------------------------------------------------------
\* A handler that publishes one event, or none.
LEMMA OneOut ==
    ASSUME NEW topic \in Topics, NEW env, EnvOK(env)
    PROVE  OutOK(<<To(topic, env)>>) /\ OutOK(<<>>)
<1>1. To(topic, env) \in Outs /\ To(topic, env).env = env
  BY DEF EnvOK, To, Outs
<1> QED
  BY <1>1 DEF OutOK

\* What each handler publishes is in order, whatever it was given.
LEMMA RouterOut ==
    ASSUME IInv, NEW m \in stream
    PROVE  OutOK(RouterResult(m).out) /\ RouterResult(m).verdict \in Verdicts
<1>1. EnvOK(m.env)
  BY DEF IInv
<1>2. Classify(m.env) \in Topics \cup {"unroutable"}
  BY DEF Classify, Topics
<1>3. OutOK(<<To("dlq", m.env)>>)
  BY <1>1, OneOut DEF Topics
<1>4. Classify(m.env) # "unroutable" => OutOK(<<To(Classify(m.env), m.env)>>)
  BY <1>1, <1>2, OneOut
<1> QED
  BY <1>3, <1>4 DEF RouterResult, Result, Verdicts

\* The chunker publishes one event for each piece.
LEMMA ChunkerOut ==
    ASSUME IInv, NEW m \in stream, m.held > 0
    PROVE  OutOK(ChunkerResult(m).out) /\ ChunkerResult(m).verdict \in Verdicts
<1>1. OutOK(<<>>)
  BY DEF OutOK
<1>2. ASSUME Downloads(m.env)
      PROVE  OutOK([k \in 1..Input[blobs[m.env.data.blob]].pieces |-> To("ingress", ChunkEnv(m, k))])
  <2> DEFINE n == Input[blobs[m.env.data.blob]].pieces
             out == [k \in 1..n |-> To("ingress", ChunkEnv(m, k))]
  <2>1. n \in Nat
    BY <1>2, DownloadOwn, InputOf DEF IInv
  <2>2. \A k \in 1..n : EnvOK(ChunkEnv(m, k))
    BY <1>2, <2>1, ChunkEnvOK
  <2> HIDE DEF n
  <2>3. \A k \in 1..n : To("ingress", ChunkEnv(m, k)) \in Outs
    BY <2>2 DEF EnvOK, To, Outs, Topics
  <2>4. out \in Seq(Outs)
    BY <2>1, <2>3
  <2>5. \A k \in DOMAIN out : EnvOK(out[k].env)
    BY <2>2 DEF To
  <2> QED
    BY <2>4, <2>5 DEF OutOK, n
<1> QED
  BY <1>1, <1>2 DEF ChunkerResult, Result, Verdicts

\* The vision worker publishes one event or none.
LEMMA VisionOut ==
    ASSUME IInv, NEW m \in stream
    PROVE  OutOK(VisionResult(m).out) /\ VisionResult(m).verdict \in Verdicts
<1>1. OutOK(<<>>)
  BY DEF OutOK
<1>2. Downloads(m.env) => OutOK(<<To("ingress", VisionEnv(m))>>)
  BY VisionEnvOK, OneOut DEF Topics
<1> QED
  BY <1>1, <1>2 DEF VisionResult, Result, Verdicts

\* The embedder publishes one event or none.
LEMMA EmbedderOut ==
    ASSUME IInv, NEW m \in stream, NEW empty \in BOOLEAN, NEW dim \in Dims
    PROVE  /\ OutOK(EmbedderResult(m, empty, dim).out)
           /\ EmbedderResult(m, empty, dim).verdict \in Verdicts
<1>1. OutOK(<<>>) /\ OutOK(<<To("ingress", EmbedEnv(m, dim))>>)
  BY EmbedEnvOK, OneOut DEF Topics
<1> QED
  BY <1>1 DEF EmbedderResult, Result, Verdicts

-----------------------------------------------------------------------------
\* The invariant is about the bus and the rest.
LEMMA BusPart == IInv => BusOK
  BY DEF IInv, TypeOK, BusOK

\* A step that touches nothing but the bus.
LEMMA BusStep ==
    ASSUME IInv, BusOK', UNCHANGED <<stage, blobs, db, stuck>>
    PROVE  IInv'
  BY DEF IInv, TypeOK, BusOK, BlobsOK

\* The worker consumers and the router.
LEMMA HandlePreserves ==
    ASSUME IInv, NEW m \in stream, m.held > 0, NEW res,
           OutOK(res.out), res.verdict \in Verdicts, Handle(m, res)
    PROVE  IInv'
<1>1. BusOK'
  BY BusPart, FinishOK, AdapterErrorOK DEF Handle, Verdicts
<1> QED
  BY <1>1, BusStep DEF Handle

\* A text that is cut off belongs to whom the whole text belongs.
LEMMA CutEnvOK == ASSUME NEW env, EnvOK(env) PROVE EnvOK(CutEnv(env))
<1> DEFINE text == CutOff(env.data.text)
           p == [env.data EXCEPT !.text = text]
<1>1. env \in Envelopes /\ env.data \in Payloads /\ env.data.text \in Texts
  BY DEF EnvOK, Envelopes, Payloads
<1>2. text \in Texts /\ TextOf(text, env.tenant)
  BY <1>1 DEF EnvOK, TextOf, CutOff, Texts
<1> HIDE DEF text
<1>3. /\ p \in Payloads /\ p.doc = env.data.doc /\ p.text = text
      /\ p.blob = env.data.blob /\ p.hits = env.data.hits
  BY <1>1, <1>2 DEF Payloads
<1> HIDE DEF p
<1>4. EnvOK(NewEnvelope(env.tenant, env.corr, env.type, p))
  BY <1>2, <1>3, EnvelopeOK, SameOwner DEF EnvOK
<1> QED
  BY <1>4 DEF CutEnv, p, text

\* What a worker publishes when a download breaks off is in order.
LEMMA BrokenOffOK ==
    ASSUME NEW out, OutOK(out), NEW n \in 0..Len(out)
    PROVE  OutOK(BrokenOff(out, n)) /\ DOMAIN BrokenOff(out, n) = 1..n
<1>1. out \in Seq(Outs) /\ 1..n \subseteq DOMAIN out /\ n \in Nat
  BY DEF OutOK
<1>2. ASSUME NEW k \in 1..n
      PROVE  BrokenOff(out, n)[k] \in Outs /\ EnvOK(BrokenOff(out, n)[k].env)
  <2>1. out[k] \in Outs /\ EnvOK(out[k].env)
    BY <1>1 DEF OutOK
  <2>2. CASE k # n
    BY <2>1, <2>2 DEF BrokenOff
  <2>3. CASE k = n
    <3>1. /\ BrokenOff(out, n)[k] = To(out[k].topic, CutEnv(out[k].env))
          /\ EnvOK(CutEnv(out[k].env))
      BY <2>1, <2>3, CutEnvOK DEF BrokenOff
    <3>2. out[k].topic \in Topics
      BY <2>1 DEF Outs
    <3>3. CutEnv(out[k].env) \in Envelopes
      BY <3>1 DEF EnvOK
    <3> QED
      BY <3>1, <3>2, <3>3 DEF To, Outs
  <2> QED
    BY <2>2, <2>3
<1>3. BrokenOff(out, n) \in Seq(Outs) /\ DOMAIN BrokenOff(out, n) = 1..n
  <2> DEFINE f == BrokenOff(out, n)
  <2>1. f = [k \in 1..n |-> f[k]]
    BY DEF BrokenOff
  <2> HIDE DEF f
  <2>2. f \in [1..n -> Outs]
    BY <1>2, <2>1 DEF f
  <2> QED
    BY <1>1, <2>2 DEF f
<1> QED
  BY <1>2, <1>3 DEF OutOK

\* A download that breaks off changes nothing but the bus.
LEMMA ReadBreaksPreserves ==
    ASSUME IInv, NEW m \in stream, m.held > 0, NEW out, OutOK(out),
           NEW texts \in SUBSET (0..Len(out)), ReadBreaks(m, out, texts)
    PROVE  IInv'
<1>1. PICK n \in texts : stream' = After(m, "acked", BrokenOff(out, n), 1..n)
  BY DEF ReadBreaks
<1>2. OutOK(BrokenOff(out, n)) /\ 1..n \in SUBSET DOMAIN BrokenOff(out, n)
  BY BrokenOffOK
<1>3. stream' \subseteq Messages /\ \A x \in stream' : x.held <= x.dlv /\ EnvOK(x.env)
  BY <1>1, <1>2, BusPart, AfterOK DEF Verdicts
<1>4. faults' \in 0..MaxFaults
  BY BusPart, FaultCounted DEF ReadBreaks, BusOK
<1>5. BusOK'
  BY <1>3, <1>4 DEF BusOK, BusTypeOK
<1> QED
  BY <1>5, BusStep DEF ReadBreaks

\* A worker that waits for ever, waits on its own topic.
LEMMA HangPreserves == ASSUME IInv, NEW m \in stream, Hang(m) PROVE IInv'
<1>1. BusOK'
  BY BusPart, FaultCounted DEF Hang, BusOK, BusTypeOK
<1>2. stuck' \subseteq WorkerTopics
  BY DEF Hang, Calls, IInv, TypeOK, WorkerTopics
<1> QED
  BY <1>1, <1>2 DEF Hang, IInv, TypeOK, BusOK, BlobsOK

\* The steps of the consumers other than the engine.
LEMMA ConsumerPreserves ==
    ASSUME IInv, NEW m \in stream,
           DeliverTask(m) \/ Router(m) \/ Chunker(m) \/ Vision(m) \/ Embedder(m)
    PROVE  IInv'
<1>1. CASE DeliverTask(m)
  BY <1>1, BusPart, DeliverOK, BusStep DEF DeliverTask
<1>2. CASE Router(m)
  <2>1. BusOK'
    BY <1>2, BusPart, RouterOut, FinishOK DEF Router, Running, Verdicts
  <2> QED
    BY <1>2, <2>1, BusStep DEF Router
<1>3. CASE Chunker(m)
  <2>1. m.held > 0 /\ OutOK(ChunkerResult(m).out) /\ ChunkerResult(m).verdict \in Verdicts
    BY <1>3, ChunkerOut DEF Chunker, Running
  <2>2. CASE Handle(m, ChunkerResult(m))
    BY <2>1, <2>2, HandlePreserves
  <2>3. CASE ReadBreaks(m, ChunkerResult(m).out, 0..Len(ChunkerResult(m).out))
    BY <2>1, <2>3, ReadBreaksPreserves
  <2> QED
    BY <1>3, <2>2, <2>3 DEF Chunker
<1>4. CASE Vision(m)
  <2>1. m.held > 0 /\ OutOK(VisionResult(m).out) /\ VisionResult(m).verdict \in Verdicts
    BY <1>4, VisionOut DEF Vision, Running
  <2>2. CASE Handle(m, VisionResult(m))
    BY <2>1, <2>2, HandlePreserves
  <2>3. CASE Calls(m) /\ ReadBreaks(m, VisionResult(m).out, {1})
    <3>1. VisionResult(m).out = <<To("ingress", VisionEnv(m))>>
      BY <1>4, <2>3 DEF Vision, Running, Calls, ReadBreaks, VisionResult, Result
    <3>2. {1} \in SUBSET (0..Len(VisionResult(m).out))
      BY <3>1
    <3> QED
      BY <2>1, <2>3, <3>2, ReadBreaksPreserves
  <2> QED
    BY <1>4, <2>2, <2>3 DEF Vision
<1>5. CASE Embedder(m)
  <2>1. PICK empty \in BOOLEAN, dim \in Dims : Handle(m, EmbedderResult(m, empty, dim))
    BY <1>5 DEF Embedder
  <2> QED
    BY <1>5, <2>1, EmbedderOut, HandlePreserves DEF Embedder, Running
<1> QED
  BY <1>1, <1>2, <1>3, <1>4, <1>5

\* The engine writes a row of the tenant of the task.
LEMMA UpsertPreserves ==
    ASSUME IInv, NEW m \in stream, NEW e \in Engines, EngineUpsert(m, e)
    PROVE  IInv'
<1>1. BusOK'
  <2>1. OutOK(<<>>)
    BY DEF OutOK
  <2> QED
    BY <2>1, BusPart, FinishOK DEF EngineUpsert, Running, Verdicts
<1>2. EnvOK(m.env)
  BY DEF IInv
<1>3. RowOf(m.env) \in Records /\ RowOK(RowOf(m.env), RowOf(m.env).tenant)
  <2>1. /\ m.env.tenant \in Tenants /\ m.env.data.chunk \in ChunkIds
        /\ m.env.data.doc \in DocIds /\ m.env.data.text \in Texts
        /\ m.env.data.blob \in URIs \cup {NoBlob} /\ m.env.data.mime \in Mimes
        /\ m.env.data.dim \in Dims \cup {None}
    BY <1>2 DEF EnvOK, Envelopes, Payloads
  <2> QED
    BY <1>2, <2>1 DEF RowOf, Records, RowOK, EnvOK
<1>4. /\ db' \in [Engines -> SUBSET Records]
      /\ \A f \in Engines : \A row \in db'[f] : RowOK(row, row.tenant)
  <2>1. db' = [db EXCEPT ![e] = Upserted(db[e], RowOf(m.env))]
    BY DEF EngineUpsert
  <2>2. \A row \in Upserted(db[e], RowOf(m.env)) : row \in db[e] \/ row = RowOf(m.env)
    BY DEF Upserted
  <2>3. db \in [Engines -> SUBSET Records] /\ \A f \in Engines : \A row \in db[f] : RowOK(row, row.tenant)
    BY DEF IInv, TypeOK
  <2> QED
    BY <1>3, <2>1, <2>2, <2>3
<1>5. stage' = stage /\ blobs' = blobs /\ stuck' = stuck
  BY DEF EngineUpsert
<1> QED
  BY <1>1, <1>4, <1>5 DEF IInv, TypeOK, BusOK, BlobsOK

\* The engine answers with rows of the tenant of the task.
LEMMA SearchPreserves ==
    ASSUME IInv, NEW m \in stream, NEW e \in Engines, EngineSearch(m, e)
    PROVE  IInv'
<1>1. PICK out : OutOK(out) /\ Finish(m, out, "acked", "nak")
  <2>1. \A hits \in Nearest(e, m.env) : OutOK(<<To("replies", ReplyEnv(m, hits))>>)
    BY ReplyEnvOK, OneOut DEF Topics
  <2>2. OutOK(<<>>)
    BY DEF OutOK
  <2> QED
    BY <2>1, <2>2 DEF EngineSearch
<1>2. BusOK'
  BY <1>1, BusPart, FinishOK DEF EngineSearch, Running, Verdicts
<1> QED
  BY <1>2, BusStep DEF EngineSearch

\* A restarted engine has no rows and holds no deliveries.
LEMMA RestartPreserves ==
    ASSUME IInv, NEW e \in Engines, EngineRestart(e)
    PROVE  IInv'
<1> DEFINE held == {m \in stream : Running(m, "engine")}
<1>1. BusOK'
  <2>1. PICK left \in [held -> 0..MaxDeliver] :
            /\ \A m \in held : left[m] <= m.held
            /\ stream' = (stream \ held) \cup {[m EXCEPT !.held = left[m]] : m \in held}
    BY DEF EngineRestart
  <2>2. ASSUME NEW m \in held
        PROVE  LET x == [m EXCEPT !.held = left[m]]
               IN  x \in Messages /\ x.held <= x.dlv /\ EnvOK(x.env)
    <3>1. m \in Messages /\ m.held <= m.dlv /\ EnvOK(m.env)
      BY BusPart DEF BusOK, BusTypeOK
    <3>2. left[m] \in 0..MaxDeliver /\ left[m] <= m.held
      BY <2>1
    <3> DEFINE n == left[m]
    <3>3. n \in 0..MaxDeliver /\ n <= m.held
      BY <3>2
    <3> HIDE DEF n
    <3>4. [m EXCEPT !.held = n] \in Messages
      BY <3>1, <3>3 DEF Messages
    <3>5. /\ [m EXCEPT !.held = n].held = n
          /\ [m EXCEPT !.held = n].dlv = m.dlv
          /\ [m EXCEPT !.held = n].env = m.env
      BY <3>1 DEF Messages
    <3>6. n <= m.dlv
      BY <3>1, <3>3, BusAssumption DEF Messages
    <3> QED
      BY <3>1, <3>4, <3>5, <3>6 DEF n
  <2>3. ASSUME NEW x \in stream'
        PROVE  x \in Messages /\ x.held <= x.dlv /\ EnvOK(x.env)
    BY <2>1, <2>2, BusPart DEF BusOK, BusTypeOK
  <2>4. faults' \in 0..MaxFaults
    BY BusPart, FaultCounted DEF EngineRestart, BusOK
  <2> QED
    BY <2>3, <2>4 DEF BusOK, BusTypeOK
<1>2. /\ db' \in [Engines -> SUBSET Records]
      /\ \A f \in Engines : \A row \in db'[f] : RowOK(row, row.tenant)
  BY DEF EngineRestart, IInv, TypeOK
<1> QED
  BY <1>1, <1>2 DEF EngineRestart, IInv, TypeOK, BusOK, BlobsOK

\* A message stays in order when its deliveries end.
LEMMA ReleasedOK ==
    ASSUME NEW m \in Messages
    PROVE  LET x == [m EXCEPT !.held = 0]
           IN  x \in Messages /\ x.held <= x.dlv /\ x.env = m.env
<1> DEFINE x == [m EXCEPT !.held = 0]
<1>1. 0 \in 0..MaxDeliver
  BY BusAssumption
<1>2. x \in Messages
  BY <1>1 DEF Messages
<1>3. x.held = 0 /\ x.dlv = m.dlv /\ x.env = m.env
  BY DEF Messages
<1>4. m.dlv >= 0
  BY BusAssumption DEF Messages
<1> QED
  BY <1>2, <1>3, <1>4

\* A rebooted monolith has neither blobs nor rows, and the stream holds the
\* same events as before.
LEMMA RebootPreserves == ASSUME IInv, Reboot PROVE IInv'
<1>1. ASSUME NEW m \in stream
      PROVE  LET x == [m EXCEPT !.held = 0]
             IN  x \in Messages /\ x.held <= x.dlv /\ EnvOK(x.env)
  <2>1. m \in Messages /\ EnvOK(m.env)
    BY BusPart DEF BusOK, BusTypeOK
  <2> QED
    BY <2>1, ReleasedOK
<1>2. BusOK'
  <2>1. faults' \in 0..MaxFaults
    BY BusPart, FaultCounted DEF Reboot, BusOK
  <2>2. stream' = {[m EXCEPT !.held = 0] : m \in stream}
    BY DEF Reboot
  <2> QED
    BY <1>1, <2>1, <2>2 DEF BusOK, BusTypeOK
<1>3. blobs' \in [URIs -> Requests \cup {None}] /\ BlobsOK'
  BY DEF Reboot, BlobsOK
<1>4. /\ db' \in [Engines -> SUBSET Records]
      /\ \A e \in Engines : \A row \in db'[e] : RowOK(row, row.tenant)
  BY DEF Reboot
<1>5. stage' \in [Requests -> {"new", "uploaded", "accepted", "failed"}] /\ stuck' = {}
  BY DEF Reboot, IInv, TypeOK
<1> QED
  BY <1>2, <1>3, <1>4, <1>5 DEF IInv, TypeOK, BusOK

\* The gateway writes a blob under the tenant of the request.
LEMMA UploadPreserves == ASSUME IInv, NEW r \in Requests, Upload(r) PROVE IInv'
<1>1. BusOK'
  BY BusPart, FaultCounted DEF Upload, BusOK, BusTypeOK
<1>2. blobs' \in [URIs -> Requests \cup {None}] /\ BlobsOK'
  BY UriOfType DEF Upload, Stored, IInv, TypeOK, BlobsOK
<1>3. stage' \in [Requests -> {"new", "uploaded", "accepted", "failed"}]
  BY DEF Upload, IInv, TypeOK
<1> QED
  BY <1>1, <1>2, <1>3 DEF Upload, IInv, TypeOK, BusOK

\* The gateway publishes the request under its tenant.
LEMMA SubmitPreserves == ASSUME IInv, NEW r \in Requests, Submit(r) PROVE IInv'
<1> DEFINE root == NewMessage(<<>>, "ingress", RequestEnv(r))
<1>1. EnvOK(RequestEnv(r))
  BY RequestEnvOK
<1>2. root \in Messages /\ root.held <= root.dlv /\ EnvOK(root.env)
  <2>1. <<>> \in Seq(Nat) /\ "ingress" \in Topics /\ RequestEnv(r) \in Envelopes
    BY <1>1 DEF EnvOK, Topics
  <2> QED
    BY <1>1, <2>1, NewMessageType
<1> HIDE DEF root
<1>3. stream' \in {stream, stream \cup {root}} /\ faults' \in 0..MaxFaults
  BY BusPart, FaultCounted DEF Submit, root, BusOK, BusTypeOK
<1>4. BusOK'
  BY <1>2, <1>3, BusPart DEF BusOK, BusTypeOK
<1>5. stage' \in [Requests -> {"new", "uploaded", "accepted", "failed"}]
  BY DEF Submit, IInv, TypeOK
<1> QED
  BY <1>4, <1>5 DEF Submit, IInv, TypeOK, BusOK, BlobsOK

-----------------------------------------------------------------------------
\* Every step preserves the invariant.
LEMMA NextPreserves == ASSUME IInv, [Next]_vars PROVE IInv'
<1>1. CASE UNCHANGED vars
  BY <1>1 DEF vars, IInv, TypeOK, BusTypeOK, BlobsOK
<1>2. CASE Next
  BY <1>2, UploadPreserves, SubmitPreserves, ConsumerPreserves, UpsertPreserves,
     SearchPreserves, HangPreserves, RestartPreserves, RebootPreserves DEF Next, Consume
<1> QED
  BY <1>1, <1>2

\* The invariant holds in every reachable state.
THEOREM Inductive == Spec => []IInv
<1>1. Init => IInv
  <2> SUFFICES ASSUME Init PROVE IInv
    OBVIOUS
  <2>1. TypeOK
    BY BusAssumption DEF Init, TypeOK, BusTypeOK
  <2> QED
    BY <2>1 DEF Init, IInv, BlobsOK
<1>2. IInv /\ [Next]_vars => IInv'
  BY NextPreserves
<1> QED
  BY <1>1, <1>2, PTL DEF Spec

\* Every variable of the pipeline keeps its type; in particular no message is
\* delivered more than MaxDeliver times.
THEOREM TypeCorrect == Spec => []TypeOK
<1>1. IInv => TypeOK
  BY DEF IInv
<1> QED
  BY <1>1, Inductive, PTL

\* No tenant ever gets a hit of another tenant's document or content, under
\* any interleaving, redelivery, overwriting of blobs and failure.
THEOREM TenantsAreIsolated == Spec => []TenantIsolation
<1>1. IInv => TenantIsolation
  BY DEF IInv, TenantIsolation, Replies, EnvOK, RowOK, DocOf, TextOf
<1> QED
  BY <1>1, Inductive, PTL

=============================================================================
