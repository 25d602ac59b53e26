---------------------------- MODULE DeliveryProofs ----------------------------
(***************************************************************************)
(* What an ack means: as long as publishing works, and no download of a    *)
(* file to chunk breaks off, a message is acked only by a call that has    *)
(* handed on what it was about.  So an accepted search is answered or in   *)
(* work, and each part of an accepted document is indexed or in work.      *)
(***************************************************************************)
EXTENDS AnswerProofs

\* The event is in the next state's stream, and not settled there.
Arrived(topic, env) ==
    \E x \in stream' : x.topic = topic /\ x.env = env /\ x.st = "pending"

\* The message is there without a verdict.
StillPending(m) == \E x \in stream' : Same(m, x) /\ x.st = "pending"

\* The call on m that acked it has done all it had to.
HandedOn(m) ==
    \/ m.topic = "ingress" /\ Arrived(Classify(m.env), m.env)
    \/ /\ m.topic = "chunk"
       /\ m.env.type = "ingest.requested" /\ "read" \notin FaultKinds =>
            /\ Downloads(m.env)
            /\ \A k \in 1..Input[blobs[m.env.data.blob]].pieces : Arrived("ingress", ChunkEnv(m, k))
    \/ /\ m.topic = "vision"
       /\ m.env.type \in Requested => \E env \in OrCut(VisionEnv(m)) : Arrived("ingress", env)
    \/ /\ m.topic = "embed"
       /\ m.env.type \in Embeddable /\ m.env.data.text # NoText =>
            \E dim \in Dims : Arrived("ingress", EmbedEnv(m, dim))
    \/ m.topic = "engine" /\ \E e \in Engines : EngineUpsert(m, e)
    \/ /\ m.topic = "engine" /\ Intent(m.env) # "upsert"
       /\ Intent(m.env) = "search" => \E env : env.corr = m.env.corr /\ Arrived("replies", env)

-----------------------------------------------------------------------------
\* Without publish errors a call leaves its message pending, or it has stored
\* everything and its verdict is final.
LEMMA FinishHandsOn ==
    ASSUME BusTypeOK, "publish" \notin FaultKinds, NEW m \in stream, m.st = "pending",
           NEW out, NEW verdict \in Verdicts, NEW onError, Finish(m, out, verdict, onError)
    PROVE  \/ StillPending(m)
           \/ verdict # "nak" /\ \A k \in DOMAIN out : Arrived(out[k].topic, out[k].env)
<1>1. m \in Messages
  BY DEF BusTypeOK
<1>2. ASSUME NEW stored, stream' = After(m, "nak", out, stored) PROVE StillPending(m)
  BY <1>1, <1>2, SettledIs DEF After, StillPending, Verdicts
<1>3. ASSUME stream' = After(m, verdict, out, DOMAIN out), verdict # "nak"
      PROVE  \A k \in DOMAIN out : Arrived(out[k].topic, out[k].env)
  <2> TAKE k \in DOMAIN out
  <2> DEFINE x == NewMessage(ChildPath(m, k), out[k].topic, out[k].env)
  <2>1. x \in stream'
    BY <1>3 DEF After, Published
  <2>2. x.topic = out[k].topic /\ x.env = out[k].env /\ x.st = "pending"
    BY DEF NewMessage
  <2> HIDE DEF x
  <2> QED
    BY <2>1, <2>2 DEF Arrived
<1> QED
  BY <1>2, <1>3 DEF Finish, Fault

\* A failing adapter leaves the message pending.
LEMMA AdapterErrorKeeps ==
    ASSUME BusTypeOK, NEW m \in stream, m.st = "pending", AdapterError(m)
    PROVE  StillPending(m)
<1>1. m \in Messages
  BY DEF BusTypeOK
<1> QED
  BY <1>1, SettledIs DEF AdapterError, After, StillPending, Verdicts

\* The router acks what it has passed on.
LEMMA RouterHandsOn ==
    ASSUME IInv, "publish" \notin FaultKinds, NEW m \in stream, m.st = "pending",
           Lineage(m), Router(m)
    PROVE  StillPending(m) \/ HandedOn(m)
<1>1. m.topic = "ingress"
  BY DEF Router, Running
<1>2. Classify(m.env) # "unroutable"
  BY <1>1, IngressIsRoutable
<1>3. Finish(m, <<To(Classify(m.env), m.env)>>, "acked", "nak")
  BY <1>2 DEF Router, RouterResult, Result
<1>4. BusTypeOK
  BY DEF IInv, TypeOK
<1>5. \/ StillPending(m)
      \/ \A k \in DOMAIN <<To(Classify(m.env), m.env)>> :
            Arrived(<<To(Classify(m.env), m.env)>>[k].topic, <<To(Classify(m.env), m.env)>>[k].env)
  BY <1>3, <1>4, FinishHandsOn DEF Verdicts
<1> QED
  BY <1>1, <1>5 DEF HandedOn, To

\* A worker acks what it has nothing to make of, or what it has made
\* everything of.
LEMMA HandleHandsOn ==
    ASSUME IInv, "publish" \notin FaultKinds, NEW m \in stream, m.st = "pending",
           NEW res, res.verdict \in Verdicts, Handle(m, res)
    PROVE  \/ StillPending(m)
           \/ /\ res.verdict # "nak"
              /\ \A k \in DOMAIN res.out : Arrived(res.out[k].topic, res.out[k].env)
<1>1. BusTypeOK
  BY DEF IInv, TypeOK
<1> QED
  BY <1>1, FinishHandsOn, AdapterErrorKeeps DEF Handle

\* The chunker.
LEMMA ChunkerHandsOn ==
    ASSUME IInv, "publish" \notin FaultKinds, NEW m \in stream, m.st = "pending", Chunker(m)
    PROVE  StillPending(m) \/ HandedOn(m)
<1> DEFINE res == ChunkerResult(m)
           n == Input[blobs[m.env.data.blob]].pieces
<1>1. m.topic = "chunk" /\ m.held > 0
  BY DEF Chunker, Running
<1>2. \/ StillPending(m)
      \/ /\ res.verdict # "nak"
         /\ \A k \in DOMAIN res.out : Arrived(res.out[k].topic, res.out[k].env)
      \/ "read" \in FaultKinds
  BY <1>1, ChunkerOut, HandleHandsOn DEF Chunker, ReadBreaks, Fault
<1>3. CASE m.env.type # "ingest.requested" \/ "read" \in FaultKinds
  BY <1>1, <1>3 DEF HandedOn
<1>4. CASE m.env.type = "ingest.requested" /\ Downloads(m.env) /\ "read" \notin FaultKinds
  <2>1. res.out = [k \in 1..n |-> To("ingress", ChunkEnv(m, k))]
    BY <1>4 DEF ChunkerResult, Result
  <2> HIDE DEF res, n
  <2>2. \A k \in 1..n : /\ k \in DOMAIN res.out
                        /\ res.out[k].topic = "ingress" /\ res.out[k].env = ChunkEnv(m, k)
    BY <2>1 DEF To
  <2>3. StillPending(m) \/ \A k \in 1..n : Arrived("ingress", ChunkEnv(m, k))
    BY <1>2, <1>4, <2>2
  <2> QED
    BY <1>1, <1>4, <2>3 DEF HandedOn, n
<1>5. CASE m.env.type = "ingest.requested" /\ ~Downloads(m.env) /\ "read" \notin FaultKinds
  BY <1>2, <1>5 DEF ChunkerResult, Result
<1> QED
  BY <1>3, <1>4, <1>5

\* The vision worker.
LEMMA VisionHandsOn ==
    ASSUME IInv, "publish" \notin FaultKinds, NEW m \in stream, m.st = "pending", Vision(m)
    PROVE  StillPending(m) \/ HandedOn(m)
<1> DEFINE res == VisionResult(m)
<1>1. m.topic = "vision"
  BY DEF Vision, Running
<1>2. CASE Calls(m) /\ ReadBreaks(m, res.out, {1})
  <2>1. /\ m.env.type \in Requested
        /\ res.out = <<To("ingress", VisionEnv(m))>>
    BY <1>1, <1>2 DEF Calls, ReadBreaks, VisionResult, Result, Requested
  <2>2. stream' = After(m, "acked", BrokenOff(res.out, 1), 1..1)
    BY <1>2 DEF ReadBreaks
  <2> DEFINE e == CutEnv(VisionEnv(m))
             x == NewMessage(ChildPath(m, 1), "ingress", e)
  <2>3. BrokenOff(res.out, 1)[1] = To("ingress", e)
    BY <2>1 DEF BrokenOff, To
  <2>4. x \in stream'
    BY <2>2, <2>3 DEF After, Published, To
  <2>5. x.topic = "ingress" /\ x.env = e /\ x.st = "pending"
    BY DEF NewMessage
  <2>6. e \in OrCut(VisionEnv(m))
    BY DEF OrCut
  <2> HIDE DEF x, e
  <2> QED
    BY <1>1, <2>1, <2>4, <2>5, <2>6 DEF HandedOn, Arrived
<1>6. ASSUME Handle(m, res)
      PROVE  \/ StillPending(m)
             \/ /\ res.verdict # "nak"
                /\ \A k \in DOMAIN res.out : Arrived(res.out[k].topic, res.out[k].env)
  BY <1>6, VisionOut, HandleHandsOn
<1>3. CASE m.env.type \notin Requested
  BY <1>1, <1>3 DEF HandedOn
<1>4. CASE Handle(m, res) /\ m.env.type \in Requested /\ Downloads(m.env)
  <2>1. res.out = <<To("ingress", VisionEnv(m))>>
    BY <1>4 DEF VisionResult, Result, Requested
  <2>2. StillPending(m) \/ Arrived("ingress", VisionEnv(m))
    BY <1>4, <1>6, <2>1 DEF To
  <2> QED
    BY <1>1, <2>2 DEF HandedOn, OrCut
<1>5. CASE Handle(m, res) /\ m.env.type \in Requested /\ ~Downloads(m.env)
  BY <1>5, <1>6 DEF VisionResult, Result, Requested
<1> QED
  BY <1>2, <1>3, <1>4, <1>5 DEF Vision

\* The embedder, which may drop an empty text.
LEMMA EmbedderHandsOn ==
    ASSUME IInv, "publish" \notin FaultKinds, NEW m \in stream, m.st = "pending", Embedder(m)
    PROVE  StillPending(m) \/ HandedOn(m)
<1>1. m.topic = "embed"
  BY DEF Embedder, Running
<1>2. PICK empty \in {FALSE} \cup {m.env.data.text = NoText}, dim \in Dims :
        Handle(m, EmbedderResult(m, empty, dim))
  BY DEF Embedder
<1> DEFINE res == EmbedderResult(m, empty, dim)
<1>3. \/ StillPending(m)
      \/ \A k \in DOMAIN res.out : Arrived(res.out[k].topic, res.out[k].env)
  BY <1>2, EmbedderOut, HandleHandsOn
<1>4. CASE m.env.type \in Embeddable /\ m.env.data.text # NoText
  <2>1. ~empty
    BY <1>2, <1>4
  <2>2. res.out = <<To("ingress", EmbedEnv(m, dim))>>
    BY <1>4, <2>1 DEF EmbedderResult, Result
  <2>3. StillPending(m) \/ Arrived("ingress", EmbedEnv(m, dim))
    BY <1>3, <2>2 DEF To
  <2> QED
    BY <1>1, <2>3 DEF HandedOn
<1> QED
  BY <1>1, <1>4 DEF HandedOn

\* The engine.
LEMMA EngineHandsOn ==
    ASSUME IInv, "publish" \notin FaultKinds, NEW m \in stream, m.st = "pending",
           NEW e \in Engines, EngineUpsert(m, e) \/ EngineSearch(m, e)
    PROVE  StillPending(m) \/ HandedOn(m)
<1>1. /\ m.topic = "engine" /\ BusTypeOK
      /\ EngineSearch(m, e) => Intent(m.env) # "upsert"
  BY DEF EngineUpsert, EngineSearch, Running, IInv, TypeOK
<1>2. CASE EngineUpsert(m, e)
  BY <1>1, <1>2 DEF HandedOn
<1>3. CASE EngineSearch(m, e)
  <2>1. PICK out : Answering(m, e, out) /\ Finish(m, out, "acked", "nak")
    BY <1>3, EngineSearchGrows
  <2>2. StillPending(m) \/ \A k \in DOMAIN out : Arrived(out[k].topic, out[k].env)
    BY <1>1, <2>1, FinishHandsOn DEF Verdicts
  <2>3. CASE Intent(m.env) = "search"
    <3>1. PICK hits \in Nearest(e, m.env) : out = <<To("replies", ReplyEnv(m, hits))>>
      BY <2>1, <2>3 DEF Answering
    <3>2. StillPending(m) \/ Arrived("replies", ReplyEnv(m, hits))
      BY <2>2, <3>1 DEF To
    <3>3. ReplyEnv(m, hits).corr = m.env.corr
      BY DEF ReplyEnv, NewEnvelope
    <3> QED
      BY <1>1, <1>3, <3>2, <3>3 DEF HandedOn
  <2>4. CASE Intent(m.env) # "search"
    BY <1>1, <1>3, <2>4 DEF HandedOn
  <2> QED
    BY <2>3, <2>4
<1> QED
  BY <1>2, <1>3

\* After a step, a pending message is still pending, or its call is over and
\* has handed on what it was about.
LEMMA AckMeansHandedOn ==
    ASSUME IInv, LInv, [Next]_vars, "publish" \notin FaultKinds, NEW m \in stream, m.st = "pending"
    PROVE  StillPending(m) \/ HandedOn(m)
<1>1. CASE m \in stream'
  BY <1>1 DEF StillPending, Same
<1>2. CASE Recounted
  BY <1>2 DEF Recounted, Kept, StillPending
<1>3. ASSUME NEW r \in Requests, Submitted(r) PROVE m \in stream'
  BY <1>3 DEF Submitted
<1>4. CASE Handles(m)
  BY <1>4, RouterHandsOn, ChunkerHandsOn, VisionHandsOn, EmbedderHandsOn, EngineHandsOn
     DEF Handles, LInv, MessagesInv
<1>5. ASSUME NEW h \in stream, NEW out, Handles(h), Grows(h, out), m \notin stream'
      PROVE  Handles(m)
  BY <1>5 DEF Grows
<1> QED
  BY <1>1, <1>2, <1>3, <1>4, <1>5, StreamStep

-----------------------------------------------------------------------------
(* Accepted requests *)

\* A request that is accepted has just been stored in the stream, or was
\* accepted before.
LEMMA AcceptedStep ==
    ASSUME IInv, [Next]_vars, NEW r \in Requests, stage'[r] = "accepted"
    PROVE  stage[r] = "accepted" \/ Arrived("ingress", RequestEnv(r))
<1>1. stage \in [Requests -> {"new", "uploaded", "accepted", "failed"}]
  BY DEF IInv, TypeOK
<1>2. ASSUME NEW q \in Requests, Upload(q) PROVE stage[r] = "accepted"
  BY <1>1, <1>2 DEF Upload
<1>3. ASSUME NEW q \in Requests, Submit(q), stage[r] # "accepted"
      PROVE  Arrived("ingress", RequestEnv(r))
  <2> DEFINE root == NewMessage(<<>>, "ingress", RequestEnv(q))
  <2>1. q = r /\ root \in stream'
    BY <1>1, <1>3 DEF Submit
  <2>2. root.topic = "ingress" /\ root.env = RequestEnv(q) /\ root.st = "pending"
    BY DEF NewMessage
  <2> HIDE DEF root
  <2> QED
    BY <2>1, <2>2 DEF Arrived
<1>4. ASSUME NEW m \in stream, Consume(m) \/ Hang(m) PROVE stage' = stage
  BY <1>4 DEF Consume, Hang, DeliverTask, Router, Chunker, Vision, Embedder, Handle, ReadBreaks,
              EngineUpsert, EngineSearch
<1>5. ASSUME Reboot PROVE stage[r] = "accepted"
  BY <1>5 DEF Reboot
<1> QED
  BY <1>2, <1>3, <1>4, <1>5 DEF Next, vars, EngineRestart

\* The routes of the classifier are consumed topics.
LEMMA RoutesAreConsumed ==
    ASSUME NEW env, Classify(env) # "unroutable"
    PROVE  Classify(env) \in GroupTopics
  BY DEF Classify, GroupTopics

\* Derived events have a text.
LEMMA DerivedText ==
    ASSUME NEW env, env.corr \in Requests, Route(env.corr) # "embed", IsDerived(env)
    PROVE  env.data.text # NoText
  BY NoneAssumption DEF IsDerived, IsPart, PartText, NoText

\* What the embedder makes an embedding of.
LEMMA EmbedsText ==
    ASSUME IInv, NEW m \in stream, m.topic = "embed", Lineage(m), Indexable(m.env.corr)
    PROVE  m.env.type \in Embeddable /\ m.env.data.text # NoText
<1>1. m.env.corr \in Requests
  BY EmbedTask
<1>2. CASE m.env = RequestEnv(m.env.corr) /\ m.env.type \in Requested /\ Route(m.env.corr) = "embed"
  BY <1>2 DEF Indexable, Embeddable, Requested
<1>3. CASE /\ m.env.type \in {"chunk.completed", "vision.completed"}
           /\ Route(m.env.corr) \in {"chunk", "vision"}
           /\ IsDerived(m.env)
  BY <1>1, <1>3, DerivedText DEF Embeddable
<1> QED
  BY <1>2, <1>3, EmbedTask

\* A search that its message hands on is answered or in work.
LEMMA SearchHandedOn ==
    ASSUME IInv, NEW m \in stream, Lineage(m), HandedOn(m),
           NEW r \in Requests, m.env.corr = r, Input[r].kind = "search",
           Indexable(r), Route(r) # "chunk"
    PROVE  Answered(r)' \/ InWork(r)'
<1>1. ASSUME NEW topic \in GroupTopics, NEW env, env.corr = r, Arrived(topic, env)
      PROVE  InWork(r)'
  BY <1>1 DEF Arrived, InWork, Unsettled
<1>2. CASE m.topic = "ingress" /\ Arrived(Classify(m.env), m.env)
  BY <1>1, <1>2, IngressIsRoutable, RoutesAreConsumed
<1>3. CASE m.topic = "vision"
  <2>1. m.env.type \in Requested
    BY <1>3, WorkerTask, RouteType
  <2>2. PICK env \in OrCut(VisionEnv(m)) : Arrived("ingress", env)
    BY <1>3, <2>1 DEF HandedOn
  <2>3. env.corr = r
    BY DEF OrCut, CutEnv, VisionEnv, NewEnvelope
  <2> QED
    BY <1>1, <2>2, <2>3 DEF GroupTopics
<1>4. CASE m.topic = "embed"
  <2>1. PICK dim \in Dims : Arrived("ingress", EmbedEnv(m, dim))
    BY <1>4, EmbedsText DEF HandedOn
  <2>2. EmbedEnv(m, dim).corr = r
    BY DEF EmbedEnv, NewEnvelope
  <2> QED
    BY <1>1, <2>1, <2>2 DEF GroupTopics
<1>5. CASE m.topic = "engine"
  <2>1. Intent(m.env) = "search"
    BY <1>5, EngineTask
  <2>2. ~ \E e \in Engines : EngineUpsert(m, e)
    BY <2>1 DEF EngineUpsert
  <2>3. PICK env : env.corr = r /\ Arrived("replies", env)
    BY <1>5, <2>1, <2>2 DEF HandedOn
  <2> QED
    BY <2>3 DEF Arrived, Answered, Replies
<1>6. m.topic # "chunk"
  BY WorkerTask
<1> QED
  BY <1>2, <1>3, <1>4, <1>5, <1>6 DEF HandedOn

\* A search that reached the bus is answered or in work, whatever crashes,
\* runs out of time, fails, breaks off or falls silent; only a publish error is ignored by the workers
\* and loses it.
THEOREM SearchesAreNotDropped ==
    ASSUME "publish" \notin FaultKinds
    PROVE  Spec => []SearchNotDropped
<1>1. Init => SearchNotDropped
  BY DEF Init, SearchNotDropped
<1>2. IInv /\ LInv /\ SearchNotDropped /\ [Next]_vars => SearchNotDropped'
  <2> SUFFICES ASSUME IInv, LInv, SearchNotDropped, [Next]_vars,
                      NEW r \in Requests, stage'[r] = "accepted", Input[r].kind = "search",
                      Indexable(r), Route(r) # "chunk"
               PROVE  Answered(r)' \/ InWork(r)'
    BY DEF SearchNotDropped, Indexable, Route
  <2>1. CASE Arrived("ingress", RequestEnv(r))
    BY <2>1, RequestEnvIs DEF Arrived, InWork, Unsettled, GroupTopics
  <2>2. CASE stage[r] = "accepted" /\ Answered(r)
    <3>1. PICK m \in stream : m.topic = "replies" /\ m.env.corr = r
      BY <2>2 DEF Answered, Replies
    <3>2. PICK x \in stream' : Later(m, x)
      BY MessagesStay
    <3> QED
      BY <3>1, <3>2 DEF Later, Same, Answered, Replies
  <2>3. CASE stage[r] = "accepted" /\ InWork(r)
    <3>1. PICK m \in stream : m.env.corr = r /\ Unsettled(m)
      BY <2>3 DEF InWork
    <3>2. StillPending(m) \/ HandedOn(m)
      BY <3>1, AckMeansHandedOn DEF Unsettled
    <3>3. StillPending(m) => InWork(r)'
      BY <3>1 DEF StillPending, Same, InWork, Unsettled
    <3>4. Lineage(m)
      BY DEF LInv, MessagesInv
    <3> QED
      BY <3>1, <3>2, <3>3, <3>4, SearchHandedOn
  <2> QED
    BY <2>1, <2>2, <2>3, AcceptedStep DEF SearchNotDropped
<1> QED
  BY <1>1, <1>2, Inductive, LineageInductive, PTL DEF Spec

-----------------------------------------------------------------------------
(* Accepted documents *)

\* Only requests with an upload have a blob.
UploadsInv == \A u \in URIs : blobs[u] # None => HasUpload(blobs[u])

\* Uploads come from requests that have something to upload.
LEMMA UploadsInductive == Spec => []UploadsInv
<1>1. Init => UploadsInv
  BY DEF Init, UploadsInv
<1>2. IInv /\ UploadsInv /\ [Next]_vars => UploadsInv'
  BY BlobStep DEF UploadsInv, Upload, HasUpload, Offloaded
<1> QED
  BY <1>1, <1>2, Inductive, PTL DEF Spec

\* So what a worker downloads for a request that is alone is its own upload.
LEMMA DownloadsOwn ==
    ASSUME IInv, BlobsInv, UploadsInv, NEW r \in Requests, Alone(r), Downloads(RequestEnv(r))
    PROVE  blobs[RequestEnv(r).data.blob] = r
<1>1. /\ HasUpload(r) /\ RequestEnv(r).data.blob = UriOf(r)
      /\ blobs[UriOf(r)] \in Requests /\ UriOf(blobs[UriOf(r)]) = UriOf(r)
  BY DownloadFrom
<1>2. HasUpload(blobs[UriOf(r)])
  BY <1>1, UriOfType, NoneAssumption DEF UploadsInv
<1> QED
  BY <1>1, <1>2 DEF Alone

\* A document that its message hands on: the parts the message leads to are
\* in progress, or an engine upserts the one it is about.
LEMMA PartHandedOn ==
    ASSUME IInv, BlobsInv, UploadsInv, "read" \notin FaultKinds,
           NEW m \in stream, Lineage(m), HandedOn(m),
           NEW r \in Requests, Input[r].kind = "ingest", Indexable(r), Alone(r),
           NEW n \in PartsOf(r), Carries(m, r, n)
    PROVE  InProgress(r, n)' \/ \E e \in Engines : EngineUpsert(m, e)
<1>1. ASSUME NEW topic \in GroupTopics, NEW env, Arrived(topic, env),
             env.corr = r, env.type = "ingest.requested" \/ env.data.text.n = n
      PROVE  InProgress(r, n)'
  BY <1>1 DEF Arrived, InProgress, Unsettled, Carries
<1>2. m.env.corr = r /\ (m.env.type = "ingest.requested" \/ m.env.data.text.n = n)
  BY DEF Carries
<1>3. CASE m.topic = "ingress" /\ Arrived(Classify(m.env), m.env)
  BY <1>1, <1>2, <1>3, IngressIsRoutable, RoutesAreConsumed
<1>4. CASE m.topic \in {"chunk", "vision"}
  <2>1. m.env = RequestEnv(r) /\ m.topic = Route(r) /\ m.env.type = "ingest.requested"
    BY <1>2, <1>4, WorkerTask, RequestEnvIs
  <2>2. CASE m.topic = "chunk"
    <3>1. /\ Downloads(m.env)
          /\ \A k \in 1..Input[blobs[m.env.data.blob]].pieces : Arrived("ingress", ChunkEnv(m, k))
      BY <2>1, <2>2 DEF HandedOn
    <3>2. n \in 1..Input[blobs[m.env.data.blob]].pieces
      BY <2>1, <2>2, <3>1, DownloadsOwn DEF PartsOf
    <3>3. ChunkEnv(m, n).corr = r /\ ChunkEnv(m, n).data.text.n = n
      BY <1>2 DEF ChunkEnv, NewEnvelope, Derived, NoPayload, Piece
    <3> QED
      BY <1>1, <3>1, <3>2, <3>3 DEF GroupTopics
  <2>3. CASE m.topic = "vision"
    <3>1. PICK env \in OrCut(VisionEnv(m)) : Arrived("ingress", env)
      BY <2>1, <2>3 DEF HandedOn, Requested
    <3>2. n = 0
      BY <2>1, <2>3 DEF PartsOf
    <3>3. env.corr = r /\ env.data.text.n = 0
      <4> DEFINE whole == VisionEnv(m)
      <4>1. whole.corr = r /\ "text" \in DOMAIN whole.data /\ whole.data.text.n = 0
        BY <1>2 DEF VisionEnv, NewEnvelope, Derived, NoPayload, Whole
      <4>2. env \in OrCut(whole)
        BY <3>1
      <4> HIDE DEF whole
      <4> QED
        BY <4>1, <4>2 DEF OrCut, CutEnv, CutOff, NewEnvelope
    <3> QED
      BY <1>1, <3>1, <3>2, <3>3 DEF GroupTopics
  <2> QED
    BY <1>4, <2>2, <2>3
<1>5. CASE m.topic = "embed"
  <2>1. PICK dim \in Dims : Arrived("ingress", EmbedEnv(m, dim))
    BY <1>2, <1>5, EmbedsText DEF HandedOn
  <2>2. EmbedEnv(m, dim).corr = r /\ EmbedEnv(m, dim).data.text = m.env.data.text
    BY <1>2 DEF EmbedEnv, NewEnvelope, NoPayload
  <2>3. m.env.data.text.n = n
    <3>1. CASE m.env.type # "ingest.requested"
      BY <1>2, <3>1
    <3>2. CASE m.env.type = "ingest.requested"
      <4>1. m.env = RequestEnv(r) /\ Route(r) = "embed"
        BY <1>2, <1>5, <3>2, EmbedTask
      <4>2. m.env.data.text = NoText \/ m.env.data.text = Whole(r)
        BY <4>1, RequestEnvIs
      <4>3. n = 0
        BY <4>1 DEF PartsOf
      <4> QED
        BY <4>2, <4>3 DEF NoText, Whole
    <3> QED
      BY <3>1, <3>2
  <2> QED
    BY <1>1, <2>1, <2>2, <2>3 DEF GroupTopics
<1>6. CASE m.topic = "engine"
  <2>1. Intent(m.env) = "upsert"
    BY <1>2, <1>6, EngineTask
  <2> QED
    BY <1>6, <2>1 DEF HandedOn
<1> QED
  BY <1>3, <1>4, <1>5, <1>6 DEF HandedOn

\* One step of an accepted document's part: it is in progress before and
\* after it, or it is indexed by it.
LEMMA PartStep ==
    ASSUME IInv, LInv, UploadsInv, [Next]_vars, {"publish", "read"} \cap FaultKinds = {},
           NEW r \in Requests, Input[r].kind = "ingest", Indexable(r), Alone(r),
           NEW n \in PartsOf(r), InProgress(r, n)
    PROVE  \/ InProgress(r, n)'
           \/ \E m \in stream : Carries(m, r, n) /\ \E e \in Engines : EngineUpsert(m, e)
<1>1. PICK m \in stream : Unsettled(m) /\ Carries(m, r, n)
  BY DEF InProgress
<1>2. StillPending(m) \/ HandedOn(m)
  BY <1>1, AckMeansHandedOn DEF Unsettled
<1>3. StillPending(m) => InProgress(r, n)'
  BY <1>1 DEF StillPending, Same, InProgress, Unsettled, Carries
<1>4. Lineage(m)
  BY DEF LInv, MessagesInv
<1> QED
  BY <1>1, <1>2, <1>3, <1>4, PartHandedOn DEF LInv

\* An engine's task after its call is acked or still in progress.
LEMMA UpsertAcks ==
    ASSUME IInv, LInv, [Next]_vars, NEW m \in stream, NEW r, NEW n, Carries(m, r, n),
           NEW e \in Engines, EngineUpsert(m, e)
    PROVE  AckedByEngine(r, n)' \/ InProgress(r, n)'
<1>1. m.topic = "engine" /\ Intent(m.env) = "upsert"
  BY DEF EngineUpsert, Running
<1>2. PICK x \in stream' : Later(m, x)
  BY MessagesStay
<1>3. x.topic = "engine" /\ x.env = m.env /\ x.st # "termed"
  BY <1>1, <1>2 DEF Later, Same, LInv, MessagesInv
<1>4. x.st \in {"pending", "acked"}
  <2>1. x \in Messages
    BY NextPreserves DEF IInv, TypeOK, BusTypeOK
  <2> QED
    BY <1>3, <2>1 DEF Messages
<1>5. Carries(x, r, n)
  BY <1>3 DEF Carries
<1> QED
  BY <1>1, <1>3, <1>4, <1>5 DEF AckedByEngine, InProgress, Unsettled, GroupTopics

\* A document that has just been accepted is in progress as a whole.
LEMMA NewIsInProgress ==
    ASSUME NEW r \in Requests, Input[r].kind = "ingest", Arrived("ingress", RequestEnv(r)), NEW n
    PROVE  InProgress(r, n)'
  BY RequestEnvIs DEF Arrived, InProgress, Unsettled, Carries, GroupTopics

\* Whatever crashes, engines and the monolith included, or falls silent, each
\* part of an accepted document is on its way, or has been given to an engine
\* that acked it, as long as publishing works and no download breaks off.
THEOREM DocumentsReachEngines ==
    ASSUME {"publish", "read"} \cap FaultKinds = {}
    PROVE  Spec => []PartsReachEngine
<1>1. Init => PartsReachEngine
  BY DEF Init, PartsReachEngine
<1>2. IInv /\ LInv /\ UploadsInv /\ PartsReachEngine /\ [Next]_vars => PartsReachEngine'
  <2> SUFFICES ASSUME IInv, LInv, UploadsInv, PartsReachEngine, [Next]_vars,
                      NEW r \in Requests, stage'[r] = "accepted", Input[r].kind = "ingest",
                      Indexable(r), Alone(r), NEW n \in PartsOf(r)
               PROVE  AckedByEngine(r, n)' \/ InProgress(r, n)'
    BY DEF PartsReachEngine, Indexable, Route, Alone, PartsOf
  <2>1. CASE Arrived("ingress", RequestEnv(r))
    BY <2>1, NewIsInProgress
  <2>2. CASE AckedByEngine(r, n)
    <3>1. PICK m \in stream : /\ m.topic = "engine" /\ m.st = "acked"
                              /\ Intent(m.env) = "upsert" /\ Carries(m, r, n)
      BY <2>2 DEF AckedByEngine
    <3>2. PICK x \in stream' : Later(m, x)
      BY MessagesStay
    <3> QED
      BY <3>1, <3>2 DEF Later, Same, AckedByEngine, Carries
  <2>3. CASE InProgress(r, n)
    BY <2>3, PartStep, UpsertAcks
  <2> QED
    BY <2>1, <2>2, <2>3, AcceptedStep DEF PartsReachEngine
<1> QED
  BY <1>1, <1>2, Inductive, LineageInductive, UploadsInductive, PTL DEF Spec

\* A part stays in the index while no engine loses its rows.
LEMMA IndexedStays ==
    ASSUME IInv, LInv, [Next]_vars, {"restart", "reboot"} \cap FaultKinds = {},
           NEW r, NEW n, Indexed(r, n)
    PROVE  Indexed(r, n)'
<1>1. PICK e \in Engines : \E row \in db[e] : row.doc = r /\ row.text.n = n
  BY DEF Indexed
<1>2. [doc |-> r, part |-> n] \in PartsIn(db[e])
  BY <1>1 DEF PartsIn, PartOf
<1>3. PartsIn(db[e]) \subseteq PartsIn(db'[e])
  <2>1. \A old \in db[e] : RowLineage(old)
    BY DEF LInv, RowsInv
  <2>2. ASSUME NEW m \in stream, m.topic = "engine", Intent(m.env) = "upsert"
        PROVE  RowLineage(RowOf(m.env))
    BY <2>2, UpsertLineage DEF LInv, MessagesInv
  <2> QED
    BY <2>1, <2>2, RowStep, UpsertAdds
<1>4. PICK row \in db'[e] : PartOf(row) = [doc |-> r, part |-> n]
  BY <1>2, <1>3 DEF PartsIn
<1> QED
  BY <1>4 DEF Indexed, PartOf

\* An upsert adds the part its task is about.
LEMMA UpsertIndexes ==
    ASSUME IInv, LInv, NEW m \in stream, NEW r, NEW n, Carries(m, r, n),
           NEW e \in Engines, EngineUpsert(m, e)
    PROVE  Indexed(r, n)'
<1>1. m.topic = "engine" /\ Intent(m.env) = "upsert" /\ Lineage(m)
  BY DEF EngineUpsert, Running, LInv, MessagesInv
<1>2. m.env.type = "embed.completed"
  BY <1>1, EngineTask
<1>3. RowOf(m.env).doc = r /\ RowOf(m.env).text.n = n
  BY <1>1, <1>2, UpsertLineage DEF Carries, RowOf
<1>4. RowOf(m.env) \in db'[e]
  BY DEF EngineUpsert, Upserted, IInv, TypeOK
<1> QED
  BY <1>3, <1>4 DEF Indexed

\* As long as publishing works, no download breaks off and no engine loses its
\* rows, no part of an accepted document is forgotten: adapters that return an
\* error or nothing at all, lost acks, expired and overlapping deliveries
\* leave it in the index or on its way there.
THEOREM NothingIsAckedAway ==
    ASSUME {"publish", "read", "restart", "reboot"} \cap FaultKinds = {}
    PROVE  Spec => []NothingAckedAway
<1>1. Init => NothingAckedAway
  BY DEF Init, NothingAckedAway
<1>2. IInv /\ LInv /\ UploadsInv /\ NothingAckedAway /\ [Next]_vars => NothingAckedAway'
  <2> SUFFICES ASSUME IInv, LInv, UploadsInv, NothingAckedAway, [Next]_vars,
                      NEW r \in Requests, stage'[r] = "accepted", Input[r].kind = "ingest",
                      Indexable(r), Alone(r), NEW n \in PartsOf(r)
               PROVE  Indexed(r, n)' \/ InProgress(r, n)'
    BY DEF NothingAckedAway, InProgress, Indexable, Route, Alone, PartsOf
  <2>1. CASE Arrived("ingress", RequestEnv(r))
    BY <2>1, NewIsInProgress
  <2>2. CASE Indexed(r, n)
    BY <2>2, IndexedStays
  <2>3. CASE InProgress(r, n)
    BY <2>3, PartStep, UpsertIndexes
  <2> QED
    BY <2>1, <2>2, <2>3, AcceptedStep DEF NothingAckedAway, InProgress
<1> QED
  BY <1>1, <1>2, Inductive, LineageInductive, UploadsInductive, PTL DEF Spec

=============================================================================
