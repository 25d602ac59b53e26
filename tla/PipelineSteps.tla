---------------------------- MODULE PipelineSteps -----------------------------
(***************************************************************************)
(* What a step of the pipeline does to the stream, the rows and the blobs, *)
(* whichever step it is and however its handler call ends: messages stay,  *)
(* new ones are what a handler makes of an old one, and a message is acked *)
(* only by a call that has published all it had to.                        *)
(***************************************************************************)
EXTENDS PipelineProofs

\* x is y with other counters.
Same(y, x) == x.path = y.path /\ x.topic = y.topic /\ x.env = y.env

Kept(y, x) == Same(y, x) /\ y.dlv <= x.dlv /\ x.st = y.st

\* x is y after a call: a verdict is final; only the router terms, and only
\* what it has no route for.
Later(y, x) ==
    /\ Same(y, x)
    /\ y.dlv <= x.dlv
    /\ y.st # "pending" => x.st = y.st
    /\ x.st = "termed" => y.st = "termed" \/ (y.topic = "ingress" /\ Classify(y.env) = "unroutable")

\* A call on m publishes out[k] as x.
Made(m, out, x) ==
    \E k \in DOMAIN out : x = NewMessage(ChildPath(m, k), out[k].topic, out[k].env)

\* The stream of the next state: all messages of this one, of which a call
\* changes m, and what it publishes of out.
Grows(m, out) ==
    /\ \A y \in stream : y \in stream' \/ y = m
    /\ \E x \in stream' : Later(m, x)
    /\ \A x \in stream' : x \in stream \/ Later(m, x) \/ Made(m, out, x)

\* No message is new or has a new verdict. A reboot alone touches those that
\* no group consumes.
Recounted ==
    /\ \A y \in stream : \E x \in stream' : Kept(y, x)
    /\ \A x \in stream' :
        x \in stream \/ \E y \in stream : Kept(y, x) /\ (y.topic \in GroupTopics \/ Reboot)

\* The rest of a handler call on m.
Handles(m) ==
    \/ Router(m) \/ Chunker(m) \/ Vision(m) \/ Embedder(m)
    \/ \E e \in Engines : EngineUpsert(m, e) \/ EngineSearch(m, e)

\* An event as it was meant, or made of a text that is cut off.
OrCut(env) == {env, CutEnv(env)}

\* The k-th event of a call on m.
Emits(m, k, topic, env) ==
    \/ /\ m.topic = "ingress"
       /\ k = 1 /\ env = m.env
       /\ topic = IF Classify(m.env) = "unroutable" THEN "dlq" ELSE Classify(m.env)
    \/ /\ m.topic = "chunk"
       /\ m.env.type = "ingest.requested" /\ Downloads(m.env)
       /\ k \in 1..Input[blobs[m.env.data.blob]].pieces
       /\ topic = "ingress" /\ env \in OrCut(ChunkEnv(m, k))
    \/ /\ m.topic = "vision"
       /\ m.env.type \in {"ingest.requested", "search.requested"} /\ Downloads(m.env)
       /\ k = 1 /\ topic = "ingress" /\ env \in OrCut(VisionEnv(m))
    \/ /\ m.topic = "embed"
       /\ m.env.type \in Embeddable
       /\ k = 1 /\ topic = "ingress"
       /\ \E dim \in Dims : env = EmbedEnv(m, dim)
    \/ /\ m.topic = "engine"
       /\ Intent(m.env) = "search"
       /\ k = 1 /\ topic = "replies"
       /\ \E e \in Engines : \E hits \in Nearest(e, m.env) : env = ReplyEnv(m, hits)

Emitted(m, out) ==
    /\ m \in stream /\ m.held > 0
    /\ DOMAIN out \subseteq Nat
    /\ \A k \in DOMAIN out : Emits(m, k, out[k].topic, out[k].env)

-----------------------------------------------------------------------------
\* A delivery that ends changes the verdict at most.
LEMMA SettledIs ==
    ASSUME NEW m \in Messages, NEW verdict \in Verdicts
    PROVE  /\ Same(m, Settle(m, verdict))
           /\ Settle(m, verdict).dlv = m.dlv
           /\ Settle(m, verdict).st = IF m.st = "pending" /\ verdict # "nak" THEN verdict ELSE m.st
  BY DEF Messages, Settle, Same

\* A message is itself kept, and what is kept is later.
LEMMA KeptReflexive ==
    ASSUME NEW m \in Messages
    PROVE  Kept(m, m) /\ Later(m, m)
  BY BusAssumption DEF Messages, Kept, Later, Same

\* What is kept has no new verdict.
LEMMA KeptIsLater == ASSUME NEW y, NEW x, Kept(y, x) PROVE Later(y, x)
  BY DEF Kept, Later

\* Which message a call acts on is still in the stream after it, and so are
\* all others.
LEMMA AfterGrows ==
    ASSUME BusTypeOK, NEW m \in stream, NEW verdict \in Verdicts, NEW out, NEW stored,
           stored \subseteq DOMAIN out,
           verdict = "termed" => m.topic = "ingress" /\ Classify(m.env) = "unroutable",
           stream' = After(m, verdict, out, stored)
    PROVE  Grows(m, out)
<1> DEFINE s == Settle(m, verdict)
<1>1. m \in Messages
  BY DEF BusTypeOK
<1>2. Later(m, s)
  <2>1. m.dlv <= m.dlv
    BY <1>1, BusAssumption DEF Messages
  <2> QED
    BY <1>1, <2>1, SettledIs DEF Later, Messages
<1>3. stream' = (stream \ {m}) \cup {s} \cup Published(m, out, stored)
  BY DEF After
<1> HIDE DEF s
<1>4. Published(m, out, stored) \subseteq {x \in stream' : Made(m, out, x)}
  BY <1>3 DEF Published, Made
<1> QED
  BY <1>2, <1>3, <1>4 DEF Grows

\* However a call ends, the stream grows by what it had to publish at most.
LEMMA FinishGrows ==
    ASSUME BusTypeOK, NEW m \in stream, NEW out, DOMAIN out = 1..Len(out), Len(out) \in Nat,
           NEW verdict \in Verdicts, NEW onError \in Verdicts,
           "termed" \in {verdict, onError} => m.topic = "ingress" /\ Classify(m.env) = "unroutable",
           Finish(m, out, verdict, onError)
    PROVE  Grows(m, out)
<1>1. CASE stream' = After(m, verdict, out, DOMAIN out)
  BY <1>1, AfterGrows
<1>2. CASE \E k \in 0..Len(out) : stream' = After(m, "nak", out, 1..k)
  <2>1. PICK k \in 0..Len(out) : stream' = After(m, "nak", out, 1..k)
    BY <1>2
  <2>2. 1..k \subseteq DOMAIN out
    OBVIOUS
  <2> QED
    BY <2>1, <2>2, AfterGrows DEF Verdicts
<1>3. CASE \E stored \in SUBSET DOMAIN out : stream' = After(m, onError, out, stored)
  BY <1>3, AfterGrows
<1> QED
  BY <1>1, <1>2, <1>3 DEF Finish

\* A call that fails early publishes nothing.
LEMMA AdapterErrorGrows ==
    ASSUME BusTypeOK, NEW m \in stream, NEW out, AdapterError(m)
    PROVE  Grows(m, out)
<1>1. stream' = After(m, "nak", <<>>, {})
  BY DEF AdapterError
<1>2. Grows(m, <<>>)
  BY <1>1, AfterGrows DEF Verdicts
<1>3. ~ \E x : Made(m, <<>>, x)
  BY DEF Made
<1> QED
  BY <1>2, <1>3 DEF Grows

-----------------------------------------------------------------------------
\* The only event of a call is the first of a sequence of one.
LEMMA OneEmitted ==
    ASSUME NEW m \in stream, m.held > 0, NEW topic, NEW env, Emits(m, 1, topic, env)
    PROVE  Emitted(m, <<To(topic, env)>>)
<1>1. DOMAIN <<To(topic, env)>> = {1} /\ <<To(topic, env)>>[1] = To(topic, env)
  OBVIOUS
<1> QED
  BY <1>1 DEF Emitted, To

\* A call without events.
LEMMA NoneEmitted == ASSUME NEW m \in stream, m.held > 0 PROVE Emitted(m, <<>>)
  BY DEF Emitted

\* The router passes the event on under its target topic, or to the DLQ, and
\* terms it only then.
LEMMA RouterGrows ==
    ASSUME IInv, NEW m \in stream, Router(m)
    PROVE  \E out : Emitted(m, out) /\ Grows(m, out)
<1> DEFINE res == RouterResult(m)
           topic == IF Classify(m.env) = "unroutable" THEN "dlq" ELSE Classify(m.env)
<1>1. m.topic = "ingress" /\ m.held > 0
  BY DEF Router, Running
<1>2. res.out = <<To(topic, m.env)>>
  BY DEF RouterResult, Result
<1>3. res.verdict = IF Classify(m.env) = "unroutable" THEN "termed" ELSE "acked"
  BY DEF RouterResult, Result
<1>4. Emitted(m, res.out)
  BY <1>1, <1>2, OneEmitted DEF Emits
<1>5. Grows(m, res.out)
  <2>1. BusTypeOK /\ DOMAIN res.out = 1..Len(res.out) /\ Len(res.out) \in Nat
    BY <1>2 DEF IInv, TypeOK
  <2>2. Finish(m, res.out, res.verdict, IF res.verdict = "termed" THEN "termed" ELSE "nak")
    BY DEF Router
  <2> QED
    BY <1>1, <1>3, <2>1, <2>2, FinishGrows DEF Verdicts
<1> QED
  BY <1>4, <1>5

\* A worker's call that emits res.out.
LEMMA HandleGrows ==
    ASSUME IInv, NEW m \in stream, NEW res, OutOK(res.out),
           res.verdict \in {"acked", "nak"}, Handle(m, res)
    PROVE  Grows(m, res.out)
<1>1. BusTypeOK /\ DOMAIN res.out = 1..Len(res.out) /\ Len(res.out) \in Nat
  BY DEF IInv, TypeOK, OutOK
<1>2. CASE Finish(m, res.out, res.verdict, "acked")
  BY <1>1, <1>2, FinishGrows DEF Verdicts
<1>3. CASE AdapterError(m)
  BY <1>1, <1>3, AdapterErrorGrows
<1> QED
  BY <1>2, <1>3 DEF Handle

\* A download that breaks off: what is published instead of out.
LEMMA ReadBreaksGrows ==
    ASSUME IInv, NEW m \in stream, NEW out, OutOK(out), NEW texts \in SUBSET (0..Len(out)),
           ReadBreaks(m, out, texts)
    PROVE  \E n \in texts :
            /\ Grows(m, BrokenOff(out, n))
            /\ DOMAIN BrokenOff(out, n) = 1..n /\ 1..n \subseteq DOMAIN out /\ n \in Nat
            /\ \A k \in 1..n : /\ BrokenOff(out, n)[k].topic = out[k].topic
                              /\ BrokenOff(out, n)[k].env \in OrCut(out[k].env)
<1>1. PICK n \in texts : stream' = After(m, "acked", BrokenOff(out, n), 1..n)
  BY DEF ReadBreaks
<1>2. DOMAIN BrokenOff(out, n) = 1..n /\ 1..n \subseteq DOMAIN out /\ n \in Nat
  BY BrokenOffOK DEF OutOK
<1>3. Grows(m, BrokenOff(out, n))
  BY <1>1, <1>2, AfterGrows DEF IInv, TypeOK, Verdicts
<1>4. ASSUME NEW k \in 1..n
      PROVE  /\ BrokenOff(out, n)[k].topic = out[k].topic
             /\ BrokenOff(out, n)[k].env \in OrCut(out[k].env)
  BY DEF BrokenOff, To, OrCut
<1> QED
  BY <1>2, <1>3, <1>4

\* The chunker.
LEMMA ChunkerGrows ==
    ASSUME IInv, NEW m \in stream, Chunker(m)
    PROVE  \E out : Emitted(m, out) /\ Grows(m, out)
<1> DEFINE res == ChunkerResult(m)
<1>1. m.topic = "chunk" /\ m.held > 0
  BY DEF Chunker, Running
<1>2. OutOK(res.out) /\ res.verdict \in {"acked", "nak"}
  BY <1>1, ChunkerOut DEF ChunkerResult, Result
<1>3. Emitted(m, res.out)
  <2>1. CASE m.env.type # "ingest.requested" \/ ~Downloads(m.env)
    BY <1>1, <2>1, NoneEmitted DEF ChunkerResult, Result
  <2>2. CASE m.env.type = "ingest.requested" /\ Downloads(m.env)
    <3> DEFINE n == Input[blobs[m.env.data.blob]].pieces
    <3>1. res.out = [k \in 1..n |-> To("ingress", ChunkEnv(m, k))]
      BY <2>2 DEF ChunkerResult, Result
    <3>2. n \in Nat
      BY <2>2, DownloadOwn, InputOf DEF IInv
    <3> HIDE DEF res, n
    <3>3. DOMAIN res.out \subseteq Nat
      BY <3>1, <3>2
    <3>4. ASSUME NEW k \in 1..n PROVE Emits(m, k, "ingress", ChunkEnv(m, k))
      BY <1>1, <2>2, <3>4 DEF Emits, n, OrCut
    <3>5. \A k \in 1..n : res.out[k].topic = "ingress" /\ res.out[k].env = ChunkEnv(m, k)
      BY <3>1 DEF To
    <3>6. \A k \in DOMAIN res.out : Emits(m, k, res.out[k].topic, res.out[k].env)
      BY <3>1, <3>4, <3>5
    <3> QED
      BY <1>1, <3>3, <3>6 DEF Emitted
  <2> QED
    BY <2>1, <2>2
<1>4. CASE Handle(m, res)
  BY <1>2, <1>3, <1>4, HandleGrows
<1>5. CASE Calls(m) /\ ReadBreaks(m, res.out, 0..Len(res.out))
  <2>1. PICK n \in 0..Len(res.out) :
            /\ Grows(m, BrokenOff(res.out, n))
            /\ DOMAIN BrokenOff(res.out, n) = 1..n /\ 1..n \subseteq DOMAIN res.out /\ n \in Nat
            /\ \A k \in 1..n : /\ BrokenOff(res.out, n)[k].topic = res.out[k].topic
                              /\ BrokenOff(res.out, n)[k].env \in OrCut(res.out[k].env)
    BY <1>2, <1>5, ReadBreaksGrows
  <2>2. m.env.type = "ingest.requested" /\ Downloads(m.env)
    BY <1>1, <1>5 DEF Calls, ReadBreaks
  <2>3. /\ DOMAIN res.out = 1..Input[blobs[m.env.data.blob]].pieces
        /\ \A k \in DOMAIN res.out : res.out[k].topic = "ingress" /\ res.out[k].env = ChunkEnv(m, k)
    BY <2>2 DEF ChunkerResult, Result, To
  <2> HIDE DEF res
  <2>4. ASSUME NEW k \in 1..n
        PROVE  Emits(m, k, BrokenOff(res.out, n)[k].topic, BrokenOff(res.out, n)[k].env)
    BY <1>1, <2>1, <2>2, <2>3 DEF Emits
  <2>5. Emitted(m, BrokenOff(res.out, n))
    BY <1>1, <2>1, <2>4 DEF Emitted
  <2> QED
    BY <2>1, <2>5
<1> QED
  BY <1>4, <1>5 DEF Chunker

\* The vision worker.
LEMMA VisionGrows ==
    ASSUME IInv, NEW m \in stream, Vision(m)
    PROVE  \E out : Emitted(m, out) /\ Grows(m, out)
<1> DEFINE res == VisionResult(m)
<1>1. m.topic = "vision" /\ m.held > 0
  BY DEF Vision, Running
<1>2. OutOK(res.out) /\ res.verdict \in {"acked", "nak"}
  BY <1>1, VisionOut DEF VisionResult, Result
<1>3. CASE Handle(m, res)
  <2>1. Emitted(m, res.out)
    BY <1>1, OneEmitted, NoneEmitted DEF VisionResult, Result, Emits, OrCut
  <2> QED
    BY <1>2, <1>3, <2>1, HandleGrows
<1>4. CASE Calls(m) /\ ReadBreaks(m, res.out, {1})
  <2>1. /\ m.env.type \in {"ingest.requested", "search.requested"}
        /\ Downloads(m.env)
        /\ res.out = <<To("ingress", VisionEnv(m))>>
    BY <1>1, <1>4 DEF Calls, ReadBreaks, VisionResult, Result
  <2>2. {1} \in SUBSET (0..Len(res.out)) /\ res.out[1] = To("ingress", VisionEnv(m))
    BY <2>1
  <2> HIDE DEF res
  <2>3. /\ Grows(m, BrokenOff(res.out, 1))
        /\ DOMAIN BrokenOff(res.out, 1) = 1..1
        /\ BrokenOff(res.out, 1)[1].topic = res.out[1].topic
        /\ BrokenOff(res.out, 1)[1].env \in OrCut(res.out[1].env)
    <3>1. PICK n \in {1} :
            /\ Grows(m, BrokenOff(res.out, n))
            /\ DOMAIN BrokenOff(res.out, n) = 1..n
            /\ \A k \in 1..n : /\ BrokenOff(res.out, n)[k].topic = res.out[k].topic
                              /\ BrokenOff(res.out, n)[k].env \in OrCut(res.out[k].env)
      BY <1>2, <1>4, <2>2, ReadBreaksGrows
    <3> QED
      BY <3>1
  <2>4. Emits(m, 1, BrokenOff(res.out, 1)[1].topic, BrokenOff(res.out, 1)[1].env)
    BY <1>1, <2>1, <2>2, <2>3 DEF Emits, To
  <2>5. Emitted(m, BrokenOff(res.out, 1))
    BY <1>1, <2>3, <2>4 DEF Emitted
  <2> QED
    BY <2>3, <2>5
<1> QED
  BY <1>3, <1>4 DEF Vision

\* The embedder.
LEMMA EmbedderGrows ==
    ASSUME IInv, NEW m \in stream, Embedder(m)
    PROVE  \E out : Emitted(m, out) /\ Grows(m, out)
<1>1. m.topic = "embed" /\ m.held > 0
  BY DEF Embedder, Running
<1>2. PICK empty \in BOOLEAN, dim \in Dims : Handle(m, EmbedderResult(m, empty, dim))
  BY DEF Embedder
<1> DEFINE res == EmbedderResult(m, empty, dim)
<1>3. Grows(m, res.out)
  <2>1. OutOK(res.out) /\ res.verdict \in {"acked", "nak"}
    BY <1>1, EmbedderOut DEF EmbedderResult, Result
  <2> QED
    BY <1>2, <2>1, HandleGrows
<1>4. Emitted(m, res.out)
  BY <1>1, OneEmitted, NoneEmitted DEF EmbedderResult, Result, Emits
<1> QED
  BY <1>3, <1>4

\* The engine publishes nothing for a document, and for a search the answer
\* made of its rows.
LEMMA EngineUpsertGrows ==
    ASSUME IInv, NEW m \in stream, NEW e \in Engines, EngineUpsert(m, e)
    PROVE  Emitted(m, <<>>) /\ Grows(m, <<>>)
<1>1. BusTypeOK /\ DOMAIN <<>> = 1..Len(<<>>) /\ Len(<<>>) \in Nat
  BY DEF IInv, TypeOK
<1>2. Grows(m, <<>>)
  BY <1>1, FinishGrows DEF EngineUpsert, Verdicts
<1> QED
  BY <1>2, NoneEmitted DEF EngineUpsert, Running

\* The events of the engine's answer to a search.
Answering(m, e, out) ==
    \/ Intent(m.env) # "search" /\ out = <<>>
    \/ /\ Intent(m.env) = "search"
       /\ \E hits \in Nearest(e, m.env) : out = <<To("replies", ReplyEnv(m, hits))>>

\* A search is answered once per call.
LEMMA EngineSearchGrows ==
    ASSUME IInv, NEW m \in stream, NEW e \in Engines, EngineSearch(m, e)
    PROVE  \E out : /\ Answering(m, e, out) /\ Finish(m, out, "acked", "nak")
                    /\ Emitted(m, out) /\ Grows(m, out)
<1>1. m.topic = "engine" /\ m.held > 0
  BY DEF EngineSearch, Running
<1>2. PICK out : Answering(m, e, out) /\ Finish(m, out, "acked", "nak")
  BY DEF EngineSearch, Answering
<1>3. DOMAIN out = 1..Len(out) /\ Len(out) \in Nat
  BY <1>2 DEF Answering
<1>4. Grows(m, out)
  BY <1>2, <1>3, FinishGrows DEF IInv, TypeOK, Verdicts
<1>5. Emitted(m, out)
  BY <1>1, <1>2, OneEmitted, NoneEmitted DEF Answering, Emits
<1> QED
  BY <1>2, <1>4, <1>5

-----------------------------------------------------------------------------
\* An unchanged stream.
LEMMA UnchangedRecounts == ASSUME IInv, stream' = stream PROVE Recounted
  BY KeptReflexive DEF IInv, TypeOK, BusTypeOK, Recounted

\* A delivery only counts.
LEMMA DeliverRecounts == ASSUME IInv, NEW m \in stream, Deliver(m) PROVE Recounted
<1> DEFINE d == [m EXCEPT !.dlv = m.dlv + 1, !.held = m.held + 1]
<1>1. m \in Messages /\ \A y \in stream : y \in Messages
  BY DEF IInv, TypeOK, BusTypeOK
<1>2. Kept(m, d)
  BY <1>1, BusAssumption DEF Kept, Same, Messages
<1>3. stream' = (stream \ {m}) \cup {d} /\ m.topic \in GroupTopics
  BY <1>1 DEF Deliver, Deliverable, Messages
<1> HIDE DEF d
<1> QED
  BY <1>1, <1>2, <1>3, KeptReflexive DEF Recounted

\* A message whose deliveries end without a verdict.
LEMMA KeptUnheld ==
    ASSUME NEW m \in Messages, NEW n
    PROVE  Kept(m, [m EXCEPT !.held = n])
  BY BusAssumption DEF Kept, Same, Messages

\* An engine that restarts.
LEMMA RestartRecounts == ASSUME IInv, NEW e \in Engines, EngineRestart(e) PROVE Recounted
<1> DEFINE held == {m \in stream : Running(m, "engine")}
<1>1. PICK left : stream' = (stream \ held) \cup {[m EXCEPT !.held = left[m]] : m \in held}
  BY DEF EngineRestart
<1>2. \A y \in stream : y \in Messages
  BY DEF IInv, TypeOK, BusTypeOK
<1>3. \A m \in held : Kept(m, [m EXCEPT !.held = left[m]]) /\ m.topic \in GroupTopics
  BY <1>2, KeptUnheld DEF Running, GroupTopics
<1>4. ASSUME NEW y \in stream PROVE \E x \in stream' : Kept(y, x)
  BY <1>1, <1>2, <1>3, KeptReflexive
<1>5. ASSUME NEW x \in stream'
      PROVE  x \in stream \/ \E y \in stream : Kept(y, x) /\ y.topic \in GroupTopics
  BY <1>1, <1>3
<1> QED
  BY <1>4, <1>5 DEF Recounted

\* The monolith that restarts.
LEMMA RebootRecounts == ASSUME IInv, Reboot PROVE Recounted
<1>1. \A m \in stream : Kept(m, [m EXCEPT !.held = 0])
  BY KeptUnheld DEF IInv, TypeOK, BusTypeOK
<1>2. stream' = {[m EXCEPT !.held = 0] : m \in stream}
  BY DEF Reboot
<1> QED
  BY <1>1, <1>2 DEF Recounted

\* The gateway publishes a request.
Submitted(r) ==
    /\ Submit(r)
    /\ \A y \in stream : y \in stream'
    /\ \A x \in stream' : x \in stream \/ x = NewMessage(<<>>, "ingress", RequestEnv(r))

\* A submission adds the request at most.
LEMMA SubmitGrows == ASSUME NEW r \in Requests, Submit(r) PROVE Submitted(r)
  BY DEF Submit, Submitted

\* A cut event differs from what it was meant to be in the end of its text.
LEMMA OrCutIs ==
    ASSUME NEW env, EnvOK(env), NEW cut \in OrCut(env)
    PROVE  /\ EnvOK(cut)
           /\ cut.type = env.type /\ cut.tenant = env.tenant /\ cut.corr = env.corr
           /\ cut.data.doc = env.data.doc /\ cut.data.chunk = env.data.chunk
           /\ cut.data.orig = env.data.orig /\ cut.data.topk = env.data.topk
           /\ cut.data.text.src = env.data.text.src /\ cut.data.text.n = env.data.text.n
<1>1. CASE cut = env
  BY <1>1
<1>2. CASE cut = CutEnv(env)
  <2>1. env.data \in Payloads
    BY DEF EnvOK, Envelopes
  <2>2. EnvOK(cut)
    BY <1>2, CutEnvOK
  <2>3. cut.data = [env.data EXCEPT !.text = CutOff(env.data.text)]
    BY <1>2 DEF CutEnv, NewEnvelope
  <2>4. cut.type = env.type /\ cut.tenant = env.tenant /\ cut.corr = env.corr
    BY <1>2 DEF CutEnv, NewEnvelope
  <2>5. /\ cut.data.text = CutOff(env.data.text)
        /\ cut.data.doc = env.data.doc /\ cut.data.chunk = env.data.chunk
        /\ cut.data.orig = env.data.orig /\ cut.data.topk = env.data.topk
    BY <2>1, <2>3 DEF Payloads
  <2> QED
    BY <2>2, <2>4, <2>5 DEF CutOff
<1> QED
  BY <1>1, <1>2 DEF OrCut

\* Every step leaves the messages as they are but for their counters and
\* verdicts, or adds a request, or adds what a call on one message emits.
LEMMA StreamStep ==
    ASSUME IInv, [Next]_vars
    PROVE  \/ Recounted
           \/ \E r \in Requests : Submitted(r)
           \/ \E m \in stream : Handles(m) /\ \E out : Emitted(m, out) /\ Grows(m, out)
<1>1. CASE UNCHANGED vars
  BY <1>1, UnchangedRecounts DEF vars
<1>2. ASSUME NEW r \in Requests, Upload(r) PROVE Recounted
  BY <1>2, UnchangedRecounts DEF Upload
<1>3. ASSUME NEW m \in stream, DeliverTask(m) \/ Hang(m) PROVE Recounted
  BY <1>3, DeliverRecounts, UnchangedRecounts DEF DeliverTask, Hang
<1>4. ASSUME NEW m \in stream, Handles(m)
      PROVE  \E out : Emitted(m, out) /\ Grows(m, out)
  BY <1>4, RouterGrows, ChunkerGrows, VisionGrows, EmbedderGrows,
     EngineUpsertGrows, EngineSearchGrows DEF Handles
<1>5. Next => \/ \E r \in Requests : Upload(r) \/ Submit(r)
              \/ \E m \in stream : DeliverTask(m) \/ Hang(m) \/ Handles(m)
              \/ \E e \in Engines : EngineRestart(e)
              \/ Reboot
  BY DEF Next, Consume, Handles
<1> QED
  BY <1>1, <1>2, <1>3, <1>4, <1>5, SubmitGrows, RestartRecounts, RebootRecounts

\* So every message stays in the stream.
LEMMA MessagesStay ==
    ASSUME IInv, [Next]_vars, NEW y \in stream
    PROVE  \E x \in stream' : Later(y, x)
<1>1. y \in Messages
  BY DEF IInv, TypeOK, BusTypeOK
<1>2. Later(y, y)
  BY <1>1, KeptReflexive
<1>3. CASE Recounted
  BY <1>3, KeptIsLater DEF Recounted
<1>4. ASSUME NEW r \in Requests, Submitted(r) PROVE y \in stream'
  BY <1>4 DEF Submitted
<1>5. ASSUME NEW m \in stream, NEW out, Grows(m, out) PROVE \E x \in stream' : Later(y, x)
  BY <1>2, <1>5 DEF Grows
<1> QED
  BY <1>2, <1>3, <1>4, <1>5, StreamStep

\* And where it comes from is known of every message.
LEMMA MessagesComeFrom ==
    ASSUME IInv, [Next]_vars, NEW x \in stream'
    PROVE  \/ \E y \in stream : Later(y, x)
           \/ \E r \in Requests : x = NewMessage(<<>>, "ingress", RequestEnv(r))
           \/ \E m \in stream : \E k \in Nat : \E topic, env :
                /\ m.held > 0
                /\ Emits(m, k, topic, env)
                /\ x = NewMessage(ChildPath(m, k), topic, env)
<1>1. ASSUME x \in stream PROVE Later(x, x)
  BY <1>1, KeptReflexive DEF IInv, TypeOK, BusTypeOK
<1>2. ASSUME NEW m \in stream, NEW out, Emitted(m, out), Made(m, out, x)
      PROVE  \E k \in Nat : \E topic, env :
                /\ m.held > 0
                /\ Emits(m, k, topic, env)
                /\ x = NewMessage(ChildPath(m, k), topic, env)
  BY <1>2 DEF Emitted, Made
<1>3. CASE Recounted
  BY <1>1, <1>3, KeptIsLater DEF Recounted
<1>4. ASSUME NEW r \in Requests, Submitted(r)
      PROVE  x \in stream \/ x = NewMessage(<<>>, "ingress", RequestEnv(r))
  BY <1>4 DEF Submitted
<1>5. ASSUME NEW m \in stream, NEW out, Grows(m, out)
      PROVE  x \in stream \/ Later(m, x) \/ Made(m, out, x)
  BY <1>5 DEF Grows
<1> QED
  BY <1>1, <1>2, <1>3, <1>4, <1>5, StreamStep

-----------------------------------------------------------------------------
\* An engine keeps its rows, loses them, or upserts the row of a message.
LEMMA RowStep ==
    ASSUME IInv, [Next]_vars, NEW e \in Engines
    PROVE  \/ db'[e] = db[e]
           \/ db'[e] = {} /\ {"restart", "reboot"} \cap FaultKinds # {}
           \/ \E m \in stream : /\ m.topic = "engine" /\ Intent(m.env) = "upsert"
                                /\ db'[e] = Upserted(db[e], RowOf(m.env))
<1>1. db \in [Engines -> SUBSET Records]
  BY DEF IInv, TypeOK
<1>2. ASSUME NEW m \in stream, Consume(m)
      PROVE  \/ db'[e] = db[e]
             \/ /\ m.topic = "engine" /\ Intent(m.env) = "upsert"
                /\ db'[e] = Upserted(db[e], RowOf(m.env))
  <2>1. ASSUME NEW f \in Engines, EngineUpsert(m, f)
        PROVE  \/ db'[e] = db[e]
               \/ /\ m.topic = "engine" /\ Intent(m.env) = "upsert"
                  /\ db'[e] = Upserted(db[e], RowOf(m.env))
    BY <1>1, <2>1 DEF EngineUpsert, Running
  <2> QED
    BY <1>2, <2>1 DEF Consume, DeliverTask, Router, Chunker, Vision, Embedder, Handle,
                      ReadBreaks, EngineSearch
<1>3. ASSUME NEW f \in Engines, EngineRestart(f) PROVE db'[e] \in {db[e], {}} /\ "restart" \in FaultKinds
  BY <1>1, <1>3 DEF EngineRestart, Fault
<1>4. ASSUME Reboot PROVE db'[e] = {} /\ "reboot" \in FaultKinds
  BY <1>4 DEF Reboot, Fault
<1>5. ASSUME NEW r \in Requests, Upload(r) \/ Submit(r) PROVE db' = db
  BY <1>5 DEF Upload, Submit
<1>6. ASSUME NEW m \in stream, Hang(m) PROVE db' = db
  BY <1>6 DEF Hang
<1> QED
  BY <1>2, <1>3, <1>4, <1>5, <1>6 DEF Next, vars

\* A blob stays, is gone, or is replaced by an upload to its URI.
LEMMA BlobStep ==
    ASSUME IInv, [Next]_vars, NEW u \in URIs
    PROVE  \/ blobs'[u] \in {blobs[u], None}
           \/ \E r \in Requests : Upload(r) /\ u = UriOf(r) /\ blobs'[u] = r
<1>1. blobs \in [URIs -> Requests \cup {None}]
  BY DEF IInv, TypeOK
<1>2. ASSUME NEW r \in Requests, Upload(r)
      PROVE  blobs'[u] = blobs[u] \/ (u = UriOf(r) /\ blobs'[u] = r)
  BY <1>1, <1>2 DEF Upload, Stored
<1>3. ASSUME NEW m \in stream, Consume(m) \/ Hang(m) PROVE blobs' = blobs
  BY <1>3 DEF Consume, Hang, DeliverTask, Router, Chunker, Vision, Embedder, Handle, ReadBreaks,
              EngineUpsert, EngineSearch
<1>4. ASSUME Reboot PROVE blobs'[u] = None
  BY <1>4 DEF Reboot
<1> QED
  BY <1>2, <1>3, <1>4 DEF Next, vars, Submit, EngineRestart

=============================================================================
