# Morphic Monad in TLA+

A TLA+ model of the Morphic Monad semantic search platform (`src/`): its event
pipeline over NATS JetStream, the gateway's synchronous search over the
asynchronous bus, the text splitter, and the monolith process with its event
streams and uploads from start to exit. TLC checks the models on small
instances; TLAPS proves all of their safety properties, and two refinements, for
all values of the constants.

## The system

A gateway accepts documents and searches over HTTP, puts heavy content into a
blob store, and publishes an event to the *ingress* topic. A router reads
ingress and forwards each event to one task topic. Workers derive new events
and publish them to ingress again. The engine indexes vectors, or searches and
publishes the answer to a reply topic, which every gateway process listens to.

    HTTP -> gateway -> ingress -> router -> vision ----+
              |  ^        ^              -> chunk -----+--> ingress (derived event)
            blobs|        |              -> embed -----+
                 |        +-----------------------------
                 +-- replies.* <- engine <- router (embed.completed)

| Component | State | Operations | Correct when |
|---|---|---|---|
| Event contract (`pkg/events`) | none | `NewEnvelope`, `DecodeData` | every published type has a route and a handler |
| Bus client (`infra/bus/client.go`) | JetStream stream, one durable consumer per group | `Publish`, `Subscribe`, Ack / Nak / Term | at-least-once, at most 5 deliveries |
| Gateway requests (`gateway/service.go`) | none of its own | `IngestDocument`, `SearchDocuments` (upload, publish) | what is accepted is processed |
| Gateway reply router (same file) | `pendingReqs`, one channel per call | `Start`, `handleReply`, register, wait, clean up | each call returns once, with its own answer only; nothing leaks, blocks or panics |
| Gateway event stream (same file, `handler.go`) | per listener a subscription and a channel of 50 | `ListenEvents`, `SubscribeEphemeral`, `HandleStreamEvents` | a slow listener never holds back its subscription, gets the first events in order, leaves nothing behind |
| HTTP handlers (`adapters/http/handler.go`) | none of their own | `HandleIngest`, `HandleSearch`, `HandleStreamEvents`, `HandleBlob` | what the client is told is true |
| Blob stores (`infra/blob`, `adapters/s3`) | map from tenant/filename to content | `Upload`, `Download` | a worker reads what the request uploaded |
| Router, classifier | none | `handleEvent`, `Classify` | every event has a route |
| Chunker | none | `handleTask`, `chunkText` | no rune is lost, no task is acked away |
| Vision, embedder | none | `handleTask` | an acked task has a result |
| Engine, vector DB | rows per tenant, in memory | `handleUpsert`, `handleSearch`, `Upsert`, `Search` | tenants are isolated, rows do not multiply, top_k is respected |
| Embedded broker (`infra/bus/server.go`) | the stream on disk | `Start`, `Run` | survives what the rest of the process forgets |
| Supervisor, HTTP server, mains | running components, first error | `Run`, `Start`, drain, exit | everything stops after a signal or an error; a graceful end cuts nothing |
| Configuration, metrics, forge | - | - | - |

What is hard about it: all consumers run concurrently; a task may be delivered
again while its first handler still runs; a handler publishes several events
before it acks and may die in between; workers ignore publish errors and the
errors of a download that breaks off; a model server that never answers stops the
only consumer of a worker, as nothing bounds the call; models, and with them the
length of vectors, may change under stored rows; blobs
are read long after they were written and may have been replaced; replies are
broadcast, duplicated, late or early; the reply channel is closed by one
goroutine and written by another without a common lock; a process restart
loses what was in memory while the stream survives; and at shutdown the broker,
the HTTP server and the modules stop side by side under running requests. `PROJECT.json` lists the
hazards with the lines where they bite.

## Modules

| Module | Models |
|---|---|
| `Events` | the records of `pkg/events` and their names |
| `Bus` | the stream and its consumers as the code uses them |
| `Pipeline` | gateway requests, blob store, router, workers and engine, on top of `Bus` |
| `MCPipeline` | what the requests of each run ask for |
| `TenantIndex` | abstract: an index per engine, and answers made of it; implemented by `Pipeline` |
| `SearchCall` | abstract: what the gateway promises to the client of one search |
| `ReplyRouter` | `handleReply` and `SearchDocuments` from the registration on; implements `SearchCall` |
| `ChunkText`, `MCChunkText` | the loop of `chunkText` |
| `EventStream` | the event stream of each listener: `HandleStreamEvents`, `ListenEvents`, `SubscribeEphemeral` |
| `IngestCall` | `HandleIngest` over the text and the files of a request |
| `Monolith`, `MCMonolith` | the process around the two: `main`, supervisor, HTTP server, embedded broker, modules' `Start` |
| `PipelineProofs`, `PipelineSteps`, `LineageProofs`, `AnswerProofs`, `DeliveryProofs` | the theorems about `Pipeline`, each module on top of the one before |
| `ReplyRouterProofs`, `ChunkTextProofs`, `MonolithProofs` | the theorems about the others |

### Bus and Pipeline

`stream` is the set of stored messages. Each has the state of its consumer:
`dlv` counts deliveries, `held` those whose handler has not finished, `st` is
the verdict that stands. `Deliver` hands a message out: to begin with or after
a Nak for free, while a delivery is held only as the fault *expiry* (AckWait
ran out). A handler call is one `Deliver` step and one later step (`Router`,
`Chunker`, `Vision`, `Embedder`, `EngineUpsert`, `EngineSearch`), so calls of
all consumers overlap. The later step publishes and settles through
`Finish`, which has three ways to end: all goes well; the process or the
connection dies after a prefix of the publications and no verdict arrives
(fault *ack*); some publications return an error, stored or not (fault
*publish*), and the handler goes on as the code does: workers ack, router and
engine nak. `AdapterError` is a model or blob store that returns an error (fault
*adapter*), on which the worker naks. `ReadBreaks` is an object store whose stream
ends early (fault *read*): the chunker and the vision worker ignore the error of
`io.ReadAll`, take what they have for the whole, and ack. The chunker then publishes
the first texts of the file, or none, and the last one it publishes may be
shorter than it should be (`CutOff`); a description of a torn image is marked the same way.
`Hang` is a call that is never answered (fault *silence*): the
HTTP clients of the models have no timeout and handlers run under
`context.Background()`, so the topic's consumer is `stuck` for the rest of the
process, with the message in its handler and all that wait behind it. One
handler call meets one fault at most. `EngineRestart` (fault *restart*) empties the rows of an engine
and ends the deliveries it holds. `Reboot` (fault *reboot*) is a monolith that dies
and starts again, with no worker stuck: the embedded broker has the stream and the acks on disk
(`./tmp/nats-jetstream`), while blobs and rows were in memory; every delivery ends
without a verdict and a request between its upload and its publish is gone.

`TenantIndex` says what all this amounts to: a set of accepted requests, a set
of document parts per engine that grows by accepted documents or is lost, and
answers to accepted searches made of what one engine has for that tenant at that
moment. The mapping `Index` takes a request as accepted when it is in the
stream, and forgets texts, messages and deliveries; most steps stutter. The
parts of a document are numbered up to the most pieces that any content of the
instance has, not up to those of its own content: when a file is replaced by
one of the same name before the chunker reads it, the document is indexed in as
many parts as the other file has.

`Upload` and `Submit` are the two halves of `IngestDocument` and
`SearchDocuments`, with other requests in between. `Input` says what each
request asks for, out of `InputType`: what `HandleIngest` and `HandleSearch` can
pass on after their checks: one of text and file for a document, a positive
top_k for a search (the handler replaces any other by 5).

Abstractions. A text is named by the request whose content it was taken from,
the number of its piece, and whether a download broke off in it, a blob by the
request that uploaded it; a fresh chunk id by the publication that carries it.
Sizes, scores, event ids, times and the metadata are left out. Of a vector only
its length is kept, one of `Dims`, which each call of the embedder chooses
anew, as the model behind it may be swapped. Ranking is left out: `Nearest` is
any choice of the right number of the tenant's rows whose vectors are as long
as the query's (`Comparable`). An image description is never empty; the vector
of an empty text may be. The documents of one HTTP request share a correlation
id in the code and have one each here; nothing reads it on the way of a
document. Deliveries of one topic may overlap and come in any order, which
includes what several processes of a group do; only where a worker gets stuck
its topic is taken to have one process. The document ids "search" and
"search-img" are one constant, as no row is ever made of them.

### ReplyRouter

One variable per thing the goroutines share: the keys of `pendingReqs`, the
content of each channel (`buf`), which channels are `closed`, and `hand`, the
channel and envelope between the unlock and the send of `handleReply`. `pc`
follows each call: `Register`, `PublishOK` or `PublishFail`, `Receive` or
`Timeout`, `Unregister`, `Close`. Replies are published any number of times up to
`MaxCopies` for requests that reached the stream and for those of other
gateways; they are lost while the process is not subscribed. `Die` is the end
of the process, by a panic (`SendPanics`) or otherwise (`Crash`); `Restart`
brings it back without its consumer. The refinement mapping `Call` sees a call
as open until its cleanup is over.

### ChunkText

The loop with its variables. A chunk is an interval of positions; the runes do
not matter. The instance has chunks of 5 and an overlap of 2, the theorems any
overlap below the chunk size.

### EventStream, IngestCall and Monolith

`Monolith` extends the other two and gives their steps a process to run in.
`proc` is booting, up, or how the process ended; `cancelled` and `err` are the
errgroup (its context and the first error it keeps); `broker`, `http` and `module`
are the group's members. `Boot` is `main` up to the supervisor, where every error is
fatal. `Bind` is `ListenAndServe` in its own goroutine, where an error ends the
process on the spot; `ServeFails` is the same error when it has served for a
while. `SubscribeOK` and `SubscribeFails` are the modules' `Start`: router,
gateway and engine (`Strict`) return the error, the workers (`Lenient`) ignore it,
say that they have started and stay *deaf*. After `Signal` or the first error,
`BrokerStops`, `Drain` and `ModuleStops` come in any order; the HTTP server waits for its
requests (`Drained`) or gives up after 5 seconds (`DrainTimeout`); `Exit` follows
when all are done, and only an error that is not the cancellation is fatal.

A listener of `EventStream` is three goroutines: the handler (`WriteEvent`,
`HandlerReturns`), the callback (`Callback`) and the one that unsubscribes
(`Unsubscribe`). They share the channel, of which the callback drops what does not
fit, and the request's context, which ends when the client leaves. Between
`Listen` and `Subscribed` the broker does not know of the subscription yet. An event is its
number in the order of publication; the handler filters nothing and writes all of
them. An upload of `IngestCall` sends its form for as long as the client likes,
also while the server drains; the handler then takes one part after the other,
each in two steps (store, publish); a publish that returns an error may have arrived.
When the broker has stopped, publishes fail, and what is published is broadcast
to the listeners that the broker knows.

Abstractions: a request that does not end by itself within 5 seconds of a shutdown
and one that does are told apart only by what comes first, `Drained` or `DrainTimeout`, so
the model has all orders. Searches are not part of `Monolith`; to the
process they are requests like uploads, and end after 5 seconds by their own timer.

## Runs

Passing:

| Run | Instance | Distinct states | Checks |
|---|---|---|---|
| `pipeline_text` | file of two pieces, text search; vectors of two lengths; one fault of expiry, ack, adapter, silence | 774,057 | `EveryEventHasAHandler`, `OneRowPerPart`, `NothingAckedAway`, `TextSearchWithinTopK`, `ShortAnswerIsComplete` |
| `pipeline_image` | image, search by an image of the same name, another tenant's text file of that name; one fault of expiry, read, publish, restart | 1,081,152 | `TenantIsolation`, `EveryEventHasAHandler`, `OneRowPerPart`, `ContentOfOwnUri`, `ImplementsTenantIndex` |
| `pipeline_live` | offloaded text, text search, search by an image of zero bytes, two engines; one fault of expiry, ack, adapter, silence, restart, reboot; fair | 108,823 | `TypeOK`, `SearchNotDropped`, `PartsReachEngine`, `IngestSettles`, `SearchSettles` |
| `reply_router` | two calls, one foreign id, two copies of each reply; fair | 112,659 | `TypeOK`, `PendingIsActive`, `OnlyOwnReply`, `DropOnlyWhenGone`, `RouterNeverStuck`, `ImplementsSearchCall` |
| `chunk_text` | all lengths from 0 to 30; fair | 179 | `TypeOK`, `EveryRuneIsInAChunk`, `ChunksArePieces`, `NeighboursOverlap`, `MatchesReference`, `Terminates` |
| `monolith` | one listener with a channel of 2, an upload of a text and a file, a module of either kind; fair | 134,375 | `TypeOK`, `GracefulMeansDrained`, `ReportedIsStored`, `RejectedStoresNoFile`, `StartedMeansListening`, `FirstEventsKept`, `StopsEventually`, `CallbackNeverBlocks`, `ListenerReleased`, `UploadAnswered` |

Bounds. `MaxDeliver` is 2 instead of 5: a message can be redelivered once and
can run out of deliveries, which are the two cases the code tells apart. The
pipeline runs allow one fault per behaviour (`MaxFaults`), which can hit any
step of any handler and lets two calls for one task overlap. Two lengths of vectors
are enough to have rows that match a query and rows that do not; as nothing
depends on which is which, `pipeline_text` takes them as symmetric. In `pipeline_live` a
reboot takes the blobs away for good, so one fault is enough to make a task
that reads one fail until its deliveries are used up. The search by an image of zero bytes
has no blob to begin with: its vision task is nacked without any fault until it is
out of deliveries. Two pieces are the least with an order
and a prefix. Two calls and two copies let a reply meet another call, a full
channel and a closed channel. Lengths up to 30 give up to ten chunks and every
remainder of the stride. In `monolith` workers stop publishing after two events
(`MaxEvents`); with the uploads this makes three, one more than the channel holds, so
that events are dropped, and the text and the file are the two kinds of part
with their different error paths. All runs but `reply_router` end (everything is settled, the loop or the process is over) and do not check
for deadlock; `reply_router` does.

Fairness. In `Pipeline`, weak fairness of all consumers together: they pull as
long as their process runs, and handlers return, except where a service is silent
(`Hang`): nothing ends that call, its worker has no step any more, and
`IngestSettles` and `SearchSettles` say so with `Blocked`: a request settles, or a
message of it has used up its deliveries, or waits for a stuck worker. Since every message has a limited number
of deliveries, no consumer need be treated fairly among the others. Nothing is
assumed of requests or faults. In
`ReplyRouter`, weak fairness of what a call does after its registration (the
timer of 5 seconds fires) and of the callback; nobody has to call, answer or
restart a process. In `ChunkText`, of the loop. In `Monolith`, of what the process's
own goroutines do: boot, subscribe or fail to (the client library bounds each request to
the broker), stop, drain or time out, exit, run the callback, return from a
handler whose client has gone, unsubscribe, go on with an upload. Clients may
stall for ever: nothing is assumed of `WriteEvent`, `Leave` and `ReadForm`, nor of signals.

Refuted, each the statement of a comment in the repository:

| Run | Statement | What the code does |
|---|---|---|
| `same_name` | Upload "returns a unique URI" (`gateway/ports.go:30`) | the URI is tenant/filename; a second upload replaces the content of the first before a worker reads it |
| `image_topk` | SearchTopK is "Passed through from SearchPayload for the Engine" (`events/payload.go:48`) | a search by image loses it in the vision worker and gets the default of 5 |
| `ack_lost_publish` | "Ack confirms successful processing" (`events/message.go:9`) | workers ignore the error of their publish and ack |
| `torn_download` | "Ack confirms successful processing", Nack "signals a temporary error" (`events/message.go:9-10`) | chunker and vision worker ignore the error of `io.ReadAll`: a file that was read in part is processed as far as it came and acked |
| `engine_replicas` | "external VectorDB. Scales infinitely" (`README.md:41`) | each engine process has its own vectors in memory; an answer lacks what the others have indexed |
| `reply_panic` | a late reply is acked as nobody's (`gateway/service.go:69`) | between lookup and send the call may close the channel; the send panics |

The passing properties say how far these go: content is mixed up only within
one tenant and file name (`ContentOfOwnUri`), text searches respect top_k
(`TextSearchWithinTopK`), nothing is lost as long as publishing works and
downloads that have begun come to their end
(`NothingAckedAway` with the other faults of a handler, `PartsReachEngine` with restarts, which
lose rows that were acked but nothing on its way to an engine), every event finds a
branch written for it (`EveryEventHasAHandler`) except a search with a text file,
which the classifier sends to the chunker, where it is acked and forgotten, and the panic
aborts calls but never gives one a wrong answer (`ImplementsSearchCall`). With one
engine that does not restart a short answer lacks only chunks whose vectors have another
length than the query's (`ShortAnswerIsComplete`).

Two corners that `monolith` leaves open on purpose. A process can exit with
status 0 although requests were cut: when a module is still subscribing as the
signal comes, the first error the group keeps is the cancellation, and a later
drain timeout is lost. `GracefulMeansDrained` is therefore about the end without
any error. And a worker whose `Subscribe` failed stays deaf while the process runs:
`StartedMeansListening` is about the modules that return the error.

## Proofs

TLAPS checks these for all values of the constants, from the assumptions that
the modules name (`NoneAssumption`, `BusAssumption`, `InputAssumption`,
`RouterAssumption`, `ChunkAssumption`, `BufferAssumption`, `UploadAssumption`,
`ModulesAssumption`).

`PipelineProofs`: `TypeCorrect`, and `TenantsAreIsolated`, which is
`TenantIsolation`. An answer is isolated only because everything on the way to
it is, so the inductive invariant `IInv` says of *every* message that its tenant is
that of its request and that its document, its text, its blob and its hits are
of that tenant (`EnvOK`), of every blob that it was uploaded by the tenant in
its URI (`BlobsOK`), and of every row the same as of a hit (`RowOK`). One lemma
per envelope that the code builds (`RequestEnvOK`, `ChunkEnvOK`, `VisionEnvOK`,
`EmbedEnvOK`, `ReplyEnvOK`), one for the bus (`FinishOK`: whichever way a handler
ends, the stream stays in order), one per action, the restarts included: rows and
blobs that are gone are isolated, and messages keep what they carry.

`PipelineSteps` says once, for all actions and all ways a handler call ends, what a step
may do, so that the proofs after it need not look at actions again: a message
stays, with the same path, topic and envelope, more deliveries at most, and a
verdict that is final (`MessagesStay`); a new message is a request, or the k-th event
of a call on an older message (`MessagesComeFrom`, with `Emits` listing the events by
topic); a row set is kept, lost by a restart, or upserted into (`RowStep`); a blob is
kept, gone, or replaced by an upload to its URI (`BlobStep`).

`LineageProofs`: `EventsAreHandled` (`EveryEventHasAHandler`), `ContentStaysAtUri`
(`ContentOfOwnUri`) and `RowsDoNotMultiply` (`OneRowPerPart`). None of them is inductive: what
a worker publishes depends on what it was given. The invariant `LInv` therefore says
of each message what it can be, given its request and its topic (`Lineage`): the
request itself, on ingress or on the topic of its route; a derived event of the
one worker on that route (only a document where that is the chunker); an embedding; an answer to a search. It says of each
derived event and of each row that it carries a part of its request (`IsPart`): the
request's own text, or a piece of what was uploaded to its URI. For
`OneRowPerPart` it also says which run of the chunker a chunk id is from
(`PartChunk`): two rows of one part have different ids, these come from different
deliveries, and so the request was delivered twice.

`AnswerProofs`: `TextSearchesRespectTopK` (`TextSearchWithinTopK`), from the lineage, which
carries top_k to the engine, and from the size of the set `Nearest` returns, for
which the row sets must be finite (`TopKInv`); `ShortAnswersAreComplete`
(`ShortAnswerIsComplete`), for one engine, without restarts and for any lengths of vectors,
from the invariant that
every acked upsert has a row with its chunk id (`AckedInv`), which an answer then
lists, unless it is full or the row's vector is of another length than the query's; and `Implements`: every
behaviour of `Pipeline`, with all its faults, is one of `TenantIndex` under the
mapping `Index` (`ImplementsTenantIndex`). The step that is not obvious is the upsert,
which deletes a row: it only ever replaces the row of a chunk id, and a chunk id
stands for one part (`ChunkNamesPart`), so no part leaves the index. The proof found
that the number of parts in the mapping was once too small (see `TenantIndex` above).

`DeliveryProofs`: what an ack is worth. `AckMeansHandedOn`: if publishing works, after any step a
pending message is pending still, or the call that settled it has stored every
event it had to (`HandedOn`; of the chunker only if no download breaks off). From it follow `SearchesAreNotDropped`
(`SearchNotDropped`) for all faults but publish errors; `DocumentsReachEngines`
(`PartsReachEngine`), where no download breaks off either, restarts included; and
`NothingIsAckedAway` (`NothingAckedAway`), without restarts as well, since those lose rows
that were acked. These conditions are stated as hypotheses on `FaultKinds`; without them the
theorems are false (`ack_lost_publish`, `torn_download`). For a
part that is read from the blob store the proof needs that a blob was uploaded
by a request with an upload (`UploadsInv`), so that a request alone at its URI gets back its own
content or none.

`ReplyRouterProofs`: `TypeCorrect`, `MapIsExact` (`PendingIsActive`),
`RepliesAreOwn` (`OnlyOwnReply`), `NoReplyOvertakes` (`DropOnlyWhenGone`) and
`Implements`: every behaviour is one of `SearchCall!CallSpec`. The invariant adds
that what is in a channel or in the callback's hand is addressed to its call and
was published (`Addressed`), that replies exist only for requests in the
stream, whose calls have registered (`Causal`), and that a call's outcome is set
when it leaves (`Decided`).

`ChunkTextProofs`: `TypeCorrect`, `NoRuneIsLost`, `ChunksAreWellFormed`
(`ChunksArePieces`), `NeighboursShareOverlap` (`NeighboursOverlap`) and `ChunksMatchReference`
(`MatchesReference`). The invariant adds
that the next start is the end of the last chunk minus the overlap, short of
the end of the text (`LoopState`), and that everything before the end of the last
chunk is in a chunk (`CoveredSoFar`). For the closed form, `Strided` says that the chunks so
far are those of the closed form and only the last can reach the end; their
number is then the quotient in `Reference`, as one stride less falls short of the
end and one more is past it (`CountIs`).

`MonolithProofs`: `TypeCorrect`, `GracefulEndCutsNothing` (`GracefulMeansDrained`),
`ReportsAreTrue` (`ReportedIsStored`), `RejectionsStoreNoFile`
(`RejectedStoresNoFile`), `StartedModulesListen` (`StartedMeansListening`) and
`FirstEventsAreKept` (`FirstEventsKept`). The invariant has one part for the uploads
(`IngestInv`: the handler is at a part the request has, and no file is in the
stream while it is at the text), one for the modules (`ModulesInv`: who failed has
left an error), one for the end (`DrainInv`: a server that stopped without
an error had no request running, and none begins after that), and one for the
order of a stream (`OrderInv`: what is seen ends where the queue begins, and has no
gap while it is shorter than the channel). The last needs the types of the first
and is proved on top of them.

Only model-checked: liveness (`IngestSettles`, `SearchSettles`, `RouterNeverStuck`,
`Terminates`, `StopsEventually`, `CallbackNeverBlocks`, `ListenerReleased`, `UploadAnswered`,
the fairness part of `ImplementsSearchCall`), which the prover does not handle. Every
invariant and every action property of the passing runs, and `ImplementsTenantIndex`, is a theorem. The
statements of the refuted runs are false and have no theorem.

## Not modelled

- The lock of the vector store, which `Search` gives up before it iterates: an
  engine has one consumer callback, so its two users never overlap.
- Numbers in vectors (their length is modelled) and the ranking; message and form size limits; empty
  descriptions of images.
- A blob store or stream directory that fails on start, and a broker that is away
  for so long that the NATS client closes its connection for good.
- `HandleBlob`, which only reads.
- The mains of the microservices beyond restarts of engine and gateway: they
  are the skeleton of the monolith with one module.
- Configuration, logging, metrics and the forge terminal interface, which do not
  influence the behaviours above.

## Plan

Done: all modules of the table above, their runs, and theorems for all safety
properties of the passing runs. What could follow:

1. The number of handler calls: each message has at most `MaxDeliver`, and messages descend
   from requests in at most six steps (ingress, worker, ingress, embed, ingress, engine),
   so the work per request has a bound. This is the safety half of the argument that
   `IngestSettles` and `SearchSettles` rest on.
2. `ShortAnswerIsComplete` for several engines that never restart, about the rows of the
   engine that answers instead of the acked tasks.
3. The order in which parts of one upload enter the stream, in `Monolith`.
