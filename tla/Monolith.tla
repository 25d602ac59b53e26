------------------------------ MODULE Monolith ------------------------------
(***************************************************************************)
(* One monolith process from start to exit: main (cmd/monolith) brings up  *)
(* the embedded broker, and the supervisor runs the broker, the HTTP       *)
(* server and the modules in one errgroup, which stops all of them after a *)
(* signal or the first error.  The HTTP server carries event streams       *)
(* (EventStream) and ingest requests (IngestCall) all the while.           *)
(***************************************************************************)
EXTENDS EventStream, IngestCall

CONSTANTS
    Strict,    \* modules whose Start returns the error of Subscribe
    Lenient,   \* modules whose Start ignores it (chunker, vision, embedder)
    MaxEvents  \* bound of the model: events after which workers publish none

Modules == Strict \cup Lenient

ASSUME ModulesAssumption == Strict \cap Lenient = {} /\ MaxEvents \in Nat

VARIABLES
    proc,       \* the process: booting, up, or how it ended
    cancelled,  \* the group's context is done
    err,        \* the error the group keeps: the first one
    broker,     \* the embedded broker
    http,       \* the HTTP server
    module      \* what has become of each module's Start

processVars == <<proc, cancelled, err, broker, http, module>>
vars == <<streamVars, ingestVars, processVars>>

TypeOK ==
    /\ StreamTypeOK
    /\ IngestTypeOK
    /\ proc \in {"booting", "up", "graceful", "cancelled", "fatal"}
    /\ cancelled \in BOOLEAN
    /\ err \in {"none", "cancelled", "subscribe", "drain"}
    /\ broker \in {"down", "up", "stopped"}
    /\ http \in {"starting", "serving", "draining", "stopped"}
    /\ module \in [Modules -> {"starting", "listening", "deaf", "failed", "stopped"}]

Init ==
    /\ StreamInit
    /\ IngestInit
    /\ proc = "booting"
    /\ cancelled = FALSE
    /\ err = "none"
    /\ broker = "down"
    /\ http = "starting"
    /\ module = [m \in Modules |-> "starting"]

-----------------------------------------------------------------------------
(* Start *)

\* Configuration, broker, connection and stream, one after the other; each
\* error is fatal.
Boot ==
    /\ proc = "booting"
    /\ \/ proc' = "up" /\ broker' = "up"
       \/ proc' = "fatal" /\ UNCHANGED broker
    /\ UNCHANGED <<streamVars, ingestVars, cancelled, err, http, module>>

Up == proc = "up"

\* ListenAndServe in its own goroutine. A port that is taken ends the process
\* on the spot.
Bind ==
    /\ Up
    /\ http = "starting"
    /\ \/ http' = "serving" /\ UNCHANGED proc
       \/ proc' = "fatal" /\ UNCHANGED http
    /\ UNCHANGED <<streamVars, ingestVars, cancelled, err, broker, module>>

\* ListenAndServe returns another error than the one of Shutdown later on,
\* which ends the process on the spot, too.
ServeFails ==
    /\ Up
    /\ http = "serving"
    /\ proc' = "fatal"
    /\ UNCHANGED <<streamVars, ingestVars, cancelled, err, broker, http, module>>

\* errgroup.Group.Go: the first error is kept and ends the context.
GroupError(e) ==
    /\ err' = IF err = "none" THEN e ELSE err
    /\ cancelled' = TRUE

SubscribeOK(m) ==
    /\ Up
    /\ module[m] = "starting"
    /\ broker = "up"
    /\ module' = [module EXCEPT ![m] = "listening"]
    /\ UNCHANGED <<streamVars, ingestVars, proc, cancelled, err, broker, http>>

\* Mutant of SubscribeFails: every module ignores the error.
SubscribeFailsIgnored(m) ==
    /\ Up
    /\ module[m] = "starting"
    /\ module' = [module EXCEPT ![m] = "deaf"]
    /\ UNCHANGED <<streamVars, ingestVars, proc, cancelled, err, broker, http>>

\* The broker refuses, or the context is done already. A module of the second
\* kind logs that it has started and waits for the end without a consumer.
SubscribeFails(m) ==
    /\ Up
    /\ module[m] = "starting"
    /\ \/ /\ m \in Strict
          /\ module' = [module EXCEPT ![m] = "failed"]
          /\ \E e \in {"subscribe"} \cup (IF cancelled THEN {"cancelled"} ELSE {}) : GroupError(e)
       \/ /\ m \in Lenient
          /\ module' = [module EXCEPT ![m] = "deaf"]
          /\ UNCHANGED <<cancelled, err>>
    /\ UNCHANGED <<streamVars, ingestVars, proc, broker, http>>

-----------------------------------------------------------------------------
(* Stop *)

Signal ==
    /\ proc \in {"booting", "up"}
    /\ ~cancelled
    /\ cancelled' = TRUE
    /\ UNCHANGED <<streamVars, ingestVars, proc, err, broker, http, module>>

BrokerStops ==
    /\ Up /\ cancelled
    /\ broker = "up"
    /\ broker' = "stopped"
    /\ UNCHANGED <<streamVars, ingestVars, proc, cancelled, err, http, module>>

ModuleStops(m) ==
    /\ Up /\ cancelled
    /\ module[m] \in {"listening", "deaf"}
    /\ module' = [module EXCEPT ![m] = "stopped"]
    /\ UNCHANGED <<streamVars, ingestVars, proc, cancelled, err, broker, http>>

\* Shutdown closes the listener, also before ListenAndServe has opened it.
\* Requests that run go on: their contexts are not those of the group.
Drain ==
    /\ Up /\ cancelled
    /\ http \in {"starting", "serving"}
    /\ http' = "draining"
    /\ UNCHANGED <<streamVars, ingestVars, proc, cancelled, err, broker, module>>

Busy ==
    \/ \E l \in Listeners : Streaming(l)
    \/ \E u \in Uploads : job[u] = "read" \/ Ingesting(u)

Drained ==
    /\ Up
    /\ http = "draining"
    /\ ~Busy
    /\ http' = "stopped"
    /\ UNCHANGED <<streamVars, ingestVars, proc, cancelled, err, broker, module>>

\* Mutant of DrainTimeout: Shutdown waits for as long as a request runs.
DrainTimeoutNever ==
    /\ Up
    /\ http = "draining"
    /\ ~Busy
    /\ http' = "stopped"
    /\ GroupError("drain")
    /\ UNCHANGED <<streamVars, ingestVars, proc, broker, module>>

\* Mutant of DrainTimeout: Start swallows the error of Shutdown.
DrainTimeoutSilent ==
    /\ Up
    /\ http = "draining"
    /\ Busy
    /\ http' = "stopped"
    /\ UNCHANGED <<streamVars, ingestVars, proc, cancelled, err, broker, module>>

\* After 5 seconds Shutdown gives up on the requests that still run.
DrainTimeout ==
    /\ Up
    /\ http = "draining"
    /\ Busy
    /\ http' = "stopped"
    /\ GroupError("drain")
    /\ UNCHANGED <<streamVars, ingestVars, proc, broker, module>>

\* The group is done and main returns or ends the process; requests that
\* still run are cut. Only an error other than the cancellation is fatal.
Exit ==
    /\ Up
    /\ broker = "stopped" /\ http = "stopped"
    /\ \A m \in Modules : module[m] \in {"stopped", "failed"}
    /\ proc' = CASE err = "none"      -> "graceful"
                 [] err = "cancelled" -> "cancelled"
                 [] OTHER             -> "fatal"
    /\ UNCHANGED <<streamVars, ingestVars, cancelled, err, broker, http, module>>

-----------------------------------------------------------------------------
(* Requests *)

\* A new request needs a server that accepts connections.
Accept ==
    /\ Up /\ http = "serving"
    /\ \/ (\E l \in Listeners : Listen(l) \/ RefuseListener(l)) /\ UNCHANGED ingestVars
       \/ (\E u \in Uploads : Arrive(u)) /\ UNCHANGED streamVars
    /\ UNCHANGED processVars

\* What goes on in the goroutines of an event stream, and with its client.
Stream(l) ==
    /\ Up
    /\ \/ broker = "up" /\ Subscribed(l)
       \/ Callback(l) \/ WriteEvent(l) \/ Leave(l) \/ HandlerReturns(l) \/ Unsubscribe(l)
    /\ UNCHANGED <<ingestVars, processVars>>

\* The form is complete, or wrong; also when the server drains already.
ReadForm(u) ==
    /\ Up
    /\ Begin(u) \/ Reject(u)
    /\ UNCHANGED <<streamVars, processVars>>

StoreFile(u) ==
    /\ Up
    /\ StoreOK(u) \/ StoreFails(u)
    /\ UNCHANGED <<streamVars, processVars>>

\* An event that the broker stores goes to the event streams, too. Once the
\* broker has stopped, every publish returns an error.
PublishDocument(u) ==
    /\ Up
    /\ \/ broker = "up" /\ Broadcast /\ (PublishOK(u) \/ PublishFails(u, TRUE))
       \/ PublishFails(u, FALSE) /\ UNCHANGED streamVars
    /\ UNCHANGED processVars

\* A module that listens publishes what it derives from the stream.
WorkerPublishes ==
    /\ Up /\ broker = "up"
    /\ \E m \in Modules : module[m] = "listening"
    /\ stored # {}
    /\ events < MaxEvents
    /\ Broadcast
    /\ UNCHANGED <<ingestVars, processVars>>

-----------------------------------------------------------------------------
Next ==
    \/ Boot \/ Bind \/ ServeFails \/ Signal
    \/ BrokerStops \/ Drain \/ Drained \/ DrainTimeout \/ Exit
    \/ \E m \in Modules : SubscribeOK(m) \/ SubscribeFails(m) \/ ModuleStops(m)
    \/ Accept \/ WorkerPublishes
    \/ \E l \in Listeners : Stream(l)
    \/ \E u \in Uploads : ReadForm(u) \/ StoreFile(u) \/ PublishDocument(u)

Spec == Init /\ [][Next]_vars

\* What the process's own goroutines, timeouts and timers bring about. Nothing
\* is assumed of the clients, which may stall for ever (WriteEvent, Leave,
\* ReadForm), of signals, of a failing listener, and of further requests and
\* events.
Fairness ==
    /\ WF_vars(Boot) /\ WF_vars(Bind)
    /\ WF_vars(BrokerStops) /\ WF_vars(Drain) /\ WF_vars(Drained \/ DrainTimeout)
    /\ WF_vars(Exit)
    /\ \A m \in Modules :
        WF_vars(SubscribeOK(m) \/ SubscribeFails(m)) /\ WF_vars(ModuleStops(m))
    /\ \A l \in Listeners :
        /\ WF_vars(Up /\ Callback(l) /\ UNCHANGED <<ingestVars, processVars>>)
        /\ WF_vars(Up /\ HandlerReturns(l) /\ UNCHANGED <<ingestVars, processVars>>)
        /\ WF_vars(Up /\ Unsubscribe(l) /\ UNCHANGED <<ingestVars, processVars>>)
    /\ \A u \in Uploads : WF_vars(StoreFile(u)) /\ WF_vars(PublishDocument(u))

FairSpec == Spec /\ Fairness

-----------------------------------------------------------------------------
(* Properties *)

Ended == proc \notin {"booting", "up"}

\* "platform stopped gracefully": when the process ends without an error, no
\* request was cut off and no module had given up. An open event stream is a
\* request, and so is an upload that waits for a broker that is gone.
GracefulMeansDrained ==
    proc = "graceful" => ~Busy /\ \A m \in Modules : module[m] # "failed"

\* HandleIngest reports the id of a document only when its event is in the
\* stream, whatever fails and in whatever order the broker and the HTTP server
\* stop.
ReportedIsStored == reported \subseteq stored

\* A response of 500 means that no file of the request has entered the
\* platform: only a text, handled before the files, makes the request fail, so
\* that a client who repeats the request duplicates no file.
RejectedStoresNoFile ==
    \A u \in Uploads : status[u] = 500 => stored \cap ({u} \X (1..Files[u])) = {}

\* Once every Start has got past Subscribe and the platform is not stopping,
\* each module that returns the error of Subscribe has its consumer.
StartedMeansListening ==
    Up /\ ~cancelled /\ (\A m \in Modules : module[m] # "starting")
        => \A m \in Strict : module[m] = "listening"

\* What an open stream has taken in, in this order, is made of the events after
\* it was joined, each at most once and in order, and the first BufferSize of
\* them are not lost, however slowly the client reads: an event that does not
\* fit is dropped, never one that is waiting.
FirstEventsKept ==
    \A l \in Listeners :
        LET seen == written[l] \o channel[l]
        IN  conn[l] = "open" =>
                /\ \A i, j \in DOMAIN seen : i < j => seen[i] < seen[j]
                /\ \A i \in DOMAIN seen : i <= BufferSize => seen[i] = joined[l] + i

\* After a signal or the first error of the group the process ends, with open
\* event streams and uploads that hang, too.
StopsEventually == cancelled ~> Ended

\* The client library's queue of a subscription empties: a client that stops
\* reading never holds back the callback, however full its channel is.
CallbackNeverBlocks ==
    \A l \in Listeners : queue[l] # <<>> ~> (Ended \/ queue[l] = <<>>)

\* Nothing of a client that has gone stays behind: the handler returns and the
\* subscription ends, also when the client goes before the broker has it.
ListenerReleased ==
    \A l \in Listeners :
        conn[l] = "left" ~> (Ended \/ (conn[l] = "closed" /\ sub[l] = "ended"))

\* Every upload the handler has begun on gets its response, unless the process
\* ends first: storing and publishing may fail, one part after the other.
UploadAnswered == \A u \in Uploads : Ingesting(u) ~> (Ended \/ status[u] # 0)

=============================================================================
