--------------------------- MODULE MonolithProofs ---------------------------
(***************************************************************************)
(* Theorems about Monolith, for any number of listeners, uploads, files,   *)
(* modules and events.                                                     *)
(***************************************************************************)
EXTENDS Monolith, TLAPS, SequenceTheorems

USE BufferAssumption, UploadAssumption, ModulesAssumption

-----------------------------------------------------------------------------
(* Types *)

\* A sequence of events keeps its type when one is published.
LEMMA SeqGrows ==
    ASSUME NEW n \in Nat, NEW s \in Seq(1..n)
    PROVE  s \in Seq(1..(n + 1))
OBVIOUS

\* What a publication does to the streams keeps their types.
LEMMA BroadcastTypes == StreamTypeOK /\ Broadcast => StreamTypeOK'
<1> SUFFICES ASSUME StreamTypeOK, Broadcast PROVE StreamTypeOK'
    OBVIOUS
<1> USE DEF StreamTypeOK, Broadcast
<1>1. events' \in Nat /\ events' = events + 1
    OBVIOUS
<1>2. joined' \in [Listeners -> 0..events']
    BY <1>1
<1>3. queue' \in [Listeners -> Seq(1..events')]
    <2> SUFFICES ASSUME NEW l \in Listeners PROVE queue'[l] \in Seq(1..events')
        OBVIOUS
    <2>1. queue[l] \in Seq(1..events')
        BY <1>1, SeqGrows
    <2>2. Append(queue[l], events + 1) \in Seq(1..events')
        BY <2>1, <1>1
    <2> QED
        BY <2>1, <2>2
<1>4. channel' \in [Listeners -> Seq(1..events')] /\ written' \in [Listeners -> Seq(1..events')]
    BY <1>1, SeqGrows
<1> QED
    BY <1>1, <1>2, <1>3, <1>4

\* Each step of a listener, of its client and of its goroutines keeps the types.
LEMMA ListenerTypes ==
    ASSUME StreamTypeOK, NEW l \in Listeners,
           \/ Listen(l) \/ RefuseListener(l) \/ Subscribed(l) \/ Callback(l)
           \/ WriteEvent(l) \/ Leave(l) \/ HandlerReturns(l) \/ Unsubscribe(l)
    PROVE  StreamTypeOK'
<1> USE DEF StreamTypeOK
<1>1. CASE Listen(l) \/ RefuseListener(l) \/ Leave(l) \/ HandlerReturns(l)
    BY <1>1 DEF Listen, RefuseListener, Leave, HandlerReturns
<1>2. CASE Subscribed(l)
    BY <1>2 DEF Subscribed
<1>3. CASE Callback(l)
    <2>1. queue[l] \in Seq(1..events) /\ channel[l] \in Seq(1..events) /\ queue[l] # <<>>
        BY <1>3 DEF Callback
    <2>2. Head(queue[l]) \in 1..events /\ Tail(queue[l]) \in Seq(1..events)
        BY <2>1
    <2>3. /\ Append(channel[l], Head(queue[l])) \in Seq(1..events)
          /\ Len(Append(channel[l], Head(queue[l]))) = Len(channel[l]) + 1
        BY <2>1, <2>2
    <2>4. queue' \in [Listeners -> Seq(1..events)]
        BY <1>3, <2>2 DEF Callback
    <2>5. channel' \in [Listeners -> Seq(1..events)] /\ \A k \in Listeners : Len(channel'[k]) <= BufferSize
        BY <1>3, <2>3 DEF Callback
    <2> QED
        BY <1>3, <2>4, <2>5 DEF Callback
<1>4. CASE WriteEvent(l)
    <2>1. channel[l] \in Seq(1..events) /\ channel[l] # <<>> /\ written[l] \in Seq(1..events)
        BY <1>4 DEF WriteEvent
    <2>2. /\ Head(channel[l]) \in 1..events /\ Tail(channel[l]) \in Seq(1..events)
          /\ Len(Tail(channel[l])) = Len(channel[l]) - 1
        BY <2>1
    <2>3. Append(written[l], Head(channel[l])) \in Seq(1..events)
        BY <2>1, <2>2
    <2>4. channel' \in [Listeners -> Seq(1..events)] /\ \A k \in Listeners : Len(channel'[k]) <= BufferSize
        BY <1>4, <2>2 DEF WriteEvent
    <2>5. written' \in [Listeners -> Seq(1..events)]
        BY <1>4, <2>3 DEF WriteEvent
    <2> QED
        BY <1>4, <2>4, <2>5 DEF WriteEvent
<1>5. CASE Unsubscribe(l)
    <2>1. queue' \in [Listeners -> Seq(1..events)]
        BY <1>5 DEF Unsubscribe
    <2> QED
        BY <1>5, <2>1 DEF Unsubscribe
<1> QED
    BY <1>1, <1>2, <1>3, <1>4, <1>5

-----------------------------------------------------------------------------
(* Uploads *)

NoFile(u) == stored \cap ({u} \X (1..Files[u])) = {}

\* The handler is at a part the request has; no file enters the stream before
\* the text is through; a request that ended with 500 got no further than that.
IngestInv ==
    /\ ReportedIsStored
    /\ \A u \in Uploads :
        /\ Ingesting(u) => part[u] \in Parts(u)
        /\ job[u] \in {"idle", "read"} \/ (Ingesting(u) /\ part[u] = 0) => NoFile(u)
        /\ status[u] = 500 => job[u] = "done" /\ NoFile(u)

IngestOK == IngestTypeOK /\ IngestInv

\* A part that a handler has come to is a document of its upload.
LEMMA PartIsDocument ==
    ASSUME IngestOK, NEW u \in Uploads, Ingesting(u)
    PROVE  <<u, part[u]>> \in Documents
<1>1. part[u] \in Parts(u)
    BY DEF IngestOK, IngestInv
<1> QED
    BY <1>1 DEF Documents

\* What follows a part, failed or not, keeps the types and the place of the
\* handler; it answers 202 or 500, the latter only at the text.
LEMMA AdvanceTypes ==
    ASSUME IngestOK, NEW u \in Uploads, Ingesting(u), Advance(u) \/ PartFails(u)
    PROVE  /\ job' \in [Uploads -> {"idle", "read", "store", "publish", "done"}]
           /\ part' \in [Uploads -> Nat] /\ \A v \in Uploads : part'[v] <= Files[v] + 1
           /\ status' \in [Uploads -> {0, 202, 400, 500}]
           /\ \A v \in Uploads \ {u} :
                job'[v] = job[v] /\ part'[v] = part[v] /\ status'[v] = status[v]
           /\ job'[u] \in {"store", "done"}
           /\ job'[u] = "store" => /\ part'[u] \in Parts(u) /\ part'[u] > 0
                                   /\ status'[u] = status[u]
           /\ status'[u] = 500 => job'[u] = "done" /\ (status[u] = 500 \/ (part[u] = 0 /\ PartFails(u)))
<1> USE DEF IngestOK, IngestTypeOK
<1>1. CASE Advance(u)
    <2>1. CASE part[u] < Files[u]
        <3>1. part[u] + 1 \in 1..Files[u]
            BY <2>1
        <3> QED
            BY <1>1, <2>1, <3>1 DEF Advance, Parts, Ingesting, IngestInv
    <2>2. CASE ~(part[u] < Files[u])
        BY <1>1, <2>2 DEF Advance, Respond, Ingesting, IngestInv
    <2> QED
        BY <2>1, <2>2
<1>2. CASE PartFails(u) /\ part[u] = 0
    BY <1>2 DEF PartFails, Respond
<1>3. CASE PartFails(u) /\ part[u] # 0
    BY <1>1, <1>3 DEF PartFails
<1> QED
    BY <1>1, <1>2, <1>3

\* Each step of an upload keeps types and invariant.
LEMMA UploadOK ==
    ASSUME IngestOK, NEW u \in Uploads,
           \/ Arrive(u) \/ Begin(u) \/ Reject(u) \/ StoreOK(u) \/ StoreFails(u) \/ PublishOK(u)
           \/ \E arrived \in BOOLEAN : PublishFails(u, arrived)
    PROVE  IngestOK'
<1>1. CASE Arrive(u) \/ Begin(u) \/ Reject(u)
    BY <1>1 DEF Arrive, Begin, Reject, Respond, IngestOK, IngestTypeOK, IngestInv, ReportedIsStored,
                Ingesting, NoFile, Parts
<1>2. CASE StoreOK(u)
    BY <1>2 DEF StoreOK, IngestOK, IngestTypeOK, IngestInv, ReportedIsStored, Ingesting, NoFile
<1>3. CASE StoreFails(u)
    <2>1. Ingesting(u) /\ PartFails(u) /\ reported' = reported /\ stored' = stored
        BY <1>3 DEF StoreFails, Ingesting
    <2>2. IngestTypeOK'
        BY <2>1, AdvanceTypes DEF IngestOK, IngestTypeOK
    <2>3. ReportedIsStored'
        BY <2>1 DEF IngestOK, IngestInv, ReportedIsStored
    <2>4. ASSUME NEW v \in Uploads
          PROVE  /\ Ingesting(v)' => part'[v] \in Parts(v)
                 /\ job'[v] \in {"idle", "read"} \/ (Ingesting(v)' /\ part'[v] = 0) => NoFile(v)'
                 /\ status'[v] = 500 => job'[v] = "done" /\ NoFile(v)'
        BY <2>1, AdvanceTypes DEF IngestOK, IngestInv, Ingesting, NoFile
    <2> QED
        BY <2>2, <2>3, <2>4 DEF IngestOK, IngestInv, Parts
<1>4. CASE PublishOK(u) \/ \E arrived \in BOOLEAN : PublishFails(u, arrived)
    <2> DEFINE doc == <<u, part[u]>>
    <2>1. /\ Ingesting(u) /\ (Advance(u) \/ PartFails(u))
          /\ stored' = stored \/ stored' = stored \cup {doc}
          /\ reported' = reported \/ (reported' = reported \cup {doc} /\ stored' = stored \cup {doc})
        BY <1>4 DEF PublishOK, PublishFails, Ingesting
    <2>2. IngestTypeOK'
        BY <2>1, AdvanceTypes, PartIsDocument DEF IngestOK, IngestTypeOK
    <2>3. ReportedIsStored'
        BY <2>1 DEF IngestOK, IngestInv, ReportedIsStored
    <2>4. \A v \in Uploads : v # u => (NoFile(v) => NoFile(v)')
        BY <2>1 DEF NoFile
    <2>5. part[u] = 0 => (NoFile(u) => NoFile(u)')
        BY <2>1 DEF NoFile
    <2>6. ASSUME NEW v \in Uploads
          PROVE  /\ Ingesting(v)' => part'[v] \in Parts(v)
                 /\ job'[v] \in {"idle", "read"} \/ (Ingesting(v)' /\ part'[v] = 0) => NoFile(v)'
                 /\ status'[v] = 500 => job'[v] = "done" /\ NoFile(v)'
        <3>1. CASE v # u
            BY <2>1, <2>4, <3>1, AdvanceTypes DEF IngestOK, IngestInv, Ingesting
        <3>2. CASE v = u
            <4>1. status[u] # 500
                BY <2>1 DEF IngestOK, IngestInv, Ingesting
            <4>2. part[u] = 0 => NoFile(u)
                BY <2>1 DEF IngestOK, IngestInv
            <4> QED
                BY <2>1, <2>5, <3>2, <4>1, <4>2, AdvanceTypes DEF Ingesting
        <3> QED
            BY <3>1, <3>2
    <2> QED
        BY <2>2, <2>3, <2>6 DEF IngestOK, IngestInv, Parts
<1> QED
    BY <1>1, <1>2, <1>3, <1>4

-----------------------------------------------------------------------------
(* The process *)

ProcessTypeOK ==
    /\ proc \in {"booting", "up", "graceful", "cancelled", "fatal"}
    /\ cancelled \in BOOLEAN
    /\ err \in {"none", "cancelled", "subscribe", "drain"}
    /\ broker \in {"down", "up", "stopped"}
    /\ http \in {"starting", "serving", "draining", "stopped"}
    /\ module \in [Modules -> {"starting", "listening", "deaf", "failed", "stopped"}]

\* Modules end only when the group does, and a module that failed has left an
\* error; a module that returns its error is never deaf.
ModulesInv ==
    \A m \in Modules :
        /\ module[m] = "failed" => cancelled /\ err # "none"
        /\ module[m] = "stopped" => cancelled
        /\ m \in Strict => module[m] # "deaf"

\* The HTTP server stops without an error only when no request runs, and a
\* graceful end has seen that.
DrainInv ==
    /\ http = "stopped" /\ err = "none" => ~Busy
    /\ proc = "graceful" => http = "stopped" /\ err = "none"

ProcessOK == ProcessTypeOK /\ ModulesInv /\ DrainInv

\* Steps of requests only: the process stays as it is, and no request begins.
LEMMA RequestsKeepProcess ==
    ASSUME ProcessOK, UNCHANGED processVars, Busy' => Busy \/ http = "serving"
    PROVE  ProcessOK'
BY DEF ProcessOK, ProcessTypeOK, ModulesInv, DrainInv, processVars

\* Steps of the process only: which requests run stays as it is.
LEMMA IdleKeepsRequests ==
    ASSUME StreamTypeOK, IngestOK, UNCHANGED <<streamVars, ingestVars>>
    PROVE  StreamTypeOK' /\ IngestOK' /\ (Busy' <=> Busy)
BY DEF streamVars, ingestVars, StreamTypeOK, IngestOK, IngestTypeOK, IngestInv, ReportedIsStored,
       Ingesting, Streaming, Busy, NoFile, Parts, Documents

IInv == StreamTypeOK /\ IngestOK /\ ProcessOK

\* Nothing runs and nothing is stored yet.
LEMMA Initially == Init => IInv
<1> SUFFICES ASSUME Init PROVE IInv
    OBVIOUS
<1>1. StreamTypeOK
    <2>1. <<>> \in Seq(1..events) /\ Len(<<>>) <= BufferSize
        BY DEF Init, StreamInit
    <2> QED
        BY <2>1 DEF Init, StreamInit, StreamTypeOK
<1>2. IngestOK
    BY DEF Init, IngestInit, IngestOK, IngestTypeOK, IngestInv, ReportedIsStored, Ingesting, NoFile
<1>3. ProcessOK
    BY DEF Init, ProcessOK, ProcessTypeOK, ModulesInv, DrainInv
<1> QED
    BY <1>1, <1>2, <1>3 DEF IInv

\* Start, stop and exit.
LEMMA ProcessSteps ==
    ASSUME IInv,
           \/ Boot \/ Bind \/ ServeFails \/ Signal \/ BrokerStops \/ Drain \/ Drained \/ DrainTimeout \/ Exit
           \/ \E m \in Modules : SubscribeOK(m) \/ SubscribeFails(m) \/ ModuleStops(m)
    PROVE  IInv'
<1>1. UNCHANGED <<streamVars, ingestVars>>
    BY DEF Boot, Bind, ServeFails, Signal, BrokerStops, Drain, Drained, DrainTimeout, Exit,
           SubscribeOK, SubscribeFails, ModuleStops
<1>2. StreamTypeOK' /\ IngestOK' /\ (Busy' <=> Busy)
    BY <1>1, IdleKeepsRequests DEF IInv
<1> USE <1>2 DEF IInv, ProcessOK, ProcessTypeOK, ModulesInv, DrainInv, Up
<1>3. CASE Boot \/ Bind \/ ServeFails
    BY <1>3 DEF Boot, Bind, ServeFails
<1>4. CASE Signal \/ BrokerStops \/ Drain
    BY <1>4 DEF Signal, BrokerStops, Drain
<1>5. CASE Drained
    BY <1>5 DEF Drained
<1>6. CASE DrainTimeout
    BY <1>6 DEF DrainTimeout, GroupError
<1>7. CASE Exit
    BY <1>7 DEF Exit
<1>8. ASSUME NEW m \in Modules, SubscribeOK(m) \/ ModuleStops(m) PROVE IInv'
    BY <1>8 DEF SubscribeOK, ModuleStops
<1>9. ASSUME NEW m \in Modules, SubscribeFails(m) PROVE IInv'
    <2>1. CASE m \in Strict /\ module' = [module EXCEPT ![m] = "failed"]
        <3>1. PICK e \in {"subscribe", "cancelled"} : GroupError(e)
            BY <1>9, <2>1 DEF SubscribeFails, Modules
        <3> QED
            BY <1>9, <2>1, <3>1 DEF SubscribeFails, GroupError
    <2>2. CASE m \in Lenient /\ module' = [module EXCEPT ![m] = "deaf"] /\ UNCHANGED <<cancelled, err>>
        BY <1>9, <2>2 DEF SubscribeFails
    <2> QED
        BY <1>9, <2>1, <2>2 DEF SubscribeFails
<1> QED
    BY <1>3, <1>4, <1>5, <1>6, <1>7, <1>8, <1>9

\* What goes on in the requests.
LEMMA RequestSteps ==
    ASSUME IInv,
           \/ Accept \/ WorkerPublishes
           \/ \E l \in Listeners : Stream(l)
           \/ \E u \in Uploads : ReadForm(u) \/ StoreFile(u) \/ PublishDocument(u)
    PROVE  IInv'
<1> USE DEF IInv
<1>1. CASE Accept
    <2>1. StreamTypeOK'
        BY <1>1, ListenerTypes DEF Accept, streamVars, StreamTypeOK
    <2>2. IngestOK'
        <3>1. CASE UNCHANGED ingestVars
            BY <3>1 DEF ingestVars, IngestOK, IngestTypeOK, IngestInv, ReportedIsStored,
                        Ingesting, NoFile, Parts, Documents
        <3>2. CASE \E u \in Uploads : Arrive(u)
            BY <3>2, UploadOK
        <3> QED
            BY <1>1, <3>1, <3>2 DEF Accept
    <2>3. ProcessOK'
        BY <1>1, RequestsKeepProcess DEF Accept
    <2> QED
        BY <2>1, <2>2, <2>3
<1>2. CASE WorkerPublishes
    <2>1. StreamTypeOK' /\ Broadcast /\ UNCHANGED <<ingestVars, processVars>>
        BY <1>2, BroadcastTypes DEF WorkerPublishes
    <2>2. IngestOK'
        BY <2>1 DEF ingestVars, IngestOK, IngestTypeOK, IngestInv, ReportedIsStored,
                    Ingesting, NoFile, Parts, Documents
    <2>3. Busy' => Busy
        BY <2>1 DEF Busy, Broadcast, Streaming, Ingesting, ingestVars
    <2> QED
        BY <2>1, <2>2, <2>3, RequestsKeepProcess
<1>3. ASSUME NEW l \in Listeners, Stream(l) PROVE IInv'
    <2>1. /\ Subscribed(l) \/ Callback(l) \/ WriteEvent(l) \/ Leave(l) \/ HandlerReturns(l) \/ Unsubscribe(l)
          /\ UNCHANGED <<ingestVars, processVars>>
        BY <1>3 DEF Stream
    <2>2. StreamTypeOK'
        BY <2>1, ListenerTypes
    <2>3. IngestOK'
        BY <2>1 DEF ingestVars, IngestOK, IngestTypeOK, IngestInv, ReportedIsStored,
                    Ingesting, NoFile, Parts, Documents
    <2>4. \A k \in Listeners : Streaming(k)' => Streaming(k)
        BY <2>1 DEF StreamTypeOK, Streaming, Subscribed, Callback, WriteEvent, Leave, HandlerReturns, Unsubscribe
    <2>5. Busy' => Busy
        BY <2>1, <2>4 DEF Busy, Ingesting, ingestVars
    <2> QED
        BY <2>1, <2>2, <2>3, <2>5, RequestsKeepProcess
<1>4. ASSUME NEW u \in Uploads, ReadForm(u) \/ StoreFile(u) \/ PublishDocument(u) PROVE IInv'
    <2>1. /\ \/ Begin(u) \/ Reject(u) \/ StoreOK(u) \/ StoreFails(u) \/ PublishOK(u)
             \/ \E arrived \in BOOLEAN : PublishFails(u, arrived)
          /\ Broadcast \/ UNCHANGED streamVars
          /\ UNCHANGED processVars
        BY <1>4 DEF ReadForm, StoreFile, PublishDocument
    <2>2. StreamTypeOK'
        BY <2>1, BroadcastTypes DEF streamVars, StreamTypeOK
    <2>3. IngestOK'
        BY <2>1, UploadOK
    <2>4. job[u] = "read" \/ Ingesting(u)
        BY <2>1 DEF Begin, Reject, StoreOK, StoreFails, PublishOK, PublishFails, Ingesting
    <2> QED
        BY <2>1, <2>2, <2>3, <2>4, RequestsKeepProcess DEF Busy
<1> QED
    BY <1>1, <1>2, <1>3, <1>4

\* Every step keeps the invariant.
LEMMA Inductive == IInv /\ [Next]_vars => IInv'
<1> SUFFICES ASSUME IInv, [Next]_vars PROVE IInv'
    OBVIOUS
<1>1. CASE UNCHANGED vars
    <2>1. UNCHANGED <<streamVars, ingestVars>> /\ UNCHANGED processVars
        BY <1>1 DEF vars
    <2> QED
        BY <2>1, IdleKeepsRequests, RequestsKeepProcess DEF IInv
<1>2. CASE Next
    BY <1>2, ProcessSteps, RequestSteps DEF Next
<1> QED
    BY <1>1, <1>2

\* So it holds in every reachable state.
LEMMA Invariant == Spec => []IInv
BY Initially, Inductive, PTL DEF Spec

-----------------------------------------------------------------------------
(* The order of a stream *)

Seen(l) == written[l] \o channel[l]

\* The last event that the callback of a listener has handled.
Handled(l) == events - Len(queue[l])

\* What an open stream has seen: events since the join, in order, the first
\* ones without a gap; no gap at all as long as they are fewer than the channel
\* holds; and the queue continues where the callback has left off.
StreamOrdered(l) ==
    /\ joined[l] <= Handled(l)
    /\ \A i \in 1..Len(queue[l]) : queue[l][i] = Handled(l) + i
    /\ \A i \in 1..Len(Seen(l)) : Seen(l)[i] <= Handled(l)
    /\ \A i, j \in 1..Len(Seen(l)) : i < j => Seen(l)[i] < Seen(l)[j]
    /\ \A i \in 1..Len(Seen(l)) : i <= BufferSize => Seen(l)[i] = joined[l] + i
    /\ Len(Seen(l)) < BufferSize => Len(Seen(l)) = Handled(l) - joined[l]

Fresh(l) == queue[l] = <<>> /\ channel[l] = <<>> /\ written[l] = <<>>

OrderOf(l) ==
    /\ conn[l] = "idle" => sub[l] = "none" /\ Fresh(l)
    /\ conn[l] = "open" => \/ sub[l] = "sent" /\ Fresh(l)
                           \/ sub[l] = "active" /\ StreamOrdered(l)

OrderInv == \A l \in Listeners : OrderOf(l)

\* An event that moves from one sequence to the other stays in its place.
LEMMA HeadMoves ==
    ASSUME NEW n \in Nat, NEW s \in Seq(1..n), NEW t \in Seq(1..n), t # <<>>
    PROVE  Append(s, Head(t)) \o Tail(t) = s \o t
<1>1. Head(t) \in 1..n /\ Tail(t) \in Seq(1..n) /\ <<Head(t)>> \in Seq(1..n)
    OBVIOUS
<1>2. t = <<Head(t)>> \o Tail(t)
    OBVIOUS
<1>3. Append(s, Head(t)) = s \o <<Head(t)>>
    BY <1>1, AppendIsConcat
<1>4. (s \o <<Head(t)>>) \o Tail(t) = s \o (<<Head(t)>> \o Tail(t))
    BY <1>1, ConcatAssociative
<1> QED
    BY <1>2, <1>3, <1>4

\* An event appended to the second sequence is appended to both.
LEMMA AppendMoves ==
    ASSUME NEW n \in Nat, NEW s \in Seq(1..n), NEW t \in Seq(1..n), NEW e \in 1..n
    PROVE  s \o Append(t, e) = Append(s \o t, e)
<1>1. s \o t \in Seq(1..n)
    BY ConcatProperties
<1>2. Append(t, e) = t \o <<e>>
    BY AppendIsConcat
<1>3. Append(t, e) = t \o <<e>> /\ Append(s \o t, e) = (s \o t) \o <<e>>
    BY <1>1, <1>2, AppendIsConcat
<1>4. s \o (t \o <<e>>) = (s \o t) \o <<e>>
    BY ConcatAssociative
<1> QED
    BY <1>3, <1>4

\* What the proofs use of a sequence of events, and of one made longer.
LEMMA EventSeq ==
    ASSUME NEW n \in Nat, NEW s \in Seq(1..n)
    PROVE  Len(s) \in Nat /\ \A i \in 1..Len(s) : s[i] \in Int
OBVIOUS

LEMMA EventAppended ==
    ASSUME NEW n \in Nat, NEW s \in Seq(1..n), NEW e \in Nat
    PROVE  /\ Len(Append(s, e)) = Len(s) + 1
           /\ \A i \in 1..Len(s) : Append(s, e)[i] = s[i]
           /\ Append(s, e)[Len(s) + 1] = e
OBVIOUS

\* A listener whose variables a step leaves alone keeps its order.
LEMMA OrderStays ==
    ASSUME NEW l \in Listeners, OrderOf(l), UNCHANGED <<events, conn[l], sub[l], joined[l],
                                                       queue[l], channel[l], written[l]>>
    PROVE  OrderOf(l)'
BY DEF OrderOf, Fresh, StreamOrdered, Handled, Seen

\* A broadcast goes to the end of the queue of an active subscription.
LEMMA BroadcastOrders ==
    ASSUME StreamTypeOK, OrderInv, Broadcast
    PROVE  OrderInv'
<1> SUFFICES ASSUME NEW l \in Listeners PROVE OrderOf(l)'
    BY DEF OrderInv
<1>1. OrderOf(l) /\ queue[l] \in Seq(1..events) /\ events \in Nat /\ joined[l] \in Nat
    BY DEF OrderInv, StreamTypeOK
<1>2. /\ events' = events + 1
      /\ conn'[l] = conn[l] /\ sub'[l] = sub[l] /\ joined'[l] = joined[l]
      /\ channel'[l] = channel[l] /\ written'[l] = written[l]
    BY DEF Broadcast
<1>3. CASE sub[l] = "active"
    <2>1. queue'[l] = Append(queue[l], events + 1)
        BY <1>3 DEF Broadcast
    <2>2. /\ Len(queue'[l]) = Len(queue[l]) + 1
          /\ \A i \in 1..Len(queue[l]) : queue'[l][i] = queue[l][i]
          /\ queue'[l][Len(queue[l]) + 1] = events + 1
        BY <1>1, <2>1
    <2>3. Handled(l)' = Handled(l) /\ Handled(l) \in Int /\ Handled(l) + Len(queue[l]) = events
        BY <1>1, <1>2, <2>2 DEF Handled
    <2>4. Seen(l)' = Seen(l)
        BY <1>2 DEF Seen
    <2>5. ASSUME \A i \in 1..Len(queue[l]) : queue[l][i] = Handled(l) + i,
                 NEW i \in 1..Len(queue'[l])
          PROVE  queue'[l][i] = Handled(l)' + i
        <3> DEFINE n == Len(queue[l])
        <3>1. n \in Nat
            BY <1>1
        <3>2. i \in 1..n \/ i = n + 1
            BY <2>2, <3>1
        <3>3. CASE i \in 1..n
            BY <2>2, <2>3, <2>5, <3>3
        <3>4. CASE i = n + 1
            BY <1>1, <2>2, <2>3, <3>1, <3>4
        <3> QED
            BY <3>2, <3>3, <3>4
    <2> QED
        BY <1>1, <1>2, <1>3, <2>3, <2>4, <2>5 DEF OrderOf, StreamOrdered
<1>4. CASE sub[l] # "active"
    <2>1. queue'[l] = queue[l]
        BY <1>4 DEF Broadcast, StreamTypeOK
    <2> QED
        BY <1>1, <1>2, <1>4, <2>1 DEF OrderOf, Fresh
<1> QED
    BY <1>3, <1>4

\* The callback moves the head of the queue to the channel, or drops it when
\* the channel is full.
LEMMA CallbackOrders ==
    ASSUME StreamTypeOK, NEW l \in Listeners, OrderOf(l), Callback(l)
    PROVE  OrderOf(l)'
<1>1. /\ queue[l] \in Seq(1..events) /\ channel[l] \in Seq(1..events) /\ written[l] \in Seq(1..events)
      /\ events \in Nat /\ joined[l] \in Nat /\ queue[l] # <<>> /\ sub[l] = "active"
      /\ BufferSize \in Nat \ {0}
    BY DEF StreamTypeOK, Callback
<1>2. /\ events' = events /\ conn'[l] = conn[l] /\ sub'[l] = sub[l] /\ joined'[l] = joined[l]
      /\ written'[l] = written[l] /\ queue'[l] = Tail(queue[l])
    BY DEF Callback, StreamTypeOK
<1> DEFINE e == Head(queue[l])
<1>3. CASE conn[l] # "open"
    BY <1>1, <1>2, <1>3 DEF OrderOf
<1>4. CASE conn[l] = "open"
    <2>1. StreamOrdered(l)
        BY <1>1, <1>4 DEF OrderOf
    <2>2. /\ Len(Tail(queue[l])) = Len(queue[l]) - 1 /\ Len(queue[l]) \in Nat /\ Len(queue[l]) > 0
          /\ \A i \in 1..Len(Tail(queue[l])) : Tail(queue[l])[i] = queue[l][i + 1]
          /\ e = queue[l][1] /\ e \in 1..events
        BY <1>1
    <2>3. Handled(l) \in Int /\ Handled(l)' = Handled(l) + 1
        <3> DEFINE a == Len(queue[l])
                   b == Len(Tail(queue[l]))
        <3>1. Handled(l) = events - a /\ Handled(l)' = events - b
            BY <1>2 DEF Handled
        <3>2. b = a - 1 /\ a \in Nat /\ events \in Nat
            BY <1>1, <2>2
        <3> HIDE DEF a, b
        <3> QED
            BY <3>1, <3>2
    <2>4. joined[l] <= Handled(l) /\ queue[l][1] = Handled(l) + 1
        BY <2>1, <2>2 DEF StreamOrdered
    <2>5. /\ Handled(l)' = Handled(l) + 1 /\ Handled(l) \in Int /\ e = Handled(l) + 1
          /\ joined[l] <= Handled(l)'
        BY <1>1, <2>2, <2>3, <2>4
    <2>6. \A i \in 1..Len(queue'[l]) : queue'[l][i] = Handled(l)' + i
        BY <1>2, <2>1, <2>2, <2>5 DEF StreamOrdered
    <2>7. Seen(l) \in Seq(1..events) /\ Len(Seen(l)) = Len(written[l]) + Len(channel[l])
        BY <1>1 DEF Seen
    <2>8. CASE Len(channel[l]) < BufferSize
        <3>1. channel'[l] = Append(channel[l], e)
            BY <2>8 DEF Callback, StreamTypeOK
        <3>2. written[l] \o Append(channel[l], e) = Append(written[l] \o channel[l], e)
            <4>1. e \in 1..events /\ events \in Nat
                BY <1>1, <2>2
            <4> DEFINE s == written[l]
                       t == channel[l]
            <4>2. s \in Seq(1..events) /\ t \in Seq(1..events)
                BY <1>1
            <4> HIDE DEF e, s, t
            <4>3. s \o Append(t, e) = Append(s \o t, e)
                BY <4>1, <4>2, AppendMoves
            <4> QED
                BY <4>3 DEF s, t
        <3>3. Seen(l)' = Append(Seen(l), e)
            BY <1>2, <3>1, <3>2 DEF Seen
        <3> DEFINE n == Len(Seen(l))
        <3>4. /\ n \in Nat /\ Len(Seen(l)') = n + 1
              /\ \A i \in 1..n : Seen(l)'[i] = Seen(l)[i] /\ Seen(l)[i] \in Int
              /\ Seen(l)'[n + 1] = Handled(l) + 1
            <4>1. n \in Nat /\ \A i \in 1..n : Seen(l)[i] \in Int
                BY <1>1, <2>7, EventSeq
            <4>2. /\ Len(Append(Seen(l), e)) = n + 1
                  /\ \A i \in 1..n : Append(Seen(l), e)[i] = Seen(l)[i]
                  /\ Append(Seen(l), e)[n + 1] = e
                <5> e \in Nat
                    BY <1>1, <2>2
                <5> QED
                    BY <1>1, <2>7, EventAppended
            <4> QED
                BY <2>5, <3>3, <4>1, <4>2
        <3> HIDE DEF n
        <3>5. \A i \in 1..(n + 1) : Seen(l)'[i] <= Handled(l)'
            <4>1. \A i \in 1..n : Seen(l)[i] <= Handled(l)
                BY <2>1 DEF StreamOrdered, n
            <4>2. ASSUME NEW i \in 1..n PROVE Seen(l)'[i] <= Handled(l)'
                BY <2>5, <3>4, <4>1
            <4>3. Seen(l)'[n + 1] <= Handled(l)'
                BY <2>5, <3>4
            <4> QED
                BY <3>4, <4>2, <4>3
        <3>6. \A i, j \in 1..(n + 1) : i < j => Seen(l)'[i] < Seen(l)'[j]
            <4> SUFFICES ASSUME NEW i \in 1..(n + 1), NEW j \in 1..(n + 1), i < j
                         PROVE  Seen(l)'[i] < Seen(l)'[j]
                OBVIOUS
            <4>1. i \in 1..n
                BY <3>4
            <4>2. CASE j \in 1..n
                <5>1. Seen(l)[i] < Seen(l)[j]
                    BY <2>1, <4>1, <4>2 DEF StreamOrdered, n
                <5> QED
                    BY <3>4, <4>1, <4>2, <5>1
            <4>3. CASE j = n + 1
                <5>1. Seen(l)[i] <= Handled(l)
                    BY <2>1, <4>1 DEF StreamOrdered, n
                <5> QED
                    BY <2>5, <3>4, <4>1, <4>3, <5>1
            <4> QED
                BY <3>4, <4>2, <4>3
        <3>7. n < BufferSize => n = Handled(l) - joined[l]
            BY <2>1 DEF StreamOrdered, n
        <3>8. \A i \in 1..(n + 1) : i <= BufferSize => Seen(l)'[i] = joined[l] + i
            <4>1. \A i \in 1..n : i <= BufferSize => Seen(l)'[i] = joined[l] + i
                BY <2>1, <3>4 DEF StreamOrdered, n
            <4>2. n + 1 <= BufferSize => Seen(l)'[n + 1] = joined[l] + (n + 1)
                BY <1>1, <2>5, <3>4, <3>7
            <4> QED
                BY <3>4, <4>1, <4>2
        <3>9. n + 1 < BufferSize => n + 1 = Handled(l)' - joined[l]
            <4>1. n \in Nat /\ BufferSize \in Nat /\ Handled(l) \in Int /\ joined[l] \in Int
                BY <1>1, <2>5, <3>4
            <4>2. n + 1 < BufferSize => n = Handled(l) - joined[l]
                BY <3>7, <4>1
            <4>3. Handled(l)' = Handled(l) + 1
                BY <2>5
            <4> QED
                BY <4>1, <4>2, <4>3
        <3> QED
            BY <1>1, <1>2, <1>4, <2>5, <2>6, <3>4, <3>5, <3>6, <3>8, <3>9 DEF OrderOf, StreamOrdered
    <2>9. CASE ~(Len(channel[l]) < BufferSize)
        <3>1. channel'[l] = channel[l]
            BY <2>9 DEF Callback
        <3>2. Seen(l)' = Seen(l)
            BY <1>2, <3>1 DEF Seen
        <3>3. ~(Len(Seen(l)) < BufferSize)
            <4> DEFINE a == Len(written[l])
                       b == Len(channel[l])
            <4>1. a \in Nat /\ b \in Nat /\ BufferSize \in Nat
                BY <1>1, EventSeq
            <4>2. Len(Seen(l)) = a + b /\ ~(b < BufferSize)
                BY <2>7, <2>9
            <4> HIDE DEF a, b
            <4> QED
                BY <4>1, <4>2
        <3>4. \A i \in 1..Len(Seen(l)) : Seen(l)[i] <= Handled(l)'
            <4>1. \A i \in 1..Len(Seen(l)) : Seen(l)[i] \in Int /\ Seen(l)[i] <= Handled(l)
                BY <1>1, <2>1, <2>7, EventSeq DEF StreamOrdered
            <4> QED
                BY <2>5, <4>1
        <3> QED
            BY <1>1, <1>2, <1>4, <2>1, <2>5, <2>6, <3>2, <3>3, <3>4 DEF OrderOf, StreamOrdered
    <2> QED
        BY <2>8, <2>9
<1> QED
    BY <1>3, <1>4

\* The steps of the listener itself keep the order.
LEMMA ListenerOrders ==
    ASSUME StreamTypeOK, OrderInv, NEW l \in Listeners,
           \/ Listen(l) \/ RefuseListener(l) \/ Subscribed(l) \/ Callback(l)
           \/ WriteEvent(l) \/ Leave(l) \/ HandlerReturns(l) \/ Unsubscribe(l)
    PROVE  OrderInv'
<1>1. ASSUME NEW k \in Listeners, k # l PROVE OrderOf(k)'
    <2>1. UNCHANGED <<events, conn[k], sub[k], joined[k], queue[k], channel[k], written[k]>>
        BY <1>1 DEF StreamTypeOK, Listen, RefuseListener, Subscribed, Callback, WriteEvent, Leave,
                    HandlerReturns, Unsubscribe
    <2> QED
        BY <2>1, OrderStays DEF OrderInv
<1>2. OrderOf(l)
    BY DEF OrderInv
<1>3. OrderOf(l)'
    <2>1. CASE Listen(l)
        BY <1>2, <2>1 DEF Listen, StreamTypeOK, OrderOf, Fresh
    <2>2. CASE RefuseListener(l) \/ Leave(l) \/ HandlerReturns(l)
        BY <2>2 DEF RefuseListener, Leave, HandlerReturns, StreamTypeOK, OrderOf
    <2>3. CASE Subscribed(l)
        <3>1. CASE conn[l] = "open"
            <4>1. /\ queue'[l] = <<>> /\ channel'[l] = <<>> /\ written'[l] = <<>>
                  /\ joined'[l] = events /\ events' = events /\ events \in Nat
                  /\ conn'[l] = "open" /\ sub'[l] = "active"
                BY <1>2, <2>3, <3>1 DEF Subscribed, StreamTypeOK, OrderOf, Fresh
            <4>2. Seen(l)' = <<>> /\ Handled(l)' = events
                BY <4>1 DEF Seen, Handled
            <4> QED
                BY <4>1, <4>2 DEF OrderOf, StreamOrdered
        <3>2. CASE conn[l] # "open"
            BY <1>2, <2>3, <3>2 DEF Subscribed, OrderOf
        <3> QED
            BY <3>1, <3>2
    <2>4. CASE Callback(l)
        BY <1>2, <2>4, CallbackOrders
    <2>5. CASE WriteEvent(l)
        <3>1. CASE conn[l] = "open"
            <4>1. /\ channel'[l] = Tail(channel[l]) /\ written'[l] = Append(written[l], Head(channel[l]))
                  /\ channel[l] # <<>> /\ channel[l] \in Seq(1..events) /\ written[l] \in Seq(1..events)
                  /\ UNCHANGED <<events, conn[l], sub[l], joined[l], queue[l]>>
                BY <2>5, <3>1 DEF WriteEvent, StreamTypeOK
            <4>2. Append(written[l], Head(channel[l])) \o Tail(channel[l]) = written[l] \o channel[l]
                BY <4>1, HeadMoves DEF StreamTypeOK
            <4>3. Seen(l)' = Seen(l)
                BY <4>1, <4>2 DEF Seen
            <4>4. Handled(l)' = Handled(l)
                BY <4>1 DEF Handled
            <4> QED
                BY <1>2, <3>1, <4>1, <4>3, <4>4 DEF OrderOf, StreamOrdered, Fresh
        <3>2. CASE conn[l] # "open"
            BY <1>2, <2>5, <3>2 DEF WriteEvent, OrderOf
        <3> QED
            BY <3>1, <3>2
    <2>6. CASE Unsubscribe(l)
        BY <2>6 DEF Unsubscribe, OrderOf
    <2> QED
        BY <2>1, <2>2, <2>3, <2>4, <2>5, <2>6
<1> QED
    BY <1>1, <1>3 DEF OrderInv

\* No listener has seen anything yet.
LEMMA OrderInitially == Init => OrderInv
BY DEF Init, StreamInit, OrderInv, OrderOf, Fresh

\* The order is kept by every step, given the types.
LEMMA OrderInductive == IInv /\ OrderInv /\ [Next]_vars => OrderInv'
<1> SUFFICES ASSUME IInv, OrderInv, [Next]_vars PROVE OrderInv'
    OBVIOUS
<1>1. StreamTypeOK
    BY DEF IInv
<1>2. CASE UNCHANGED streamVars
    BY <1>2, OrderStays DEF streamVars, OrderInv
<1>3. CASE Broadcast
    BY <1>1, <1>3, BroadcastOrders
<1>4. CASE \E l \in Listeners :
            \/ Listen(l) \/ RefuseListener(l) \/ Subscribed(l) \/ Callback(l)
            \/ WriteEvent(l) \/ Leave(l) \/ HandlerReturns(l) \/ Unsubscribe(l)
    BY <1>1, <1>4, ListenerOrders
<1>5. CASE Next
    <2>1. CASE Boot \/ Bind \/ ServeFails \/ Signal \/ BrokerStops \/ Drain \/ Drained \/ DrainTimeout \/ Exit
        BY <1>2, <2>1 DEF Boot, Bind, ServeFails, Signal, BrokerStops, Drain, Drained, DrainTimeout, Exit
    <2>2. CASE \E m \in Modules : SubscribeOK(m) \/ SubscribeFails(m) \/ ModuleStops(m)
        BY <1>2, <2>2 DEF SubscribeOK, SubscribeFails, ModuleStops
    <2>3. CASE Accept \/ WorkerPublishes
        BY <1>2, <1>3, <1>4, <2>3 DEF Accept, WorkerPublishes
    <2>4. CASE \E l \in Listeners : Stream(l)
        BY <1>4, <2>4 DEF Stream
    <2>5. CASE \E u \in Uploads : ReadForm(u) \/ StoreFile(u) \/ PublishDocument(u)
        BY <1>2, <1>3, <2>5 DEF ReadForm, StoreFile, PublishDocument
    <2> QED
        BY <1>5, <2>1, <2>2, <2>3, <2>4, <2>5 DEF Next
<1>6. CASE UNCHANGED vars
    BY <1>2, <1>6 DEF vars
<1> QED
    BY <1>5, <1>6

\* An open stream is in order, and its first BufferSize events are not lost.
THEOREM FirstEventsAreKept == Spec => []FirstEventsKept
<1>1. IInv /\ OrderInv => FirstEventsKept
    <2> SUFFICES ASSUME IInv, OrderInv, NEW l \in Listeners, conn[l] = "open"
                 PROVE  /\ \A i, j \in DOMAIN Seen(l) : i < j => Seen(l)[i] < Seen(l)[j]
                        /\ \A i \in DOMAIN Seen(l) : i <= BufferSize => Seen(l)[i] = joined[l] + i
        BY DEF FirstEventsKept, Seen
    <2>1. written[l] \in Seq(1..events) /\ channel[l] \in Seq(1..events)
        BY DEF IInv, StreamTypeOK
    <2>2. DOMAIN Seen(l) = 1..Len(Seen(l))
        BY <2>1 DEF Seen
    <2>3. CASE Fresh(l)
        BY <2>3 DEF Fresh, Seen
    <2>4. CASE StreamOrdered(l)
        BY <2>2, <2>4 DEF StreamOrdered
    <2> QED
        BY <2>3, <2>4 DEF OrderInv, OrderOf
<1> QED
    BY <1>1, Invariant, OrderInitially, OrderInductive, PTL DEF Spec

-----------------------------------------------------------------------------
(* The theorems *)

\* The variables of the process, its listeners and its uploads keep their
\* types, the bound of the channel included.
THEOREM TypeCorrect == Spec => []TypeOK
<1>1. IInv => TypeOK
    BY DEF IInv, IngestOK, ProcessOK, ProcessTypeOK, TypeOK
<1> QED
    BY <1>1, Invariant, PTL

\* A process that ends without an error has cut no request off, and none of its
\* modules had given up.
THEOREM GracefulEndCutsNothing == Spec => []GracefulMeansDrained
<1>1. IInv => GracefulMeansDrained
    BY DEF IInv, ProcessOK, ModulesInv, DrainInv, GracefulMeansDrained
<1> QED
    BY <1>1, Invariant, PTL

\* HandleIngest reports a document only when its event is in the stream.
THEOREM ReportsAreTrue == Spec => []ReportedIsStored
<1>1. IInv => ReportedIsStored
    BY DEF IInv, IngestOK, IngestInv
<1> QED
    BY <1>1, Invariant, PTL

\* No file of an upload that ends with 500 is in the stream.
THEOREM RejectionsStoreNoFile == Spec => []RejectedStoresNoFile
<1>1. IInv => RejectedStoresNoFile
    BY DEF IInv, IngestOK, IngestInv, NoFile, RejectedStoresNoFile
<1> QED
    BY <1>1, Invariant, PTL

\* When the modules have started and nothing stops them, each module that
\* returns the error of Subscribe has its consumer.
THEOREM StartedModulesListen == Spec => []StartedMeansListening
<1>1. IInv => StartedMeansListening
    BY DEF IInv, ProcessOK, ProcessTypeOK, ModulesInv, StartedMeansListening, Modules
<1> QED
    BY <1>1, Invariant, PTL

=============================================================================
