---------------------------- MODULE EventStream -----------------------------
(***************************************************************************)
(* The gateway's event stream to browsers: HandleStreamEvents, ListenEvents *)
(* and SubscribeEphemeral.  A listener is one HTTP connection with three   *)
(* goroutines that share its channel and its context: the handler that     *)
(* reads the channel and writes to the client, the subscription's callback *)
(* that fills the channel, and the one that unsubscribes when the context  *)
(* is done.  The module that EXTENDS this one supplies the server.         *)
(*                                                                         *)
(* An event is its number in the order of publication.                     *)
(***************************************************************************)
EXTENDS Integers, Sequences

CONSTANTS
    Listeners,
    BufferSize  \* capacity of a listener's channel (50 in the code)

ASSUME BufferAssumption == BufferSize \in Nat \ {0}

VARIABLES
    events,   \* the number of events published so far
    conn,     \* the HTTP request of each listener
    sub,      \* its subscription
    joined,   \* the number of events published before the broker knew of it
    queue,    \* events the client library holds for the callback
    channel,  \* the listener's channel
    written   \* the events written to the client

streamVars == <<events, conn, sub, joined, queue, channel, written>>

StreamTypeOK ==
    /\ events \in Nat
    /\ conn \in [Listeners -> {"idle", "open", "left", "closed"}]
    /\ sub \in [Listeners -> {"none", "sent", "active", "ended"}]
    /\ joined \in [Listeners -> 0..events]
    /\ queue \in [Listeners -> Seq(1..events)]
    /\ channel \in [Listeners -> Seq(1..events)]
    /\ written \in [Listeners -> Seq(1..events)]
    /\ \A l \in Listeners : Len(channel[l]) <= BufferSize

StreamInit ==
    /\ events = 0
    /\ conn = [l \in Listeners |-> "idle"]
    /\ sub = [l \in Listeners |-> "none"]
    /\ joined = [l \in Listeners |-> 0]
    /\ queue = [l \in Listeners |-> <<>>]
    /\ channel = [l \in Listeners |-> <<>>]
    /\ written = [l \in Listeners |-> <<>>]

-----------------------------------------------------------------------------
\* A publication that the broker hands to every subscription it knows of. An
\* ephemeral subscription has no acks: nobody keeps the event for those who
\* subscribe later.
Broadcast ==
    /\ events' = events + 1
    /\ queue' = [l \in Listeners |->
                    IF sub[l] = "active" THEN Append(queue[l], events + 1) ELSE queue[l]]
    /\ UNCHANGED <<conn, sub, joined, channel, written>>

\* ListenEvents: the channel is made and the subscription is on its way.
Listen(l) ==
    /\ conn[l] = "idle"
    /\ conn' = [conn EXCEPT ![l] = "open"]
    /\ sub' = [sub EXCEPT ![l] = "sent"]
    /\ UNCHANGED <<events, joined, queue, channel, written>>

\* HandleStreamEvents without a correlation id: status 400.
RefuseListener(l) ==
    /\ conn[l] = "idle"
    /\ conn' = [conn EXCEPT ![l] = "closed"]
    /\ UNCHANGED <<events, sub, joined, queue, channel, written>>

\* The broker has the subscription; it serves the events from now on.
Subscribed(l) ==
    /\ sub[l] = "sent"
    /\ sub' = [sub EXCEPT ![l] = "active"]
    /\ joined' = [joined EXCEPT ![l] = events]
    /\ UNCHANGED <<events, conn, queue, channel, written>>

\* Mutant of Callback: the send blocks while the channel is full.
CallbackBlocks(l) ==
    /\ sub[l] = "active"
    /\ queue[l] # <<>>
    /\ Len(channel[l]) < BufferSize
    /\ queue' = [queue EXCEPT ![l] = Tail(@)]
    /\ channel' = [channel EXCEPT ![l] = Append(@, Head(queue[l]))]
    /\ UNCHANGED <<events, conn, sub, joined, written>>

\* Mutant of Callback: a full channel loses its oldest event instead.
CallbackDropsOldest(l) ==
    /\ sub[l] = "active"
    /\ queue[l] # <<>>
    /\ queue' = [queue EXCEPT ![l] = Tail(@)]
    /\ channel' = [channel EXCEPT ![l] =
                    Append(IF Len(@) < BufferSize THEN @ ELSE Tail(@), Head(queue[l]))]
    /\ UNCHANGED <<events, conn, sub, joined, written>>

\* Mutant of Callback: the channel has no bound.
CallbackUnbounded(l) ==
    /\ sub[l] = "active"
    /\ queue[l] # <<>>
    /\ queue' = [queue EXCEPT ![l] = Tail(@)]
    /\ channel' = [channel EXCEPT ![l] = Append(@, Head(queue[l]))]
    /\ UNCHANGED <<events, conn, sub, joined, written>>

\* The subscription's callback, for one event at a time: the event goes into
\* the channel, or is dropped when that is full.
Callback(l) ==
    /\ sub[l] = "active"
    /\ queue[l] # <<>>
    /\ queue' = [queue EXCEPT ![l] = Tail(@)]
    /\ channel' = IF Len(channel[l]) < BufferSize
                  THEN [channel EXCEPT ![l] = Append(@, Head(queue[l]))]
                  ELSE channel
    /\ UNCHANGED <<events, conn, sub, joined, written>>

\* The handler takes an event from the channel and writes it. When the client
\* is gone as well, the select may still choose the channel; the write goes
\* nowhere.
WriteEvent(l) ==
    /\ conn[l] \in {"open", "left"}
    /\ channel[l] # <<>>
    /\ channel' = [channel EXCEPT ![l] = Tail(@)]
    /\ written' = IF conn[l] = "open"
                  THEN [written EXCEPT ![l] = Append(@, Head(channel[l]))]
                  ELSE written
    /\ UNCHANGED <<events, conn, sub, joined, queue>>

\* The client closes the connection: the request's context is done.
Leave(l) ==
    /\ conn[l] = "open"
    /\ conn' = [conn EXCEPT ![l] = "left"]
    /\ UNCHANGED <<events, sub, joined, queue, channel, written>>

HandlerReturns(l) ==
    /\ conn[l] = "left"
    /\ conn' = [conn EXCEPT ![l] = "closed"]
    /\ UNCHANGED <<events, sub, joined, queue, channel, written>>

\* Mutant of Unsubscribe: it waits for a context that nobody ends.
UnsubscribeNothing(l) == FALSE /\ UNCHANGED streamVars

\* The goroutine that waits for the context ends the subscription, and with
\* it the events that are not handled yet.
Unsubscribe(l) ==
    /\ conn[l] \in {"left", "closed"}
    /\ sub[l] \in {"sent", "active"}
    /\ sub' = [sub EXCEPT ![l] = "ended"]
    /\ queue' = [queue EXCEPT ![l] = <<>>]
    /\ UNCHANGED <<events, conn, joined, channel, written>>

Streaming(l) == conn[l] \in {"open", "left"}

=============================================================================
