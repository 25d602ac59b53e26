---------------------------- MODULE ReplyRouter -----------------------------
(***************************************************************************)
(* The gateway's synchronous search over the asynchronous bus              *)
(* (gateway/service.go, SearchDocuments and handleReply).  Each call is an *)
(* HTTP goroutine with its own reply channel of capacity 1; one consumer   *)
(* callback looks every reply up in pendingReqs and sends it to the        *)
(* channel it found.  The lookup holds the lock, the send does not.        *)
(* The process also starts, subscribes, and dies.                          *)
(***************************************************************************)
EXTENDS Integers

CONSTANTS
    Calls,      \* searches of this gateway process
    Foreign,    \* correlation ids of searches of other gateway processes
    MaxCopies,  \* bound of the model: answers to one search that are published
    None        \* no envelope

Corrs == Calls \cup Foreign

ASSUME RouterAssumption ==
    /\ Calls \cap Foreign = {}
    /\ None \notin Corrs
    /\ MaxCopies \in Nat

VARIABLES
    pc,           \* where each call is in SearchDocuments
    outcome,      \* what it returns
    got,          \* the envelope it took from its channel
    pendingReqs,  \* the keys of the map
    buf,          \* the envelope in each reply channel
    closed,       \* the closed channels
    requested,    \* searches whose request is stored in the stream
    copies,       \* answers published so far for each correlation id
    inbox,        \* answers this process's consumer has not handled yet
    hand,         \* the channel and the envelope the callback is about to send
    up,           \* the process runs
    subscribed    \* and its reply consumer exists

NoReply == [ch |-> None, env |-> None]

procVars == <<up, subscribed>>
callVars == <<pc, outcome, got, pendingReqs, closed>>
busVars  == <<requested, copies>>
vars == <<callVars, buf, busVars, inbox, hand, procVars>>

TypeOK ==
    /\ pc \in [Calls -> {"idle", "registered", "waiting", "leaving", "unregistered", "done"}]
    /\ outcome \in [Calls -> {"none", "results", "timeout", "error", "aborted"}]
    /\ got \in [Calls -> Corrs \cup {None}]
    /\ pendingReqs \subseteq Calls
    /\ buf \in [Calls -> Corrs \cup {None}]
    /\ closed \subseteq Calls
    /\ requested \subseteq Calls
    /\ copies \in [Corrs -> 0..MaxCopies]
    /\ inbox \in [Corrs -> 0..MaxCopies]
    /\ hand \in [ch : Calls, env : Corrs] \cup {NoReply}
    /\ up \in BOOLEAN
    /\ subscribed \in BOOLEAN

Init ==
    /\ pc = [c \in Calls |-> "idle"]
    /\ outcome = [c \in Calls |-> "none"]
    /\ got = [c \in Calls |-> None]
    /\ pendingReqs = {}
    /\ buf = [c \in Calls |-> None]
    /\ closed = {}
    /\ requested = {}
    /\ copies = [x \in Corrs |-> 0]
    /\ inbox = [x \in Corrs |-> 0]
    /\ hand = NoReply
    /\ up = TRUE
    /\ subscribed = FALSE

-----------------------------------------------------------------------------
(* The reply consumer: the callback runs for one reply at a time. *)

\* Start subscribes while the HTTP server may already serve requests; the
\* consumer sees only replies that are published from now on.
Subscribe ==
    /\ up /\ ~subscribed
    /\ subscribed' = TRUE
    /\ UNCHANGED <<callVars, buf, busVars, inbox, hand, up>>

\* An engine publishes an answer, or publishes it again after a redelivery.
\* Every gateway process gets every answer.
ReplyArrives(x) ==
    /\ x \in Foreign \cup requested
    /\ copies[x] < MaxCopies
    /\ copies' = [copies EXCEPT ![x] = @ + 1]
    /\ inbox' = IF subscribed THEN [inbox EXCEPT ![x] = @ + 1] ELSE inbox
    /\ UNCHANGED <<callVars, buf, requested, hand, procVars>>

\* Mutant of Lookup: the reply goes to some waiting call.
LookupAny(x) ==
    /\ hand = NoReply
    /\ inbox[x] > 0
    /\ inbox' = [inbox EXCEPT ![x] = @ - 1]
    /\ hand' \in IF pendingReqs # {} THEN [ch : pendingReqs, env : {x}] ELSE {NoReply}
    /\ UNCHANGED <<callVars, buf, busVars, procVars>>

\* Mutant of Lookup: the reply of an unknown call is sent as well.
LookupUnchecked(x) ==
    /\ hand = NoReply
    /\ inbox[x] > 0
    /\ inbox' = [inbox EXCEPT ![x] = @ - 1]
    /\ hand' = [ch |-> x, env |-> x]
    /\ UNCHANGED <<callVars, buf, busVars, procVars>>

\* handleReply up to the unlock: a reply nobody waits for is acked.
Lookup(x) ==
    /\ hand = NoReply
    /\ inbox[x] > 0
    /\ inbox' = [inbox EXCEPT ![x] = @ - 1]
    /\ hand' = IF x \in pendingReqs THEN [ch |-> x, env |-> x] ELSE NoReply
    /\ UNCHANGED <<callVars, buf, busVars, procVars>>

\* ch <- env on an open channel with room.
Send ==
    /\ hand # NoReply
    /\ hand.ch \notin closed
    /\ buf[hand.ch] = None
    /\ buf' = [buf EXCEPT ![hand.ch] = hand.env]
    /\ hand' = NoReply
    /\ UNCHANGED <<callVars, busVars, inbox, procVars>>

\* The process ends: every goroutine, channel and map is gone, and so is the
\* ephemeral consumer with the replies it had not handled.
Active(c) == pc[c] \notin {"idle", "done"}

Die ==
    /\ up' = FALSE
    /\ subscribed' = FALSE
    /\ outcome' = [c \in Calls |-> IF Active(c) THEN "aborted" ELSE outcome[c]]
    /\ pc' = [c \in Calls |-> IF Active(c) THEN "done" ELSE pc[c]]
    /\ pendingReqs' = {}
    /\ closed' = {}
    /\ buf' = [c \in Calls |-> None]
    /\ inbox' = [x \in Corrs |-> 0]
    /\ hand' = NoReply
    /\ UNCHANGED <<got, busVars>>

\* ch <- env on a closed channel panics, and nothing recovers it.
SendPanics ==
    /\ hand # NoReply
    /\ hand.ch \in closed
    /\ Die

\* The process is killed or crashes for some other reason.
Crash ==
    /\ up
    /\ Die

Restart ==
    /\ ~up
    /\ up' = TRUE
    /\ UNCHANGED <<callVars, buf, busVars, inbox, hand, subscribed>>

-----------------------------------------------------------------------------
(* One SearchDocuments call *)

\* Mutant of Register: the call publishes first and registers later.
RegisterNothing(c) ==
    /\ up
    /\ pc[c] = "idle"
    /\ pc' = [pc EXCEPT ![c] = "registered"]
    /\ UNCHANGED <<outcome, got, pendingReqs, closed, buf, busVars, inbox, hand, procVars>>

\* Put the new channel into the map, before the search is published.
Register(c) ==
    /\ up
    /\ pc[c] = "idle"
    /\ pc' = [pc EXCEPT ![c] = "registered"]
    /\ pendingReqs' = pendingReqs \cup {c}
    /\ UNCHANGED <<outcome, got, closed, buf, busVars, inbox, hand, procVars>>

PublishOK(c) ==
    /\ pc[c] = "registered"
    /\ pc' = [pc EXCEPT ![c] = "waiting"]
    /\ requested' = requested \cup {c}
    /\ UNCHANGED <<outcome, got, pendingReqs, closed, buf, copies, inbox, hand, procVars>>

\* A publish that returns an error may still have stored the request.
PublishFail(c) ==
    /\ pc[c] = "registered"
    /\ pc' = [pc EXCEPT ![c] = "leaving"]
    /\ outcome' = [outcome EXCEPT ![c] = "error"]
    /\ requested' \in {requested, requested \cup {c}}
    /\ UNCHANGED <<got, pendingReqs, closed, buf, copies, inbox, hand, procVars>>

\* The select: the reply, or the timeout (or the client's disconnect). When
\* both are ready either may be taken.
Receive(c) ==
    /\ pc[c] = "waiting"
    /\ buf[c] # None
    /\ pc' = [pc EXCEPT ![c] = "leaving"]
    /\ outcome' = [outcome EXCEPT ![c] = "results"]
    /\ got' = [got EXCEPT ![c] = buf[c]]
    /\ buf' = [buf EXCEPT ![c] = None]
    /\ UNCHANGED <<pendingReqs, closed, busVars, inbox, hand, procVars>>

\* Mutant of Timeout: the timeout is reported as an empty result.
TimeoutAsResult(c) ==
    /\ pc[c] = "waiting"
    /\ pc' = [pc EXCEPT ![c] = "leaving"]
    /\ outcome' = [outcome EXCEPT ![c] = "results"]
    /\ UNCHANGED <<got, pendingReqs, closed, buf, busVars, inbox, hand, procVars>>

Timeout(c) ==
    /\ pc[c] = "waiting"
    /\ pc' = [pc EXCEPT ![c] = "leaving"]
    /\ outcome' = [outcome EXCEPT ![c] = "timeout"]
    /\ UNCHANGED <<got, pendingReqs, closed, buf, busVars, inbox, hand, procVars>>

\* Mutant of Unregister: the entry stays in the map.
UnregisterNothing(c) ==
    /\ pc[c] = "leaving"
    /\ pc' = [pc EXCEPT ![c] = "unregistered"]
    /\ UNCHANGED <<pendingReqs, outcome, got, closed, buf, busVars, inbox, hand, procVars>>

\* The deferred function: delete under the lock, then close.
Unregister(c) ==
    /\ pc[c] = "leaving"
    /\ pc' = [pc EXCEPT ![c] = "unregistered"]
    /\ pendingReqs' = pendingReqs \ {c}
    /\ UNCHANGED <<outcome, got, closed, buf, busVars, inbox, hand, procVars>>

\* Mutant of Close: the channel stays open.
CloseNothing(c) ==
    /\ pc[c] = "unregistered"
    /\ pc' = [pc EXCEPT ![c] = "done"]
    /\ UNCHANGED <<outcome, got, pendingReqs, closed, buf, busVars, inbox, hand, procVars>>

Close(c) ==
    /\ pc[c] = "unregistered"
    /\ pc' = [pc EXCEPT ![c] = "done"]
    /\ closed' = closed \cup {c}
    /\ UNCHANGED <<outcome, got, pendingReqs, buf, busVars, inbox, hand, procVars>>

-----------------------------------------------------------------------------
Next ==
    \/ Subscribe \/ Send \/ SendPanics \/ Crash \/ Restart
    \/ \E x \in Corrs : ReplyArrives(x) \/ Lookup(x)
    \/ \E c \in Calls : \/ Register(c) \/ PublishOK(c) \/ PublishFail(c)
                        \/ Receive(c) \/ Timeout(c) \/ Unregister(c) \/ Close(c)

Spec == Init /\ [][Next]_vars

\* Publish returns, the timer fires, goroutines and the callback run. Nobody
\* has to call, to answer, or to restart a dead process.
Fairness ==
    /\ \A c \in Calls : /\ WF_vars(PublishOK(c) \/ PublishFail(c))
                        /\ WF_vars(Receive(c) \/ Timeout(c))
                        /\ WF_vars(Unregister(c))
                        /\ WF_vars(Close(c))
    /\ WF_vars(\E x \in Corrs : Lookup(x))
    /\ WF_vars(Send \/ SendPanics)

FairSpec == Spec /\ Fairness

-----------------------------------------------------------------------------
(* Properties *)

\* "Guarantee cleanup when the function exits" (gateway/service.go:166): the
\* map holds exactly the calls between their registration and their deferred
\* cleanup, on every way out and across restarts. No entry leaks and no call
\* waits without one.
PendingIsActive ==
    pendingReqs = {c \in Calls : pc[c] \in {"registered", "waiting", "leaving"}}

\* A call that returns results took an envelope with its own correlation id
\* from its channel, and an engine had published it: replies of other calls,
\* of other gateways and copies that come late never end up in its hands.
OnlyOwnReply ==
    \A c \in Calls :
        outcome[c] = "results" => got[c] = c /\ c \in requested /\ copies[c] > 0

\* A reply that was delivered to this process is dropped as nobody's only
\* when its call is past its cleanup: a reply cannot overtake the
\* registration, however fast the engine is.
DropOnlyWhenGone ==
    [][\A c \in Calls :
        inbox'[c] < inbox[c] /\ hand' = NoReply /\ up' =>
            pc[c] \in {"unregistered", "done"}]_vars

\* The consumer callback does not block for good, also when a second copy of
\* a reply meets a channel that is already full: the send goes through, or
\* the process ends.
RouterNeverStuck == (hand # NoReply) ~> (hand = NoReply)

\* The calls behave as SearchCall promises, and none of them hangs.
Call == INSTANCE SearchCall WITH
    outcome  <- [c \in Calls |-> CASE pc[c] = "idle" -> "idle"
                                   [] pc[c] = "done" -> outcome[c]
                                   [] OTHER -> "open"],
    answered <- {c \in Calls : copies[c] > 0}

ImplementsSearchCall == Call!CallFairSpec

\* A reply that comes after its call has timed out is acked and dropped: "It
\* either belongs to another instance or the HTTP request timed out"
\* (src/internal/modules/gateway/service.go:70). It is never sent to a
\* channel that the call has closed, which panics. Refuted by a run.
NoSendOnClosedChannel == hand # NoReply => hand.ch \notin closed

=============================================================================
