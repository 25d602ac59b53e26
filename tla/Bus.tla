-------------------------------- MODULE Bus ---------------------------------
(***************************************************************************)
(* The event bus as the components use it: one JetStream stream over       *)
(* "platform.>" (bus/client.go InitStream) and one durable consumer with   *)
(* explicit acks per queue group (Subscribe).  A delivery is at-least-once *)
(* and a message is delivered at most MaxDeliver times.                    *)
(*                                                                         *)
(* A message that has no verdict yet and no delivery left stays in the     *)
(* stream and is never delivered again.                                    *)
(***************************************************************************)
EXTENDS Events, FiniteSets

CONSTANTS
    MaxDeliver,  \* ConsumerConfig.MaxDeliver (5 in the code)
    MaxFaults,   \* bound of the model on the number of faults of a behaviour
    FaultKinds   \* the faults a behaviour may contain

ASSUME BusAssumption ==
    /\ MaxDeliver \in Nat \ {0}
    /\ MaxFaults \in Nat
    /\ FaultKinds \subseteq {"expiry", "ack", "adapter", "read", "silence",
                             "publish", "restart", "reboot"}

VARIABLES
    stream,  \* the messages stored in the stream
    faults   \* how many faults have happened

\* One stored message and its consumer's state: path says which handler call
\* published it, dlv counts deliveries, held the deliveries not settled yet.
Messages == [path : Seq(Nat), topic : Topics, env : Envelopes,
             dlv : 0..MaxDeliver, held : 0..MaxDeliver,
             st : {"pending", "acked", "termed"}]

BusTypeOK ==
    /\ stream \subseteq Messages
    /\ \A m \in stream : m.held <= m.dlv
    /\ faults \in 0..MaxFaults

Fault(kind) ==
    /\ kind \in FaultKinds
    /\ faults < MaxFaults
    /\ faults' = faults + 1

NewMessage(path, topic, env) ==
    [path |-> path, topic |-> topic, env |-> env, dlv |-> 0, held |-> 0, st |-> "pending"]

-----------------------------------------------------------------------------
\* Mutant of Deliverable: the limit is not enforced.
DeliverableUnlimited(m) ==
    /\ m.topic \in GroupTopics
    /\ m.st = "pending"

\* A message that its consumer may still hand out.
Deliverable(m) ==
    /\ m.topic \in GroupTopics
    /\ m.st = "pending"
    /\ m.dlv < MaxDeliver

\* Nobody holds the message: it is new, or every delivery ended in a Nak.
\* Otherwise the consumer's AckWait ran out on a delivery still in the client
\* (a slow handler, or a message that waits in the prefetch buffer).
Deliver(m) ==
    /\ Deliverable(m)
    /\ \/ m.held = 0 /\ UNCHANGED faults
       \/ m.held > 0 /\ Fault("expiry")
    /\ stream' = (stream \ {m}) \cup {[m EXCEPT !.dlv = @ + 1, !.held = @ + 1]}

\* The message once one held delivery is over. The first Ack or Term decides;
\* a Nak, or no verdict at all, leaves the message to be delivered again.
Settle(m, verdict) ==
    [m EXCEPT !.held = @ - 1,
              !.st = IF @ = "pending" /\ verdict # "nak" THEN verdict ELSE @]

\* Deliveries of m that are over number the handler calls, so the k-th message
\* a call publishes has a path of its own.
ChildPath(m, k) == m.path \o <<m.dlv - m.held + 1, k>>

Published(m, out, stored) ==
    {NewMessage(ChildPath(m, k), out[k].topic, out[k].env) : k \in stored}

After(m, verdict, out, stored) ==
    (stream \ {m}) \cup {Settle(m, verdict)} \cup Published(m, out, stored)

\* A handler call on m that publishes the sequence out and then settles m; it
\* meets one fault at most. Either all goes well; or the process or the
\* connection dies after some of the publications and no verdict reaches the
\* server; or some publications return an error (and were stored or not) and
\* the handler goes on to settle m with onError.
Finish(m, out, verdict, onError) ==
    \/ /\ stream' = After(m, verdict, out, DOMAIN out)
       /\ UNCHANGED faults
    \/ /\ Fault("ack")
       /\ \E k \in 0..Len(out) : stream' = After(m, "nak", out, 1..k)
    \/ /\ out # <<>>
       /\ Fault("publish")
       /\ \E stored \in SUBSET DOMAIN out : stream' = After(m, onError, out, stored)

\* Mutant of AdapterError: the task is acked instead.
AdapterErrorAcks(m) ==
    /\ Fault("adapter")
    /\ stream' = After(m, "acked", <<>>, {})

\* Mutant of AdapterError: Term instead of Nack, as if no retry could help.
AdapterErrorTerms(m) ==
    /\ Fault("adapter")
    /\ stream' = After(m, "termed", <<>>, {})

\* A call to an external service (model, blob store) that returns an error:
\* the handler returns early with Nack.
AdapterError(m) ==
    /\ Fault("adapter")
    /\ stream' = After(m, "nak", <<>>, {})

=============================================================================
