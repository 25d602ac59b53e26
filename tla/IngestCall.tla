----------------------------- MODULE IngestCall -----------------------------
(***************************************************************************)
(* POST /v1/ingest: HandleIngest, which makes one document of the text and *)
(* one of each file of a request, in this order.  A text that fails ends   *)
(* the request with 500; a file that fails is skipped.  Part 0 of a        *)
(* request is its text, part k its k-th file.                              *)
(***************************************************************************)
EXTENDS Integers, FiniteSets

CONSTANTS
    Uploads,  \* the HTTP requests
    Files,    \* the number of files of each
    Texts     \* the requests that come with a text

ASSUME UploadAssumption ==
    /\ Files \in [Uploads -> Nat]
    /\ Texts \subseteq Uploads
    /\ \A u \in Uploads : Files[u] > 0 \/ u \in Texts

VARIABLES
    job,       \* what the handler does: read the form, store or publish a part
    part,      \* the part it is at
    status,    \* the HTTP status of the response, 0 if there is none yet
    reported,  \* the documents the handler has an id for
    stored     \* the documents whose event is in the stream

ingestVars == <<job, part, status, reported, stored>>

Parts(u) == (IF u \in Texts THEN {0} ELSE {}) \cup 1..Files[u]

Documents == UNION {{u} \X Parts(u) : u \in Uploads}

IngestTypeOK ==
    /\ job \in [Uploads -> {"idle", "read", "store", "publish", "done"}]
    /\ part \in [Uploads -> Nat]
    /\ \A u \in Uploads : part[u] <= Files[u] + 1
    /\ status \in [Uploads -> {0, 202, 400, 500}]
    /\ reported \subseteq Documents
    /\ stored \subseteq Documents

IngestInit ==
    /\ job = [u \in Uploads |-> "idle"]
    /\ part = [u \in Uploads |-> 0]
    /\ status = [u \in Uploads |-> 0]
    /\ reported = {}
    /\ stored = {}

-----------------------------------------------------------------------------
Respond(u, code) ==
    /\ job' = [job EXCEPT ![u] = "done"]
    /\ status' = [status EXCEPT ![u] = code]

\* ParseMultipartForm reads the body, for as long as the client takes to send it.
Arrive(u) ==
    /\ job[u] = "idle"
    /\ job' = [job EXCEPT ![u] = "read"]
    /\ UNCHANGED <<part, status, reported, stored>>

\* A request that is malformed or has neither text nor files.
Reject(u) ==
    /\ job[u] = "read"
    /\ Respond(u, 400)
    /\ UNCHANGED <<part, reported, stored>>

Begin(u) ==
    /\ job[u] = "read"
    /\ job' = [job EXCEPT ![u] = "store"]
    /\ part' = [part EXCEPT ![u] = IF u \in Texts THEN 0 ELSE 1]
    /\ UNCHANGED <<status, reported, stored>>

\* The next file, or the response when there is none.
Advance(u) ==
    IF part[u] < Files[u]
    THEN /\ part' = [part EXCEPT ![u] = @ + 1]
         /\ job' = [job EXCEPT ![u] = "store"]
         /\ UNCHANGED status
    ELSE Respond(u, 202) /\ UNCHANGED part

\* Mutant of PartFails: a file that fails ends the request like a text.
PartFailsAlways(u) == Respond(u, 500) /\ UNCHANGED part

\* Mutant of PartFails: a file that fails is tried again.
PartFailsRetries(u) ==
    IF part[u] = 0
    THEN Respond(u, 500) /\ UNCHANGED part
    ELSE job' = [job EXCEPT ![u] = "store"] /\ UNCHANGED <<part, status>>

\* IngestDocument returned an error for the current part.
PartFails(u) ==
    IF part[u] = 0
    THEN Respond(u, 500) /\ UNCHANGED part
    ELSE Advance(u)

\* Opening the file, and storing a file or a long text in the blob store.
StoreOK(u) ==
    /\ job[u] = "store"
    /\ job' = [job EXCEPT ![u] = "publish"]
    /\ UNCHANGED <<part, status, reported, stored>>

StoreFails(u) ==
    /\ job[u] = "store"
    /\ PartFails(u)
    /\ UNCHANGED <<reported, stored>>

PublishOK(u) ==
    /\ job[u] = "publish"
    /\ stored' = stored \cup {<<u, part[u]>>}
    /\ reported' = reported \cup {<<u, part[u]>>}
    /\ Advance(u)

\* Mutant of PublishFails: the error of the publish is ignored.
PublishFailsIgnored(u, arrived) ==
    /\ job[u] = "publish"
    /\ stored' = IF arrived THEN stored \cup {<<u, part[u]>>} ELSE stored
    /\ reported' = reported \cup {<<u, part[u]>>}
    /\ Advance(u)

\* A publish that returns an error; the event may have arrived all the same.
PublishFails(u, arrived) ==
    /\ job[u] = "publish"
    /\ stored' = IF arrived THEN stored \cup {<<u, part[u]>>} ELSE stored
    /\ PartFails(u)
    /\ UNCHANGED reported

Ingesting(u) == job[u] \in {"store", "publish"}

=============================================================================
