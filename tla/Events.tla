------------------------------- MODULE Events -------------------------------
(***************************************************************************)
(* The event contract every component shares (src/pkg/events): envelopes,  *)
(* payloads, event types, topics and queue groups.                         *)
(*                                                                         *)
(* The six Go payload structs are one record here: a producer sets the     *)
(* fields its struct has and the rest keep the zero value, which is what   *)
(* DecodeData leaves in a field that the JSON does not mention.            *)
(***************************************************************************)
EXTENDS Integers, Sequences

CONSTANTS
    Requests,   \* the calls of IngestDocument and SearchDocuments
    Tenants,    \* the values of X-Tenant-ID
    FileNames,  \* names of uploaded files
    Dims,       \* the lengths of vectors, which differ from model to model
    SearchDoc,  \* the document ids "search" and "search-img" the workers use
    None        \* absence: Go's "" for an id, a name or a URI

ASSUME NoneAssumption ==
    /\ None \notin Requests \cup Tenants \cup FileNames \cup Dims \cup {SearchDoc}
    /\ SearchDoc \notin Requests

-----------------------------------------------------------------------------
EventTypes == {"ingest.requested", "search.requested", "search.completed",
               "vision.completed", "chunk.completed", "embed.completed"}

Topics == {"ingress", "embed", "engine", "vision", "chunk", "dlq", "replies"}

\* Topics a durable queue group consumes. "replies" (platform.replies.*) is
\* read by ephemeral gateway consumers only, and nobody reads "dlq".
GroupTopics == {"ingress", "embed", "engine", "vision", "chunk"}

\* The MIME types as the classifier tells them apart: "" or anything else,
\* a type that contains "text/", a type that starts with "image/".
Mimes == {"none", "text", "image", "other"}

-----------------------------------------------------------------------------
\* A text is named by where it comes from: the request whose text, image or
\* file it was taken from, and which piece of that file (0: all of it). cut:
\* the download broke off in it, so its end may be missing.
Texts  == [src : Requests \cup {None}, n : Nat, cut : BOOLEAN]
NoText == [src |-> None, n |-> 0, cut |-> FALSE]
Whole(s)    == [src |-> s, n |-> 0, cut |-> FALSE]
Piece(s, k) == [src |-> s, n |-> k, cut |-> FALSE]
CutOff(text) == [src |-> text.src, n |-> text.n, cut |-> TRUE]

\* A URI is tenant/name; a generated name (auto_context_<uuid>.txt) is named
\* by the request that generated it.
URIs   == [tenant : Tenants, name : FileNames \cup Requests]
NoBlob == [tenant |-> None, name |-> None]

\* Chunk ids: the document id, the document id + "-vision", or a fresh UUID,
\* which is named by the publication that carries it.
DocIds   == Requests \cup {SearchDoc, None}
ChunkIds == [doc : DocIds, tag : {"none", "whole", "vision", "piece"}, path : Seq(Nat)]
NoChunk  == [doc |-> None, tag |-> "none", path |-> <<>>]

\* One search hit, and the row of the vector store it is made from. Of a
\* vector only the length is kept.
Records == [tenant : Tenants, chunk : ChunkIds, doc : DocIds, text : Texts,
            blob : URIs \cup {NoBlob}, mime : Mimes, dim : Dims \cup {None}]

Payloads == [doc : DocIds, chunk : ChunkIds, text : Texts, blob : URIs \cup {NoBlob},
             mime : Mimes, orig : EventTypes \cup {"none"}, topk : Nat,
             dim : Dims \cup {None}, hits : SUBSET Records]

NoPayload == [doc |-> None, chunk |-> NoChunk, text |-> NoText, blob |-> NoBlob,
              mime |-> "none", orig |-> "none", topk |-> 0, dim |-> None, hits |-> {}]

Envelopes == [type : EventTypes, tenant : Tenants, corr : Requests, data : Payloads]

\* The random event id and the creation time are left out: nothing reads them.
NewEnvelope(tenant, corr, type, data) ==
    [type |-> type, tenant |-> tenant, corr |-> corr, data |-> data]

=============================================================================
