---------------------------- MODULE TenantIndex -----------------------------
(***************************************************************************)
(* What the pipeline promises, without its events: an index of accepted    *)
(* documents, kept by one or more engines, that grows part by part, and    *)
(* answers to accepted searches made of what one engine has indexed for    *)
(* the tenant that asks.  Engines may lose what they have indexed.         *)
(***************************************************************************)
CONSTANTS
    Documents,  \* requests to ingest
    Searches,   \* requests to search
    TenantOf,   \* the tenant of each request
    Parts,      \* the parts of a document that are indexed one by one
    Engines

VARIABLES
    accepted,  \* the requests that reached the pipeline
    index,     \* the parts of documents that each engine has indexed
    answers    \* the answers given so far

indexVars == <<accepted, index, answers>>

IndexInit ==
    /\ accepted = {}
    /\ index = [e \in Engines |-> {}]
    /\ answers = {}

Accept(r) ==
    /\ accepted' = accepted \cup {r}
    /\ UNCHANGED <<index, answers>>

Add(e, d, n) ==
    /\ d \in accepted \cap Documents
    /\ index' = [index EXCEPT ![e] = @ \cup {[doc |-> d, part |-> n]}]
    /\ UNCHANGED <<accepted, answers>>

\* A search may be answered more than once, and by different engines.
Answer(e, s) ==
    /\ s \in accepted \cap Searches
    /\ \E hits \in SUBSET {part \in index[e] : TenantOf[part.doc] = TenantOf[s]} :
            answers' = answers \cup {[search |-> s, hits |-> hits]}
    /\ UNCHANGED <<accepted, index>>

Forget(lost) ==
    /\ index' = [e \in Engines |-> IF e \in lost THEN {} ELSE index[e]]
    /\ UNCHANGED <<accepted, answers>>

IndexNext ==
    \/ \E r \in Documents \cup Searches : Accept(r)
    \/ \E e \in Engines : \/ \E d \in Documents, n \in Parts : Add(e, d, n)
                          \/ \E s \in Searches : Answer(e, s)
    \/ \E lost \in SUBSET Engines : Forget(lost)

IndexSpec == IndexInit /\ [][IndexNext]_indexVars

=============================================================================
