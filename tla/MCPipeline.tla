----------------------------- MODULE MCPipeline -----------------------------
(***************************************************************************)
(* Small instances of Pipeline: what the requests of a run ask for.        *)
(***************************************************************************)
EXTENDS Pipeline, TLC

IngestText(tenant, size, pieces) ==
    [kind |-> "ingest", tenant |-> tenant, text |-> size, file |-> None,
     mime |-> "text", topk |-> 0, pieces |-> pieces]
IngestFile(tenant, file, mime, pieces) ==
    [kind |-> "ingest", tenant |-> tenant, text |-> "none", file |-> file,
     mime |-> mime, topk |-> 0, pieces |-> pieces]
SearchText(tenant, topk) ==
    [kind |-> "search", tenant |-> tenant, text |-> "short", file |-> None,
     mime |-> "none", topk |-> topk, pieces |-> 0]
SearchFile(tenant, file, mime, topk) ==
    [kind |-> "search", tenant |-> tenant, text |-> "short", file |-> file,
     mime |-> mime, topk |-> topk, pieces |-> 0]

\* A file of two pieces and a text search of one tenant.
TextInput == [file  |-> IngestFile("acme", "f", "text", 2),
              query |-> SearchText("acme", 2)]

\* A tenant's image, a search by an image of the same name, and another
\* tenant's text file of that name.
ImageInput == [photo |-> IngestFile("acme", "f", "image", 0),
               probe |-> SearchFile("acme", "f", "image", 2),
               alien |-> IngestFile("bolt", "f", "text", 1)]

\* A text that is offloaded to the blob store, a text search, and a search by
\* an image without bytes, of which only the MIME type is left. That search
\* can never be finished, nor can the text when the monolith restarts between
\* upload and download.
LiveInput == [essay |-> IngestText("acme", "long", 1),
              query |-> SearchText("acme", 2),
              blank |-> SearchFile("acme", None, "image", 2)]

\* Two documents of one tenant whose images have the same file name.
SameNameInput == [first  |-> IngestFile("acme", "f", "image", 0),
                  second |-> IngestFile("acme", "f", "image", 0)]

\* A file of two pieces, and a search by image for the one best hit.
TopOneInput == [file  |-> IngestFile("acme", "f", "text", 2),
                probe |-> SearchFile("acme", "g", "image", 1)]

\* A file of two pieces.
FileInput == [file |-> IngestFile("acme", "f", "text", 2)]

\* A text that fits into the event.
NoteInput == [note |-> IngestText("acme", "short", 0)]

\* A text and a search of the same tenant.
ReplicasInput == [note  |-> IngestText("acme", "short", 0),
                  query |-> SearchText("acme", 2)]

\* Which length is which does not matter.
LengthSymmetry == Permutations(Dims)

=============================================================================
