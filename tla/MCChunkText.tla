---------------------------- MODULE MCChunkText -----------------------------
(***************************************************************************)
(* chunkText on every length up to several chunks.                         *)
(***************************************************************************)
EXTENDS ChunkText

MCLengths == 0..30

=============================================================================
