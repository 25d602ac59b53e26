---------------------------- MODULE MCMonolith ------------------------------
(***************************************************************************)
(* One event stream and one upload of a text and a file, in a monolith  *)
(* with a module of either kind.                                           *)
(***************************************************************************)
EXTENDS Monolith

FilesInput == [u \in Uploads |-> 1]

=============================================================================
