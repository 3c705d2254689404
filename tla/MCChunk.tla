------------------------------ MODULE MCChunk ------------------------------
(***************************************************************************)
(* Chunk for TLC.  The values are interchangeable: no action looks at one. *)
(***************************************************************************)
EXTENDS Chunk, TLC

Symmetry == Permutations(Value)
=============================================================================
