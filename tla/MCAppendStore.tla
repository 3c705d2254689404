--------------------------- MODULE MCAppendStore ---------------------------
(***************************************************************************)
(* AppendStore for TLC.  The values are interchangeable: no action looks at*)
(* one.                                                                    *)
(***************************************************************************)
EXTENDS AppendStore, TLC

Symmetry == Permutations(Value)
=============================================================================
