------------------------------- MODULE MCCds -------------------------------
(***************************************************************************)
(* Cds for TLC: a trace, its extension, a trace of the same blocks in      *)
(* another order, and one that the loader does not read to the end.        *)
(***************************************************************************)
EXTENDS Cds

MCBlock == {"a", "b", "z"}

MCSize == [b \in MCBlock |-> CASE b = "a" -> 1 [] b = "b" -> 2 [] b = "z" -> 0]

MCTraces == {<<"b">>, <<"b", "a">>, <<"a", "z", "b">>}
=============================================================================
