------------------------- MODULE MCCommonDataStore -------------------------
(***************************************************************************)
(* CommonDataStore for TLC: two blocks for one partition and one for the   *)
(* other, and batches of fewer records than the interval, of as many, and  *)
(* of more.                                                                *)
(***************************************************************************)
EXTENDS CommonDataStore

MCBlock == {"a", "b", "c"}

MCSha1 == [b \in MCBlock |-> CASE b = "a" -> 2 [] b = "b" -> 3 [] b = "c" -> 4]

MCBatches == {<<"a">>, <<"a", "b">>, <<"c", "a", "b">>}
=============================================================================
