------------------------------ MODULE MCBloom ------------------------------
(***************************************************************************)
(* Bloom for TLC: checksums of three binary digits of which a function     *)
(* takes two, so that elements share positions; filters of one and of two  *)
(* items, of two and of four bits.                                         *)
(***************************************************************************)
EXTENDS Bloom

MCElement == {[d \in 0..2 |-> IF d = 0 THEN 1 ELSE 0], [d \in 0..2 |-> IF d = 2 THEN 0 ELSE 1]}

MCkBloomFilterFunctions == <<0, 2, 1>>

MCResetFunctions == {<<1, 0, 2>>}
=============================================================================
