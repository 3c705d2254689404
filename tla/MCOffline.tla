----------------------------- MODULE MCOffline ------------------------------
(***************************************************************************)
(* Offline for TLC.  0 is a block without data, 1 and 2 fill half of a     *)
(* segment, and 3 fills one; 1 and 3 share a partition, a chain and a      *)
(* position in the filter.                                                 *)
(***************************************************************************)
EXTENDS Offline

MCBlock == 0..3

MCSize == [b \in MCBlock |-> CASE b = 0 -> 0 [] b \in {1, 2} -> 1 [] b = 3 -> 2]

MCCacheSizes == {1, 2}

MCCdsSets == {{}, {1}, {2, 3}}
=============================================================================
