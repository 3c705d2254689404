-------------------------- MODULE MCIndexVector --------------------------
(***************************************************************************)
(* IndexVector for TLC: every sorted index of up to five blocks, each of   *)
(* one record or two.                                                      *)
(***************************************************************************)
EXTENDS IndexVector

BlockSizes == UNION {[1..n -> 1..2] : n \in 0..5}

(* The index of blocks of the given sizes: the last index of the block p. *)
Ends(sizes) == LET end[p \in 0..Len(sizes)] == IF p = 0 THEN 0 ELSE end[p - 1] + sizes[p] IN end

MCVectors ==
    {[p \in 1..Len(sizes) |-> [mOffset |-> 0, mIndex |-> Ends(sizes)[p]]] : sizes \in BlockSizes}

MCKeys == 0..11
==========================================================================
