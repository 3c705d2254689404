----------------------------- MODULE IndexFile -----------------------------
(***************************************************************************)
(* The index of a chunk: a sequence of records, one for each block of the  *)
(* data file, in the order of the blocks.  A record holds the offset where *)
(* its block ends and the index of the last data record in the block       *)
(* (IndexRecord in src/src/append-store/append_store_index.h).  A block    *)
(* begins where the one before it ends.                                    *)
(***************************************************************************)
EXTENDS Naturals, Sequences

IndexRecord == [mOffset : Nat, mIndex : Nat]

LastIndex_Forgotten(xf) == 0                                       \* mutant

(* The highest index in the chunk. *)
LastIndex(xf) == IF xf = << >> THEN 0 ELSE xf[Len(xf)].mIndex

(* Where the writer must put the next block for a reader to find it. *)
EndOfIndex(xf) == IF xf = << >> THEN 0 ELSE xf[Len(xf)].mOffset

(* The position that IndexVector::find returns for the index i. *)
IsPosition(xf, i, p) ==
    /\ p \in DOMAIN xf
    /\ xf[p].mIndex >= i
    /\ p # 1 => xf[p - 1].mIndex < i

StartOffset_OwnRecord(xf, p) == IF p = 1 THEN 0 ELSE xf[p].mOffset \* mutant

(* Where the block of the index record p starts: the end of the one before. *)
StartOffset(xf, p) == IF p = 1 THEN 0 ELSE xf[p - 1].mOffset

Increasing(xf) == \A p, q \in DOMAIN xf : p < q => xf[p].mIndex < xf[q].mIndex
=============================================================================
