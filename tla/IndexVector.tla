---------------------------- MODULE IndexVector ----------------------------
(***************************************************************************)
(* IndexVector::find, with the loop of IndexVector::bisearch               *)
(* (src/src/append-store/append_store_index.cpp): the index records that a *)
(* chunk has loaded are searched for the block that holds a data record.   *)
(*                                                                         *)
(* The positions are those of the program, from 0; the program's int and   *)
(* uint32_t are integers here, which is right up to 2^31 records.          *)
(***************************************************************************)
EXTENDS IndexFile, Integers

CONSTANTS
    Vectors,    \* the index files that find may meet
    Keys        \* the indices that it may be asked for

(* Chunk keeps its index file sorted: ChunkProofs!IndexStaysSorted. *)
ASSUME IndexVectorAssumption ==
    /\ Vectors \subseteq {v \in Seq(IndexRecord) : Increasing(v)}
    /\ Keys \subseteq Nat

VARIABLES
    mValues,    \* the records
    key,        \* the index that is looked for
    first,      \* the search goes on in first..last
    last,
    pos,        \* the position returned
    phase       \* "search", then "found" or "missing"

searchVars == <<mValues, key, first, last, pos, phase>>

IndexAt(p) == mValues[p + 1].mIndex

SearchInit_OnePast ==                                              \* mutant
    /\ mValues \in Vectors /\ key \in Keys
    /\ first = 0 /\ last = Len(mValues)
    /\ pos = 0 /\ phase = "search"

SearchInit ==
    /\ mValues \in Vectors /\ key \in Keys
    /\ first = 0 /\ last = Len(mValues) - 1
    /\ pos = 0 /\ phase = "search"

mid == (first + last) \div 2

Searching == phase = "search" /\ first <= last

(* The first record, or the first one that is not below the key. *)
Hit ==
    /\ Searching
    /\ IndexAt(mid) >= key
    /\ mid # 0 => IndexAt(mid - 1) < key
    /\ pos' = mid /\ phase' = "found"
    /\ UNCHANGED <<mValues, key, first, last>>

GoRight_NoProgress ==                                              \* mutant
    /\ Searching
    /\ IndexAt(mid) < key
    /\ first' = mid
    /\ UNCHANGED <<mValues, key, last, pos, phase>>

GoRight ==
    /\ Searching
    /\ IndexAt(mid) < key
    /\ first' = mid + 1
    /\ UNCHANGED <<mValues, key, last, pos, phase>>

GoLeft_TooFar ==                                                   \* mutant
    /\ Searching
    /\ IndexAt(mid) >= key
    /\ mid # 0 /\ IndexAt(mid - 1) >= key
    /\ last' = mid - 2
    /\ UNCHANGED <<mValues, key, first, pos, phase>>

GoLeft ==
    /\ Searching
    /\ IndexAt(mid) >= key
    /\ mid # 0 /\ IndexAt(mid - 1) >= key
    /\ last' = mid - 1
    /\ UNCHANGED <<mValues, key, first, pos, phase>>

GiveUp ==
    /\ phase = "search" /\ first > last
    /\ pos' = last + 1 /\ phase' = "missing"
    /\ UNCHANGED <<mValues, key, first, last>>

SearchNext == Hit \/ GoRight \/ GoLeft \/ GiveUp

SearchSpec == SearchInit /\ [][SearchNext]_searchVars

(* The loop runs until it ends. *)
FairSearchSpec == SearchSpec /\ WF_searchVars(SearchNext)

-----------------------------------------------------------------------------
(* The loop stays within the records. *)
SearchTypeOK ==
    /\ mValues \in Vectors /\ key \in Keys
    /\ first \in 0..Len(mValues) /\ last \in -1..Len(mValues) - 1
    /\ first <= last + 1
    /\ pos \in 0..Len(mValues)
    /\ phase \in {"search", "found", "missing"}

(* What is left of first is below the key; once something right of last has
   been dropped, the record at last is not below it. *)
Narrowed ==
    /\ \A p \in 1..first : mValues[p].mIndex < key
    /\ last < Len(mValues) - 1 => last >= 0 /\ IndexAt(last) >= key

(* What Chunk::Read takes from find: the record of the block that holds the
   index, if any record can hold it. *)
FindsPosition ==
    /\ phase = "found" => IsPosition(mValues, key, pos + 1)
    /\ phase = "missing" => \A p \in DOMAIN mValues : mValues[p].mIndex < key

SearchInv ==
    /\ SearchTypeOK
    /\ phase = "search" => Narrowed
    /\ FindsPosition

(* find returns. *)
Returns == <>(phase # "search")
=============================================================================
