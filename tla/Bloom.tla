------------------------------- MODULE Bloom -------------------------------
(***************************************************************************)
(* The Bloom filters of a virtual machine: the class template BloomFilter  *)
(* with its BitSet (src/src/snapshot/bloom_filter.h and .hpp), the hash    *)
(* functions (bloom_filter_functions) and the part of SnapshotControl      *)
(* (snapshot_control.cpp) that sizes, fills, saves, loads and removes them.*)
(*                                                                         *)
(* Every snapshot has two filter files, and one file, vm.meta, holds the   *)
(* number of items that all the filters of the VM are sized for.  A process*)
(* works on one snapshot; it may die between any two calls, and its file   *)
(* is then empty or cut short.                                             *)
(*                                                                         *)
(* A filter is the set of the positions of its bits that are set.  Of a    *)
(* file that was cut, what a load finds behind the cut is arbitrary, as the*)
(* buffer it is read into is not initialised.  The false-positive rate and *)
(* the number of functions in vm.meta are those of the program.            *)
(***************************************************************************)
EXTENDS Integers, Sequences

CONSTANTS
    Element,                \* the checksums of blocks: functions from digits to values
    CKSUM_LEN,              \* digits of a checksum
    HASH_LEN, BASE,         \* digits that a hash function takes, and their base
    kBloomFilterFunctions,  \* the first digit that each hash function takes
    NUM_FUNCS,              \* BLOOM_FILTER_NUM_FUNCS
    SecondFunctions,        \* the index of the first function of the secondary filter
    BITS_PER_ITEM,          \* m / n, for NUM_FUNCS and BLOOM_FILTER_FP_RATE
    BYTE,                   \* bits in a byte
    SnapshotSizes,          \* snapshot_size / AVG_BLOCK_SIZE of the snapshots
    Garbage,                \* numbers of items that uninitialised memory may hold
    SnapshotId,             \* the snapshots of the VM
    ResetFunctions,         \* the functions that Reset is called with
    MaxFunctions            \* bound: hash functions that a filter holds

ASSUME BloomAssumption ==
    /\ CKSUM_LEN \in Nat \ {0} /\ HASH_LEN \in 0..CKSUM_LEN /\ BASE \in Nat \ {0}
    /\ Element \subseteq [0..(CKSUM_LEN - 1) -> 0..(BASE - 1)]
    /\ kBloomFilterFunctions \in Seq(0..(CKSUM_LEN - 1))
    /\ NUM_FUNCS \in 1..Len(kBloomFilterFunctions)
    /\ SecondFunctions \in 1..Len(kBloomFilterFunctions)
    /\ SecondFunctions + NUM_FUNCS - 1 <= Len(kBloomFilterFunctions)
    /\ BITS_PER_ITEM \in Nat \ {0} /\ BYTE \in Nat \ {0}
    /\ SnapshotSizes \subseteq Nat /\ Garbage \subseteq Nat
    /\ ResetFunctions \subseteq Seq(0..(CKSUM_LEN - 1)) \ {<< >>}
    /\ MaxFunctions \in Nat

VARIABLES
    (* on disk *)
    vmMeta,     \* vm.meta
    files,      \* the filter files of each snapshot
    (* in the process *)
    pc,         \* "none", or what SnapshotControl does next
    current,    \* the snapshot
    items,      \* vm_meta_.filter_num_items_
    filter,     \* the primary and the secondary filter
    (* history *)
    members     \* what was added to each filter, or to the ones it was loaded from

disk == <<vmMeta, files>>
vars == <<vmMeta, files, pc, current, items, filter, members>>

Kind == {"primary", "secondary"}

-----------------------------------------------------------------------------
(***************************************************************************)
(* BloomFilter and BitSet.                                                 *)
(***************************************************************************)

(* The digits from start on, around the end of the checksum, as a number, of which
   the digit at start is the lowest. *)
HashForChecksum(cksum, start) ==
    LET val[n \in 0..HASH_LEN] ==
            IF n = 0 THEN 0
            ELSE val[n - 1] * BASE + cksum[(start + HASH_LEN - n) % CKSUM_LEN]
    IN  val[HASH_LEN]

CalculatePosition_NoModulo(hashValue, totalBits) == hashValue           \* mutant

CalculatePosition(hashValue, totalBits) == hashValue % totalBits

Position(start, elem, totalBits) == CalculatePosition(HashForChecksum(elem, start), totalBits)

(* What GetM gives, rounded up to whole bytes. *)
TotalBits(n) == ((n * BITS_PER_ITEM + BYTE - 1) \div BYTE) * BYTE

BloomFilter(total, bits, functions, num) ==
    [mTotalBits |-> total, mBitsSpace |-> bits,
     mHashFunctions |-> functions, mHashFunctionNum |-> num]

NewFilter(n, functions) == BloomFilter(TotalBits(n), {}, functions, Len(functions))

WithBits(f, total, bits) == BloomFilter(total, bits, f.mHashFunctions, f.mHashFunctionNum)

PositionsOf(f, elem) ==
    {Position(f.mHashFunctions[i], elem, f.mTotalBits) : i \in 1..f.mHashFunctionNum}

AddElements_FirstFunction(f, elems) ==                              \* mutant
    WithBits(f, f.mTotalBits,
             f.mBitsSpace \cup {Position(f.mHashFunctions[1], elem, f.mTotalBits) : elem \in elems})

(* AddElement for each of the elements. *)
AddElements(f, elems) ==
    WithBits(f, f.mTotalBits, f.mBitsSpace \cup UNION {PositionsOf(f, elem) : elem \in elems})

Exist(f, elem) == PositionsOf(f, elem) \subseteq f.mBitsSpace

Cleared(f) == WithBits(f, f.mTotalBits, {})

(* The new functions are put behind the old ones, which stay the first. *)
ResetTo(f, functions) ==
    BloomFilter(f.mTotalBits, {}, f.mHashFunctions \o functions, Len(functions))

(* Serialize: what a stream holds; used and added are history. *)
Stream(f, added) ==
    [state |-> "whole", mTotalBits |-> f.mTotalBits, mBitsSpace |-> f.mBitsSpace,
     used |-> SubSeq(f.mHashFunctions, 1, f.mHashFunctionNum), added |-> added]

NoStream(state) ==
    [state |-> state, mTotalBits |-> 0, mBitsSpace |-> {}, used |-> << >>, added |-> {}]

CutStream(total, bits) ==
    [state |-> "cut", mTotalBits |-> total, mBitsSpace |-> bits, used |-> << >>, added |-> {}]

(* The size is that of the stream, too. *)
Deserialized(f, stream) == WithBits(f, stream.mTotalBits, stream.mBitsSpace)

(* Merge, of a stream that ends after n of its bits: bit by bit what both have. *)
Merged(f, stream, n) ==
    IF f.mTotalBits = stream.mTotalBits
    THEN WithBits(f, f.mTotalBits, {p \in f.mBitsSpace : p < n => p \in stream.mBitsSpace})
    ELSE f

(* A filter finds the elements of a stream with the functions they were added with. *)
SameFunctions(f, stream) ==
    /\ f.mHashFunctionNum <= Len(stream.used)
    /\ \A i \in 1..f.mHashFunctionNum : f.mHashFunctions[i] = stream.used[i]

-----------------------------------------------------------------------------
NoFilter == BloomFilter(0, {}, << >>, 0)

Meta(state, n) == [state |-> state, filter_num_items |-> n]

Init ==
    /\ vmMeta = Meta("absent", 0)
    /\ files = [s \in SnapshotId |-> [k \in Kind |-> NoStream("absent")]]
    /\ pc = "none" /\ current \in SnapshotId /\ items = 0
    /\ filter = [k \in Kind |-> NoFilter] /\ members = [k \in Kind |-> {}]

(***************************************************************************)
(* InitBloomFilters.                                                       *)
(***************************************************************************)

(* The first snapshot of the VM makes vm.meta and sizes the filters. *)
CreateMeta(s, size) ==
    /\ pc = "none" /\ vmMeta.state = "absent"
    /\ vmMeta' = Meta("empty", 0)
    /\ pc' = "meta" /\ current' = s /\ items' = size
    /\ UNCHANGED <<files, filter, members>>

WriteMeta ==
    /\ pc = "meta" /\ pc' = "filters"
    /\ vmMeta' = Meta("whole", items)
    /\ UNCHANGED <<files, current, items, filter, members>>

ReadMeta_OwnSize(s, size) ==                                        \* mutant
    /\ pc = "none" /\ vmMeta.state # "absent"
    /\ pc' = "filters" /\ current' = s /\ items' = size
    /\ UNCHANGED <<disk, filter, members>>

(* Every other one reads it.  From an empty file Deserialize gets nothing. *)
ReadMeta(s, size) ==
    /\ pc = "none" /\ vmMeta.state # "absent"
    /\ pc' = "filters" /\ current' = s
    /\ items' \in IF vmMeta.state = "whole" THEN {vmMeta.filter_num_items} ELSE Garbage
    /\ UNCHANGED <<disk, filter, members>>

FirstFunction(k) == IF k = "primary" THEN 1 ELSE SecondFunctions

ItemsOf(k, n) == IF k = "primary" THEN n ELSE n * 2

(* The constructors throw when there are no items. *)
InitBloomFilters ==
    /\ pc = "filters" /\ items > 0
    /\ pc' = "ready"
    /\ filter' = [k \in Kind |->
            NewFilter(ItemsOf(k, items),
                      SubSeq(kBloomFilterFunctions, FirstFunction(k),
                             FirstFunction(k) + NUM_FUNCS - 1))]
    /\ members' = [k \in Kind |-> {}]
    /\ UNCHANGED <<disk, current, items>>

(***************************************************************************)
(* The filters in use.                                                     *)
(***************************************************************************)
UpdateBloomFilters(segment) ==
    /\ pc = "ready"
    /\ filter' = [k \in Kind |-> AddElements(filter[k], segment)]
    /\ members' = [k \in Kind |-> members[k] \cup segment]
    /\ UNCHANGED <<disk, pc, current, items>>

Clear(k) ==
    /\ pc = "ready"
    /\ filter' = [filter EXCEPT ![k] = Cleared(@)]
    /\ members' = [members EXCEPT ![k] = {}]
    /\ UNCHANGED <<disk, pc, current, items>>

Reset(k, functions) ==
    /\ pc = "ready"
    /\ Len(filter[k].mHashFunctions \o functions) <= MaxFunctions
    /\ filter' = [filter EXCEPT ![k] = ResetTo(@, functions)]
    /\ members' = [members EXCEPT ![k] = {}]
    /\ UNCHANGED <<disk, pc, current, items>>

(* A stream of any length, made from the filter of a snapshot. *)
Merge(k, s, n) ==
    /\ pc = "ready" /\ files[s][k].state = "whole"
    /\ n \in 0..files[s][k].mTotalBits /\ n % BYTE = 0
    /\ filter' = [filter EXCEPT ![k] = Merged(@, files[s][k], n)]
    /\ members' = [members EXCEPT ![k] =
            IF filter[k].mTotalBits # files[s][k].mTotalBits THEN @
            ELSE IF SameFunctions(filter[k], files[s][k]) THEN @ \cap files[s][k].added
            ELSE {}]
    /\ UNCHANGED <<disk, pc, current, items>>

(* A file that is empty leaves the filter as it is, with the answer true. *)
LoadBloomFilter(k, s) ==
    /\ pc = "ready" /\ files[s][k].state \in {"whole", "cut"}
    /\ filter' = [filter EXCEPT ![k] = Deserialized(@, files[s][k])]
    /\ members' = [members EXCEPT ![k] =
            IF SameFunctions(filter[k], files[s][k]) THEN files[s][k].added ELSE {}]
    /\ UNCHANGED <<disk, pc, current, items>>

(***************************************************************************)
(* SaveBloomFilters: one file, then the other.                             *)
(***************************************************************************)
Saves(k) == IF k = "primary" THEN "save primary" ELSE "save secondary"

Writes(k) == IF k = "primary" THEN "write primary" ELSE "write secondary"

SaveBloomFilters ==
    /\ pc = "ready" /\ pc' = Saves("primary")
    /\ UNCHANGED <<disk, current, items, filter, members>>

SetFile(k, stream) == files' = [files EXCEPT ![current] = [@ EXCEPT ![k] = stream]]

(* RemoveFile, if it is there, and Create. *)
CreateFile(k) ==
    /\ pc = Saves(k) /\ pc' = Writes(k)
    /\ SetFile(k, NoStream("empty"))
    /\ UNCHANGED <<vmMeta, current, items, filter, members>>

WriteFile(k) ==
    /\ pc = Writes(k)
    /\ SetFile(k, Stream(filter[k], members[k]))
    /\ pc' = IF k = "primary" THEN Saves("secondary") ELSE "ready"
    /\ UNCHANGED <<vmMeta, current, items, filter, members>>

RemoveBloomFilters(s) ==
    /\ pc = "ready"
    /\ files' = [files EXCEPT ![s] = [k \in Kind |-> NoStream("absent")]]
    /\ UNCHANGED <<vmMeta, pc, current, items, filter, members>>

Forget ==
    /\ pc' = "none" /\ items' = 0
    /\ filter' = [k \in Kind |-> NoFilter] /\ members' = [k \in Kind |-> {}]
    /\ UNCHANGED current

(* The program ends, dies or leaves InitBloomFilters with an exception. *)
Exit == pc # "none" /\ Forget /\ UNCHANGED disk

(* It dies while it writes: the log has its header and the first n bits; memory
   that is all zeros or all ones follows. *)
CutFile(k, n) ==
    /\ pc = Writes(k) /\ Forget
    /\ \E rest \in {{}, n..(filter[k].mTotalBits - 1)} :
           SetFile(k, CutStream(filter[k].mTotalBits,
                                {p \in filter[k].mBitsSpace : p < n} \cup rest))
    /\ UNCHANGED vmMeta

Next ==
    \/ \E s \in SnapshotId, size \in SnapshotSizes : CreateMeta(s, size) \/ ReadMeta(s, size)
    \/ WriteMeta \/ InitBloomFilters
    \/ \E segment \in SUBSET Element : UpdateBloomFilters(segment)
    \/ \E k \in Kind : Clear(k) \/ CreateFile(k) \/ WriteFile(k)
    \/ \E k \in Kind, functions \in ResetFunctions : Reset(k, functions)
    \/ \E k \in Kind, s \in SnapshotId :
           \/ LoadBloomFilter(k, s)
           \/ \E n \in 0..filter[k].mTotalBits : Merge(k, s, n)
    \/ SaveBloomFilters \/ Exit
    \/ \E s \in SnapshotId : RemoveBloomFilters(s)
    \/ \E k \in Kind : \E n \in 0..filter[k].mTotalBits : CutFile(k, n)

Spec == Init /\ [][Next]_vars

-----------------------------------------------------------------------------
IsStream(stream) ==
    /\ stream.state \in {"absent", "empty", "cut", "whole"}
    /\ stream.mTotalBits \in Nat
    /\ stream.mBitsSpace \subseteq 0..(stream.mTotalBits - 1)
    /\ stream.added \subseteq Element

(* The types of the variables: among them, no bit of a filter or of a file is
   out of its range, where BitSet throws. *)
TypeOK ==
    /\ vmMeta.state \in {"absent", "empty", "whole"} /\ vmMeta.filter_num_items \in Nat
    /\ \A s \in SnapshotId, k \in Kind : IsStream(files[s][k])
    /\ pc \in {"none", "meta", "filters", "ready"} \cup {Saves(k) : k \in Kind}
                \cup {Writes(k) : k \in Kind}
    /\ items \in Nat
    /\ \A k \in Kind :
           /\ filter[k].mBitsSpace \subseteq 0..(filter[k].mTotalBits - 1)
           /\ filter[k].mHashFunctionNum \in 0..Len(filter[k].mHashFunctions)
           /\ members[k] \subseteq Element

(* False negatives are not possible (bloom_filter.h:198): a filter finds what was
   added to it, or to the filter whose file it was loaded from by any process,
   and after a merge what was added to both, whatever was cleared, reset, cut,
   merged in part or loaded in between. *)
NoFalseNegative == \A k \in Kind : \A elem \in members[k] : Exist(filter[k], elem)

(* The filters of a VM can be merged: those of one kind all have the size that
   vm.meta gives, whichever process made it for whichever snapshot, unless one
   died between making it and writing it. *)
SameTotalBits ==
    vmMeta.state = "whole" =>
        \A k \in Kind :
            /\ pc \notin {"none", "filters"} =>
                   filter[k].mTotalBits = TotalBits(ItemsOf(k, vmMeta.filter_num_items))
            /\ \A s \in SnapshotId : files[s][k].state \in {"whole", "cut"} =>
                   files[s][k].mTotalBits = TotalBits(ItemsOf(k, vmMeta.filter_num_items))
=============================================================================
