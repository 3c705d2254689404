------------------------------- MODULE Dedup -------------------------------
(***************************************************************************)
(* The programs that find duplicates in the traces of virtual machines:    *)
(*   src/src/tools/cds_sim.cpp                  what each level finds      *)
(*   src/src/tools/cds_distiller.cpp, and ..._nolocal.cpp                  *)
(*                                              the blocks worth sharing   *)
(*   src/src/simulation/local_minhash           levels with similarity     *)
(*   src/src/simulation/deletion/*_del_sim.cpp  what a deletion frees      *)
(*                                                                         *)
(* Each reads the snapshots of a VM side by side, a segment of each in a   *)
(* round.  A counter of blocks and bytes is the sequence of what it counts,*)
(* as far as the properties need more than the sum.  A VM is the sequence  *)
(* of the traces of its snapshots; cds is a set of blocks.                 *)
(***************************************************************************)
EXTENDS Trace

CONSTANTS
    PARTITIONS,             \* partition_count
    PERCENT,                \* into how many parts the blocks are divided: 100
    MAX_SIMILAR_SEARCH,     \* similar segments that are searched
    FilterPositions         \* positions in the Bloom filter of a deletion

ASSUME DedupAssumption ==
    /\ PARTITIONS \in Nat \ {0} /\ PERCENT \in Nat \ {0}
    /\ MAX_SIMILAR_SEARCH \in Nat /\ FilterPositions \in Nat \ {0}

Rounds(vm) == Max({0} \cup {Len(Segments(vm[j])) : j \in DOMAIN vm})

(* What a counter of a VM counts, round by round and snapshot by snapshot. *)
InAllRounds(vm, F(_, _)) ==
    FlattenSeq([n \in 1..Rounds(vm) |-> FlattenSeq([j \in DOMAIN vm |-> F(j, n)])])

OfSnapshot(vm, j, F(_, _)) == FlattenSeq([n \in 1..Rounds(vm) |-> F(j, n)])

-----------------------------------------------------------------------------
(***************************************************************************)
(* cds_sim.                                                                *)
(***************************************************************************)
L1Hit(vm, j, n) == j > 1 /\ SegmentAt(vm[j], n) = SegmentAt(vm[j - 1], n)

l1_data(vm, j, n) == IF L1Hit(vm, j, n) THEN SegmentAt(vm[j], n) ELSE << >>

AfterL1(vm, j, n) == IF L1Hit(vm, j, n) THEN << >> ELSE SegmentAt(vm[j], n)

InParent(vm, j, n) == IF j > 1 THEN Range(SegmentAt(vm[j - 1], n)) ELSE {}

l2_data(vm, j, n) == Among(AfterL1(vm, j, n), InParent(vm, j, n))

AfterL2(vm, j, n) == Among(AfterL1(vm, j, n), Block \ InParent(vm, j, n))

l3_data(vm, j, n, cds) == Among(AfterL2(vm, j, n), cds)

new_data(vm, j, n, cds) == Among(AfterL2(vm, j, n), Block \ cds)

Raw(vm) == InAllRounds(vm, LAMBDA j, n : SegmentAt(vm[j], n))

(* The totals: those of the VMs after the first that are skipped. *)
Total(vms, skip, F(_)) == FlattenSeq([v \in 1..(Len(vms) - skip) |-> F(vms[v + skip])])

-----------------------------------------------------------------------------
(***************************************************************************)
(* cds_distiller.                                                          *)
(***************************************************************************)
InPartition(p) == {b \in Block : b % PARTITIONS = p}

(* The blocks that one segment adds to global_index; that the code sorts them, to search
   those of the parent, does not change how many there are of each. *)
NewBlocks(vm, j, n, p) ==
    IF L1Hit(vm, j, n) THEN << >>
    ELSE Among(SegmentAt(vm[j], n), InPartition(p) \ InParent(vm, j, n))

(* raw_blocks: a segment that its parent has is not counted. *)
RawBlocks(vm, j, n, p) == Among(AfterL1(vm, j, n), InPartition(p))

(* All that was counted, of the first VMs. *)
Counted(vms, upTo, p) ==
    FlattenSeq([v \in 1..upTo |-> InAllRounds(vms[v], LAMBDA j, n : NewBlocks(vms[v], j, n, p))])

GlobalIndex(counted) ==
    [b \in Range(counted) |-> Cardinality({n \in DOMAIN counted : counted[n] = b})]

(* The VMs after which the CDS files are written, besides the end. *)
Checkpoints(vms, cds_start, cds_every) ==
    IF cds_start < 0 THEN {Len(vms)}
    ELSE {v \in DOMAIN vms : v >= cds_start /\ (v - cds_start) % cds_every = 0}

(* analysis_cds.  The number of blocks that the i-th CDS shall hold, *)
SizeThreshold(global, i) == (i * Cardinality(DOMAIN global)) \div PERCENT

MoreFrequent(global, f) == {b \in DOMAIN global : global[b] > f}

AsFrequent(global, f) == {b \in DOMAIN global : global[b] = f}

(* the frequency with which blocks are rare enough, *)
FreqThreshold(global, i) ==
    Max({f \in Range(global) :
            Cardinality(MoreFrequent(global, f - 1)) >= SizeThreshold(global, i)})

(* how many of the blocks with that frequency are taken, *)
NumToAdd_One(global, i) == 1                                        \* mutant

NumToAdd(global, i) ==
    SizeThreshold(global, i) - Cardinality(MoreFrequent(global, FreqThreshold(global, i)))

FirstOf(S, k) == {b \in S : Cardinality({c \in S : c < b}) < k}

(* and the blocks that are written: the more frequent, and the first of the others. *)
CdsOutput(global, i) ==
    IF DOMAIN global = {} THEN {}
    ELSE LET f == FreqThreshold(global, i)
         IN  MoreFrequent(global, f) \cup FirstOf(AsFrequent(global, f), NumToAdd(global, i))

Weight(global, S) == SumFunctionOnSet([b \in S |-> global[b] * Size[b]], S)

(* cds_data_coverage takes the mean size for the blocks it adds. *)
CdsCoverage(global, i) ==
    LET f == FreqThreshold(global, i)
        same == AsFrequent(global, f)
        size == SumFunctionOnSet(Size, same) \div Cardinality(same)
    IN  Weight(global, MoreFrequent(global, f)) + f * NumToAdd(global, i) * size

(* The i-th CDS file: its partitions one after the other. *)
CdsFile(vms, i) ==
    UNION {CdsOutput(GlobalIndex(Counted(vms, Len(vms), p)), i) : p \in 0..(PARTITIONS - 1)}

(* cds_distiller_nolocal: every block counts, and there is one partition. *)
CountedNoLocal(vms) == Total(vms, 0, Raw)

CdsOutputNoLocal(global, i) == CdsOutput(global, i)

-----------------------------------------------------------------------------
(***************************************************************************)
(* local_minhash.                                                          *)
(***************************************************************************)

(* The segments of a snapshot with the minhash, in order. *)
FindSimilarSegments(trace, hash) ==
    SelectSeq([n \in DOMAIN Segments(trace) |-> n],
              LAMBDA n : GetMinHash(SegmentAt(trace, n)) = hash)

(* Those of them that are searched. *)
Similar(parent, seg) ==
    LET all == FindSimilarSegments(parent, GetMinHash(seg))
    IN  SubSeq(all, 1, Min({Len(all), MAX_SIMILAR_SEARCH}))

SearchInSegment(trace, n, b) == b \in Range(SegmentAt(trace, n))

(* The parent's segment at the same place is searched when it is not among them. *)
FoundInParent(parent, n, seg) ==
    {b \in Block :
        \/ \E k \in Range(Similar(parent, seg)) : SearchInSegment(parent, k, b)
        \/ n \notin Range(Similar(parent, seg)) /\ SearchInSegment(parent, n, b)}

(* Level 1 needs a segment in the parent. *)
SameInParent(vm, j, n) == n \in DOMAIN Segments(vm[j - 1]) /\ L1Hit(vm, j, n)

(* What one segment gives: the blocks each level finds; those that the first
   snapshot shares with the CDS are in no counter. *)
Levels(vm, j, n, cds) ==
    LET seg == SegmentAt(vm[j], n)
        found == FoundInParent(vm[j - 1], n, seg)
    IN  IF j = 1
        THEN [l1 |-> << >>, l2 |-> << >>, l3 |-> << >>, new |-> Among(seg, Block \ cds)]
        ELSE IF SameInParent(vm, j, n)
        THEN [l1 |-> seg, l2 |-> << >>, l3 |-> << >>, new |-> << >>]
        ELSE [l1 |-> << >>,
              l2 |-> Among(seg, found),
              l3 |-> Among(seg, cds \ found),
              new |-> Among(seg, Block \ (found \cup cds))]

-----------------------------------------------------------------------------
(***************************************************************************)
(* fp_del_sim and id_del_sim, which are the same program.                  *)
(***************************************************************************)

(* What snapshot j brings. *)
NewData(vm, j, cds) == OfSnapshot(vm, j, LAMBDA k, n : new_data(vm, k, n, cds))

(* A filter of at least one item that the blocks were added to, with one function. *)
InFilter_Last(vm, j, b) == \E c \in Range(vm[j]) : c % FilterPositions = b % FilterPositions \* mutant

InFilter(vm, j, b) ==
    \E k \in 1..j : \E c \in Range(vm[k]) : c % FilterPositions = b % FilterPositions

(* What the deletion of snapshot j + 1 frees when those up to j stay. *)
DelData(vm, j, cds) == Among(vm[j + 1], {b \in Block \ cds : ~InFilter(vm, j, b)})

(* The filter has no bits when the first trace is empty. *)
CanDelete(vm) == vm # << >> /\ vm[1] # << >>

IdNewData(vm, j, cds) == NewData(vm, j, cds)

IdDelData(vm, j, cds) == DelData(vm, j, cds)
=============================================================================
