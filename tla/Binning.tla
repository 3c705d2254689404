------------------------------ MODULE Binning -------------------------------
(***************************************************************************)
(* The simulation of bins (src/src/simulation/binning): the segments of    *)
(* many traces go to bins by a hash of theirs, and duplicates are found    *)
(* within a bin.  It runs in partitions, one after the other, and adds up. *)
(***************************************************************************)
EXTENDS Trace

CONSTANT BIN_PARTITIONS         \* partitions: 8

ASSUME BinningAssumption == BIN_PARTITIONS \in Nat \ {0}

-----------------------------------------------------------------------------
BinningSegments(trace) == Segments(trace)

BinningRandSegments(trace) == {Segments(t) : t \in Changed(trace)}

(* min_idx_.  Checksum is an array here, and the comparison in AddBlock is one of
   addresses: of the block being added, which is on the stack, and of one in the vector.
   below says whether the stack is below: if it is not, the first block stays. *)
MinIdx(seg, below) == IF below THEN Len(seg) ELSE 1

MinHash(seg, below) == seg[MinIdx(seg, below)]

InPart(b, p) == b % BIN_PARTITIONS = p

-----------------------------------------------------------------------------
(***************************************************************************)
(* Bin.                                                                    *)
(***************************************************************************)
NewBin == [num_segments_ |-> 0, num_blocks_ |-> 0, size_ |-> 0, dedup_size_ |-> 0,
           blocks |-> {}]

(* blocks is the domain of block_counts_. *)
AddSegment(bin, seg) ==
    [bin EXCEPT !.num_segments_ = @ + 1, !.num_blocks_ = @ + Len(seg),
                !.size_ = @ + BytesOf(seg),
                !.dedup_size_ = @ + SumFunctionOnSet(Size, Range(seg) \ bin.blocks),
                !.blocks = @ \cup Range(seg)]

-----------------------------------------------------------------------------
(***************************************************************************)
(* main, for one list of traces.                                           *)
(***************************************************************************)
SegmentsOf(traces) == FlattenSeq([n \in DOMAIN traces |-> BinningSegments(traces[n])])

(* The segments of the partition, and the bins that they make: binmap. *)
OfPartition(traces, p, below) ==
    LET all == SegmentsOf(traces)
    IN  Among(all, {seg \in Range(all) : InPart(MinHash(seg, below), p)})

BinOf(segs) ==
    LET bin[n \in 0..Len(segs)] == IF n = 0 THEN NewBin ELSE AddSegment(bin[n - 1], segs[n])
    IN  bin[Len(segs)]

BinMap(traces, p, below) ==
    LET segs == OfPartition(traces, p, below)
    IN  [h \in {MinHash(seg, below) : seg \in Range(segs)} |->
            BinOf(Among(segs, {seg \in Range(segs) : MinHash(seg, below) = h}))]

(* theoreticalIndex: the blocks of the partition, in whatever segment they are. *)
TheoreticalIndex(traces, p) ==
    {b \in Range(FlattenSeq(SegmentsOf(traces))) : InPart(b, p)}

OverPartitions(F(_)) == SumFunction([p \in 0..(BIN_PARTITIONS - 1) |-> F(p)])

OverBins(traces, below, F(_)) ==
    OverPartitions(LAMBDA p : SumFunction([h \in DOMAIN BinMap(traces, p, below) |->
                                               F(BinMap(traces, p, below)[h])]))

Summary(traces, below) ==
    [total_bins |-> OverPartitions(LAMBDA p : Cardinality(DOMAIN BinMap(traces, p, below))),
     total_segments |-> OverPartitions(LAMBDA p : Len(OfPartition(traces, p, below))),
     total_size |-> OverPartitions(LAMBDA p : BytesOf(FlattenSeq(OfPartition(traces, p, below)))),
     total_blocks |-> OverPartitions(LAMBDA p : Len(FlattenSeq(OfPartition(traces, p, below)))),
     total_dedup_size |-> OverBins(traces, below, LAMBDA bin : bin.dedup_size_),
     total_dedup_blocks |-> OverBins(traces, below, LAMBDA bin : Cardinality(bin.blocks)),
     theory_dedup_size |-> OverPartitions(LAMBDA p :
         SumFunctionOnSet(Size, TheoreticalIndex(traces, p))),
     theory_dedup_blocks |-> OverPartitions(LAMBDA p : Cardinality(TheoreticalIndex(traces, p)))]
=============================================================================
