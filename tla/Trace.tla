------------------------------- MODULE Trace -------------------------------
(***************************************************************************)
(* Traces: the list of the blocks of a snapshot, which every program that  *)
(* simulates the backup reads (src/src/snapshot/trace_types.cpp), the      *)
(* segments that it is split into, and the dirty bits (dirty_bit.cpp).     *)
(*                                                                         *)
(* A block is its checksum, a number that orders it; a trace is a sequence *)
(* of blocks, and a segment too.  A segment stands for its checksum: the   *)
(* checksum of the blocks in the order in which they were loaded.          *)
(***************************************************************************)
EXTENDS Integers, Sequences, SequencesExt, FiniteSets, FiniteSetsExt, Functions

CONSTANTS
    Block,              \* the checksums of blocks
    Size,               \* the size of the blocks with each
    FIX_SEGMENT_SIZE    \* the size at which a segment ends

ASSUME TraceAssumption ==
    /\ Block \subseteq Nat
    /\ Size \in [Block -> Nat]
    /\ FIX_SEGMENT_SIZE \in Nat \ {0}

-----------------------------------------------------------------------------
BytesOf(blocks) ==
    LET bytes[n \in 0..Len(blocks)] ==
            IF n = 0 THEN 0 ELSE bytes[n - 1] + Size[blocks[n]]
    IN  bytes[Len(blocks)]

(* The blocks that are in S, in their order. *)
Among(blocks, S) ==
    LET among[n \in 0..Len(blocks)] ==
            IF n = 0 THEN << >>
            ELSE IF blocks[n] \in S THEN Append(among[n - 1], blocks[n])
            ELSE among[n - 1]
    IN  among[Len(blocks)]

(* The next block of the trace: one without data is skipped; the others are added
   to the last segment until it has its size. *)
LoadFixSize(segs, b) ==
    IF Size[b] = 0 THEN segs
    ELSE IF segs = << >> \/ BytesOf(segs[Len(segs)]) >= FIX_SEGMENT_SIZE
    THEN Append(segs, <<b>>)
    ELSE [segs EXCEPT ![Len(segs)] = Append(@, b)]

(* LoadFixSize until it returns false. *)
Segments(trace) ==
    LET segs[n \in 0..Len(trace)] ==
            IF n = 0 THEN << >> ELSE LoadFixSize(segs[n - 1], trace[n])
    IN  segs[Len(trace)]

(* A load behind the end of the trace gives a segment without blocks. *)
SegmentAt(trace, n) == IF n \in DOMAIN Segments(trace) THEN Segments(trace)[n] ELSE << >>

(* min_idx_ is the first of the smallest blocks; a segment has at least one. *)
GetMinHash(seg) == Min(Range(seg))

(* What is read of a trace with a threshold: any block may come with another checksum, and
   the size that it has. *)
Changed(trace) ==
    {t \in [DOMAIN trace -> Block] : \A n \in DOMAIN trace : Size[t[n]] = Size[trace[n]]}

(* A map from blocks, or lengths, to counts, after counts[b]++. *)
Incremented(counts, b) ==
    [x \in DOMAIN counts \cup {b} |->
        IF x # b THEN counts[x] ELSE IF b \in DOMAIN counts THEN counts[b] + 1 ELSE 1]

-----------------------------------------------------------------------------
(* DirtyBitMap::Generate reserves the cells and writes to the first only, i being never
   incremented: what it last writes there is 1, as a segment of the parent that loads
   counts as a difference, and one that does not is empty.  The bitmap gets no element,
   and with none Test finds no segment dirty. *)
Generate(trace) ==
    [reserved |-> (BytesOf(trace) \div FIX_SEGMENT_SIZE) + 1,
     cell |-> IF Segments(trace) = << >> THEN 0 ELSE 1,
     bitmap_ |-> << >>]
=============================================================================
