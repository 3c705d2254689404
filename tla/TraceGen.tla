------------------------------ MODULE TraceGen ------------------------------
(***************************************************************************)
(* The programs that make traces:                                          *)
(*   src/src/simulation/tracegen/tracegen.cpp    snapshots with changes    *)
(*   src/src/simulation/tracegen/trace_stat.cpp  sums, and a copy with a   *)
(*                                               limit                     *)
(*   src/src/tools/test_trace_generator.cpp      four traces for tests     *)
(***************************************************************************)
EXTENDS Trace

CONSTANTS
    LOOP_STRIDE,        \* the ids of a loop's VMs begin at a multiple: 1009
    TEST_SEGMENT,       \* blocks in a segment of a test trace: 128
    TEST_SHIFT,         \* blocks that a test trace is shifted by: 64
    TEST_SEGMENTS       \* segments in a test trace: 5

ASSUME TraceGenAssumption ==
    /\ {LOOP_STRIDE, TEST_SEGMENT, TEST_SHIFT, TEST_SEGMENTS} \subseteq Nat \ {0}
    /\ TEST_SHIFT <= TEST_SEGMENT

-----------------------------------------------------------------------------
(***************************************************************************)
(* tracegen.cpp.                                                           *)
(***************************************************************************)
TracegenSegments(trace) == Segments(trace)

(* What a trace can be read as: any blocks of a segment may have other checksums, when
   both thresholds are positive. *)
TracegenRandSegments(trace, blk_threshold, seg_threshold) ==
    IF blk_threshold = 0 \/ seg_threshold = 0 THEN {TracegenSegments(trace)}
    ELSE {Segments(t) : t \in Changed(trace)}

(* The output: the blocks of the segments. *)
Saved(segs) == FlattenSeq(segs)

(* The first snapshot is made of the trace, each other one of the one before it. *)
Generated(trace, blk_threshold, seg_threshold) ==
    {Saved(segs) : segs \in TracegenRandSegments(trace, blk_threshold, seg_threshold)}

(* The id of a VM, of the lines of the list that have a path. *)
VmId(loop, vmindex) == LOOP_STRIDE * (loop + 1) + vmindex

(* The files of a run: one for each VM and snapshot.  A file is truncated when it is
   opened. *)
Outputs(loops, vms, snapshots) ==
    {<<VmId(loop, v), s>> : loop \in 0..(loops - 1), v \in 0..(vms - 1),
                            s \in 0..(snapshots - 1)}

-----------------------------------------------------------------------------
(***************************************************************************)
(* trace_stat.cpp.                                                         *)
(***************************************************************************)
StatSegments(trace) == Segments(trace)

StatRandSegments(trace) == {Segments(t) : t \in Changed(trace)}

(* A limit of 0 is none. *)
LimitMet(segs, limits) ==
    \/ limits.size > 0 /\ BytesOf(FlattenSeq(segs)) >= limits.size
    \/ limits.blocks > 0 /\ Len(FlattenSeq(segs)) >= limits.blocks
    \/ limits.segments > 0 /\ Len(segs) >= limits.segments

(* The segments that are counted, which are those that the dump gets: those of the traces
   one after the other until a limit is met. *)
StatDump(traces, limits) ==
    LET all == FlattenSeq([n \in DOMAIN traces |-> StatSegments(traces[n])])
        dump[n \in 0..Len(all)] ==
            IF n = 0 THEN << >>
            ELSE IF LimitMet(dump[n - 1], limits) THEN dump[n - 1]
            ELSE Append(dump[n - 1], all[n])
    IN  dump[Len(all)]

-----------------------------------------------------------------------------
(***************************************************************************)
(* test_trace_generator.cpp.                                               *)
(***************************************************************************)
TestTrace(k) ==
    [n \in 1..(TEST_SEGMENT * TEST_SEGMENTS) |->
        IF n > TEST_SEGMENT THEN (n - 1) + TEST_SHIFT * (k - 1) ELSE n - 1]

(* All its blocks have the same size, and a segment TEST_SEGMENT of them. *)
TestSegment(k, s) == SubSeq(TestTrace(k), TEST_SEGMENT * (s - 1) + 1, TEST_SEGMENT * s)
=============================================================================
