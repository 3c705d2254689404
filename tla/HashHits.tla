------------------------------ MODULE HashHits ------------------------------
(***************************************************************************)
(* The tools that look blocks up in a store of all blocks:                 *)
(*   src/src/tools/hash_hit_length.cpp      lengths of runs                *)
(*   src/src/tools/hash_hit_benchmark.cpp   the same look-ups, timed       *)
(*   src/src/tools/hash_distribution.cpp    blocks by a part of the hash   *)
(*   src/src/tools/trace_analysis.cpp       the size of a trace            *)
(*                                                                         *)
(* The store is a map: the blocks with their reference counts.  A run of   *)
(* traces begins with the store that the run before it left in the file.   *)
(***************************************************************************)
EXTENDS Trace

CONSTANT BUCKETS            \* buckets of hash_distribution: a power of two

ASSUME HashHitsAssumption == BUCKETS \in Nat \ {0}

-----------------------------------------------------------------------------
(***************************************************************************)
(* hash_hit_length.  A run is the number of hits, or of misses, so far;    *)
(* lens counts the lengths of those that have ended.                       *)
(***************************************************************************)
Run == [hits |-> 0, misses |-> 0, hit_lens |-> << >>, miss_lens |-> << >>]

Terminated(lens, n) == IF n = 0 THEN lens ELSE Incremented(lens, n)

save_counter_KeepsOld(r, isHit) ==                                  \* mutant
    IF isHit
    THEN [r EXCEPT !.hits = @ + 1,
                   !.miss_lens = IF r.hits = 0 THEN Terminated(@, r.misses) ELSE @]
    ELSE [r EXCEPT !.misses = @ + 1,
                   !.hit_lens = IF r.misses = 0 THEN Terminated(@, r.hits) ELSE @]

(* The first of a run ends the run of the others. *)
save_counter(r, isHit) ==
    IF isHit
    THEN [r EXCEPT !.hits = @ + 1,
                   !.misses = IF r.hits = 0 THEN 0 ELSE @,
                   !.miss_lens = IF r.hits = 0 THEN Terminated(@, r.misses) ELSE @]
    ELSE [r EXCEPT !.misses = @ + 1,
                   !.hits = IF r.misses = 0 THEN 0 ELSE @,
                   !.hit_lens = IF r.misses = 0 THEN Terminated(@, r.hits) ELSE @]

(* A segment that the parent has at the same place is not looked into. *)
SameSegment(vm, j, n) == j > 1 /\ SegmentAt(vm[j], n) = SegmentAt(vm[j - 1], n)

HitOrMiss(s, b) ==
    [s EXCEPT !.ublks = Incremented(@, b), !.runs = save_counter(@, b \in DOMAIN s.ublks)]

HitsOrMisses(s, seg) ==
    LET after[n \in 0..Len(seg)] == IF n = 0 THEN s ELSE HitOrMiss(after[n - 1], seg[n])
    IN  after[Len(seg)]

SegmentHits(s, seg, same) ==
    IF same THEN [s EXCEPT !.segRuns = save_counter(@, TRUE)]
    ELSE HitsOrMisses([s EXCEPT !.segRuns = save_counter(@, FALSE)], seg)

HitLengths(vm, j, ublks) ==
    LET after[n \in 0..Len(Segments(vm[j]))] ==
            IF n = 0 THEN [ublks |-> ublks, runs |-> Run, segRuns |-> Run]
            ELSE SegmentHits(after[n - 1], SegmentAt(vm[j], n), SameSegment(vm, j, n))
    IN  after[Len(Segments(vm[j]))]

(* The output: the lengths of the runs that have ended, and not of the last. *)
HitOutput(s) == [hit |-> s.runs.hit_lens, miss |-> s.runs.miss_lens,
                 seg_hit |-> s.segRuns.hit_lens, seg_miss |-> s.segRuns.miss_lens]

(* The store that the snapshots of a VM leave, one run of the program for each. *)
StoreAfter(vm) ==
    LET store[j \in 0..Len(vm)] ==
            IF j = 0 THEN << >> ELSE HitLengths(vm, j, store[j - 1]).ublks
    IN  store[Len(vm)]

-----------------------------------------------------------------------------
(***************************************************************************)
(* hash_hit_benchmark.                                                     *)
(***************************************************************************)
Benchmark(vm, j, ublks) ==
    LET blocks == FlattenSeq([n \in DOMAIN Segments(vm[j]) |->
                        IF SameSegment(vm, j, n) THEN << >> ELSE SegmentAt(vm[j], n)])
        after[n \in 0..Len(blocks)] ==
            IF n = 0 THEN ublks ELSE Incremented(after[n - 1], blocks[n])
    IN  [num_queries |-> Len(blocks), ublks |-> after[Len(blocks)]]

-----------------------------------------------------------------------------
(***************************************************************************)
(* hash_distribution, with at least one bit, and trace_analysis.           *)
(***************************************************************************)
BucketId(b) == b % BUCKETS

Distribution(trace) ==
    [i \in 0..(BUCKETS - 1) |->
        LET blocks == Among(trace, {b \in Range(trace) : BucketId(b) = i})
        IN  [raw |-> BytesOf(blocks),
             dedup |-> SumFunctionOnSet(Size, Range(blocks)),
             unique |-> Cardinality(Range(blocks)),
             total |-> Len(blocks)]]

(* Blocks without data count, and are reported as corrupted. *)
Analysis(trace) ==
    [size |-> BytesOf(trace), nblocks |-> Len(trace),
     corrupted |-> SelectSeq(trace, LAMBDA b : Size[b] = 0)]
=============================================================================
