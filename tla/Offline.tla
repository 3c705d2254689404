------------------------------ MODULE Offline -------------------------------
(***************************************************************************)
(* The programs that work on traces, composed: they read the same traces,  *)
(* of snapshots of virtual machines, and what one says must agree with     *)
(* what another one says.                                                  *)
(*                                                                         *)
(* The state is the traces.  The scanner of disks, which is not part of    *)
(* the repository, writes them: block by block, a snapshot after the other,*)
(* a VM after the other.                                                   *)
(***************************************************************************)
EXTENDS Dedup, Sampling, Binning, TraceGen, HashHits

CONSTANTS
    CacheSizes,         \* the sizes of the cache that are tried
    CdsSets,            \* the CDSs that are tried
    MaxBlocks,          \* bound: blocks in all traces
    MaxTraces           \* bound: traces

ASSUME OfflineAssumption ==
    /\ CacheSizes \subseteq Nat \ {0}
    /\ CdsSets \subseteq SUBSET Block

VARIABLE vms            \* the traces of each VM, oldest first

-----------------------------------------------------------------------------
AllTraces == FlattenSeq(vms)

Init == vms = << << << >> >> >>

NextBlock(b) ==
    /\ Len(FlattenSeq(AllTraces)) < MaxBlocks
    /\ vms' = Front(vms) \o <<Front(Last(vms)) \o <<Append(Last(Last(vms)), b)>> >>

NextSnapshot ==
    /\ Len(AllTraces) < MaxTraces
    /\ vms' = Front(vms) \o <<Append(Last(vms), << >>)>>

NextVm ==
    /\ Len(AllTraces) < MaxTraces
    /\ vms' = Append(vms, << << >> >>)

Next == (\E b \in Block : NextBlock(b)) \/ NextSnapshot \/ NextVm

Spec == Init /\ [][Next]_vms

-----------------------------------------------------------------------------
(***************************************************************************)
(* Duplicates.                                                             *)
(***************************************************************************)

(* Segments hold the blocks with data in order; all but the last have their size, and
   had it not before their last block.  The cells that the dirty bits of the trace
   reserve are enough for one per segment. *)
SegmentsRight(trace) ==
    LET segs == Segments(trace)
    IN  /\ FlattenSeq(segs) = Among(trace, {b \in Block : Size[b] > 0})
        /\ \A n \in DOMAIN segs :
              /\ BytesOf(Front(segs[n])) < FIX_SEGMENT_SIZE
              /\ n < Len(segs) => BytesOf(segs[n]) >= FIX_SEGMENT_SIZE
        /\ Generate(trace).reserved >= Len(segs)

(* The i-th CDS has the size it shall have, no block that it lacks is more frequent than
   one that it has, and the next CDS has all its blocks.  The coverage that is printed is
   right for blocks of one size. *)
MostFrequent(global) ==
    \A i \in 1..PERCENT :
        /\ Cardinality(CdsOutput(global, i)) = SizeThreshold(global, i)
        /\ \A b \in CdsOutput(global, i), c \in DOMAIN global \ CdsOutput(global, i) :
              global[b] >= global[c]
        /\ i < PERCENT => CdsOutput(global, i) \subseteq CdsOutput(global, i + 1)
        /\ (\A b, c \in DOMAIN global : Size[b] = Size[c]) =>
              (DOMAIN global # {} =>
                    CdsCoverage(global, i) = Weight(global, CdsOutput(global, i)))

GlobalOf(p) == GlobalIndex(Counted(vms, Len(vms), p))

(* What the distiller counts for the blocks of a partition of a CDS is what cds_sim finds
   of them with the CDS. *)
SimulatedAsCounted ==
    \A i \in 1..PERCENT : \A cds \in {CdsFile(vms, i)} :
        \A found \in {Total(vms, 0, LAMBDA vm :
                         InAllRounds(vm, LAMBDA j, n : l3_data(vm, j, n, cds)))} :
            \A p \in 0..(PARTITIONS - 1) : \A global \in {GlobalOf(p)} :
                Weight(global, CdsOutput(global, i))
                = BytesOf(Among(found, InPartition(p)))

(* raw_blocks of all partitions: the blocks of the segments that the parent does not have. *)
RawAsSimulated ==
    Len(FlattenSeq([q \in 1..PARTITIONS |-> Total(vms, 0, LAMBDA vm :
            InAllRounds(vm, LAMBDA j, n : RawBlocks(vm, j, n, q - 1)))]))
    = Len(Total(vms, 0, LAMBDA vm : InAllRounds(vm, LAMBDA j, n : AfterL1(vm, j, n))))

(* A segment that similar segments are searched for loses no block that the parent's
   segment at the same place has. *)
SimilarityAdds ==
    \A vm \in Range(vms) : \A j \in 2..Len(vm) : \A n \in DOMAIN Segments(vm[j]) :
        LET found == Levels(vm, j, n, {}).l1 \o Levels(vm, j, n, {}).l2
        IN  Range(l1_data(vm, j, n) \o l2_data(vm, j, n)) \subseteq Range(found)

(* The loads give the segments, the distiller the most frequent blocks, and the programs
   that use a CDS and those that make it agree about what it saves. *)
DuplicatesRight ==
    /\ \A trace \in Range(AllTraces) : SegmentsRight(trace)
    /\ \A v \in Checkpoints(vms, -1, 1) \cup Checkpoints(vms, 1, 1) :
          \A global \in {GlobalIndex(Counted(vms, v, p)) : p \in 0..(PARTITIONS - 1)} :
              MostFrequent(global)
    /\ \A global \in {GlobalIndex(CountedNoLocal(vms))} : \A i \in 1..PERCENT :
          Cardinality(CdsOutputNoLocal(global, i)) = SizeThreshold(global, i)
    /\ SimulatedAsCounted
    /\ RawAsSimulated
    /\ SimilarityAdds

(* Deleting a snapshot frees no block that an older snapshot has, and never more bytes
   than the snapshot brought. *)
DeletionSafe ==
    \A vm \in {vm \in Range(vms) : CanDelete(vm)}, cds \in CdsSets :
        \A j \in 1..(Len(vm) - 1) :
            /\ \A k \in 1..j : Range(DelData(vm, j, cds)) \cap Range(vm[k]) = {}
            /\ BytesOf(DelData(vm, j, cds)) <= BytesOf(NewData(vm, j + 1, cds))
            /\ BytesOf(IdDelData(vm, j, cds)) <= BytesOf(IdNewData(vm, j + 1, cds))

-----------------------------------------------------------------------------
(***************************************************************************)
(* Indexes.                                                                *)
(***************************************************************************)

(* The cache holds the blocks that were touched last, each once, and its hash table
   the same blocks, in the chain of each. *)
LruRight(segs, cache_size) ==
    LET touched == BlocksOf(segs)
        cache == AddSegments(LruCache, cache_size, segs)
        LastOf(b) == Max({n \in DOMAIN touched : touched[n] = b})
    IN  /\ Range(cache.list) =
              {b \in Range(touched) :
                  Cardinality({c \in Range(touched) : LastOf(c) > LastOf(b)}) < cache_size}
        /\ \A i, k \in DOMAIN cache.list :
              i < k => LastOf(cache.list[i]) < LastOf(cache.list[k])
        /\ \A i \in DOMAIN cache.hash :
              /\ Range(cache.hash[i]) = {b \in Range(cache.list) : HashOf(b) = i}
              /\ Len(cache.hash[i]) = Cardinality(Range(cache.hash[i]))

(* Every block is counted once; one that the index trace does not have is a miss, one
   that was sampled is none; and without levels, nothing beats the full index. *)
SampledRight(trace, parent, cache_size) ==
    LET segs == load_segment(trace)
        full == load_segment(parent)
    IN  \A do_dirty, do_parent \in BOOLEAN :
            WithinIndex(segs, full) =>
                LET r == sampled(segs, full, cache_size, do_dirty, do_parent)
                IN  /\ Len(Hits(r)) + Len(r.misses) = Len(BlocksOf(segs))
                    /\ Range(Hits(r)) \subseteq Range(BlocksOf(full))
                    /\ Range(r.misses) \cap DOMAIN SampledIndex(full) = {}
                    /\ Len(Hits(r)) <= Len(theoretical(segs, full).hits)
                    /\ theoretical(segs, full).hits = Theory(trace, parent).indexHits

(* A bin finds the duplicates among the segments that have its block, whatever block stands
   for a segment: more is left than with the full index, and never less.  Every segment,
   block and byte is in one partition. *)
BinsRight ==
    \A below \in BOOLEAN :
        LET s == Summary(AllTraces, below)
            all == SegmentsOf(AllTraces)
            left == UNION {{<<MinHash(seg, below), b>> : b \in Range(seg)} : seg \in Range(all)}
        IN  /\ s.total_segments = Len(all)
            /\ s.total_blocks = Len(FlattenSeq(all))
            /\ s.total_size = BytesOf(FlattenSeq(all))
            /\ s.total_bins = Cardinality({x[1] : x \in left})
            /\ s.total_dedup_blocks = Cardinality(left)
            /\ s.total_dedup_size = SumFunction([x \in left |-> Size[x[2]]])
            /\ s.theory_dedup_blocks <= s.total_dedup_blocks
            /\ s.theory_dedup_size <= s.total_dedup_size

IndexesRight ==
    /\ \A trace \in Range(AllTraces), size \in CacheSizes :
          /\ LruRight(Segments(trace), size)
          /\ \A parent \in Range(AllTraces) : SampledRight(trace, parent, size)
    /\ BinsRight

-----------------------------------------------------------------------------
(***************************************************************************)
(* Tools.                                                                  *)
(***************************************************************************)

(* A heap is one, and has the max_length - 1 greatest of the counts, each as often as they
   have it: of the least that it has nothing is known but that it was the least, or the
   last. *)
TopKRight(counts, max_length) ==
    LET heap == TopK(counts, max_length)
        AsGreat(s, c) == Cardinality({n \in DOMAIN s : s[n] >= c})
    IN  /\ Len(heap) = Min({max_length, Len(counts)})
        /\ \A n \in 2..Len(heap) : heap[n \div 2] <= heap[n]
        /\ \A c \in Range(counts) \cup Range(heap) :
              Min({AsGreat(heap, c), max_length - 1}) = Min({AsGreat(counts, c), max_length - 1})

BlocksOfVm(vm) == UNION {Range(FlattenSeq(Segments(vm[n]))) : n \in DOMAIN vm}

(* A block is as frequent as there are VMs with it, and the links of the CDS are those. *)
FrequenciesRight ==
    LET f == BlockFreqs(vms)
        freq == f.block_freq
    IN  /\ freq = [b \in UNION {BlocksOfVm(vms[v]) : v \in DOMAIN vms} |->
                        Cardinality({v \in DOMAIN vms : b \in BlocksOfVm(vms[v])})]
        /\ Range(f.newBlocks) = DOMAIN freq /\ Len(f.newBlocks) = Cardinality(DOMAIN freq)
        /\ Len(f.uniqBlocks) = SumFunction(freq)
        /\ \A cds \in CdsSets :
              CdsLinks(freq, cds).cds_sum
              = SumFunction([v \in DOMAIN vms |-> Cardinality(cds \cap BlocksOfVm(vms[v]))])
        /\ \A k \in 1..Cardinality(DOMAIN freq) : TopKRight(CountsOf(freq), k)

(* No container has more blocks than it takes, or blocks of both kinds, and the summary
   counts those that are there. *)
ContainersRight(cds) ==
    LET c == ContainerFreqs(vms, cds)
        used == Range(c.container_index)
        held(n) == {b \in DOMAIN c.container_index : c.container_index[b] = n}
    IN  /\ \A n \in used : Cardinality(held(n)) <= CAPACITY
        /\ \A n \in used : IF n < 0 THEN held(n) \subseteq cds ELSE held(n) \cap cds = {}
        /\ Cardinality({n \in used : n >= 0}) = NonCdsContainers(c)
        /\ Cardinality({n \in used : n < 0}) = CdsContainers(c)
        /\ c.cds_containers = Cardinality({n \in c.vm_containers : n < 0})

(* A generated snapshot, and a trace that is read with changes, has the segments of its
   origin, and is the same when a threshold is 0; no VM of a run writes over another one's files
   while a loop has no more VMs than ids. *)
GeneratedRight(trace) ==
    /\ \A segs \in {Segments(t) : t \in Generated(trace, 1, 1)} \cup load_rand_segment(trace)
                    \cup FreqRandSegments(trace) \cup BinningRandSegments(trace)
                    \cup StatRandSegments(trace) :
          [n \in DOMAIN segs |-> Len(segs[n])]
          = [n \in DOMAIN Segments(trace) |-> Len(Segments(trace)[n])]
    /\ Generated(trace, 0, 1) = {FlattenSeq(Segments(trace))}
    /\ LET v == Min({Len(vms), LOOP_STRIDE})
       IN  Cardinality(Outputs(2, v, Len(Last(vms)))) = 2 * v * Len(Last(vms))

(* The dump ends with the segment that reaches the limit. *)
DumpRight(limits) ==
    LET segs == StatDump(AllTraces, limits)
    IN  /\ IsPrefix(segs, FlattenSeq([n \in DOMAIN AllTraces |-> Segments(AllTraces[n])]))
        /\ segs # << >> => ~LimitMet(Front(segs), limits)

(* The lengths of the runs that have ended, with the last run, make up the look-ups; the
   store counts every look-up, and both programs leave the same one. *)
HitLengthsRight(vm, j) ==
    LET store == StoreAfter(SubSeq(vm, 1, j - 1))
        s == HitLengths(vm, j, store)
        sum(lens) == SumFunction([n \in DOMAIN lens |-> n * lens[n]])
        out == HitOutput(s)
        bench == Benchmark(vm, j, store)
    IN  /\ s.runs.hits = 0 \/ s.runs.misses = 0
        /\ sum(out.hit) + sum(out.miss) + s.runs.hits + s.runs.misses = bench.num_queries
        /\ sum(out.seg_hit) + sum(out.seg_miss) + s.segRuns.hits + s.segRuns.misses
              = Len(Segments(vm[j]))
        /\ sum(out.miss) + s.runs.misses
              = Cardinality(DOMAIN s.ublks \ DOMAIN store)
        /\ bench.ublks = s.ublks
        /\ SumFunction(s.ublks) = SumFunction(store) + bench.num_queries

(* Buckets split the blocks, and the traces made for tests differ by half of every
   segment but the first. *)
BucketsRight(trace) ==
    LET dist == Distribution(trace)
    IN  /\ SumFunction([i \in DOMAIN dist |-> dist[i].raw]) = Analysis(trace).size
        /\ SumFunction([i \in DOMAIN dist |-> dist[i].total]) = Analysis(trace).nblocks
        /\ SumFunction([i \in DOMAIN dist |-> dist[i].unique]) = Cardinality(Range(trace))

TestTracesRight ==
    \A k \in 2..4 :
        /\ TestSegment(k, 1) = TestSegment(k - 1, 1)
        /\ \A s \in 2..TEST_SEGMENTS :
              Cardinality(Range(TestSegment(k, s)) \cap Range(TestSegment(k - 1, s)))
              = TEST_SEGMENT - TEST_SHIFT

(* The sums, files and tables of the tools. *)
ToolsRight ==
    /\ FrequenciesRight
    /\ \A cds \in CdsSets : ContainersRight(cds)
    /\ \A trace \in Range(AllTraces) : GeneratedRight(trace) /\ BucketsRight(trace)
    /\ \A limits \in [size : {0, FIX_SEGMENT_SIZE}, blocks : {0, 2}, segments : {0, 1}] :
          DumpRight(limits)
    /\ \A vm \in Range(vms) : \A j \in DOMAIN vm : HitLengthsRight(vm, j)
    /\ TestTracesRight
=============================================================================
