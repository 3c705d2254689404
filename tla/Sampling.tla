------------------------------ MODULE Sampling ------------------------------
(***************************************************************************)
(* The simulations of the sampled index and of block frequencies:          *)
(*   src/src/simulation/sampling/lru_cache.cpp   the cache                 *)
(*   src/src/simulation/sampling/sampling.cpp    sampled and theoretical   *)
(*   src/src/simulation/sampling/theory.cpp      the full index            *)
(*   src/src/simulation/sampling/freq.cpp        frequencies, containers   *)
(*                                                                         *)
(* A counter is the sequence of the blocks that it counts.                 *)
(***************************************************************************)
EXTENDS Trace

CONSTANTS
    LRU_HASH_SIZE,      \* chains of the hash table: 4096
    GROUP,              \* segments in a container: 8
    SAMPLE,             \* one block of so many is sampled: 100
    CAPACITY            \* container_capacity of freq.cpp: 16384

ASSUME SamplingAssumption ==
    {LRU_HASH_SIZE, GROUP, SAMPLE, CAPACITY} \subseteq Nat \ {0}

BlocksOf(segs) == FlattenSeq(segs)

-----------------------------------------------------------------------------
(***************************************************************************)
(* LruCache.  list goes from head to tail; curSize never shrinks.          *)
(***************************************************************************)
LruCache == [curSize |-> 0, list |-> << >>,
             hash |-> [i \in 0..(LRU_HASH_SIZE - 1) |-> << >>]]

HashOf(b) == b % LRU_HASH_SIZE

InsertHash(hash, b) == [hash EXCEPT ![HashOf(b)] = <<b>> \o @]

(* A block is added when it is not found: it is in its chain, and on the list, once, and
   the node that is taken out is all there is of it. *)
RemoveHash(hash, b) == [hash EXCEPT ![HashOf(b)] = Among(@, Block \ {b})]

Found(cache, b) == cache.list # << >> /\ b \in Range(cache.hash[HashOf(b)])

(* A block that is found goes to the tail. *)
SearchItem(cache, b) ==
    IF Found(cache, b) THEN [cache EXCEPT !.list = Append(Among(@, Block \ {b}), b)] ELSE cache

AddItem(cache, b) ==
    [cache EXCEPT !.list = Append(@, b), !.hash = InsertHash(@, b)]

DropItem_StaysInHash(cache) == [cache EXCEPT !.list = Tail(@)]      \* mutant

DropItem(cache) ==
    [cache EXCEPT !.hash = RemoveHash(@, Head(cache.list)), !.list = Tail(@)]

WithRoom(cache, maxSize) ==
    IF cache.curSize >= maxSize THEN DropItem(cache) ELSE [cache EXCEPT !.curSize = @ + 1]

(* One turn of the loop of AddItems.  With maxSize = 0 the code drops the head of an
   empty list. *)
Touch(cache, maxSize, b) ==
    IF Found(cache, b) THEN SearchItem(cache, b) ELSE AddItem(WithRoom(cache, maxSize), b)

AddItems(cache, maxSize, seg) ==
    LET added[n \in 0..Len(seg)] ==
            IF n = 0 THEN cache ELSE Touch(added[n - 1], maxSize, seg[n])
    IN  added[Len(seg)]

(* The segments of a container. *)
AddSegments(cache, maxSize, segs) ==
    LET added[n \in 0..Len(segs)] ==
            IF n = 0 THEN cache ELSE AddItems(added[n - 1], maxSize, segs[n])
    IN  added[Len(segs)]

-----------------------------------------------------------------------------
(***************************************************************************)
(* sampling.cpp.                                                           *)
(***************************************************************************)
load_segment(trace) == Segments(trace)

(* With a threshold, each block may come out with another checksum. *)
load_rand_segment(trace) == {Segments(t) : t \in Changed(trace)}

(* The first segment of each container, counted from 1. *)
Containers(indexBlocks) == {i \in DOMAIN indexBlocks : (i - 1) % GROUP = 0}

ContainerAt(indexBlocks, i) == SubSeq(indexBlocks, i, Min({i + GROUP - 1, Len(indexBlocks)}))

SampledOf(indexBlocks, i) ==
    LET blocks == BlocksOf(ContainerAt(indexBlocks, i))
    IN  {blocks[n] : n \in {n \in DOMAIN blocks : (n - 1) % SAMPLE = 0}}

(* A block that is sampled twice leads to the later container. *)
SampledIndex(indexBlocks) ==
    [b \in UNION {SampledOf(indexBlocks, i) : i \in Containers(indexBlocks)} |->
        Max({i \in Containers(indexBlocks) : b \in SampledOf(indexBlocks, i)})]

(* One block: the parent's segment, the cache, the index; a hit in the index loads its
   container into the cache. *)
LookUp(r, b, parent_seg, index, indexBlocks, cache_size) ==
    IF b \in Range(parent_seg) THEN [r EXCEPT !.parentHits = Append(@, b)]
    ELSE IF Found(r.cache, b)
    THEN [r EXCEPT !.cacheHits = Append(@, b), !.cache = SearchItem(@, b)]
    ELSE IF b \in DOMAIN index
    THEN [r EXCEPT !.indexHits = Append(@, b),
                   !.cache = AddSegments(@, cache_size, ContainerAt(indexBlocks, index[b]))]
    ELSE [r EXCEPT !.misses = Append(@, b)]

LookUps(r, seg, parent_seg, index, indexBlocks, cache_size) ==
    LET after[n \in 0..Len(seg)] ==
            IF n = 0 THEN r
            ELSE LookUp(after[n - 1], seg[n], parent_seg, index, indexBlocks, cache_size)
    IN  after[Len(seg)]

NothingYet == [cache |-> LruCache, cacheHits |-> << >>, indexHits |-> << >>,
               misses |-> << >>, cleanSegments |-> << >>, parentHits |-> << >>]

(* do_dirty and do_parent read the segment of the index trace at the same place: a
   trace with more segments than it reads behind the vector. *)
WithinIndex(segs, indexBlocks) == Len(segs) <= Len(indexBlocks)

SampleSegment(r, seg, index_seg, indexBlocks, cache_size, do_dirty, do_parent) ==
    IF do_dirty /\ seg = index_seg
    THEN [r EXCEPT !.cleanSegments = @ \o seg]
    ELSE LookUps(r, seg, IF do_parent THEN index_seg ELSE << >>,
                 SampledIndex(indexBlocks), indexBlocks, cache_size)

sampled(segs, indexBlocks, cache_size, do_dirty, do_parent) ==
    LET after[n \in 0..Len(segs)] ==
            IF n = 0 THEN NothingYet
            ELSE SampleSegment(after[n - 1], segs[n], indexBlocks[n], indexBlocks,
                               cache_size, do_dirty, do_parent)
    IN  after[Len(segs)]

Hits(r) == r.cacheHits \o r.indexHits \o r.cleanSegments \o r.parentHits

(* Every block of the index trace leads to the last container with it.  Misses are not
   counted: "else misses;" does nothing. *)
theoretical(segs, indexBlocks) ==
    [index |-> [b \in Range(BlocksOf(indexBlocks)) |->
                    Max({i \in Containers(indexBlocks) :
                            b \in Range(BlocksOf(ContainerAt(indexBlocks, i)))})],
     hits |-> Among(BlocksOf(segs), Range(BlocksOf(indexBlocks))),
     blocks |-> Len(BlocksOf(indexBlocks))]

-----------------------------------------------------------------------------
(***************************************************************************)
(* theory.cpp.                                                             *)
(***************************************************************************)
TheorySegments(trace) == Segments(trace)

Theory(trace, index_input) ==
    LET full == Range(BlocksOf(TheorySegments(index_input)))
        blocks == BlocksOf(TheorySegments(trace))
    IN  [indexHits |-> Among(blocks, full), misses |-> Among(blocks, Block \ full)]

-----------------------------------------------------------------------------
(***************************************************************************)
(* freq.cpp.                                                               *)
(***************************************************************************)
FreqSegments(trace) == Segments(trace)

FreqRandSegments(trace) == {Segments(t) : t \in Changed(trace)}

(* The heap: a sequence in which the children of n are at 2n and 2n + 1. *)
Swapped(heap, i, j) == [heap EXCEPT ![i] = heap[j], ![j] = heap[i]]

Smallest(heap, i) ==
    LET near == {j \in {i, 2 * i, 2 * i + 1} : j <= Len(heap)}
    IN  CHOOSE j \in near : /\ \A k \in near : heap[j] <= heap[k]
                            /\ \A k \in near : heap[k] = heap[j] => j <= k

(* The place that is looked at, and the heap; a turn that finds nothing smaller below
   changes nothing. *)
Lower(at) ==
    LET s == Smallest(at.heap, at.i) IN  [heap |-> Swapped(at.heap, at.i, s), i |-> s]

min_heapify(heap, i) ==
    LET after[n \in 0..Len(heap)] ==
            IF n = 0 THEN [heap |-> heap, i |-> i] ELSE Lower(after[n - 1])
    IN  after[Len(heap)].heap

delete_min(heap) ==
    IF Len(heap) <= 1 THEN << >>
    ELSE min_heapify([Front(heap) EXCEPT ![1] = Last(heap)], 1)

Higher(at) ==
    IF at.i > 1 /\ at.heap[at.i \div 2] > at.heap[at.i]
    THEN [heap |-> Swapped(at.heap, at.i, at.i \div 2), i |-> at.i \div 2]
    ELSE at

Raised(heap, i) ==
    LET after[n \in 0..Len(heap)] ==
            IF n = 0 THEN [heap |-> heap, i |-> i] ELSE Higher(after[n - 1])
    IN  after[Len(heap)].heap

insert_min(heap, n) == Raised(Append(heap, n), Len(heap) + 1)

(* The least makes room whatever n is.  With max_length = 0 the code writes behind the
   array. *)
topk_heap(heap, max_length, n) ==
    insert_min(IF Len(heap) >= max_length THEN delete_min(heap) ELSE heap, n)

TopK(counts, max_length) ==
    LET heap[n \in 0..Len(counts)] ==
            IF n = 0 THEN << >> ELSE topk_heap(heap[n - 1], max_length, counts[n])
    IN  heap[Len(counts)]

(* A block counts once for what vm_blocks remembers: a VM, or a trace when there is no
   list of VMs. *)
CountBlock(f, b) ==
    IF b \in f.vm_blocks THEN f
    ELSE [f EXCEPT !.vm_blocks = @ \cup {b}, !.block_freq = Incremented(@, b),
                   !.uniqBlocks = Append(@, b),
                   !.newBlocks = IF b \in DOMAIN f.block_freq THEN @ ELSE Append(@, b)]

do_block_freq(f, blocks) ==
    LET after[n \in 0..Len(blocks)] ==
            IF n = 0 THEN f ELSE CountBlock(after[n - 1], blocks[n])
    IN  after[Len(blocks)]

(* The counts in the order of the map: the n-th block is the one with n - 1 below it. *)
CountsOf(block_freq) ==
    LET blocks == DOMAIN block_freq
        Nth(n) == CHOOSE b \in blocks : Cardinality({c \in blocks : c < b}) = n - 1
    IN  [n \in 1..Cardinality(blocks) |-> block_freq[Nth(n)]]

(* What the links of the blocks of a CDS are, and the number of blocks that have some. *)
CdsLinks(block_freq, cds) ==
    [cds_sum |-> SumFunctionOnSet(block_freq, cds \cap DOMAIN block_freq),
     cds_hits |-> Cardinality(cds \cap DOMAIN block_freq)]

(* A new block goes to the open container of its kind; those with the blocks of the CDS
   have negative numbers. *)
Placed(c, b, cds) ==
    LET put(n) == [x \in DOMAIN c.container_index \cup {b} |->
                        IF x = b THEN n ELSE c.container_index[x]]
    IN  IF b \in DOMAIN c.container_index THEN c
        ELSE IF b \in cds
        THEN [c EXCEPT !.container_index = put(c.cds_container_num),
                       !.cds_container_num = IF c.cds_container_offset + 1 >= CAPACITY
                                             THEN @ - 1 ELSE @,
                       !.cds_container_offset = (@ + 1) % CAPACITY]
        ELSE [c EXCEPT !.container_index = put(c.container_num),
                       !.container_num = IF c.container_offset + 1 >= CAPACITY
                                         THEN @ + 1 ELSE @,
                       !.container_offset = (@ + 1) % CAPACITY]

Used(c, n) ==
    IF n \in c.vm_containers THEN c
    ELSE [c EXCEPT !.vm_containers = @ \cup {n},
                   !.cds_containers = IF n < 0 THEN @ + 1 ELSE @]

ContainBlock(c, b, cds) == Used(Placed(c, b, cds), Placed(c, b, cds).container_index[b])

do_container_freq(c, blocks, cds) ==
    LET after[n \in 0..Len(blocks)] ==
            IF n = 0 THEN c ELSE ContainBlock(after[n - 1], blocks[n], cds)
    IN  after[Len(blocks)]

NonCdsContainers(c) == c.container_num + (IF c.container_offset > 0 THEN 1 ELSE 0)

CdsContainers(c) == -c.cds_container_num - 1 + (IF c.cds_container_offset > 0 THEN 1 ELSE 0)

(* main with a list of VMs: the blocks of the traces of each, one trace after the other,
   and a summary that forgets what the VM used. *)
LoadsOf(vm) == FlattenSeq([n \in DOMAIN vm |-> BlocksOf(FreqSegments(vm[n]))])

NoFreqs == [block_freq |-> << >>, vm_blocks |-> {}, uniqBlocks |-> << >>, newBlocks |-> << >>]

FreqsOfVm(f, vm) == [do_block_freq(f, LoadsOf(vm)) EXCEPT !.vm_blocks = {}]

BlockFreqs(list) ==
    LET after[n \in 0..Len(list)] ==
            IF n = 0 THEN NoFreqs ELSE FreqsOfVm(after[n - 1], list[n])
    IN  after[Len(list)]

NoContainers == [container_index |-> << >>, vm_containers |-> {}, cds_containers |-> 0,
                 container_num |-> 0, container_offset |-> 0,
                 cds_container_num |-> -1, cds_container_offset |-> 0]

ContainersOfVm(c, vm, cds) ==
    do_container_freq([c EXCEPT !.vm_containers = {}, !.cds_containers = 0], LoadsOf(vm), cds)

ContainerFreqs(list, cds) ==
    LET after[n \in 0..Len(list)] ==
            IF n = 0 THEN NoContainers ELSE ContainersOfVm(after[n - 1], list[n], cds)
    IN  after[Len(list)]
=============================================================================
