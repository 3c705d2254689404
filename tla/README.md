# Specifications of bigarchive

bigarchive backs up virtual machine snapshots to QFS with deduplication.  This directory
holds TLA+ models of it, what TLC checks of them, and proofs.  Paths are relative to the
repository.

## 1. The system

| part | sources | state | operations |
|---|---|---|---|
| log files | `src/fs/qfs_file_helper.*` | a file of length-prefixed logs, an open QFS handle | Create, Open, Write, Read, Flush, Seek, Close |
| chunk | `src/append-store/append_store_chunk.*` | data file, index file, delete log; buffer `mBlockStream`, `mMaxIndex`, `mLastData`, output handles | Append, Flush, Read, Remove, Close, Enable/DisableRead/Write |
| index | `src/append-store/append_store_index.*` | records `[mOffset, mIndex]` of one chunk | LoadFromFile, find, bisearch |
| append store | `src/append-store/append_store.*` | writer, readers by chunk, delete chunks, block cache, ids | Append, Read, Remove, Flush, Reload, GarbageCollection, Close |
| scanner | `src/append-store/append_store_scanner.*` | chunk list, current data file, delete set | Next |
| snapshot writer and reader | `src/snapshot/snapshot_write.cpp`, `snapshot_read.cpp`, `snapshot_control.*`, `snapshot_types.*` | snapshot and segment recipes, parent's recipe, buffer of recipes | one run of the program |
| CDS | `src/snapshot/cds_*.cpp` | data file in QFS, memcached index and data caches | load, BatchGet, Read, verify |
| Bloom filters | `src/snapshot/bloom_filter*`, `snapshot_control.cpp:168-292` | bit set, hash functions; `vm.meta`, two filter files per snapshot | AddElement, Exist, Clear, Merge, Reset, save, load, remove |
| traces | `src/snapshot/trace_types.*`, `data_source.*` | position in a trace file; segment with its checksum and min-hash | LoadFixSize, GetSegment |
| dirty bits | `src/snapshot/dirty_bit.*` | a bit per segment | Generate, Test |
| common data store | `src/append-store/common_data_store.*` (in no build file) | data file, index file, partitions; index records not yet written | BatchAppend, Flush, Close, GeneratePartitionIndex |
| simulations | `src/simulation` | traces in; caches, indexes, bins, filters, heaps | dedup levels, deletion, sampling, frequencies, binning, trace generation |
| tools | `src/tools` | traces in; a store file of blocks with reference counts | CDS distillers and simulator, run lengths, distributions |
| tests | `src/test` | | clients of the store |

How they interact.  A client (snapshot_write, the tests) calls a store; the store calls the
one writer chunk, or the reader chunk of a handle, and turns one off when it turns the other
on.  A chunk writes two files through log-file helpers.  The scanner reads the same files
from another process.  The Bloom filters of a VM are made by one process and loaded by others.
The simulations and tools read the traces that the backup reads, and some the files that others
wrote.  snapshot_write reads a trace and its parent's recipe, asks memcached,
writes blocks and segment recipes to the store and then two files of its own.  Nothing in the
program is threaded: what makes it hard is *processes* (a writer, a reader, a scanner, each
with its cached view of the same files), *crashes* between two writes that only make sense
together, *retries* of writes that may have half happened, and *sequences of calls* through
the permission switches.

What makes each part correct, in short:

- chunk: a handle that Append returned gives back its data, for ever, and is never given
  again; the index file stays sorted, on which the binary search rests;
- index: the search finds the block that holds an index;
- store: it is a map from handles to data that only grows, whatever chunk, cache or reader
  is involved; QFS never sees a file open both ways; Close makes everything durable;
- scanner: the live records in order, none twice, none of the removed;
- snapshot: a finished snapshot restores as written, whatever later runs do; its filters hold
  every block;
- CDS: what a recipe recorded is read as it was, or an error is; a clean verification means that
  memcached is right;
- Bloom filters: an element that was added is found, through Clear, Reset, Merge, files and deaths;
  all filters of a VM have one size, or they cannot be merged;
- traces: segments cut the trace without gap or overlap; dirty bits: a bit is set exactly for a
  segment that changed (3.1: it is not);
- common data store: an index record names the log that holds its block, and the partitions are the
  index;
- simulations and tools: what one counts is what another one, or the definition, counts; a deletion
  frees nothing that an older snapshot has.

The hazards, each at its line, are in `PROJECT.json`.

## 2. The modules

| module | models | uses |
|---|---|---|
| `LogFile` | a data file as cells (headers, records), what reading at a position gives, what a crash leaves | |
| `IndexFile` | index records; where a block starts; the position `find` is to return | |
| `Chunk` | a chunk opened for append, with failing writes and crashes | `LogFile`, `IndexFile` |
| `IndexVector` | the loop of `bisearch` | `IndexFile` |
| `HandleStore` | abstract: handles, values, what is durable | |
| `AppendStore` | `PanguAppendStore` over its chunks, without failing writes; implements `HandleStore` | `IndexFile`, `HandleStore` |
| `Scanner` | `AppendStoreScanner` beside removals by another process | |
| `Snapshot` | runs of `snapshot_write` and what `snapshot_read` restores | |
| `Cds` | the CDS between its loader, the snapshot programs, the verifier and two memcacheds | |
| `Bloom` | bits, hash functions, filter files and `vm.meta` of a VM, with deaths | |
| `CommonDataStore` | the store's writer, its partitioner, failing writes and deaths | |
| `Trace` | traces, segments, dirty bits | |
| `Dedup` | `cds_sim`, both distillers, `local_minhash`, `fp_del_sim`, `id_del_sim` | `Trace` |
| `Sampling` | `sampling`, `theory`, `freq` and their LRU cache | `Trace` |
| `Binning` | `binning` | `Trace` |
| `TraceGen` | `tracegen`, `trace_stat`, `test_trace_generator` | `Trace` |
| `HashHits` | `hash_hit_length`, `hash_hit_benchmark`, `hash_distribution`, `trace_analysis` | `Trace` |
| `Offline` | these programs over one set of traces, and the properties that relate them | the five above |
| `MC*` | small instances for TLC | |
| `ChunkProofs`, `AppendStoreProofs` (with the theorems of `Scanner`), `SnapshotProofs`, `CdsProofs`, `BloomProofs`, `CommonDataStoreProofs`, `OfflineProofs`, `ToolsProofs` | theorems | `TLAPS` |

Operators whose names end in an underscore and a word, marked "mutant", are wrong variants of the
definition that follows them, one for each property: TLC finds the property violated when the
variant takes the place of the definition.  No specification uses them.

How state and actions correspond to the code:

**Chunk.**  The data file is a sequence of cells: a header cell with the number of records of a
log, then a cell per record.  A torn write leaves a proper prefix of the cells of a log.
`AppendRecord` is `Append`; when it fills the buffer it goes to pc "data", as do `Flush` and
`Close`.  `WriteData` / `WriteDataFails` are the try and the retry in `AppendRaw`, `WriteIndex`
/ `WriteIndexFails` those in `AppendIndex`; between them the process may die (`Crash`).
`CreateDataFile`, `CreateIndexFile` are the two halves of `CheckIfNew`; `Load` is `LoadIndex` and
`LoadData`.  `EnableWrite`, `DisableWrite` are the store's switches.  `acked`, `committed`,
`flight` and `settled` are history: no guard of an action of the code reads them.  `Faults` says
which faults a run has.

**IndexVector.**  One action per branch of the loop: `Hit`, `GoRight`, `GoLeft`, `GiveUp`.

**AppendStore.**  A chunk on disk is its blocks.  `AppendToCurrent`, `AppendToNext` and
`AppendToLoaded` are `Append` with the three outcomes of `LoadAppendChunk` (the writer has room,
the next chunk, the last chunk of an opened store); `ReadCached`, `ReadNoChunk`, `ReadLoaded`,
`ReadNew` are the four ways through `Read`.  `Visible` is what a new reader sees of a chunk that is
still being written: QFS may show what is not synced or not, and the choice is nondeterministic.
`Die` is the end of the process; `MayDie` says of what: it is killed, its destructor flushes
through a handle that is gone, or it uses a delete chunk whose handles are closed or were never
set.  `Calls` is what the client does.

**Scanner.**  `LoadBlock`, `NextChunk`, `EndOfScan`, `SkipRecord`, `ReturnRecord` are the turns of the
loop of `Next`, `InitScanner` is `Init`; `RemoveRecord` is another process.  The `front()` of an empty deque is undefined: the
log read then is any chunk's or none.

**Snapshot.**  `Begin` to `FlushAndClose` are the stages of `main`; `SegmentInParent` and
`WriteSegment` are the turns of its loop (L1; L2, CDS and new data).  Everything that may happen
to the append store between calls is `Sync` (a chunk was closed) and `Die`.  A block stands for its
checksum, all blocks have size 1, a meta or filter file is written whole or not at all, and the
CDS does not change.

**Cds.**  Four processes.  The loader: `BeginLoad` (remove and make the directory), `CreateFile`, then
`SetIndex` and `WriteBlock` in turn, which is the order in the code, and `EndLoad`; `LoaderDies`
leaves a prefix of what was written.  The writer of snapshots: `Record`.  The reader: `OpenData`,
`ReadCache`, `ReadFile`.  The verifier: `VerifyBlock`.  memcached forgets (`Evict`) and refuses
(the alternatives of `SetIndex` and `ReadFile`).  A data file is a sequence of cells, one for each
unit of a block's size, so that a wrong offset reads pieces of two blocks; `files` keeps the files
that were removed, because a reader may have one open.

**Bloom.**  A filter is the set of its positions that are set.  `CreateMeta`, `WriteMeta` are the two
halves of the first `InitBloomFilters`, `ReadMeta` is every later one, and `InitBloomFilters` the two
constructors.  `UpdateBloomFilters`, `Clear`, `Reset`, `Merge`, `LoadBloomFilter`, `RemoveBloomFilters`
are the methods, called in any order; `CreateFile` and `WriteFile`, for one kind after the other,
are `SaveBloomFilters`.  `Exit` and `CutFile` end the process, the second within a write: the file
has its first bits, and what a load finds behind them is memory that nobody set.  `members` is
history: what the filter is to hold.

**CommonDataStore.**  Two programs.  The writer: `Open` and `CreateIndex` (the files are made one after
the other), `BatchAppend`, `AppendBlock`, `FlushIndex`, `Return`, `Close`; `WriteFails` tears the log
being written and throws, `Die` ends the process, perhaps within a write.  The partitioner:
`Generate`, `CreatePartition`, `ReadRecord`, `DistributeRecord`, `EndOfRecords`, `FinishPartition`,
`PartitionFails`: it makes the partitions one by one, takes an index log, gives its records to the
streams of the partitions one by one, and at the end flushes the streams one by one.  The writer may
append between any two of these steps.  An offset counts logs.

**Trace to Offline.**  The offline programs are sequential and keep nothing between runs but one store
file (`HashHits`): each is an operator from its traces to what it computes, named after the variable
or function of the program.  A block stands for its checksum, and a segment for the checksum of its
blocks in the order loaded.  The state of `Offline` is the set of all traces, which `NextBlock`,
`NextSnapshot`, `NextVm` write; its invariants say what the programs' results have to do with each
other.  A program that changes blocks at random gives a set of results.

## 3. What TLC checks

Passing runs:

| run | shows | bounds |
|---|---|---|
| `ChunkAllFaults` | types; `IndexSorted`; `SettledReadable`; `DurableStays`, `ReadableStays`, under every fault | 2 values, 3 indices, 2 failed writes, 1 crash: two blocks with a torn or lost one between them, and a session after it |
| `ChunkBenign` | `ReadYourWrites`, `CommittedDurable`, `NoReissue`, `AckedBecomesReadable` when writes fail cleanly, an index write fails at most once, and a crash keeps the two files in step | the same with 4 indices |
| `IndexVectorFind` | the search agrees with its reference, and returns | every sorted index up to the bound, every key |
| `AppendStoreSafe` | types, `AckedHeld`, `ClosedSurvives`, `RefreshedFound`, `ReaderOrWriter`, and the refinement of `HandleStore` | 2 chunks of one block, 3 appends, 1 death: a roll-over, a reopened store, a read of the chunk being written |
| `ScannerAll` | types, `InOrder`, `AllWhenNothingRemoved`, `FirstChunkRight`, `ScanEnds` | no chunk, one, two with a gap, three with an empty one |
| `SnapshotAll` | `SoundRestores`, `FiltersComplete` with crashes and batches of 2 | 2 snapshots, 3 runs, images of two and three segments with shared, moved and repeated blocks |
| `CdsAll` | `ReadRight`, `FinishedReadable`, `VerifiedRight` | 2 loads of 3 traces (one extends another, one has its blocks in another order and a block that ends the load), blocks of sizes 0 to 2, one recorded offset |
| `BloomAll` | types (no bit out of range), `NoFalseNegative`, `SameTotalBits` | 1 snapshot, 2 elements that share positions, sizes of 0 to 2 items in filters of 2 and 4 bits, 2 functions of a filter and 5 after a reset; every order of calls and deaths, without a bound |
| `CommonDataStoreAll` | types, `IndexRight`, `PartitionsRight` | 3 batches of 1 to 3 blocks that repeat, 2 deaths or failed writes, 2 records per index write, 2 partitions |
| `OfflineAll` | `DuplicatesRight`, `DeletionSafe`, `IndexesRight`, `ToolsRight` | all traces of up to 4 blocks in up to 3 snapshots and VMs; 4 checksums with sizes 0, 1, 1, 2, segments of 2; containers, caches, groups and chains of 2 |

A run that passes says what the code achieves, under faults or with restrictions that its .cfg
names: `AppendStoreSafe` leaves out "read-first" (below), `ChunkBenign` the faults that 3.1 lists.
A run that expects a violation states what a comment, a document or an assertion of the repository
says and shows an execution of the code in which it does not hold; each is a finding in
`PROJECT.json`, with the line and the quotation.

| violation run | property | what happens |
|---|---|---|
| `ChunkCrash` | `CommittedDurable` | crash between data and index write displaces later blocks |
| `SnapshotTail` | `RestoreRight` | the last recipes are never saved |

`SnapshotAll` and `SnapshotTail` fit together: what a finished snapshot restores is what was
written but for the last, unfinished batch of recipes.  With `DF_MAX_PENDING = 1` and no fault,
`RestoreRight` itself holds.

Deadlock is checked in `BloomAll` only, which has no bound on steps: every other model stops at its
bounds, and the programs end.

**Why the bounds suffice.**  The hazards are between a block and its neighbours: its index record,
the block before it, the object that wrote it and the one that opens the files next.  Two blocks
and one restart show each; the third index or append is the one that goes wrong afterwards.  For
the CDS they are between one load and the next, and between a block and the one that follows it;
each recorded offset is read by itself.
A filter file matters to the process that loads or merges it, with a filter that is empty, filled, or
reset since: the files of one snapshot, which processes write and load in turn, show all pairs; that
the filters of any number of snapshots agree is proved.  In `CommonDataStore` a torn log matters to the record after it, which a second batch
writes.  The offline programs relate a segment to the one at the same place in the parent, in another
VM, or behind it in the trace; four blocks make two segments in each of two snapshots, or fill every
container, cache and chain and begin the next.

**Fairness.**  `ChunkBenign`: the object takes the steps of a call it has begun (nothing else runs in
the process), a store turns its writer on again, and the caller flushes in the end, by Flush, Close
or the destructor; failing writes are bounded by `MaxFaults`, and two failures of one index write
are excluded.  Flush is strongly fair because a caller that keeps appending disables it for the time
of the call.  Crashes are not fair, and excuse what they lose.  `IndexVectorFind`: the loop runs.
`ScannerAll`: the client calls Next until it returns false; nothing is assumed of the process that
removes.

### 3.1 Disagreements without a run of their own

Found while modelling, and reproduced as said; the lines are of files in `src/src/append-store/` and
`src/src/snapshot/`.

| where | what the repository says | what the code does | to see it |
|---|---|---|---|
| `append_store_chunk.cpp:645` | `store.h:31`: a handle "can be used to retrieve the data later" | `AppendRaw` retries a torn write after the piece that the first try left; the new block starts after the piece, readers start at the piece | `ChunkBenign` with "data-torn": `ReadYourWrites` |
| `append_store_chunk.cpp:178` | `append_store_chunk.h:78`: mMaxIndex is the "max index allocated so far" | when the retry of the index write fails too, the next object reads mMaxIndex from the index file and hands out the same indices | `ChunkBenign` with "index-twice": `NoReissue` |
| `append_store_chunk.cpp:82` | `append_store_chunk.h:102`: "create them if necesary" | a crash between the two creations leaves a chunk that `CheckIfNew` (:74-78) refuses for ever | `ChunkAllFaults`: `Reopenable` |
| `append_store_chunk.cpp:100` | `store.h:63`: "flush data to disk" | `Flush` never syncs | `AppendStore`: `Flush`, then `Die` |
| `append_store_chunk.cpp:94` | `append_store_chunk.cpp:443`: "save remaining data before close" | `DisableWrite` drops the handles and keeps the buffer; the destructor flushes through NULL | `AppendStore`: `Orphaned` |
| `append_store.cpp:94` | `append_store.h:43-46`: "turn on read will disable write to the same chunk, and vice versa" | `GarbageCollection` leaves mCurrentRandomChunk, which `TurnOnWrite` does not know | `AppendStore`: `GarbageCollection`, then `AppendToCurrent`; the restriction to `mChunkMap` in `ReaderOrWriter` |
| `append_store.cpp:342` | `append_store_chunk.cpp:116`: "Chunk is full but still used somehow" | the first `Append` of a store opened on a full chunk throws | `AppendStore`: `AppendToLoaded` |
| `append_store.cpp:123` | `store.h:70`: "ask reader to refresh the index files" | `LoadRandomChunk` loads the index before `TurnOnRead` syncs the writer: what was flushed is not found until the next `Reload` | `RefreshedFound` promises only what was synced |
| `append_store.cpp:391` | `store.h:57`: "remove a data block referred by handle" | `Remove` after `Close` uses the NULL handle of a closed delete chunk | `AppendStore`: `MayDie`, third case |
| `append_store_scanner.cpp:212` | `store.h:57`, as above: no other block | records that nobody removed are skipped, by the log of another chunk | `ScannerAll`: `LiveReturned` |
| `snapshot_write.cpp:168` | `snapshot_write.cpp:226`: "to make segment meta data placed sequencially on disk" | a segment found in the parent enters the recipe before the buffered ones that precede it | `SnapshotAll`: `SameSize` shows the consequence |
| `snapshot_write.cpp:243` | `snapshot_write.cpp:2`: "Writes a snapshot into append store" | the snapshot meta is saved before the data is synced; after a crash a child takes over handles that are lost, and finishes | `SnapshotAll` with `DF_MAX_PENDING = 1`: `RestoreRight` |
| `snapshot_write.cpp:208` | `snapshot_write.cpp:211`: "if found in CDS, it should return the data offset in CDS data file" | the result of `BatchGet` is ignored; when memcached_mget fails, the answers are those of an earlier segment | `SnapshotAll` with `DF_MAX_PENDING = 1`, "cds-down": `RestoreRight` |
| `cds_loader.cpp:50` | the same line, :211 | a load replaces the data file and leaves in memcached the offsets of blocks that the new trace has not; what snapshots recorded, and what they go on finding, is other data | `CdsAll`: `IndexRight` |
| `append_store.cpp:504` | `append_store.h:43-46`, as above | `TurnOnWrite` returns early when the writer can already write, as a freshly loaded one can, and leaves open a reader that an earlier `Read` of the same chunk made | `AppendStoreSafe` with "read-first" in `Calls`: `ReaderOrWriter` |
| `append_store_scanner.cpp:212` | `store.h:57`, as above | `Next` reads the delete log of the front of the list after it popped the chunk it moves to: removed records of every chunk but the first are returned | `ScannerAll`: `RemovedSkipped` |
| `snapshot_write.cpp:173` | the assertion there: `par_seg.size_ == cur_seg.size_` | with the parent's recipe out of order, `DeserializeRecipe` gives its segments differences of unrelated offsets | `SnapshotAll`: `SameSize` |
| `bloom_filter.h:179` | `bloom_filter.h:155`: "merge with an existing bloom filter" | `Merge` intersects the bits; a stream that ends early leaves the filter merged in part | `Bloom`: `Merged`; `members` after a merge is the intersection |
| `bloom_filter.hpp:98` | `bloom_filter.h:309`: Reset with other functions | the new functions are put behind the old ones, which stay the ones used | `Bloom`: `ResetTo` |
| `snapshot_control.cpp:285` | "Bloom filter loaded" (:286) | the answer of `Deserialize` is ignored: for an empty or cut file `LoadBloomFilter` returns true, with the old bits or with memory that nobody set | `Bloom`: `LoadBloomFilter` |
| `snapshot_control.cpp:179` | "init bloom filter params and store into vm meta" (:173) | a death between `Create` and `WriteData` leaves an empty `vm.meta`; every later run reads nothing from it and sizes the filters by memory that nobody set; a VM of less than one block writes 0 items, and every later run throws | `Bloom`: `SameTotalBits` without its first condition |
| `common_data_store.cpp:237` | `common_data_store.h:158`: the handle "is actually 64-bit offset in file", "used to retrieve the data" | the offset is the *end* of the log, and `mDataInputFH`, which `Read` uses, is set nowhere | `CommonDataStore`: `AddRecord` |
| `common_data_store.cpp:117` | `Init` opens or creates both files | a death between the two creations leaves one file, and `Init` never goes on | `CommonDataStore`: `Open` |
| `common_data_store.cpp:577` | `GeneratePartitionIndex` makes all partitions | a death leaves some, and every later call refuses to run because they exist | `CommonDataStore`: `Generate` |

Of the offline programs, no document says more than their names.  The operators do as the code does, and
these are the places where that surprises:

- `dirty_bit.cpp:23`: `i` is never incremented, `bitmap_` is reserved and never resized, and the test
  of the second load is the wrong way round: after `Generate` no segment is dirty.
- `cds_distiller.cpp:253`: `raw_blocks` leaves out the segments that the parent has.
- `local_minhash.cpp:85-198`: what the first snapshot shares with the CDS is in no counter.
- `fp_del_sim.cpp`, `id_del_sim.cpp`: the two files are the same program.
- `freq.cpp:213`: `topk_heap` makes room by deleting the least whatever the new count is, so only the
  k - 1 greatest are sure to be kept, and of k = 1 the last; with k = 0 it writes behind the array.
- `freq.cpp:692`: with a list of VMs, `cur_vm_path` is read before it is set.  `sampling.cpp` and
  `tracegen.cpp:343` keep a pointer into a string that is gone.
- `hash_hit_length.cpp`: the run that is open at the end is not recorded; the store is truncated (:48)
  before the work begins, so that a death loses it.
- `lru_cache.cpp:58`: a cache of size 0 drops the head of an empty list.
- `sampling.cpp:159`: a trace with more segments than the index trace is compared with what is behind
  the vector (`WithinIndex`).
- `binning/dedup_types.hpp:221` compares the addresses of two arrays: the "min hash" of a segment is
  that of its first block, or its last, as the stack and the heap lie (`MinIdx`).
- `tracegen.cpp:306`: a loop with more than 1009 VMs writes over the files of the next loop's.

## 4. What is proved

Proofs are checked by TLAPS, for every value of the constants that the named `ASSUME`s allow.  A
theorem that needs more than them states it as a hypothesis; seven do, and the reason is given with each.

### 4.1 Chunk (`ChunkProofs`, from `ChunkAssumption`)

- `TypeCorrect`: `Spec => []TypeOK`, by itself inductive (it holds `NoEmptyBlock`).
- `DurableForever`, `ReadableForever`: action properties.  Every step but a crash only appends to the
  two files, and what a reader finds in a prefix of both it finds in their extensions (lemmas
  `DiskStep`, `ReadsGrow`, `CutsExtend`); a crash keeps at least what was synced.
- `IndexStaysSorted`, `SettledStaysReadable`: from the inductive invariant `IInv`.  Sortedness alone is
  not inductive: the record about to be written has `mMaxIndex` at the time of the data write, so the
  invariant adds that the buffer holds the last indices given out, all above the index file
  (`BufferNumbered`), and that the block in flight is at the end of the data file and numbered
  (`FlightWritten`).  `SettledReadable` needs, of each settled handle, where its pieces are
  (`SettledOnDisk`), and that they do not move as the files grow.
- `NothingAckedIsLost`, `ClosedIsDurable`, `CommittedNotReissued`, the three properties that `ChunkBenign`
  checks, if `Faults \subseteq BenignFaults`: a failed data write leaves nothing, an index write fails at
  most once, a crash cuts both files at the end of one block.  The hypothesis is the one that the code
  needs: without each of the three there is an execution in which a property is false (run `ChunkCrash`,
  and "data-torn" and "index-twice" in 3.1).  With them the two files always end at the same block,
  except between the two writes, when the block that is missing in the index is the one in flight
  (`FilesAligned`); then the next block starts where its record says.  The invariant `BInv` adds where
  every acknowledged handle is (`AckedKept`: buffer, flight, or settled), that a chunk has nothing in its
  buffer when it is not open (`BufferEmpty`), and that what was committed lies in the synced part of both
  files (`CommittedKept`).

### 4.2 Index search (`ChunkProofs`, from `IndexVectorAssumption`)

`FindIsCorrect`, `SearchInBounds`, by the invariant that everything before `first` is below the key and
what `last` excluded is not (`Narrowed`).

### 4.3 Append store (`AppendStoreProofs`, from `AppendStoreAssumption`)

`AppendStoreTypes`, `AppendedIsHeld`, `ClosedIsDurable`, `RefreshedIsFound`, all by one inductive invariant
`IInv`, and `ReadsOrWrites`, from `"read-first" \notin Calls` as well (a client that reads in an append
session before it appends has a reader open that the first `Append` does not close: the chunk that
`LoadAppendChunk` makes can write already, and `TurnOnWrite` then does nothing).  None of the five is
inductive alone:

- `AckedHeld` numbers records twice if two places disagree on the last index.  The invariant says that the
  blocks of a chunk are numbered one above the other (`DiskNumbered`), and that the writer's buffer starts
  where the index of its chunk ends (`WriterNumbered`), also while it is turned off.
- `ClosedSurvives` needs that only the chunk that is open for append has blocks that are not synced
  (`SyncedRight`), since `Close` syncs no other.
- `RefreshedFound` needs that what was promised is in what each reader loaded (`PromiseRight`): readers
  never load again, and a new one loads at least what was synced, before `TurnOnRead` syncs the rest.
  That the search by index finds it there is `ReadBlockFinds`.
- The chunk of the writer is the last one (`SessionRight`), so that a rollover makes a chunk nobody has.

The proof takes the data first (one lemma for each action, `AppendToNextData` and the like, ending in
`Data'`, and in `Keeps`: what was on disk or synced still is), then the session, then the readers.

`KeepsPromises`: `Spec => ImplementsHandleStore`, the refinement.  An Append that returns a handle is
`Put`, because its index is above all of its chunk's (`HandleIsNew`); the death of the process is `Lose`;
every other step is `Get`, of the handle that the store has as its answer, because answers are held and
durable data only grows.  `OneValuePerHandle` uses it: `HandleStore` keeps its types, and no two values
under one handle, so the store does.

### 4.4 Scanner (`AppendStoreProofs`, from `ScannerAssumption`)

`ScannerTypes`, `ScansAll`, `FirstChunkScanned`, and `ScansInOrder` if the records of each chunk ascend.  The
hypothesis holds of the chunks that `Chunk` makes (`IndexStaysSorted`); a store whose indices were
handed out twice (3.1, "index-twice") is scanned in the order of its file, which is all that a scan can do.

- `SInv` says where the scan is: the chunks behind the one that is read are those with greater ids, in
  order (`AtChunk`), what is left to return is the end of the block that was read last (`AtRecord`), and a
  scan is over with nothing left (`AtEnd`).  That the list of the chunks is sorted and complete is
  `SortedListExists`, by counting the ids below each.
- `PInv` says what was returned of the records that were passed (`Passed`): nothing else; all of them when
  nothing was ever removed; and of the first chunk exactly those that were not removed when the scan
  began, because the delete set that `InitScanner` read is that chunk's while it is read.

The first chunk is the one with the least id, also when it has no record: with the chunk of the first record
in its place `FirstChunkRight` is false, as the proof showed, because the delete set is then that of another chunk.

### 4.5 Snapshot (`SnapshotProofs`, from `SnapshotAssumption`)

`SnapshotAssumption` says that a segment has a block, as `LoadFixSize` gives no other; two segments then never
have the same offset.

- `FiltersHaveAll`, with every fault.  The filters are inductive with where the run is (`Stages`): a
  snapshot counts as finished only while its meta file exists, and the run that replaces the filters has
  removed it.
- `SnapshotTypes`, `RecipesInPlace`: whatever was out of order when a recipe was made (3.1, line 168), every
  entry is a segment of the data at its offset, none occurs twice, and fewer than `DF_MAX_PENDING` are
  missing.  The invariant (`Placed`) says the same of the recipe and the buffer of the run, of the
  segments that it has read.  The end of the n-th segment is a sum, a recursive function: that it exists
  and grows is `EndExists`, `EndProps`.
- `SoundRecipesRestore` and `SnapshotSoundRestores` (`SoundRestores` of the run), if `"cds-down"` is not
  among the faults: after a `BatchGet` that fails they are false (3.1, line 208).  A snapshot shares
  recipes and blocks with its parent, so the invariant says what is found in the first entries of the
  store (`GoodSegment`): for sound snapshots in the part that is synced (`OnDisk`), and for the run, as
  long as its parent is sound, in the whole store (`InMemory`); `FlushAndClose` makes the one the other.
  What is good stays good when the store grows, or is cut behind it (`GoodStays`).  The lemmas on
  `Select` and `RankIn` say that the answers of `BatchGet` and the new blocks in the store are in the
  order of the questions (`RecipeProps`), and `StoreProps` that a batch of recipes lies where
  `SaveRecipes` says.  With `RecipesInPlace`, the entries and the segments that restore are as many.

### 4.6 CDS (`CdsProofs`, from `CdsAssumption`)

`CdsTypes`, `ReadsAreRight`, `RecipesReadable`, `CleanVerification`.

The properties of reading say nothing of how a file came about, so they are not inductive.  The invariant
says that, while every trace extends the one before it, there is one layout (`Layout`): an offset for
each block of the last trace up to the furthest that any loader got, each the sum of the sizes before
it.  Every file ever made has its cells where the layout has them and none beyond (`Laid`), every entry
of memcached and every recorded offset is one of the layout's (`Placed`), and the loader is at its
place in it (`Follows`).  A set at the end of the layout extends it, to where no file reaches
(`LayoutGrows`); a write keeps it (`LaidWrite`), and so do a death, which leaves a prefix (`LaidPrefix`),
and a longer trace (`LayoutKept`).  A loader ends where the layout does, so that a finished file has
every block placed.

`CleanVerification` (`VerifiedRight`) is about the last load only, whatever was loaded before.  The loader
stops at the first block that it cannot take, so its layout is the one that goes as far as possible
(`Maximal`; one exists, by `MaximalExists`).  The loader follows it (`LoadFollows`), and so does a
verification of the same trace that began after the load (`CheckFollows`): every block that it has
passed and that memcached still has is at its place in that layout.

### 4.7 Bloom filters (`BloomProofs`, from `BloomAssumption`)

`NeverFalseNegative`, `OneSize`, `BloomTypes`.  That an element is found is not inductive by itself: a load
gives a filter the bits of a file, so the invariant carries of each file that its bits hold the
positions of what was added, under the functions it was added with (`StreamRight`).  `SameTotalBits` needs
that no filter file is older than `vm.meta`, and that what a process is about to write to it, or has just
read from it, is what it holds (`MetaRight`).  `BloomTypes` says that no bit is out of the range of its filter,
through loads of cut files, merges and resets with other functions; it needs that a hash is a natural
number.  The hash is a recursive function in Horner's form, `v * BASE + digit`, for which no power is needed.

### 4.8 Common data store (`CommonDataStoreProofs`, from `CommonDataStoreAssumption`)

`CommonDataStoreTypes`, `PartitionsHoldIndex`, `IndexNamesBlocks`.

- The partitions are right at the end because they are at each step (`PartInv`): the records of all index
  logs that were read are those that were distributed and those that are left of the last log, and each
  partition has, in its file and its stream together, the records of its checksums of what was
  distributed, in order (`Distributed`, `Holds`).  In the end each stream is flushed in turn (`Finishing`).  The
  index may grow behind what was read; it never changes before it.
- An index record names its log because the log was written before the record was made and the data file
  only grows (`AllLocated`), and the offsets of the records increase, in the index and on to the stream
  that is not written (`OffsetsIncrease`), so that none occurs twice; what fails and is thrown away is the
  end of that sequence.  In a partition there is nothing that is not in the index (`Moves`).

The records of a file are a flattened sequence of logs, a recursive function of the community modules:
`FlatExists`, `FlattenAppend` and `RecordsOfAppend` say what it does when a log is added.  `OfPartition` flattens
sequences of one record or none, because `SelectSeq` is not a function that the prover can unfold.

### 4.9 Offline programs (`OfflineProofs`, `ToolsProofs`, from the assumptions of `Offline` and its modules)

`TracesAreTraces`: the traces are lists of blocks, and each VM has a snapshot, whatever is written.  The
other four say of all such traces what `OfflineAll` says of those of four blocks: a program that reads
traces is a function of them, so the proof is induction over sequences and sets, as in 4.10.

- `DuplicatesAreRight`.  A trace is the concatenation of its segments without its blocks of size 0, and each
  segment but the last is as long as it must be and no longer (`Segmented`, which says of the open segment
  that it is still short).  The programs look at VMs round by round: padded to the same number of rounds,
  the segments of a snapshot are the same blocks (`PaddedFlatten`, `InRounds`).  What a simulation finds with
  the CDS and what the distiller counted for it are two sums over one table of segments (`FoundAsCounted`,
  `TableAlike`, `AlikeFlatten`), and its partitions add up to it (`PartitionsAdd`).  The threshold of a share
  is the frequency of the last block taken, so that more frequent blocks are all in, and `FirstOf` takes
  as many of the others as are missing (`FreqThresholdIs`, `FirstOfCount`): a CDS grows with its share
  (`CdsOutputGrows`) and has the coverage that is printed (`CoverageRight`).
- `DeletionsAreSafe`.  A block that is freed is in the Bloom filter of no older snapshot, hence in no segment of
  the parent, hence was counted as new when it came (`FreedAreNotOld`, `FreedIsBrought`).
- `IndexesAreRight`, in three parts:
  - the cache.  The list is duplicate-free and its chains have what it has (`CacheOK`); it holds the last
    blocks of what was touched in the order of their last use, as many as fit (`Recent`), and a touch
    keeps both, whether it finds, adds or drops;
  - the look-ups.  Hits and misses are those of the blocks read so far, hits are blocks of the index trace, and
    no miss is a block that was sampled, as `LookedUp` says of the state of the loop.  That a loop
    keeps this is `RunExists` and `RunStays`: a program whose n-th step leads from one set of states to the
    next has a run, and each of its runs stays in them;
  - the bins.  A bin has the blocks of the segments of its hash, each once (`BinHas`), so the blocks of all
    bins are the pairs of a hash and a block of a segment with that hash (`Left`).  Segments, pairs and blocks
    are counted and their bytes added up by functions that add over disjoint sets (`IsMeasure`, `IsWeight`),
    and partitions and hashes cut what they measure into parts (`MeasureParts`, `WeightParts`).  Each block is
    in a pair at least, so that the theoretical index is the smallest (`FewerBlocks`).
- `ToolsAreRight` (`ToolsProofs`), tool by tool.  A program's loop is a sequence of states, a recursive function
  that is first shown to exist (`UpTo` and the lemmas `...Is`) and then to stay in its invariant (`...OK`).
  Counts are maps that grow by one entry or by one (`Incremented`, `IncrementedSum`).
  - `freq`: a block is counted when its VM has not been counted for it (`Once`), so its frequency is the number of
    VMs that have it (`BlockFreqsOK`, `FreqInMore`);
  - the heap of the most frequent: while it is repaired its order is broken at one place only, downwards
    from the top after `delete_min` (`OrderedBut`, `LowerOK`) and upwards from the end after `insert_min`
    (`OrderedUpTo`, `HigherOK`), and it has as many entries above each count as before (`AsMany`).
    Its top is therefore the least of what is kept (`TopIsLeast`), and what takes its place need not be
    greater: of the k entries only the k - 1 greatest are sure to be the most frequent (`SameTo`, `HeapFor`,
    `TopKOK`), as 3.1 says;
  - containers: each holds blocks of the CDS or others, `CAPACITY` at most, and only the open one of each kind
    has room (`Filling`, `CdsFilling`, `ContainBlockOK`);
  - runs of hits and misses: the lengths that are counted and the run that is open add up to the blocks read
    (`HitOK`, `HitsOrMissesOK`), and the store has what was read (`StoreAfterIs`);
  - buckets have the trace between them (`BucketsSplit`); generated traces and dumps keep segments
    (`VmsGeneratedRight`, `VmsDumpRight`); neighbouring test traces share what is not shifted out
    (`TestTracesAreRight`).  The last needs that a segment is not shorter than the shift, part of
    `TraceGenAssumption`: `test_trace_generator.cpp` shifts segments of 128 blocks by 64.

### 4.10 Recursion, and what is only model-checked

The library's induction rules take an operator as a parameter, which the installed backends cannot
instantiate.  Their place is taken by rules about sets: a set of numbers that has 0 and the successor of each of its
numbers has them all, and likewise for sequences and `Append`, and finite sets and one more element
(`NatSetInduction`, `SeqSetInduction`, `SetInduction`).  They follow from the least counterexample (`LeastNat`,
from `WFMin` and `NatLessThanWellFounded`), which the other modules use directly.  A recursive function
is first shown to exist (`BytesOfExists`, `AmongExistsIn`, `RunExists`), then known by its equations for the
empty sequence and for one more element (`SegmentsEmpty`, `SegmentsAppend`).  A sum over a set takes its
elements in an order that CHOOSE gives: `SumAny` shows that any order gives the same.  No module declares a
RECURSIVE operator.

Every safety invariant and safety action property that a passing run checks is a theorem.  Only model-checked:

- liveness (`AckedBecomesReadable`, `Returns`, `ScanEnds`): liveness under fairness and ENABLED are outside
  the prover's reach;
- what the violation runs and 3.1 show, which are executions.

## 5. Not modelled

Compression (a block is one cell sequence either way); a torn record at the end of an index file and
torn meta and snapshot files (torn filter files are in `Bloom`); the width of integers; QFS and
memcached themselves (what they keep of a file or an entry is nondeterministic); a CDS reloaded in the
middle of a `snapshot_write` (`Cds` and `Snapshot` are not composed); the store's meta file; the second
pass of `cds_verify`, which only prints; `CDSUtility::Read`, whose handle nothing sets when a store is
opened again; `theoretical` and `sampled` of `freq.cpp`, which it never calls; the headers of the
samples of a trace on disk; argument parsing, printing, timers, logging and exceptions as text; the
serialisation templates; vendored headers.

## 6. What is left

1. `Snapshot` over a CDS that is reloaded; the store's meta file.
