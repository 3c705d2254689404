------------------------------ MODULE Snapshot ------------------------------
(***************************************************************************)
(* Writing the snapshots of a virtual machine: the program snapshot_write  *)
(* (src/src/snapshot/snapshot_write.cpp) with SnapshotControl, CdsIndex and*)
(* the metadata of snapshot_types, and what snapshot_read.cpp gets back.   *)
(*                                                                         *)
(* A snapshot is a sequence of segments, a segment a sequence of blocks.   *)
(* For every segment the program looks for the data that it need not store *)
(* again: the same segment in the parent snapshot (L1), the same block in  *)
(* that segment (L2), the same block in the common data store (CDS).  The  *)
(* other blocks go to the append store of the VM, and so does the recipe of*)
(* the segment: where each block is.  The recipe of the snapshot, where    *)
(* each segment recipe is, goes to a file of its own.                      *)
(*                                                                         *)
(* The append store is a log of entries, as AppendStore keeps it: a handle *)
(* is a position, a process that dies loses what is not synced from the    *)
(* end, and the next process gives those handles out again.  The CDS does  *)
(* not change.  A checksum stands for its data.  All blocks have the same  *)
(* size, 1.  A meta or filter file is written whole or not at all.  A data *)
(* source ends at a segment without blocks (Segment::LoadFixSize): none is *)
(* in a snapshot.                                                          *)
(***************************************************************************)
EXTENDS Integers, Sequences, FiniteSets

CONSTANTS
    Block,          \* what a block holds, and its checksum
    CdsFile,        \* the CDS data file: a sequence of blocks
    Images,         \* the snapshots to write
    SnapshotId,     \* snapshot_id_, of one VM
    DF_MAX_PENDING, \* segments whose recipes are saved together
    Faults,         \* the faults that may happen, a subset of FaultKind
    MaxWrites       \* bound: runs of snapshot_write

(* "crash": the process is killed; "cds-down": memcached_mget fails. *)
FaultKind == {"crash", "cds-down"}

ASSUME SnapshotAssumption ==
    /\ CdsFile \in Seq(Block)
    /\ Images \subseteq Seq(Seq(Block) \ {<< >>})
    /\ DF_MAX_PENDING \in Nat \ {0}
    /\ Faults \subseteq FaultKind
    /\ MaxWrites \in Nat

VARIABLES
    (* on disk *)
    log,            \* the append store
    synced,         \* how much of it survives the process
    metas,          \* the snapshot recipe file of each snapshot, or NoMeta
    filters,        \* the Bloom filter files of each snapshot, or NoFilter
    (* in the process *)
    pc,             \* "none", or what it is about to do
    job,            \* the arguments: the snapshot, its data and its parent
    parentRecipe,   \* parent->ss_meta_.snapshot_recipe_
    segments,       \* segments read from the data source
    snapshotRecipe, \* current->ss_meta_.snapshot_recipe_
    pending,        \* seg_meta_buf
    filter,         \* the blocks added to the Bloom filters
    answers,        \* results and offsets, as the last BatchGet left them
    (* bound *)
    writes,
    (* history *)
    completed,      \* the data of each snapshot whose write ended, or NoData
    sound,          \* those whose parents were completed, too
    error           \* the assertion that failed

diskVars == <<log, synced, metas, filters>>
memoryVars == <<parentRecipe, segments, snapshotRecipe, pending, filter, answers>>
historyVars == <<writes, completed, sound, error>>
vars == <<diskVars, pc, job, memoryVars, historyVars>>

Flag == {"IN_CDS", "IN_AS", "IN_PARENT"}

NoMeta == [exists |-> FALSE, recipe |-> << >>]

NoFilter == [exists |-> FALSE, elements |-> {}]

NoData == << >>

NoSnapshot == "none"

BlockMeta(b, handle, flags) == [cksum |-> b, handle |-> handle, flags |-> flags]

SegmentMeta(data, end, handle) == [cksum |-> data, end_offset |-> end, handle |-> handle]

BlockEntry(b) == [kind |-> "block", data |-> b, recipe |-> << >>]

RecipeEntry(recipe) == [kind |-> "recipe", data |-> "none", recipe |-> recipe]

(* DeserializeRecipe: size_ is what the end offsets say.  It is a uint32_t: a
   negative difference is a size that no segment has. *)
SizeIn(recipe, k) ==
    recipe[k].end_offset - (IF k = 1 THEN 0 ELSE recipe[k - 1].end_offset)

(* The position of each member of a set of positions among them. *)
RankIn(S, p) == Cardinality({q \in S : q <= p})

Select(seq, S) == [n \in 1..Cardinality(S) |-> seq[CHOOSE p \in S : RankIn(S, p) = n]]

-----------------------------------------------------------------------------
(***************************************************************************)
(* snapshot_read: the blocks of a segment, or none when one is not found.  *)
(***************************************************************************)
IsRecipe(handle) == handle \in DOMAIN log /\ log[handle].kind = "recipe"

(* LoadBlockData and CdsData::Read find a block of the right size. *)
Loads(bm) ==
    IF "IN_CDS" \in bm.flags THEN bm.handle + 1 \in DOMAIN CdsFile
    ELSE bm.handle \in DOMAIN log /\ log[bm.handle].kind = "block"

DataOf(bm) == IF "IN_CDS" \in bm.flags THEN CdsFile[bm.handle + 1] ELSE log[bm.handle].data

Restores(sm, data) ==
    /\ IsRecipe(sm.handle)
    /\ LET recipe == log[sm.handle].recipe
       IN  /\ Len(recipe) = Len(data)
           /\ \A k \in DOMAIN recipe : Loads(recipe[k]) /\ DataOf(recipe[k]) = data[k]

RestoresImage(id, image) ==
    LET recipe == metas[id].recipe
    IN  /\ Len(recipe) = Len(image)
        /\ \A k \in DOMAIN image : Restores(recipe[k], image[k])

-----------------------------------------------------------------------------
Init ==
    /\ log = << >> /\ synced = 0
    /\ metas = [id \in SnapshotId |-> NoMeta] /\ filters = [id \in SnapshotId |-> NoFilter]
    /\ pc = "none" /\ job = [id |-> NoSnapshot, image |-> NoData, parent |-> NoSnapshot]
    /\ parentRecipe = << >> /\ segments = 0 /\ snapshotRecipe = << >> /\ pending = << >>
    /\ filter = {} /\ answers = << >>
    /\ writes = 0
    /\ completed = [id \in SnapshotId |-> NoData] /\ sound = {} /\ error = "none"

(* main, up to its loop.  A parent without a meta file has no segments. *)
Begin(id, image, parent) ==
    /\ pc = "none" /\ writes < MaxWrites
    /\ id # parent
    /\ pc' = "segments" /\ writes' = writes + 1
    /\ IF parent # NoSnapshot /\ metas[parent].exists
       THEN /\ job' = [id |-> id, image |-> image, parent |-> parent]
            /\ parentRecipe' = metas[parent].recipe
       ELSE /\ job' = [id |-> id, image |-> image, parent |-> NoSnapshot]
            /\ parentRecipe' = << >>
    /\ segments' = 0 /\ snapshotRecipe' = << >> /\ pending' = << >> /\ filter' = {}
    /\ answers' = << >>
    /\ UNCHANGED <<diskVars, completed, sound, error>>

(***************************************************************************)
(* One turn of the loop: the next segment.                                 *)
(***************************************************************************)
HasSegment == pc = "segments" /\ segments < Len(job.image)

Current == job.image[segments + 1]

EndIn(image, n) ==
    LET end[k \in 0..n] == IF k = 0 THEN 0 ELSE end[k - 1] + Len(image[k]) IN end[n]

EndOffset == EndIn(job.image, segments + 1)

HasParentSegment == segments + 1 \in DOMAIN parentRecipe

ParentSegment == parentRecipe[segments + 1]

(* LoadSegmentRecipe: a recipe that the store has lost reads as an empty one,
   or as one of some length that was never set, which kills the process. *)
ParentBlocks == IF HasParentSegment /\ IsRecipe(ParentSegment.handle)
                THEN log[ParentSegment.handle].recipe ELSE << >>

UpdateBloomFilters_NewSegments ==                                  \* mutant
    filter' = IF HasParentSegment /\ ParentSegment.cksum = Current THEN filter
              ELSE filter \cup {Current[p] : p \in DOMAIN Current}

UpdateBloomFilters == filter' = filter \cup {Current[p] : p \in DOMAIN Current}

SameAsParent_ById == HasParentSegment /\ Len(ParentSegment.cksum) = Len(Current) \* mutant

SameAsParent == HasParentSegment /\ ParentSegment.cksum = Current

(* L1: the segment is the parent's. *)
SegmentInParent ==
    /\ HasSegment /\ SameAsParent
    /\ SizeIn(parentRecipe, segments + 1) = Len(Current)
    /\ UpdateBloomFilters
    /\ snapshotRecipe' =
           Append(snapshotRecipe, SegmentMeta(Current, EndOffset, ParentSegment.handle))
    /\ segments' = segments + 1
    /\ UNCHANGED <<diskVars, pc, job, parentRecipe, pending, answers, historyVars>>

SearchBlock_First(b) ==                                            \* mutant
    IF ParentBlocks = << >> THEN {} ELSE {1}

(* L2: the last block with the checksum in the parent's segment. *)
SearchBlock(b) ==
    {p \in DOMAIN ParentBlocks :
        /\ ParentBlocks[p].cksum = b
        /\ \A q \in DOMAIN ParentBlocks : ParentBlocks[q].cksum = b => q <= p}

(* The positions whose blocks are asked from the CDS. *)
Asked == {p \in DOMAIN Current : SearchBlock(Current[p]) = {}}

NotFound == [found |-> FALSE, offset |-> 0]

Offset(b) == (CHOOSE k \in DOMAIN CdsFile : CdsFile[k] = b) - 1

InCds(b) == \E k \in DOMAIN CdsFile : CdsFile[k] = b

(* BatchGet: the servers know, or have dropped, each of the blocks of the CDS. *)
BatchGet(queries) ==
    {[n \in DOMAIN queries |-> IF queries[n] \in known
                               THEN [found |-> TRUE, offset |-> Offset(queries[n])]
                               ELSE NotFound] :
        known \in SUBSET {queries[n] : n \in {m \in DOMAIN queries : InCds(queries[m])}}}

(* BatchGet returns false: the arrays keep the answers to other questions, and
   beyond them what the memory held. *)
BatchGetFailed(queries) ==
    {[n \in DOMAIN queries |-> IF n \in DOMAIN answers THEN answers[n] ELSE garbage] :
        garbage \in {NotFound, [found |-> TRUE, offset |-> 0]}}

(* The recipe of the segment, when the n-th question got the answer reply[n]:
   found in the parent, found in the CDS, or appended to the store. *)
RecipeOf(reply, new) ==
    [p \in DOMAIN Current |->
        IF p \notin Asked
        THEN LET bm == ParentBlocks[CHOOSE q \in SearchBlock(Current[p]) : TRUE]
             IN  BlockMeta(Current[p], bm.handle, bm.flags \cup {"IN_PARENT"})
        ELSE IF p \notin new
        THEN BlockMeta(Current[p], reply[RankIn(Asked, p)].offset, {"IN_CDS"})
        ELSE BlockMeta(Current[p], Len(log) + RankIn(new, p), {"IN_AS"})]

SaveRecipes_OneHandle(saved, base) ==                              \* mutant
    [k \in DOMAIN saved |-> SegmentMeta(saved[k].cksum, saved[k].end_offset, base + 1)]

(* SaveSegmentRecipe and UpdateSnapshotRecipe, for each segment of the buffer,
   when the store has base entries. *)
SaveRecipes(saved, base) ==
    [k \in DOMAIN saved |-> SegmentMeta(saved[k].cksum, saved[k].end_offset, base + k)]

TooMany_Beyond(buffer) == Len(buffer) > DF_MAX_PENDING             \* mutant

TooMany(buffer) == Len(buffer) >= DF_MAX_PENDING

StoreSegment(reply) ==
    LET new == {p \in Asked : ~reply[RankIn(Asked, p)].found}
        data == [n \in 1..Cardinality(new) |-> BlockEntry(Select(Current, new)[n])]
        buffer == Append(pending, [cksum |-> Current, end_offset |-> EndOffset,
                                   recipe |-> RecipeOf(reply, new)])
        full == TooMany(buffer)
        recipes == [k \in DOMAIN buffer |-> RecipeEntry(buffer[k].recipe)]
    IN  /\ log' = log \o data \o (IF full THEN recipes ELSE << >>)
        /\ pending' = IF full THEN << >> ELSE buffer
        /\ snapshotRecipe' = snapshotRecipe \o
               (IF full THEN SaveRecipes(buffer, Len(log) + Len(data)) ELSE << >>)

WriteSegment ==
    /\ HasSegment /\ ~SameAsParent
    /\ UpdateBloomFilters
    /\ LET queries == Select(Current, Asked)
       IN  \E reply \in BatchGet(queries)
                \cup (IF "cds-down" \in Faults THEN BatchGetFailed(queries) ELSE {}) :
               /\ StoreSegment(reply)
               /\ answers' = IF "cds-down" \in Faults
                             THEN [n \in DOMAIN reply \cup DOMAIN answers |->
                                     IF n \in DOMAIN reply THEN reply[n] ELSE answers[n]]
                             ELSE << >>
    /\ segments' = segments + 1
    /\ UNCHANGED <<synced, metas, filters, pc, job, parentRecipe, historyVars>>

(***************************************************************************)
(* After the loop.                                                         *)
(***************************************************************************)
EndOfImage ==
    /\ pc = "segments" /\ segments = Len(job.image)
    /\ pc' = "meta"
    /\ UNCHANGED <<diskVars, job, memoryVars, historyVars>>

(* SaveSnapshotMeta removes the file of an earlier run before it writes. *)
RemoveMeta ==
    /\ pc = "meta" /\ metas[job.id] # NoMeta
    /\ metas' = [metas EXCEPT ![job.id] = NoMeta]
    /\ completed' = [completed EXCEPT ![job.id] = NoData] /\ sound' = sound \ {job.id}
    /\ UNCHANGED <<log, synced, filters, pc, job, memoryVars, writes, error>>

SaveMeta ==
    /\ pc = "meta" /\ metas[job.id] = NoMeta
    /\ metas' = [metas EXCEPT ![job.id] = [exists |-> TRUE, recipe |-> snapshotRecipe]]
    /\ pc' = "filters"
    /\ UNCHANGED <<log, synced, filters, job, memoryVars, historyVars>>

SaveFilters ==
    /\ pc = "filters"
    /\ filters' = [filters EXCEPT ![job.id] = [exists |-> TRUE, elements |-> filter]]
    /\ pc' = "close"
    /\ UNCHANGED <<log, synced, metas, job, memoryVars, historyVars>>

CloseStore_NoSync == UNCHANGED synced                              \* mutant

(* pas->Flush and pas->Close. *)
CloseStore == synced' = Len(log)

FlushAndClose ==
    /\ pc = "close" /\ pc' = "none"
    /\ CloseStore
    /\ completed' = [completed EXCEPT ![job.id] = job.image]
    /\ sound' = IF job.parent \in sound \cup {NoSnapshot} THEN sound \cup {job.id} ELSE sound
    /\ job' = [id |-> NoSnapshot, image |-> NoData, parent |-> NoSnapshot]
    /\ parentRecipe' = << >> /\ segments' = 0 /\ snapshotRecipe' = << >> /\ pending' = << >>
    /\ filter' = {} /\ answers' = << >>
    /\ UNCHANGED <<log, metas, filters, writes, error>>

(* The append store syncs when it closes a chunk or turns to reading. *)
Sync ==
    /\ pc # "none" /\ synced < Len(log)
    /\ synced' = Len(log)
    /\ UNCHANGED <<log, metas, filters, pc, job, memoryVars, historyVars>>

(* The process dies: it is killed, a recipe that is lost had a wild length, or
   the assertion that the parent's segment has the size of this one fails. *)
Die ==
    /\ \/ pc # "none" /\ "crash" \in Faults /\ UNCHANGED error
       \/ /\ HasSegment /\ HasParentSegment /\ ~IsRecipe(ParentSegment.handle)
          /\ UNCHANGED error
       \/ /\ HasSegment /\ SameAsParent /\ SizeIn(parentRecipe, segments + 1) # Len(Current)
          /\ error' = "assert"
    /\ \E n \in synced..Len(log) : log' = SubSeq(log, 1, n) /\ synced' = n
    /\ pc' = "none"
    /\ job' = [id |-> NoSnapshot, image |-> NoData, parent |-> NoSnapshot]
    /\ parentRecipe' = << >> /\ segments' = 0 /\ snapshotRecipe' = << >> /\ pending' = << >>
    /\ filter' = {} /\ answers' = << >>
    /\ UNCHANGED <<metas, filters, writes, completed, sound>>

Next ==
    \/ \E id \in SnapshotId, image \in Images, parent \in SnapshotId \cup {NoSnapshot} :
           Begin(id, image, parent)
    \/ SegmentInParent \/ WriteSegment \/ EndOfImage
    \/ RemoveMeta \/ SaveMeta \/ SaveFilters \/ FlushAndClose
    \/ Sync \/ Die

Spec == Init /\ [][Next]_vars

-----------------------------------------------------------------------------
IsBlockMeta(bm) == bm.cksum \in Block /\ bm.handle \in Nat /\ bm.flags \subseteq Flag

IsSegmentMeta(sm) ==
    /\ \A p \in DOMAIN sm.cksum : sm.cksum[p] \in Block
    /\ sm.end_offset \in Nat /\ sm.handle \in Nat

(* The types of the variables.  A recipe never has more entries than the data
   source had segments. *)
TypeOK ==
    /\ \A n \in DOMAIN log :
           \/ log[n].kind = "block" /\ log[n].data \in Block
           \/ log[n].kind = "recipe" /\ \A k \in DOMAIN log[n].recipe : IsBlockMeta(log[n].recipe[k])
    /\ synced \in 0..Len(log)
    /\ \A id \in SnapshotId :
           /\ \A k \in DOMAIN metas[id].recipe : IsSegmentMeta(metas[id].recipe[k])
           /\ filters[id].elements \subseteq Block
    /\ pc \in {"none", "segments", "meta", "filters", "close"}
    /\ segments \in 0..Len(job.image)
    /\ Len(snapshotRecipe) + Len(pending) = segments
    /\ Len(pending) < DF_MAX_PENDING

(* A snapshot whose write ended reads back as the data that was written. *)
RestoreRight == \A id \in SnapshotId : completed[id] # NoData => RestoresImage(id, completed[id])

(* The segments of a finished snapshot that its recipe has, at their offsets, and
   that restore. *)
Restored(id) ==
    {k \in DOMAIN completed[id] :
        \E j \in DOMAIN metas[id].recipe :
            /\ metas[id].recipe[j].end_offset = EndIn(completed[id], k)
            /\ Restores(metas[id].recipe[j], completed[id][k])}

(* A snapshot whose write ended, and those of all its ancestors, restores but for
   the segments of the last batch, whatever process died before or after and
   whatever was written over its ancestors: nothing else is in its recipe. *)
SoundRestores ==
    \A id \in sound :
        /\ Len(completed[id]) - Cardinality(Restored(id)) < DF_MAX_PENDING
        /\ Len(metas[id].recipe) = Cardinality(Restored(id))

(* The filters of a finished snapshot have every block of its data. *)
FiltersComplete ==
    \A id \in SnapshotId : completed[id] # NoData =>
        \A k \in DOMAIN completed[id] :
            \A p \in DOMAIN completed[id][k] : completed[id][k][p] \in filters[id].elements

(* A segment of the parent that has the checksum of this one has its size. *)
SameSize == error # "assert"
=============================================================================
