---------------------------- MODULE AppendStore ----------------------------
(***************************************************************************)
(* The append store: class PanguAppendStore of                             *)
(* src/src/append-store/append_store.cpp, over its chunks, in the absence  *)
(* of failed writes (Chunk models those).                                  *)
(*                                                                         *)
(* A store appends to its last chunk through one writer object and reads   *)
(* every chunk through a reader object per chunk, which loads the index of *)
(* the chunk when it is made and never again.  QFS does not allow a file to*)
(* be open for reading and for writing, so TurnOnRead closes the writer of *)
(* a chunk and TurnOnWrite closes its reader.  A block that was read stays *)
(* in a cache until the next block is.                                     *)
(*                                                                         *)
(* A client makes one call at a time, and the process may die between two. *)
(* A chunk on disk is the sequence of its blocks: each one an index record *)
(* and the values of the block.  A process that dies leaves whole blocks;  *)
(* Chunk models what it may tear.                                          *)
(***************************************************************************)
EXTENDS IndexFile, Integers, FiniteSets

CONSTANTS
    Value,               \* the strings that clients append
    MaxChunkSize,        \* mMaxChunkSize, in cells: a header or a record each
    BlockIndexInterval,  \* mBlockIndexInterval, records in a full block
    Calls,               \* what the client does, a subset of Call
    MaxChunk,            \* bound: the last chunk
    RemoveFrom,          \* bound: the chunks that the client removes from
    MaxAppends,          \* bound: records appended
    MaxDeaths            \* bound: times the process dies

(* "read": Read; "read-first": Read in an append store before its first Append;
   "reload", "gc": Reload, GarbageCollection; "drop": the store object is
   destroyed; "crash": the process is killed. *)
Call == {"read", "read-first", "reload", "gc", "drop", "crash"}

ASSUME AppendStoreAssumption ==
    /\ "none" \notin Value
    /\ MaxChunkSize \in Nat \ {0}
    /\ BlockIndexInterval \in Nat \ {0}
    /\ Calls \subseteq Call
    /\ MaxChunk \in Nat /\ RemoveFrom \subseteq 0..MaxChunk /\ MaxAppends \in Nat /\ MaxDeaths \in Nat

VARIABLES
    (* on disk *)
    exists,         \* the chunks that have files
    disk,           \* the blocks of each chunk
    synced,         \* how many of them survive the process
    (* in the PanguAppendStore object *)
    store,          \* "none", or what it was opened for: "append" or "read"
    mMaxChunkId,
    mAppendChunkId,
    writer,         \* mCurrentAppendChunk
    reader,         \* the reader objects, for each chunk
    mChunkMap,      \* the chunks whose reader is in mChunkMap
    current,        \* the chunk of mCurrentRandomChunk, or NoChunk
    deleter,        \* mDeleteChunkMap: the delete log of each chunk
    mCache,         \* the items in the cache
    (* bounds *)
    appends, deaths,
    (* history *)
    given,          \* the items whose handle was returned and that are not lost
    promised,       \* what was synced when the readers were last told to refresh
    kept,           \* given, when the store was last closed
    answer          \* the last Read

diskVars == <<exists, disk, synced>>
chunkIdVars == <<mMaxChunkId, mAppendChunkId>>
readerVars == <<reader, mChunkMap, current>>
boundVars == <<appends, deaths>>
promiseVars == <<promised, kept>>
vars == <<diskVars, store, chunkIdVars, writer, readerVars, deleter, mCache, boundVars,
          given, promiseVars, answer>>

ChunkId == 0..MaxChunk

NoChunk == -1

Item(c, i, v) == [chunk |-> c, index |-> i, val |-> v]

NoValue == "none"

NoAnswer == Item(0, 0, NoValue)

(* A chunk object opened for append. *)
NoWriter == [state |-> "none", id |-> 0, mMaxIndex |-> 0, mLastData |-> 0, stream |-> << >>]

(* A chunk object opened for reading, and how many index records it loaded. *)
NoReader == [state |-> "none", loaded |-> 0]

-----------------------------------------------------------------------------
(***************************************************************************)
(* The items of a chunk.                                                   *)
(***************************************************************************)
ItemsOf(c, block) ==
    {Item(c, block.mIndex - Len(block.vals) + k, block.vals[k]) : k \in DOMAIN block.vals}

ItemsIn(c, n) == UNION {ItemsOf(c, disk[c][p]) : p \in 1..n}

Stored == UNION {ItemsIn(c, Len(disk[c])) : c \in ChunkId}

Durable == UNION {ItemsIn(c, synced[c]) : c \in ChunkId}

Buffered ==
    {Item(writer.id, writer.mMaxIndex - Len(writer.stream) + k, writer.stream[k]) :
        k \in DOMAIN writer.stream}

Has(items, c, i) == \E x \in items : x.chunk = c /\ x.index = i

-----------------------------------------------------------------------------
(***************************************************************************)
(* The writer's chunk object: Chunk, when no write fails.                  *)
(***************************************************************************)
IsChunkFull(w) == w.mLastData >= MaxChunkSize

(* The constructor, with append_flag. *)
Loaded(c) ==
    [state |-> "open", id |-> c, mMaxIndex |-> LastIndex(disk[c]),
     mLastData |-> EndOfIndex(disk[c]), stream |-> << >>]

BlockOf(w) ==
    [mOffset |-> w.mLastData + 1 + Len(w.stream), mIndex |-> w.mMaxIndex, vals |-> w.stream]

(* Flush: the disk and the writer after it. *)
DiskFlushed(d, w) ==
    IF w.stream = << >> THEN d ELSE [d EXCEPT ![w.id] = Append(@, BlockOf(w))]

WriterFlushed(w) ==
    IF w.stream = << >> THEN w
    ELSE [w EXCEPT !.mLastData = @ + 1 + Len(w.stream), !.stream = << >>]

Enabled_BufferReset(w) ==                                          \* mutant
    [w EXCEPT !.state = "open", !.mLastData = EndOfIndex(disk[w.id]), !.stream = << >>]

(* EnableWrite. *)
Enabled(w) == [w EXCEPT !.state = "open", !.mLastData = EndOfIndex(disk[w.id])]

(* TurnOnWrite: the writer after it, and the readers. *)
TurnedOn(w) == IF w.state = "open" THEN w ELSE Enabled(w)

TurnOnWriteReaders_Forgotten(w) == reader                          \* mutant

TurnOnWriteReaders(w) ==
    IF w.state # "open" /\ w.id \in mChunkMap /\ reader[w.id].state = "open"
    THEN [reader EXCEPT ![w.id].state = "closed"]
    ELSE reader

(* Chunk::Append, to the writer w over the disk d; a full buffer is flushed. *)
PutRecord(d, w, v) ==
    LET w1 == [w EXCEPT !.mMaxIndex = @ + 1, !.stream = Append(@, v)]
    IN  /\ IF Len(w1.stream) >= BlockIndexInterval
           THEN disk' = DiskFlushed(d, w1) /\ writer' = WriterFlushed(w1)
           ELSE disk' = d /\ writer' = w1
        /\ given' = given \cup {Item(w1.id, w1.mMaxIndex, v)}
        /\ appends' = appends + 1

-----------------------------------------------------------------------------
Init ==
    /\ exists = {}
    /\ disk = [c \in ChunkId |-> << >>] /\ synced = [c \in ChunkId |-> 0]
    /\ store = "none" /\ mMaxChunkId = 0 /\ mAppendChunkId = 0
    /\ writer = NoWriter
    /\ reader = [c \in ChunkId |-> NoReader] /\ mChunkMap = {} /\ current = NoChunk
    /\ deleter = [c \in ChunkId |-> "none"]
    /\ mCache = {}
    /\ appends = 0 /\ deaths = 0
    /\ given = {} /\ promised = {} /\ kept = {}
    /\ answer = NoAnswer

(* Chunk::GetMaxChunkID. *)
GetMaxChunkID == IF exists = {} THEN 0 ELSE CHOOSE c \in exists : \A b \in exists : b <= c

(* The constructor and Init, with iscreate. *)
Open(mode) ==
    /\ store = "none"
    /\ store' = mode
    /\ mMaxChunkId' = GetMaxChunkID
    /\ mAppendChunkId' = IF mode = "append" THEN GetMaxChunkID ELSE 0
    /\ promised' = Durable
    /\ UNCHANGED <<diskVars, writer, readerVars, deleter, mCache, boundVars, given, kept,
                   answer>>

(***************************************************************************)
(* Append, by what LoadAppendChunk does: it has a chunk with room, it has a*)
(* full one and goes to the next, or it has none and loads the last one.   *)
(***************************************************************************)
MayAppend == store = "append" /\ appends < MaxAppends

AppendToCurrent(v) ==
    /\ MayAppend /\ writer.state # "none" /\ ~IsChunkFull(writer)
    /\ reader' = TurnOnWriteReaders(writer)
    /\ PutRecord(disk, TurnedOn(writer), v)
    /\ UNCHANGED <<exists, synced, store, chunkIdVars, mChunkMap, current, deleter, mCache,
                   deaths, promiseVars, answer>>

AppendToNext_SameChunk(v) ==                                       \* mutant
    /\ MayAppend /\ writer.state # "none" /\ IsChunkFull(writer)
    /\ PutRecord(disk, [Loaded(writer.id) EXCEPT !.mMaxIndex = 0], v)
    /\ UNCHANGED <<exists, synced, store, chunkIdVars, readerVars, deleter, mCache,
                   deaths, promiseVars, answer>>

AppendToNext(v) ==
    /\ MayAppend /\ writer.state # "none" /\ IsChunkFull(writer)
    /\ mMaxChunkId < MaxChunk
    /\ reader' = TurnOnWriteReaders(writer)
    /\ mMaxChunkId' = mMaxChunkId + 1 /\ mAppendChunkId' = mMaxChunkId + 1
    /\ exists' = exists \cup {mMaxChunkId + 1}
    /\ LET closed == DiskFlushed(disk, TurnedOn(writer))
       IN  /\ PutRecord(closed, Loaded(mMaxChunkId + 1), v)
           /\ synced' = [synced EXCEPT ![writer.id] = Len(closed[writer.id])]
    /\ UNCHANGED <<store, mChunkMap, current, deleter, mCache, deaths, promiseVars, answer>>

(* A store opened again may find its last chunk full: Append throws, and the next
   one goes to a chunk of its own. *)
AppendToLoaded(v) ==
    /\ MayAppend /\ writer.state = "none"
    /\ exists' = exists \cup {mAppendChunkId}
    /\ IF IsChunkFull(Loaded(mAppendChunkId))
       THEN writer' = Loaded(mAppendChunkId) /\ UNCHANGED <<disk, given, appends>>
       ELSE PutRecord(disk, Loaded(mAppendChunkId), v)
    /\ UNCHANGED <<synced, store, chunkIdVars, readerVars, deleter, mCache, deaths,
                   promiseVars, answer>>

(* Flush writes the buffer of the writer's chunk and syncs nothing. *)
Flush ==
    /\ store # "none"
    /\ IF writer.state = "none"
       THEN UNCHANGED <<reader, disk, writer>>
       ELSE /\ reader' = TurnOnWriteReaders(writer)
            /\ disk' = DiskFlushed(disk, TurnedOn(writer))
            /\ writer' = WriterFlushed(TurnedOn(writer))
    /\ UNCHANGED <<exists, synced, store, chunkIdVars, mChunkMap, current, deleter, mCache,
                   boundVars, given, promiseVars, answer>>

(***************************************************************************)
(* Read: from the cache, or else by a reader of the chunk.  LoadRandomChunk*)
(* makes a reader when there is none, which loads the index before         *)
(* TurnOnRead closes the writer and so syncs what it wrote.                *)
(***************************************************************************)
MayRead ==
    /\ store # "none" /\ "read" \in Calls
    /\ (store = "append" /\ writer.state = "none") => "read-first" \in Calls

WriterHas(c) == writer.state = "open" /\ writer.id = c

(* How many index records a new reader of the chunk may see: QFS may or may not
   show what an open writer has not synced. *)
Visible(c) == IF WriterHas(c) THEN synced[c]..Len(disk[c]) ELSE {Len(disk[c])}

TurnOnRead(c) ==
    IF WriterHas(c)
    THEN writer' = [writer EXCEPT !.state = "closed"] /\ synced' = [synced EXCEPT ![c] = Len(disk[c])]
    ELSE UNCHANGED <<writer, synced>>

(* Chunk::Read by a reader that loaded n index records. *)
ReadBlock(c, i, n) ==
    LET loaded == SubSeq(disk[c], 1, n)
    IN  \/ \E p \in 1..n :
               /\ IsPosition(loaded, i, p)
               /\ mCache' = ItemsOf(c, loaded[p])
               /\ IF Has(mCache', c, i)
                  THEN \E x \in mCache' : x.index = i /\ answer' = x
                  ELSE answer' = Item(c, i, NoValue)
        \/ /\ \A p \in 1..n : loaded[p].mIndex < i
           /\ answer' = Item(c, i, NoValue)
           /\ UNCHANGED mCache

ReadCached(c, i) ==
    /\ MayRead
    /\ \E x \in mCache : x.chunk = c /\ x.index = i /\ answer' = x
    /\ UNCHANGED <<diskVars, store, chunkIdVars, writer, readerVars, deleter, mCache,
                   boundVars, given, promiseVars>>

ReadNoChunk(c, i) ==
    /\ MayRead /\ ~Has(mCache, c, i)
    /\ c > mMaxChunkId
    /\ answer' = Item(c, i, NoValue)
    /\ UNCHANGED <<diskVars, store, chunkIdVars, writer, readerVars, deleter, mCache,
                   boundVars, given, promiseVars>>

ReadLoaded(c, i) ==
    /\ MayRead /\ ~Has(mCache, c, i)
    /\ c <= mMaxChunkId /\ (current = c \/ c \in mChunkMap)
    /\ TurnOnRead(c)
    /\ reader' = [reader EXCEPT ![c].state = "open"]
    /\ ReadBlock(c, i, reader[c].loaded)
    /\ UNCHANGED <<exists, disk, store, chunkIdVars, mChunkMap, current, deleter, boundVars,
                   given, promiseVars>>

ReadNew(c, i) ==
    /\ MayRead /\ ~Has(mCache, c, i)
    /\ c <= mMaxChunkId /\ current # c /\ c \notin mChunkMap
    /\ exists' = exists \cup {c}
    /\ TurnOnRead(c)
    /\ \E n \in Visible(c) :
           /\ reader' = [b \in ChunkId |->
                           IF b = c THEN [state |-> "open", loaded |-> n]
                           ELSE IF b = current /\ b \notin mChunkMap THEN NoReader
                           ELSE reader[b]]
           /\ ReadBlock(c, i, n)
    /\ mChunkMap' = mChunkMap \cup {c} /\ current' = c
    /\ UNCHANGED <<disk, store, chunkIdVars, deleter, boundVars, given, promiseVars>>

Reload_KeepsCurrent ==                                             \* mutant
    /\ store # "none" /\ "reload" \in Calls
    /\ reader' = [c \in ChunkId |-> IF c = current THEN reader[c] ELSE NoReader]
    /\ mChunkMap' = {} /\ mCache' = {}
    /\ mMaxChunkId' = GetMaxChunkID
    /\ promised' = Durable /\ answer' = NoAnswer
    /\ UNCHANGED <<diskVars, store, mAppendChunkId, writer, current, deleter, boundVars, given,
                   kept>>

(* Reload drops every reader and the cache. *)
Reload ==
    /\ store # "none" /\ "reload" \in Calls
    /\ reader' = [c \in ChunkId |-> NoReader]
    /\ mChunkMap' = {} /\ current' = NoChunk /\ mCache' = {}
    /\ mMaxChunkId' = GetMaxChunkID
    /\ promised' = Durable /\ answer' = NoAnswer
    /\ UNCHANGED <<diskVars, store, mAppendChunkId, writer, deleter, boundVars, given,
                   kept>>

GarbageCollection_EveryReader ==                                   \* mutant
    /\ store # "none" /\ "gc" \in Calls
    /\ mChunkMap' = {}
    /\ reader' = [c \in ChunkId |-> NoReader]
    /\ UNCHANGED <<diskVars, store, chunkIdVars, writer, current, deleter, mCache, boundVars,
                   given, promiseVars, answer>>

(* GarbageCollection empties mChunkMap; mCurrentRandomChunk keeps its reader. *)
GarbageCollection ==
    /\ store # "none" /\ "gc" \in Calls
    /\ mChunkMap' = {}
    /\ reader' = [c \in ChunkId |-> IF c = current THEN reader[c] ELSE NoReader]
    /\ UNCHANGED <<diskVars, store, chunkIdVars, writer, current, deleter, mCache, boundVars,
                   given, promiseVars, answer>>

(* Remove opens the delete log of the chunk once, and adds a record to it. *)
Remove(c) ==
    /\ store # "none" /\ c \in RemoveFrom
    /\ c <= mMaxChunkId /\ deleter[c] # "closed"
    /\ deleter' = [deleter EXCEPT ![c] = "open"]
    /\ UNCHANGED <<diskVars, store, chunkIdVars, writer, readerVars, mCache, boundVars,
                   given, promiseVars, answer>>

-----------------------------------------------------------------------------
(***************************************************************************)
(* The end of a session.                                                   *)
(***************************************************************************)
CloseWriter_NoFlush ==                                             \* mutant
    /\ reader' = TurnOnWriteReaders(writer)
    /\ writer' = [TurnedOn(writer) EXCEPT !.state = "closed"]
    /\ synced' = [synced EXCEPT ![writer.id] = Len(disk[writer.id])]
    /\ UNCHANGED disk

(* TurnOnWrite and Chunk::Close of the writer. *)
CloseWriter ==
    LET closed == DiskFlushed(disk, TurnedOn(writer))
    IN  /\ disk' = closed
        /\ writer' = [WriterFlushed(TurnedOn(writer)) EXCEPT !.state = "closed"]
        /\ synced' = [synced EXCEPT ![writer.id] = Len(closed[writer.id])]

(* Close: the objects stay, with their files closed.  A chunk object made for
   Remove has other file handles that were never set: closing them may do
   nothing, or kill the process (Die). *)
Close ==
    /\ store # "none"
    /\ IF store = "append" /\ writer.state # "none"
       THEN CloseWriter
       ELSE UNCHANGED <<disk, writer, synced>>
    /\ reader' = [c \in ChunkId |-> IF c \in mChunkMap THEN [reader[c] EXCEPT !.state = "closed"]
                                    ELSE reader[c]]
    /\ deleter' = [c \in ChunkId |-> IF deleter[c] = "open" THEN "closed" ELSE deleter[c]]
    /\ kept' = given
    /\ UNCHANGED <<exists, store, chunkIdVars, mChunkMap, current, mCache, boundVars, given,
                   promised, answer>>

(* The objects are gone. *)
Gone ==
    /\ store' = "none" /\ mMaxChunkId' = 0 /\ mAppendChunkId' = 0
    /\ writer' = NoWriter
    /\ reader' = [c \in ChunkId |-> NoReader] /\ mChunkMap' = {} /\ current' = NoChunk
    /\ deleter' = [c \in ChunkId |-> "none"]
    /\ mCache' = {} /\ answer' = NoAnswer

(* The destructor of the writer's chunk flushes and closes it, through file
   handles that DisableWrite may have taken away. *)
Orphaned == writer.state = "closed" /\ writer.stream # << >>

Drop ==
    /\ store # "none" /\ "drop" \in Calls
    /\ ~Orphaned
    /\ disk' = DiskFlushed(disk, writer)
    /\ synced' = [c \in ChunkId |-> Len(disk'[c])]
    /\ Gone
    /\ kept' = given
    /\ UNCHANGED <<exists, boundVars, given, promised>>

(* What a process may die of: it is killed; a chunk object that is destroyed
   flushes its buffer through no file handle; so does Remove after Close; the
   handles of a chunk object made for Remove were never set. *)
MayDie ==
    \/ "crash" \in Calls
    \/ "drop" \in Calls /\ Orphaned
    \/ \E c \in ChunkId : deleter[c] # "none"

(* What was not synced may be lost, from its end. *)
Die ==
    /\ store # "none" /\ deaths < MaxDeaths /\ deaths' = deaths + 1
    /\ MayDie
    /\ \E n \in synced[writer.id]..Len(disk[writer.id]) :
           /\ disk' = [disk EXCEPT ![writer.id] = SubSeq(@, 1, n)]
           /\ synced' = [synced EXCEPT ![writer.id] = n]
    /\ given' = UNION {UNION {ItemsOf(c, disk'[c][p]) : p \in 1..Len(disk'[c])} : c \in ChunkId}
    /\ promised' = promised \cap given'
    /\ Gone
    /\ UNCHANGED <<exists, appends, kept>>

Next ==
    \/ \E mode \in {"append", "read"} : Open(mode)
    \/ \E v \in Value : AppendToCurrent(v) \/ AppendToNext(v) \/ AppendToLoaded(v)
    \/ Flush
    \/ \E c \in ChunkId, i \in 1..MaxAppends :
           ReadCached(c, i) \/ ReadNoChunk(c, i) \/ ReadLoaded(c, i) \/ ReadNew(c, i)
    \/ Reload \/ GarbageCollection
    \/ \E c \in ChunkId : Remove(c)
    \/ Close \/ Drop \/ Die

Spec == Init /\ [][Next]_vars

-----------------------------------------------------------------------------
IsItem(x) ==
    /\ x.chunk \in ChunkId /\ x.index \in 1..MaxAppends /\ x.val \in Value

WriterTypeOK ==
    /\ writer.state \in {"none", "open", "closed"} /\ writer.id \in ChunkId
    /\ writer.mMaxIndex \in Nat /\ writer.mLastData \in Nat
    /\ writer.stream \in Seq(Value) /\ Len(writer.stream) < BlockIndexInterval

ReaderTypeOK ==
    /\ \A c \in ChunkId : /\ reader[c].state \in {"none", "open", "closed"}
                          /\ reader[c].loaded \in 0..Len(disk[c])
                          /\ reader[c].state = "none" <=> c # current /\ c \notin mChunkMap
    /\ mChunkMap \subseteq ChunkId /\ current \in ChunkId \cup {NoChunk}

(* The types of the variables.  A reader object exists exactly for the chunks
   that mChunkMap or mCurrentRandomChunk holds, a chunk with blocks has files,
   and the id of the append chunk is the largest one. *)
TypeOK ==
    /\ exists \subseteq ChunkId
    /\ \A c \in ChunkId : synced[c] \in 0..Len(disk[c]) /\ (disk[c] # << >> => c \in exists)
    /\ store \in {"none", "append", "read"}
    /\ mMaxChunkId \in ChunkId /\ mAppendChunkId \in ChunkId
    /\ store = "append" => mAppendChunkId = mMaxChunkId
    /\ WriterTypeOK /\ ReaderTypeOK
    /\ \A c \in ChunkId : deleter[c] \in {"none", "open", "closed"}
    /\ \A x \in given \cup mCache : IsItem(x)
    /\ appends \in 0..MaxAppends /\ deaths \in 0..MaxDeaths

(* Every handle that Append returned is in the writer's buffer or on disk, and
   nothing else is: turning the writer off for a reader, rolling over to the
   next chunk and opening the store again lose no record and number none
   twice. *)
AckedHeld == given = Stored \cup Buffered

(* When the store was closed, all its data survives from then on. *)
ClosedSurvives == kept \subseteq Durable

(* What was on disk for good when the readers were last refreshed is found. *)
RefreshedFound == answer.val = NoValue => ~Has(promised, answer.chunk, answer.index)

(* No chunk that mChunkMap has a reader of is open for reading and for writing.
   (Nothing turns off the reader that GarbageCollection left in
   mCurrentRandomChunk alone.) *)
ReaderOrWriter ==
    writer.state = "open" /\ writer.id \in mChunkMap => reader[writer.id].state # "open"

(***************************************************************************)
(* The store implements the interface.                                     *)
(***************************************************************************)
AbstractHandle == [chunk : ChunkId, index : 0..MaxAppends]

Abstract(x) == [handle |-> [chunk |-> x.chunk, index |-> x.index], val |-> x.val]

Interface == INSTANCE HandleStore WITH
    Handle <- AbstractHandle,
    contents <- {Abstract(x) : x \in given},
    durable <- {Abstract(x) : x \in Durable},
    answer <- Abstract(answer)

(* A handle is never given twice, data is lost only when the process dies and
   never after a close or a sync, and Read never returns the data of another
   handle. *)
ImplementsHandleStore == Interface!Spec
=============================================================================
