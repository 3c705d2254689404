------------------------------ MODULE Scanner ------------------------------
(***************************************************************************)
(* Scanning a store: class AppendStoreScanner of                           *)
(* src/src/append-store/append_store_scanner.cpp.                          *)
(*                                                                         *)
(* A scanner goes through the chunks in the order of their ids, reads each *)
(* data file block by block, and returns the records that are not in the   *)
(* delete log of the chunk.  It reads the delete log of a chunk once, when *)
(* it comes to the chunk; clients of the store go on removing records.     *)
(*                                                                         *)
(* The store is closed: its data files do not change.  A block is the      *)
(* sequence of the indices of its records.                                 *)
(***************************************************************************)
EXTENDS Integers, Sequences, FiniteSets

CONSTANTS
    ChunkIds,   \* the ids of the chunks, and of chunks that are not there
    Stores      \* the stores to scan: the blocks of each chunk in the store

ASSUME ScannerAssumption ==
    /\ ChunkIds \subseteq Nat
    /\ \A s \in Stores :
           /\ DOMAIN s \subseteq ChunkIds /\ IsFiniteSet(DOMAIN s)
           /\ s \in [DOMAIN s -> Seq(Seq(Nat))]

VARIABLES
    chunks,         \* the store
    log,            \* the indices in the delete log of each chunk
    pc,             \* "none", "scanning", "done" or "dead"
    mChunkList,     \* the chunks to come
    mChunkId,
    blocksRead,     \* of the file mScannerFH
    mDataStream,    \* the records of the current block that are left
    mDeleteSet,
    (* history *)
    returned,       \* the handles that Next returned
    removedBefore   \* log, when the scan began

storeVars == <<chunks, log>>
scannerVars == <<pc, mChunkList, mChunkId, blocksRead, mDataStream, mDeleteSet>>
scanVars == <<storeVars, scannerVars, returned, removedBefore>>

Handle(c, i) == <<c, i>>

NoLog == [c \in ChunkIds |-> {}]

IndicesIn(blocks) == UNION {{blocks[b][k] : k \in DOMAIN blocks[b]} : b \in DOMAIN blocks}

Items == UNION {{Handle(c, i) : i \in IndicesIn(chunks[c])} : c \in DOMAIN chunks}

Removed(aLog) == {h \in Items : h[2] \in aLog[h[1]]}

(* GetAllChunkID: the ids of the data files, sorted. *)
GetAllChunkID ==
    CHOOSE list \in [1..Cardinality(DOMAIN chunks) -> DOMAIN chunks] :
        \A j, k \in DOMAIN list : j < k => list[j] < list[k]

ScanInit ==
    /\ chunks \in Stores /\ log = NoLog
    /\ pc = "none" /\ mChunkList = << >> /\ mChunkId = 0
    /\ blocksRead = 0 /\ mDataStream = << >> /\ mDeleteSet = {}
    /\ returned = << >> /\ removedBefore = NoLog

(* A client removes a record: Chunk::Remove adds it to the log and syncs. *)
RemoveRecord(c, i) ==
    /\ Handle(c, i) \in Items /\ i \notin log[c]
    /\ log' = [log EXCEPT ![c] = @ \cup {i}]
    /\ UNCHANGED <<chunks, scannerVars, returned, removedBefore>>

(* The constructor. *)
InitScanner ==
    /\ pc = "none" /\ pc' = "scanning"
    /\ IF GetAllChunkID = << >>
       THEN UNCHANGED <<mChunkList, mChunkId, mDeleteSet>>
       ELSE /\ mChunkId' = Head(GetAllChunkID) /\ mChunkList' = Tail(GetAllChunkID)
            /\ mDeleteSet' = log[Head(GetAllChunkID)]
    /\ removedBefore' = log
    /\ UNCHANGED <<storeVars, blocksRead, mDataStream, returned>>

(***************************************************************************)
(* Next, one turn of its loop at a time.                                   *)
(***************************************************************************)
Scanning == pc = "scanning" /\ chunks # << >>

LoadBlock ==
    /\ Scanning /\ mDataStream = << >>
    /\ blocksRead < Len(chunks[mChunkId])
    /\ mDataStream' = chunks[mChunkId][blocksRead + 1]
    /\ blocksRead' = blocksRead + 1
    /\ UNCHANGED <<storeVars, pc, mChunkList, mChunkId, mDeleteSet, returned, removedBefore>>

AtEndOfChunk == Scanning /\ mDataStream = << >> /\ blocksRead = Len(chunks[mChunkId])

(* The id of the delete log is read from the front of the list, after the new
   chunk was taken off: the log of the chunk after it, or, at the last chunk,
   of whatever the memory behind an empty deque says. *)
LogRead(rest) == IF rest = << >> THEN {log[c] : c \in ChunkIds} \cup {{}} ELSE {log[Head(rest)]}

NextChunk_SameFile ==                                              \* mutant
    /\ AtEndOfChunk /\ mChunkList # << >>
    /\ mChunkList' = Tail(mChunkList)
    /\ blocksRead' = 0
    /\ mDeleteSet' \in LogRead(Tail(mChunkList))
    /\ UNCHANGED <<storeVars, pc, mChunkId, mDataStream, returned, removedBefore>>

NextChunk_NoPop ==                                                 \* mutant
    /\ AtEndOfChunk /\ mChunkList # << >>
    /\ mChunkId' = Head(mChunkList)
    /\ blocksRead' = 0
    /\ mDeleteSet' \in LogRead(mChunkList)
    /\ UNCHANGED <<storeVars, pc, mChunkList, mDataStream, returned, removedBefore>>

NextChunk ==
    /\ AtEndOfChunk /\ mChunkList # << >>
    /\ mChunkId' = Head(mChunkList) /\ mChunkList' = Tail(mChunkList)
    /\ blocksRead' = 0
    /\ mDeleteSet' \in LogRead(Tail(mChunkList))
    /\ UNCHANGED <<storeVars, pc, mDataStream, returned, removedBefore>>

EndOfScan_FirstChunk ==                                            \* mutant
    /\ AtEndOfChunk
    /\ pc' = "done"
    /\ UNCHANGED <<storeVars, mChunkList, mChunkId, blocksRead, mDataStream, mDeleteSet,
                   returned, removedBefore>>

(* Next returns false. *)
EndOfScan ==
    /\ AtEndOfChunk /\ mChunkList = << >>
    /\ pc' = "done"
    /\ UNCHANGED <<storeVars, mChunkList, mChunkId, blocksRead, mDataStream, mDeleteSet,
                   returned, removedBefore>>

SkipRecord_Block ==                                                \* mutant
    /\ Scanning /\ mDataStream # << >>
    /\ Head(mDataStream) \in mDeleteSet
    /\ mDataStream' = << >>
    /\ UNCHANGED <<storeVars, pc, mChunkList, mChunkId, blocksRead, mDeleteSet, returned,
                   removedBefore>>

SkipRecord_NotTaken ==                                             \* mutant
    /\ Scanning /\ mDataStream # << >>
    /\ Head(mDataStream) \in mDeleteSet
    /\ UNCHANGED scanVars

SkipRecord ==
    /\ Scanning /\ mDataStream # << >>
    /\ Head(mDataStream) \in mDeleteSet
    /\ mDataStream' = Tail(mDataStream)
    /\ UNCHANGED <<storeVars, pc, mChunkList, mChunkId, blocksRead, mDeleteSet, returned,
                   removedBefore>>

(* Next returns true. *)
ReturnRecord ==
    /\ Scanning /\ mDataStream # << >>
    /\ Head(mDataStream) \notin mDeleteSet
    /\ returned' = Append(returned, Handle(mChunkId, Head(mDataStream)))
    /\ mDataStream' = Tail(mDataStream)
    /\ UNCHANGED <<storeVars, pc, mChunkList, mChunkId, blocksRead, mDeleteSet, removedBefore>>

(* Without a chunk mScannerFH was never set. *)
NextWild ==
    /\ pc = "scanning" /\ chunks = << >>
    /\ pc' = "dead"
    /\ UNCHANGED <<storeVars, mChunkList, mChunkId, blocksRead, mDataStream, mDeleteSet,
                   returned, removedBefore>>

NextTurn == LoadBlock \/ NextChunk \/ EndOfScan \/ SkipRecord \/ ReturnRecord \/ NextWild

ScanNext ==
    \/ \E c \in DOMAIN chunks : \E i \in IndicesIn(chunks[c]) : RemoveRecord(c, i)
    \/ InitScanner
    \/ NextTurn

ScanSpec == ScanInit /\ [][ScanNext]_scanVars

(* The client scans to the end. *)
FairScan == ScanSpec /\ WF_scanVars(InitScanner) /\ WF_scanVars(NextTurn)

-----------------------------------------------------------------------------
(* The types of the variables; the scanner stays within the file of a chunk of
   the store and never comes back to a chunk. *)
ScanTypeOK ==
    /\ chunks \in Stores
    /\ \A c \in ChunkIds : log[c] \subseteq (IF c \in DOMAIN chunks THEN IndicesIn(chunks[c]) ELSE {})
    /\ pc \in {"none", "scanning", "done", "dead"}
    /\ \A k \in DOMAIN mChunkList : mChunkList[k] \in DOMAIN chunks
    /\ Scanning =>
         /\ mChunkId \in DOMAIN chunks /\ blocksRead \in 0..Len(chunks[mChunkId])
         /\ \A k \in DOMAIN mChunkList : mChunkId < mChunkList[k]
    /\ \A k \in DOMAIN returned : returned[k] \in Items

(* The records of a chunk are numbered in the order of the file: Chunk::Append counts
   them, and no process died with records that the next one numbered again. *)
Ascending(blocks) ==
    \A b, d \in DOMAIN blocks : \A k \in DOMAIN blocks[b], m \in DOMAIN blocks[d] :
        b < d \/ (b = d /\ k < m) => blocks[b][k] < blocks[d][m]

Before(h, g) == h[1] < g[1] \/ (h[1] = g[1] /\ h[2] < g[2])

Returned(h) == \E k \in DOMAIN returned : returned[k] = h

(* Next returns the records in the order they were appended, none twice. *)
InOrder == \A j, k \in DOMAIN returned : j < k => Before(returned[j], returned[k])

(* A scan of a store from which nothing was removed returns every record. *)
AllWhenNothingRemoved == pc = "done" /\ log = NoLog => \A h \in Items : Returned(h)

FirstChunk == {h \in Items : \A c \in DOMAIN chunks : h[1] <= c}

(* In the first chunk the scanner is right about the removed records: it skips
   exactly those removed before the scan began. *)
FirstChunkRight ==
    /\ \A h \in FirstChunk \cap Removed(removedBefore) : ~Returned(h)
    /\ pc = "done" => \A h \in FirstChunk \ Removed(removedBefore) : Returned(h)

(* A scan returns no record that was removed before it began. *)
RemovedSkipped == \A h \in Removed(removedBefore) : ~Returned(h)

(* A scan returns every record that is not removed. *)
LiveReturned == pc = "done" => \A h \in Items \ Removed(log) : Returned(h)

(* The scan ends, however many records are removed meanwhile. *)
ScanEnds == <>(pc \in {"done", "dead"})
=============================================================================
