------------------------------- MODULE Chunk -------------------------------
(***************************************************************************)
(* One chunk of the append store, opened for append: class Chunk of        *)
(* src/src/append-store/append_store_chunk.cpp, with its data file and its *)
(* index file.                                                             *)
(*                                                                         *)
(* Append buffers a record and hands out its index at once.  When the      *)
(* buffer holds BlockIndexInterval records, or on Flush or Close, the      *)
(* records are written to the data file as one block, and then one record  *)
(* [mOffset, mIndex] is written to the index file: the end of the block in *)
(* the data file and the last index in it.  The start of a block is not    *)
(* written anywhere: a reader takes the end of the block before it.        *)
(*                                                                         *)
(* The two writes are separate steps, each is retried once after a failure,*)
(* and the process may crash between any two steps.  QFS keeps on a crash  *)
(* what was synced (files are synced when they are closed) and any prefix  *)
(* of the rest, independently for the two files.                           *)
(***************************************************************************)
EXTENDS LogFile, IndexFile

CONSTANTS
    MaxChunkSize,        \* mMaxChunkSize, in cells of the data file
    BlockIndexInterval,  \* mBlockIndexInterval, records in a full block
    Faults,              \* the faults that may happen, a subset of FaultKind
    MaxIndex,            \* bound: the highest index handed out
    MaxFaults,           \* bound: failed writes
    MaxCrashes           \* bound: crashes

(* "data-clean":  a data write fails and leaves nothing in the file
   "data-torn":   a data write fails and leaves a part of its log, or all of it
   "index-once":  an index write fails, leaving nothing, and the retry does not
   "index-twice": the retry may fail too
   "crash":       the process dies, each file keeps some prefix
   "crash-whole": the process dies, the files keep prefixes that match *)
FaultKind == {"data-clean", "data-torn", "index-once", "index-twice",
              "crash", "crash-whole"}

ASSUME ChunkAssumption ==
    /\ MaxChunkSize \in Nat
    /\ BlockIndexInterval \in Nat \ {0}
    /\ Faults \subseteq FaultKind
    /\ MaxIndex \in Nat
    /\ MaxFaults \in Nat
    /\ MaxCrashes \in Nat

VARIABLES
    (* on disk *)
    files,          \* which of the two files exist
    dataFile,       \* cells of the data file
    dataSynced,     \* length of the data file that survives any crash
    indexFile,      \* records of the index file
    indexSynced,    \* length of the index file that survives any crash
    (* in the Chunk object *)
    pc,             \* what the object is doing
    call,           \* the call that is flushing the buffer
    retryCount,     \* of the write in progress
    output,         \* mDataOutputFH and mIndexOutputFH: "open" or "closed"
    mMaxIndex,      \* the last index handed out
    mLastData,      \* end of the data file, as last seen
    mBlockStream,   \* records buffered, mFlushCount of them
    (* bounds *)
    faults,         \* failed writes so far
    crashes,        \* crashes so far
    (* history *)
    acked,          \* handles returned by Append, minus those a crash lost
    committed,      \* the handles in acked when the chunk was last closed
    flight,         \* the block whose index record is being written
    settled         \* handles whose block was written without interference

diskVars == <<files, dataFile, dataSynced, indexFile, indexSynced>>
objectVars == <<pc, call, retryCount, output, mMaxIndex, mLastData, mBlockStream>>
boundVars == <<faults, crashes>>
historyVars == <<acked, committed, flight, settled>>
vars == <<diskVars, objectVars, boundVars, historyVars>>

(***************************************************************************)
(* "none" no object; "creating" the data file exists, the index file does  *)
(* not yet; "created" both do; "idle" no call in progress; "data" and      *)
(* "index" in AppendIndex, about to write the data and the index record;   *)
(* "closing" in Close, after its Flush.                                    *)
(***************************************************************************)
PC == {"none", "creating", "created", "idle", "data", "index", "closing"}

Handle == [index : Nat, val : Value]

SettledHandle == [index : Nat, val : Value, pos : Nat, end : Nat]

NoFlight == [place |-> "displaced", start |-> 0, block |-> << >>]

-----------------------------------------------------------------------------
(***************************************************************************)
(* Reading, by a chunk object that has just loaded the index file.         *)
(***************************************************************************)
(* Chunk::Read(i) returns true and the value v. *)
Reads(df, xf, i, v) ==
    \E p \in DOMAIN xf :
        /\ IsPosition(xf, i, p)
        /\ \E k \in DOMAIN BlockAt(df, StartOffset(xf, p)) :
               BlockAt(df, StartOffset(xf, p))[k] = DataRecord(i, v)

Readable(h) == Reads(dataFile, indexFile, h.index, h.val)

(* Readable whatever a crash leaves of the two files. *)
Durable(h) == Reads(Cut(dataFile, dataSynced), Cut(indexFile, indexSynced), h.index, h.val)

Buffered(h) == \E k \in DOMAIN mBlockStream : mBlockStream[k] = DataRecord(h.index, h.val)

InFlight(h) == \E k \in DOMAIN flight.block : flight.block[k] = DataRecord(h.index, h.val)

-----------------------------------------------------------------------------
Init ==
    /\ files = {}
    /\ dataFile = << >> /\ dataSynced = 0
    /\ indexFile = << >> /\ indexSynced = 0
    /\ pc = "none" /\ call = "none" /\ retryCount = 0 /\ output = "closed"
    /\ mMaxIndex = 0 /\ mLastData = 0 /\ mBlockStream = << >>
    /\ faults = 0 /\ crashes = 0
    /\ acked = {} /\ committed = {} /\ flight = NoFlight /\ settled = {}

(***************************************************************************)
(* The constructor.  CheckIfNew creates the two files, one after the other,*)
(* when neither exists; it throws when only one does, and nothing changes. *)
(***************************************************************************)
CreateDataFile ==
    /\ pc = "none" /\ files = {}
    /\ files' = {"data"} /\ pc' = "creating"
    /\ UNCHANGED <<dataFile, dataSynced, indexFile, indexSynced, call, retryCount,
                   output, mMaxIndex, mLastData, mBlockStream, boundVars, historyVars>>

CreateIndexFile ==
    /\ pc = "creating"
    /\ files' = {"data", "index"} /\ pc' = "created"
    /\ UNCHANGED <<dataFile, dataSynced, indexFile, indexSynced, call, retryCount,
                   output, mMaxIndex, mLastData, mBlockStream, boundVars, historyVars>>

(* LoadIndex takes the last index on disk, EnableWrite the end of the data. *)
Load ==
    /\ \/ pc = "created"
       \/ pc = "none" /\ files = {"data", "index"}
    /\ pc' = "idle"
    /\ mMaxIndex' = LastIndex(indexFile)
    /\ mLastData' = Len(dataFile)
    /\ mBlockStream' = << >>
    /\ output' = "open"
    /\ UNCHANGED <<diskVars, call, retryCount, boundVars, historyVars>>

(***************************************************************************)
(* Append: the record goes to the buffer; a full buffer is flushed before  *)
(* the call returns.                                                       *)
(***************************************************************************)
IsChunkFull == mLastData >= MaxChunkSize

AppendRecord(v) ==
    /\ pc = "idle" /\ output = "open"
    /\ ~IsChunkFull
    /\ mMaxIndex < MaxIndex
    /\ mMaxIndex' = mMaxIndex + 1
    /\ mBlockStream' = Append(mBlockStream, DataRecord(mMaxIndex + 1, v))
    /\ \/ /\ Len(mBlockStream) + 1 < BlockIndexInterval
          /\ acked' = acked \cup {[index |-> mMaxIndex + 1, val |-> v]}
          /\ UNCHANGED <<pc, call>>
       \/ /\ Len(mBlockStream) + 1 >= BlockIndexInterval
          /\ pc' = "data" /\ call' = "append"
          /\ UNCHANGED acked
    /\ UNCHANGED <<diskVars, retryCount, output, mLastData, boundVars,
                   committed, flight, settled>>

Close_NoFlush ==                                                   \* mutant
    /\ pc = "idle" /\ output = "open"
    /\ pc' = "closing"
    /\ UNCHANGED <<diskVars, call, retryCount, output, mMaxIndex, mLastData, mBlockStream,
                   boundVars, historyVars>>

(* Chunk::Flush, and Chunk::Close up to the end of its Flush. *)
Flush ==
    /\ pc = "idle" /\ output = "open"
    /\ mBlockStream # << >>
    /\ pc' = "data" /\ call' = "flush"
    /\ UNCHANGED <<diskVars, retryCount, output, mMaxIndex, mLastData, mBlockStream,
                   boundVars, historyVars>>

Close ==
    /\ pc = "idle" /\ output = "open"
    /\ \/ mBlockStream # << >> /\ pc' = "data" /\ call' = "close"
       \/ mBlockStream = << >> /\ pc' = "closing" /\ UNCHANGED call
    /\ UNCHANGED <<diskVars, retryCount, output, mMaxIndex, mLastData, mBlockStream,
                   boundVars, historyVars>>

(***************************************************************************)
(* AppendRaw: the block is written to the data file.  After a failure the  *)
(* file is closed, which syncs what the write left of the log, and opened  *)
(* again at its end; the second failure is thrown, and the buffer is kept. *)
(***************************************************************************)
AfterWrite_AtStart(file, cells) ==                                 \* mutant
    IF retryCount = 1 THEN cells \o SubSeq(file, Len(cells) + 1, Len(file)) ELSE file \o cells

(* Writes go to the end of a file: EnableWrite, and the retry, open it there. *)
AfterWrite(file, cells) == file \o cells

WriteData ==
    /\ pc = "data"
    /\ dataFile' = AfterWrite(dataFile, LogOf(mBlockStream))
    /\ mLastData' = Len(dataFile')
    /\ mBlockStream' = << >>
    /\ flight' = [place |-> IF Len(dataFile) = EndOfIndex(indexFile)
                            THEN "aligned" ELSE "displaced",
                  start |-> Len(dataFile),
                  block |-> mBlockStream]
    /\ pc' = "index" /\ retryCount' = 0
    /\ UNCHANGED <<files, dataSynced, indexFile, indexSynced, call, output, mMaxIndex,
                   boundVars, acked, committed, settled>>

WriteDataFails_BufferLost ==                                       \* mutant
    /\ pc = "data" /\ "data-clean" \in Faults
    /\ faults < MaxFaults /\ faults' = faults + 1
    /\ pc' = "idle" /\ call' = "none" /\ mBlockStream' = << >>
    /\ UNCHANGED <<diskVars, retryCount, output, mMaxIndex, mLastData, crashes, historyVars>>

WriteDataFails_RetryCountKept ==                                   \* mutant
    /\ pc = "data" /\ "data-clean" \in Faults
    /\ faults < MaxFaults /\ faults' = faults + 1
    /\ retryCount' = retryCount + 1
    /\ \/ retryCount = 0 /\ UNCHANGED <<pc, call>>
       \/ retryCount # 0 /\ pc' = "idle" /\ call' = "none"
    /\ UNCHANGED <<diskVars, output, mMaxIndex, mLastData, mBlockStream, crashes, historyVars>>

WriteDataFails ==
    /\ pc = "data"
    /\ faults < MaxFaults /\ faults' = faults + 1
    /\ \E left \in 0..Len(mBlockStream) + 1 :
           /\ left = 0 => "data-clean" \in Faults
           /\ left > 0 => "data-torn" \in Faults
           /\ dataFile' = AfterWrite(dataFile, SubSeq(LogOf(mBlockStream), 1, left))
    /\ dataSynced' = Len(dataFile')
    /\ \/ retryCount = 0 /\ retryCount' = 1 /\ UNCHANGED <<pc, call>>
       \/ retryCount = 1 /\ retryCount' = 0 /\ pc' = "idle" /\ call' = "none"
    /\ UNCHANGED <<files, indexFile, indexSynced, output, mMaxIndex, mLastData,
                   mBlockStream, crashes, historyVars>>

(***************************************************************************)
(* The rest of AppendIndex: the index record is written, and the call that *)
(* asked for the flush goes on.  A second failure is thrown; the buffer is *)
(* empty by then.                                                          *)
(***************************************************************************)
Returned == [index |-> mMaxIndex, val |-> flight.block[Len(flight.block)].val]

WriteIndex ==
    /\ pc = "index"
    /\ indexFile' = AfterWrite(indexFile, <<[mOffset |-> mLastData, mIndex |-> mMaxIndex]>>)
    /\ retryCount' = 0 /\ call' = "none"
    /\ \/ call = "close" /\ pc' = "closing" /\ UNCHANGED acked
       \/ call = "flush" /\ pc' = "idle" /\ UNCHANGED acked
       \/ call = "append" /\ pc' = "idle" /\ acked' = acked \cup {Returned}
    /\ settled' = IF flight.place = "aligned"
                  THEN settled \cup {[index |-> flight.block[k].n,
                                      val   |-> flight.block[k].val,
                                      pos   |-> Len(indexFile) + 1,
                                      end   |-> mLastData] : k \in DOMAIN flight.block}
                  ELSE settled
    /\ flight' = NoFlight
    /\ UNCHANGED <<files, dataFile, dataSynced, indexSynced, output, mMaxIndex,
                   mLastData, mBlockStream, boundVars, committed>>

WriteIndexFails ==
    /\ pc = "index"
    /\ IF retryCount = 0 THEN "index-once" \in Faults ELSE "index-twice" \in Faults
    /\ faults < MaxFaults /\ faults' = faults + 1
    /\ indexSynced' = Len(indexFile)
    /\ \/ /\ retryCount = 0 /\ retryCount' = 1
          /\ UNCHANGED <<pc, call, flight>>
       \/ /\ retryCount = 1 /\ retryCount' = 0
          /\ pc' = "idle" /\ call' = "none" /\ flight' = NoFlight
    /\ UNCHANGED <<files, dataFile, dataSynced, indexFile, output, mMaxIndex, mLastData,
                   mBlockStream, crashes, acked, committed, settled>>

(***************************************************************************)
(* Closing the two output handles syncs the two files.  DisableWrite does  *)
(* that alone and keeps the buffer; Close does it after its Flush.         *)
(***************************************************************************)
CloseHandles ==
    /\ dataSynced' = Len(dataFile) /\ indexSynced' = Len(indexFile)
    /\ output' = "closed"

EndClose ==
    /\ pc = "closing" /\ pc' = "idle"
    /\ CloseHandles
    /\ committed' = committed \cup acked
    /\ UNCHANGED <<files, dataFile, indexFile, call, retryCount, mMaxIndex, mLastData,
                   mBlockStream, boundVars, acked, flight, settled>>

DisableWrite ==
    /\ pc = "idle" /\ output = "open"
    /\ CloseHandles
    /\ UNCHANGED <<files, dataFile, indexFile, pc, call, retryCount, mMaxIndex, mLastData,
                   mBlockStream, boundVars, historyVars>>

EnableWrite ==
    /\ pc = "idle" /\ output = "closed"
    /\ output' = "open"
    /\ mLastData' = Len(dataFile)
    /\ UNCHANGED <<diskVars, pc, call, retryCount, mMaxIndex, mBlockStream, boundVars,
                   historyVars>>

(* The object is destroyed after it was closed: nothing is left to write. *)
Destroy ==
    /\ pc = "idle" /\ output = "closed" /\ mBlockStream = << >>
    /\ pc' = "none"
    /\ UNCHANGED <<diskVars, call, retryCount, output, mMaxIndex, mLastData, mBlockStream,
                   boundVars, historyVars>>

(***************************************************************************)
(* The process dies with the object.                                       *)
(***************************************************************************)
Matching(d, x) == d = EndOfIndex(Cut(indexFile, x))

Crash ==
    /\ pc # "none"
    /\ crashes < MaxCrashes /\ crashes' = crashes + 1
    /\ \E d \in dataSynced..Len(dataFile), x \in indexSynced..Len(indexFile) :
           /\ \/ "crash" \in Faults
              \/ "crash-whole" \in Faults /\ Matching(d, x) /\ pc # "creating"
           /\ dataFile' = Cut(dataFile, d) /\ dataSynced' = d
           /\ indexFile' = Cut(indexFile, x) /\ indexSynced' = x
           /\ settled' = {h \in settled : h.pos <= x /\ h.end <= d}
    /\ pc' = "none" /\ call' = "none" /\ retryCount' = 0 /\ output' = "closed"
    /\ mMaxIndex' = 0 /\ mLastData' = 0 /\ mBlockStream' = << >>
    /\ acked' = committed /\ flight' = NoFlight
    /\ UNCHANGED <<files, faults, committed>>

Next ==
    \/ CreateDataFile \/ CreateIndexFile \/ Load
    \/ \E v \in Value : AppendRecord(v)
    \/ Flush \/ Close
    \/ WriteData \/ WriteDataFails \/ WriteIndex \/ WriteIndexFails
    \/ EndClose \/ DisableWrite \/ EnableWrite \/ Destroy
    \/ Crash

Spec == Init /\ [][Next]_vars

(* The caller flushes or closes in the end, and a call runs until it returns. *)
Fairness ==
    /\ WF_vars(CreateIndexFile \/ Load)
    /\ WF_vars(WriteData \/ WriteIndex \/ EndClose)
    /\ SF_vars(Flush)
    /\ WF_vars(EnableWrite)

FairSpec == Spec /\ Fairness

-----------------------------------------------------------------------------
DiskTypeOK ==
    /\ files \in {{}, {"data"}, {"data", "index"}}
    /\ dataFile \in Seq(Cell) /\ dataSynced \in 0..Len(dataFile)
    /\ indexFile \in Seq(IndexRecord) /\ indexSynced \in 0..Len(indexFile)

ObjectTypeOK ==
    /\ pc \in PC /\ call \in {"none", "append", "flush", "close"}
    /\ retryCount \in 0..1 /\ output \in {"open", "closed"}
    /\ mMaxIndex \in Nat /\ mLastData \in Nat
    /\ mBlockStream \in Seq(RecordCell)

HistoryTypeOK ==
    /\ acked \subseteq Handle /\ committed \subseteq Handle
    /\ flight.place \in {"aligned", "displaced"} /\ flight.start \in Nat
    /\ flight.block \in Seq(RecordCell)
    /\ settled \subseteq SettledHandle

(* AppendIndex never writes an empty block. *)
NoEmptyBlock ==
    /\ pc = "data" => mBlockStream # << >>
    /\ pc = "index" => flight.block # << >>

(* The types of the variables; the files of src/src/append-store and the object
   stay within them whatever fails. *)
TypeOK ==
    /\ DiskTypeOK /\ ObjectTypeOK /\ HistoryTypeOK /\ NoEmptyBlock
    /\ faults \in 0..MaxFaults /\ crashes \in 0..MaxCrashes

(* IndexVector::bisearch relies on it: the indices in the index file increase
   strictly, whatever fails and whenever the process dies. *)
IndexSorted == Increasing(indexFile)

(* A handle whose block was written right where the index file ended, and whose
   index record was written, reads its value; no later failed write, retry,
   crash or restart changes that while the two pieces are on disk. *)
SettledReadable == \A h \in settled : Readable(h)

(***************************************************************************)
(* Why IndexSorted and SettledReadable hold: the parts of the inductive    *)
(* invariant.                                                              *)
(***************************************************************************)
(* The buffer holds the last indices handed out, and the index file is behind
   all of them. *)
BufferNumbered ==
    pc \in {"idle", "data", "closing"} =>
        /\ LastIndex(indexFile) + Len(mBlockStream) <= mMaxIndex
        /\ \A k \in DOMAIN mBlockStream :
               mBlockStream[k].n = mMaxIndex - Len(mBlockStream) + k

(* Between the two writes the block in flight is the end of the data file. *)
FlightWritten ==
    pc = "index" =>
        /\ mBlockStream = << >>
        /\ LastIndex(indexFile) + Len(flight.block) <= mMaxIndex
        /\ \A k \in DOMAIN flight.block :
               flight.block[k].n = mMaxIndex - Len(flight.block) + k
        /\ flight.start + 1 + Len(flight.block) = Len(dataFile)
        /\ mLastData = Len(dataFile)
        /\ dataFile[flight.start + 1] = Header(Len(flight.block))
        /\ \A k \in DOMAIN flight.block : dataFile[flight.start + 1 + k] = flight.block[k]
        /\ flight.place = "aligned" => flight.start = EndOfIndex(indexFile)

(* A settled handle and the two pieces of the files that it is read from. *)
StoredIn(df, xf, h) ==
    /\ IsPosition(xf, h.index, h.pos)
    /\ h.end <= Len(df)
    /\ \E n \in 1..Len(df) :
           /\ IsLogAt(df, StartOffset(xf, h.pos), n)
           /\ StartOffset(xf, h.pos) + 1 + n <= h.end
           /\ \E k \in 1..n : df[StartOffset(xf, h.pos) + 1 + k] = DataRecord(h.index, h.val)

SettledOnDisk == \A h \in settled : StoredIn(dataFile, indexFile, h)

IInv == TypeOK /\ IndexSorted /\ BufferNumbered /\ FlightWritten /\ SettledOnDisk

(* Once a handle can be read after any crash, it always can. *)
DurableStays ==
    [][\A i \in 1..MaxIndex, v \in Value :
           Durable([index |-> i, val |-> v]) => Durable([index |-> i, val |-> v])']_vars

(* What a reader of the files gets for a handle does not change but by a crash. *)
ReadableStays ==
    [][crashes' = crashes =>
         \A i \in 1..MaxIndex, v \in Value :
             Readable([index |-> i, val |-> v]) => Readable([index |-> i, val |-> v])']_vars

(* Append never hands out an index that a handle of a closed session has. *)
NoReissue ==
    [][pc = "idle" /\ mMaxIndex' > mMaxIndex =>
         \A h \in committed : h.index # mMaxIndex']_vars

(* Every handle that Append returned is in the buffer, in the block being
   written, or readable: none is lost or replaced. *)
ReadYourWrites == \A h \in acked : Buffered(h) \/ InFlight(h) \/ Readable(h)

(* When the chunk was closed, the handles it had returned survive any crash. *)
CommittedDurable == \A h \in committed : Durable(h)

(* A chunk whose object is gone can be opened again. *)
Reopenable == pc = "none" => files # {"data"}

(* Each handle that Append returned becomes readable once the caller flushes,
   even when writes fail and are retried, unless the process dies before. *)
AckedBecomesReadable ==
    \A i \in 1..MaxIndex, v \in Value :
        LET h == [index |-> i, val |-> v]
        IN  h \in acked ~> Readable(h) \/ h \notin acked
=============================================================================
