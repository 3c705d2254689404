-------------------------- MODULE CommonDataStore --------------------------
(***************************************************************************)
(* The common data store of the append-store library                       *)
(* (src/src/append-store/common_data_store.cpp): a data file of blocks and *)
(* an index file of their checksums and offsets, which CDSUtility appends  *)
(* to, and the index split by checksum into partitions, which              *)
(* GeneratePartitionIndex makes.                                           *)
(*                                                                         *)
(* No build file of the repository has this source, and the handles that   *)
(* its comments "CHKIT" ask about (mDataInputFH, mIndexInputFH, the output *)
(* handles of a store that is opened again) are nowhere set: they are taken*)
(* to be set here, for these files.                                        *)
(*                                                                         *)
(* A file is a sequence of logs, a log is one cell, and an offset is a     *)
(* number of logs.  A write that is cut short leaves a torn cell.          *)
(***************************************************************************)
EXTENDS Integers, Sequences, SequencesExt

CONSTANTS
    Block,              \* what a block holds, and its checksum
    Sha1,               \* the checksum of each as a number
    IndexInterval,      \* index records that are written together
    no_partitions,
    Batches,            \* the batches that are appended
    MaxBatches,         \* bound: batches
    MaxFaults           \* bound: deaths of a process, and writes that fail

ASSUME CommonDataStoreAssumption ==
    /\ Sha1 \in [Block -> Nat]
    /\ IndexInterval \in Nat \ {0} /\ no_partitions \in Nat \ {0}
    /\ Batches \subseteq Seq(Block)
    /\ MaxBatches \in Nat /\ MaxFaults \in Nat

VARIABLES
    (* on disk *)
    data,           \* mDataFileName
    index,          \* mIndexFileName
    exist,          \* those of the two that exist
    partition,      \* the partitioned index files
    (* CDSUtility *)
    pc,             \* what it does next
    batch,          \* what is left of the batch
    mIndexStream,   \* index records that are not written; mFlushCount is their number
    (* GeneratePartitionIndex *)
    part,           \* what it does next, how far it read, what is left of the record
                    \* it read, the records it holds, and the loop counter j
    (* bounds and history *)
    batches, faults,
    appended,       \* the records of the batch
    returned,       \* the records of the batches that returned
    generated       \* the index when GeneratePartitionIndex returned true, or NoIndex

storeVars == <<data, index, exist>>
writerVars == <<pc, batch, mIndexStream, batches, appended, returned>>
partVars == <<partition, part, generated>>
vars == <<storeVars, writerVars, partVars, faults>>

Torn == [torn |-> TRUE, records |-> << >>]

Log(records) == [torn |-> FALSE, records |-> records]

CdsIndexRecord(b, offset) == [mSha1Index |-> b, mOffset |-> offset]

Part == 0..(no_partitions - 1)

mod(record) == Sha1[record.mSha1Index] % no_partitions

NoIndex == <<Torn>>

NoFile == [exists |-> FALSE, logs |-> << >>]

RecordsOf(logs) == FlattenSeq([n \in DOMAIN logs |-> logs[n].records])

NotRunning ==
    [pc |-> "none", read |-> 0, left |-> << >>, held |-> [j \in Part |-> << >>], j |-> 0]

Init ==
    /\ data = << >> /\ index = << >> /\ exist = {}
    /\ partition = [j \in Part |-> NoFile]
    /\ pc = "none" /\ batch = << >> /\ mIndexStream = << >>
    /\ part = NotRunning
    /\ batches = 0 /\ faults = 0
    /\ appended = << >> /\ returned = << >> /\ generated = NoIndex

(***************************************************************************)
(* CDSUtility.                                                             *)
(***************************************************************************)

(* Init, which does not go on when only one of the files is there. *)
Open ==
    /\ pc = "none" /\ exist \in {{}, {"data", "index"}}
    /\ IF exist = {}
       THEN pc' = "create index" /\ exist' = {"data"}
       ELSE pc' = "open" /\ UNCHANGED exist
    /\ UNCHANGED <<data, index, batch, mIndexStream, batches, appended, returned, partVars, faults>>

CreateIndex ==
    /\ pc = "create index" /\ pc' = "open"
    /\ exist' = {"data", "index"}
    /\ UNCHANGED <<data, index, batch, mIndexStream, batches, appended, returned, partVars, faults>>

BatchAppend(b) ==
    /\ pc = "open" /\ batches < MaxBatches /\ b # << >>
    /\ pc' = "append" /\ batch' = b /\ batches' = batches + 1 /\ appended' = << >>
    /\ UNCHANGED <<storeVars, mIndexStream, returned, partVars, faults>>

AddRecord_Before(records, b) ==                                       \* mutant
    Append(records, CdsIndexRecord(b, Len(data)))

(* The offset is what Flush returns: the end of the log that holds the block. *)
AddRecord(records, b) == Append(records, CdsIndexRecord(b, Len(data) + 1))

(* Append: one block, and its index record when the interval is full. *)
AppendBlock ==
    /\ pc = "append" /\ batch # << >>
    /\ data' = Append(data, Head(batch))
    /\ batch' = Tail(batch)
    /\ mIndexStream' = AddRecord(mIndexStream, Head(batch))
    /\ appended' = AddRecord(appended, Head(batch))
    /\ pc' = IF Len(mIndexStream') >= IndexInterval THEN "index" ELSE "append"
    /\ UNCHANGED <<index, exist, batches, returned, partVars, faults>>

AppendIndex == index' = Append(index, Log(mIndexStream)) /\ mIndexStream' = << >>

(* AppendIndex, called by Append, by Flush or by Close. *)
FlushIndex ==
    /\ \/ pc = "index" /\ pc' = "append"
       \/ pc = "append" /\ batch = << >> /\ mIndexStream # << >> /\ UNCHANGED pc
       \/ pc = "open" /\ mIndexStream # << >> /\ pc' = "none"
    /\ AppendIndex
    /\ UNCHANGED <<data, exist, batch, batches, appended, returned, partVars, faults>>

Return ==
    /\ pc = "append" /\ batch = << >> /\ mIndexStream = << >>
    /\ pc' = "open" /\ returned' = returned \o appended /\ appended' = << >>
    /\ UNCHANGED <<storeVars, batch, mIndexStream, batches, partVars, faults>>

Close ==
    /\ pc = "open" /\ mIndexStream = << >> /\ pc' = "none"
    /\ UNCHANGED <<storeVars, batch, mIndexStream, batches, appended, returned, partVars, faults>>

(* What is to be written now. *)
Writing(file) ==
    \/ file = "data" /\ pc = "append" /\ batch # << >>
    \/ file = "index" /\ \/ pc = "index"
                         \/ pc = "append" /\ batch = << >> /\ mIndexStream # << >>
                         \/ pc = "open" /\ mIndexStream # << >>

(* The write is cut short: the exception ends the batch, and the records that
   were not written stay. *)
WriteFails(file) ==
    /\ faults < MaxFaults /\ faults' = faults + 1
    /\ Writing(file) /\ pc # "open"
    /\ IF file = "data"
       THEN data' = Append(data, "torn") /\ UNCHANGED index
       ELSE index' = Append(index, Torn) /\ UNCHANGED data
    /\ pc' = "open" /\ batch' = << >> /\ appended' = << >>
    /\ UNCHANGED <<exist, mIndexStream, batches, returned, partVars>>

(* The process dies, perhaps within a write; or a write of Close fails. *)
Die ==
    /\ pc # "none" /\ faults < MaxFaults /\ faults' = faults + 1
    /\ data' \in {data} \cup IF Writing("data") THEN {Append(data, "torn")} ELSE {}
    /\ index' \in {index} \cup IF Writing("index") THEN {Append(index, Torn)} ELSE {}
    /\ pc' = "none" /\ batch' = << >> /\ mIndexStream' = << >> /\ appended' = << >>
    /\ UNCHANGED <<exist, batches, returned, partVars>>

(***************************************************************************)
(* GeneratePartitionIndex, a process of its own.                           *)
(***************************************************************************)

(* It goes on when there is an index and no partition. *)
Generate ==
    /\ part.pc = "none" /\ "index" \in exist
    /\ \A j \in Part : ~partition[j].exists
    /\ part' = [NotRunning EXCEPT !.pc = "create"]
    /\ UNCHANGED <<storeVars, writerVars, partition, generated, faults>>

(* Open makes the file of partition j. *)
CreatePartition ==
    /\ part.pc = "create"
    /\ partition' = [partition EXCEPT ![part.j].exists = TRUE]
    /\ part' = IF part.j + 1 = no_partitions
               THEN [part EXCEPT !.pc = "read", !.j = 0]
               ELSE [part EXCEPT !.j = @ + 1]
    /\ UNCHANGED <<storeVars, writerVars, generated, faults>>

HasNext == part.read < Len(index) /\ ~index[part.read + 1].torn

ReadRecord ==
    /\ part.pc = "read" /\ part.left = << >> /\ HasNext
    /\ part' = [part EXCEPT !.read = @ + 1, !.left = index[part.read + 1].records]
    /\ UNCHANGED <<storeVars, writerVars, partition, generated, faults>>

(* No log, or one that is cut short and taken for the end. *)
EndOfRecords ==
    /\ part.pc = "read" /\ part.left = << >> /\ ~HasNext
    /\ part' = [part EXCEPT !.pc = "finish"]
    /\ UNCHANGED <<storeVars, writerVars, partition, generated, faults>>

(* What the stream of a partition holds when a record is added, and what of it is
   flushed: [held |-> ..., logs |-> ...]. *)
AddTo_KeepsHeld(p, record) ==                                       \* mutant
    LET all == Append(p.held, record)
    IN  [held |-> all,
         logs |-> IF Len(all) >= IndexInterval THEN Append(p.logs, Log(all)) ELSE p.logs]

AddTo(p, record) ==
    LET all == Append(p.held, record)
    IN  IF Len(all) >= IndexInterval
        THEN [held |-> << >>, logs |-> Append(p.logs, Log(all))]
        ELSE [held |-> all, logs |-> p.logs]

(* One record of the log goes to the stream of its partition. *)
DistributeRecord ==
    /\ part.pc = "read" /\ part.left # << >>
    /\ LET r == Head(part.left)
           j == mod(r)
           new == AddTo([held |-> part.held[j], logs |-> partition[j].logs], r)
       IN  /\ partition' = [partition EXCEPT ![j].logs = new.logs]
           /\ part' = [part EXCEPT !.left = Tail(@), !.held[j] = new.held]
    /\ UNCHANGED <<storeVars, writerVars, generated, faults>>

(* What is held for partition j is flushed; after the last one it returns true. *)
FinishPartition ==
    /\ part.pc = "finish"
    /\ partition' = [partition EXCEPT ![part.j].logs =
            IF part.held[part.j] = << >> THEN @ ELSE Append(@, Log(part.held[part.j]))]
    /\ IF part.j + 1 = no_partitions
       THEN /\ part' = [part EXCEPT !.pc = "done", !.held[part.j] = << >>]
            /\ generated' = SubSeq(index, 1, part.read)
       ELSE /\ part' = [part EXCEPT !.j = @ + 1, !.held[part.j] = << >>]
            /\ UNCHANGED generated
    /\ UNCHANGED <<storeVars, writerVars, faults>>

(* The partition whose stream is flushed now. *)
Flushing(j) ==
    \/ /\ part.pc = "read" /\ part.left # << >> /\ j = mod(Head(part.left))
       /\ Len(part.held[j]) + 1 >= IndexInterval
    \/ part.pc = "finish" /\ j = part.j /\ part.held[j] # << >>

(* It dies, perhaps within a write, or returns false at a write that failed. *)
PartitionFails ==
    /\ part.pc \in {"create", "read", "finish"}
    /\ faults < MaxFaults /\ faults' = faults + 1
    /\ \/ UNCHANGED partition
       \/ \E j \in Part :
              /\ Flushing(j)
              /\ partition' = [partition EXCEPT ![j].logs = Append(@, Torn)]
    /\ part' = NotRunning
    /\ UNCHANGED <<storeVars, writerVars, generated>>

Next ==
    \/ Open \/ CreateIndex \/ AppendBlock \/ FlushIndex \/ Return \/ Close \/ Die
    \/ \E b \in Batches : BatchAppend(b)
    \/ \E file \in {"data", "index"} : WriteFails(file)
    \/ Generate \/ CreatePartition \/ ReadRecord \/ DistributeRecord \/ EndOfRecords
    \/ FinishPartition \/ PartitionFails

Spec == Init /\ [][Next]_vars

-----------------------------------------------------------------------------
IndexRecord == [mSha1Index : Block, mOffset : Nat]

IndexLog == [torn : BOOLEAN, records : Seq(IndexRecord)]

(* The types of the variables; a partition never holds a whole interval back. *)
TypeOK ==
    /\ data \in Seq(Block \cup {"torn"}) /\ index \in Seq(IndexLog)
    /\ exist \subseteq {"data", "index"} /\ (data # << >> => exist = {"data", "index"})
    /\ partition \in [Part -> [exists : BOOLEAN, logs : Seq(IndexLog)]]
    /\ pc \in {"none", "create index", "open", "append", "index"}
    /\ batch \in Seq(Block)
    /\ mIndexStream \in Seq(IndexRecord) /\ appended \in Seq(IndexRecord)
    /\ returned \in Seq(IndexRecord) /\ generated \in Seq(IndexLog)
    /\ part \in [pc : {"none", "create", "read", "finish", "done"}, read : 0..Len(index),
                 left : Seq(IndexRecord), held : [Part -> Seq(IndexRecord)], j : Part]
    /\ \A j \in Part : Len(part.held[j]) < IndexInterval
    /\ batches \in 0..MaxBatches /\ faults \in 0..MaxFaults

Offsets(records) ==
    \A n \in DOMAIN records :
        /\ records[n].mOffset \in DOMAIN data
        /\ data[records[n].mOffset] = records[n].mSha1Index

(* Through failed writes, deaths and reopenings, every index record, in the index
   and in the partitions, names the log that ends where it says and that holds its
   block, once; and what a batch that returned appended is all in the index. *)
IndexRight ==
    /\ Offsets(RecordsOf(index)) /\ Offsets(mIndexStream)
    /\ \A j \in Part : Offsets(RecordsOf(partition[j].logs))
    /\ IsInjective(RecordsOf(index))
    /\ \A n \in DOMAIN returned : \E m \in DOMAIN RecordsOf(index) :
           RecordsOf(index)[m] = returned[n]

(* The records of the partition j, in their order. *)
OfPartition(j, records) ==
    FlattenSeq([n \in DOMAIN records |->
                   IF mod(records[n]) = j THEN <<records[n]>> ELSE << >>])

(* When GeneratePartitionIndex has returned true, each partition holds the records
   of the index with its checksums, in their order, as far as the index was whole,
   while records were appended; and no later call changes them. *)
PartitionsRight ==
    generated # NoIndex =>
        \A j \in Part :
            RecordsOf(partition[j].logs) = OfPartition(j, RecordsOf(generated))
=============================================================================
