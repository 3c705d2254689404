---------------------------- MODULE ChunkProofs ----------------------------
(***************************************************************************)
(* Theorems about Chunk and the search in its index file, IndexVector, for *)
(* every value of their constants.                                         *)
(***************************************************************************)
EXTENDS Chunk, IndexVector, SequenceTheorems, TLAPS

-----------------------------------------------------------------------------
(* Files that only grow. *)

Extends(f, g) == Len(f) <= Len(g) /\ \A i \in 1..Len(f) : f[i] = g[i]

(* What a write leaves in a file: what was there, then the new cells. *)
LEMMA AfterWriteProps ==
    ASSUME NEW S, NEW f \in Seq(S), NEW c \in Seq(S)
    PROVE  /\ AfterWrite(f, c) \in Seq(S)
           /\ Len(AfterWrite(f, c)) = Len(f) + Len(c)
           /\ \A i \in 1..Len(f) : AfterWrite(f, c)[i] = f[i]
           /\ \A i \in 1..Len(c) : AfterWrite(f, c)[Len(f) + i] = c[i]
           /\ Extends(f, AfterWrite(f, c))
<1>1. /\ f \o c \in Seq(S)
      /\ Len(f \o c) = Len(f) + Len(c)
      /\ \A i \in 1..Len(f) + Len(c) :
             (f \o c)[i] = IF i <= Len(f) THEN f[i] ELSE c[i - Len(f)]
  BY ConcatProperties
<1>2. Len(f) \in Nat /\ Len(c) \in Nat
  BY LenProperties
<1>3. \A i \in 1..Len(f) : (f \o c)[i] = f[i]
  BY <1>1, <1>2
<1>4. \A i \in 1..Len(c) : (f \o c)[Len(f) + i] = c[i]
  BY <1>1, <1>2
<1>5. QED
  BY <1>1, <1>2, <1>3, <1>4 DEF AfterWrite, Extends

LEMMA AfterWriteNew ==
    ASSUME NEW S, NEW f \in Seq(S), NEW c \in Seq(S), NEW i \in 1..Len(c)
    PROVE  AfterWrite(f, c)[Len(f) + i] = c[i]
<1>1. Len(f) \in Nat /\ Len(c) \in Nat
  BY LenProperties
<1>2. (f \o c)[Len(f) + i] = IF Len(f) + i <= Len(f) THEN f[Len(f) + i] ELSE c[Len(f) + i - Len(f)]
  BY <1>1, ConcatProperties
<1>3. QED
  BY <1>1, <1>2 DEF AfterWrite

(* What a crash leaves of a file. *)
LEMMA CutProps ==
    ASSUME NEW S, NEW f \in Seq(S), NEW n \in 0..Len(f)
    PROVE  /\ Cut(f, n) \in Seq(S)
           /\ Len(Cut(f, n)) = n
           /\ \A i \in 1..n : Cut(f, n)[i] = f[i]
<1>1. Len(f) \in Nat
  BY LenProperties
<1>2. \A i \in 1..n : f[i] \in S
  BY <1>1, ElementOfSeq
<1>3. QED
  BY <1>1, <1>2, SubSeqProperties DEF Cut

(* A whole log is read back cell by cell. *)
LEMMA BlockAtProps ==
    ASSUME NEW f \in Seq(Cell), NEW off \in Nat, NEW n \in Nat, IsLogAt(f, off, n)
    PROVE  /\ DOMAIN BlockAt(f, off) = 1..n
           /\ \A k \in 1..n : BlockAt(f, off)[k] = f[off + 1 + k]
<1>1. Len(f) \in Nat
  BY LenProperties
<1>2. off < Len(f) /\ f[off + 1].n = n
  BY <1>1 DEF IsLogAt, Header
<1>3. BlockAt(f, off) = SubSeq(f, off + 2, off + 1 + n)
  BY <1>2 DEF BlockAt
<1>4. \A i \in off + 2..off + 1 + n : f[i] \in Cell
  BY <1>1, ElementOfSeq DEF IsLogAt
<1>5. /\ SubSeq(f, off + 2, off + 1 + n) \in Seq(Cell)
      /\ Len(SubSeq(f, off + 2, off + 1 + n)) = n
      /\ \A i \in 1..n : SubSeq(f, off + 2, off + 1 + n)[i] = f[off + 2 + i - 1]
  BY <1>1, <1>2, <1>4, SubSeqProperties DEF IsLogAt
<1>6. QED
  BY <1>3, <1>5, LenProperties

-----------------------------------------------------------------------------
(* Types. *)

LEMMA RecordIsCell == RecordCell \subseteq Cell
BY DEF Cell

LEMMA DataRecordType ==
    ASSUME NEW i \in Nat, NEW v \in Value
    PROVE  DataRecord(i, v) \in RecordCell
BY DEF DataRecord, RecordCell

LEMMA BlockElement ==
    ASSUME NEW b \in Seq(RecordCell), NEW k \in DOMAIN b
    PROVE  b[k] \in RecordCell
<1>1. k \in 1..Len(b)
  BY LenProperties
<1>2. QED
  BY <1>1, ElementOfSeq

(* The cells of a log are one header and the records of the block. *)
LEMMA LogOfProps ==
    ASSUME NEW b \in Seq(RecordCell)
    PROVE  /\ LogOf(b) \in Seq(Cell)
           /\ Len(LogOf(b)) = Len(b) + 1
           /\ LogOf(b)[1] = Header(Len(b))
           /\ \A k \in 1..Len(b) : LogOf(b)[1 + k] = b[k]
<1>1. Len(b) \in Nat
  BY LenProperties
<1>2. b \in Seq(Cell)
  BY RecordIsCell, SeqMonotonic
<1>3. Header(Len(b)) \in Cell
  BY <1>1 DEF Header, Cell
<1> DEFINE h == <<Header(Len(b))>>
<1>4. h \in Seq(Cell) /\ Len(h) = 1 /\ h[1] = Header(Len(b))
  BY <1>3
<1> HIDE DEF h
<1>5. /\ h \o b \in Seq(Cell)
      /\ Len(h \o b) = 1 + Len(b)
      /\ \A i \in 1..1 + Len(b) : (h \o b)[i] = IF i <= 1 THEN h[i] ELSE b[i - 1]
  BY <1>2, <1>4, ConcatProperties
<1>6. (h \o b)[1] = Header(Len(b)) /\ \A k \in 1..Len(b) : (h \o b)[1 + k] = b[k]
  BY <1>1, <1>4, <1>5
<1>7. QED
  BY <1>1, <1>5, <1>6 DEF LogOf, h

(* The part of a log that a torn write leaves. *)
LEMMA TornLogProps ==
    ASSUME NEW b \in Seq(RecordCell), NEW left \in 0..Len(b) + 1
    PROVE  SubSeq(LogOf(b), 1, left) \in Seq(Cell)
<1>1. Len(b) \in Nat
  BY LenProperties
<1>2. left \in 0..Len(LogOf(b))
  BY <1>1, LogOfProps
<1>3. QED
  BY <1>2, LogOfProps, CutProps DEF Cut

LEMMA IndexRecordType ==
    ASSUME NEW xf \in Seq(IndexRecord)
    PROVE  LastIndex(xf) \in Nat /\ EndOfIndex(xf) \in Nat
<1>1. CASE xf = << >>
  BY <1>1 DEF LastIndex, EndOfIndex
<1>2. CASE xf # << >>
  <2>1. Len(xf) \in 1..Len(xf)
    BY <1>2, EmptySeq, LenProperties
  <2>2. xf[Len(xf)] \in IndexRecord
    BY <2>1, ElementOfSeq
  <2>3. QED
    BY <1>2, <2>2 DEF LastIndex, EndOfIndex, IndexRecord
<1>3. QED
  BY <1>1, <1>2

(* The types hold initially and every step preserves them. *)
LEMMA TypeInit == Init => TypeOK
<1> SUFFICES ASSUME Init PROVE TypeOK
  OBVIOUS
<1>1. << >> \in Seq(Cell) /\ << >> \in Seq(IndexRecord) /\ << >> \in Seq(RecordCell)
  BY EmptySeq
<1>2. Len(<< >>) = 0
  BY EmptySeq
<1>3. DiskTypeOK
  BY <1>1, <1>2 DEF Init, DiskTypeOK
<1>4. ObjectTypeOK
  BY <1>1 DEF Init, ObjectTypeOK, PC
<1>5. HistoryTypeOK
  BY <1>1 DEF Init, HistoryTypeOK, NoFlight
<1>6. faults \in 0..MaxFaults /\ crashes \in 0..MaxCrashes
  BY ChunkAssumption DEF Init
<1>7. NoEmptyBlock
  BY DEF Init, NoEmptyBlock
<1>8. QED
  BY <1>3, <1>4, <1>5, <1>6, <1>7 DEF TypeOK

LEMMA TypeNext == TypeOK /\ [Next]_vars => TypeOK'
<1> SUFFICES ASSUME TypeOK, [Next]_vars PROVE TypeOK'
  OBVIOUS
<1> USE DEF TypeOK, NoEmptyBlock
<1>0. /\ Len(dataFile) \in Nat /\ Len(indexFile) \in Nat /\ Len(mBlockStream) \in Nat
      /\ << >> \in Seq(RecordCell)
      /\ NoFlight.place \in {"aligned", "displaced"} /\ NoFlight.start \in Nat
      /\ NoFlight.block \in Seq(RecordCell)
  BY LenProperties, EmptySeq DEF DiskTypeOK, ObjectTypeOK, NoFlight
<1>1. CASE CreateDataFile
  BY <1>1 DEF CreateDataFile, boundVars, historyVars, DiskTypeOK, ObjectTypeOK, HistoryTypeOK, PC
<1>2. CASE CreateIndexFile
  BY <1>2 DEF CreateIndexFile, boundVars, historyVars, DiskTypeOK, ObjectTypeOK, HistoryTypeOK, PC
<1>3. CASE Load
  <2>1. LastIndex(indexFile) \in Nat
    BY IndexRecordType DEF DiskTypeOK
  <2>2. DiskTypeOK' /\ HistoryTypeOK'
    BY <1>3 DEF Load, diskVars, historyVars, DiskTypeOK, HistoryTypeOK
  <2>3. ObjectTypeOK'
    BY <1>0, <1>3, <2>1 DEF Load, ObjectTypeOK, PC
  <2>4. QED
    BY <1>3, <2>2, <2>3 DEF Load, boundVars
<1>4. ASSUME NEW v \in Value, AppendRecord(v) PROVE TypeOK'
  <2>1. DataRecord(mMaxIndex + 1, v) \in RecordCell
    BY DataRecordType DEF ObjectTypeOK
  <2>2. /\ Append(mBlockStream, DataRecord(mMaxIndex + 1, v)) \in Seq(RecordCell)
        /\ Append(mBlockStream, DataRecord(mMaxIndex + 1, v)) # << >>
    BY <2>1, AppendProperties DEF ObjectTypeOK
  <2>3. ObjectTypeOK'
    BY <1>4, <2>2 DEF AppendRecord, ObjectTypeOK, PC
  <2>4. DiskTypeOK'
    BY <1>4 DEF AppendRecord, diskVars, DiskTypeOK
  <2>5. acked' \subseteq Handle
    BY <1>4 DEF AppendRecord, HistoryTypeOK, ObjectTypeOK, Handle
  <2>6. HistoryTypeOK'
    BY <1>4, <2>5 DEF AppendRecord, HistoryTypeOK
  <2>7. QED
    BY <1>4, <2>2, <2>3, <2>4, <2>6 DEF AppendRecord, boundVars
<1>5. CASE Flush
  BY <1>5 DEF Flush, diskVars, boundVars, historyVars, DiskTypeOK, ObjectTypeOK, HistoryTypeOK, PC
<1>6. CASE Close
  BY <1>6 DEF Close, diskVars, boundVars, historyVars, DiskTypeOK, ObjectTypeOK, HistoryTypeOK, PC
<1>7. CASE WriteData
  <2>1. LogOf(mBlockStream) \in Seq(Cell)
    BY LogOfProps DEF ObjectTypeOK
  <2>2. dataFile' \in Seq(Cell) /\ Len(dataFile') \in Nat /\ Len(dataFile) <= Len(dataFile')
    BY <1>7, <2>1, AfterWriteProps, LenProperties DEF WriteData, DiskTypeOK, Extends
  <2>3. DiskTypeOK'
    BY <1>0, <1>7, <2>2 DEF WriteData, DiskTypeOK
  <2>4. ObjectTypeOK'
    BY <1>0, <1>7, <2>2 DEF WriteData, ObjectTypeOK, PC
  <2>5. HistoryTypeOK'
    BY <1>0, <1>7 DEF WriteData, ObjectTypeOK, HistoryTypeOK
  <2>6. QED
    BY <1>7, <2>3, <2>4, <2>5 DEF WriteData, boundVars
<1>8. CASE WriteDataFails
  <2>1. PICK left \in 0..Len(mBlockStream) + 1 :
            dataFile' = AfterWrite(dataFile, SubSeq(LogOf(mBlockStream), 1, left))
    BY <1>8 DEF WriteDataFails
  <2>2. SubSeq(LogOf(mBlockStream), 1, left) \in Seq(Cell)
    BY TornLogProps DEF ObjectTypeOK
  <2>3. dataFile' \in Seq(Cell) /\ Len(dataFile') \in Nat
    BY <2>1, <2>2, AfterWriteProps, LenProperties DEF DiskTypeOK
  <2>4. DiskTypeOK'
    BY <1>8, <2>3 DEF WriteDataFails, DiskTypeOK
  <2>5. ObjectTypeOK'
    BY <1>8 DEF WriteDataFails, ObjectTypeOK, PC
  <2>6. HistoryTypeOK'
    BY <1>8 DEF WriteDataFails, historyVars, HistoryTypeOK
  <2>7. QED
    BY <1>8, <2>4, <2>5, <2>6, ChunkAssumption DEF WriteDataFails
<1>9. CASE WriteIndex
  <2> DEFINE r == [mOffset |-> mLastData, mIndex |-> mMaxIndex]
  <2>1. <<r>> \in Seq(IndexRecord)
    BY DEF ObjectTypeOK, IndexRecord
  <2>2. /\ indexFile' \in Seq(IndexRecord) /\ Len(indexFile') \in Nat
        /\ Len(indexFile) <= Len(indexFile')
    BY <1>9, <2>1, AfterWriteProps, LenProperties DEF WriteIndex, DiskTypeOK, Extends
  <2>3. DiskTypeOK'
    BY <1>0, <1>9, <2>2 DEF WriteIndex, DiskTypeOK
  <2>4. ObjectTypeOK'
    BY <1>9 DEF WriteIndex, ObjectTypeOK, PC
  <2>5. settled' \subseteq SettledHandle
    <3>1. ASSUME NEW k \in DOMAIN flight.block
          PROVE  flight.block[k].n \in Nat /\ flight.block[k].val \in Value
      BY BlockElement DEF HistoryTypeOK, RecordCell
    <3>2. ASSUME NEW k \in DOMAIN flight.block
          PROVE  [index |-> flight.block[k].n, val |-> flight.block[k].val,
                  pos |-> Len(indexFile) + 1, end |-> mLastData] \in SettledHandle
      BY <1>0, <3>1 DEF ObjectTypeOK, SettledHandle
    <3>3. settled' \subseteq settled \cup
              {[index |-> flight.block[k].n, val |-> flight.block[k].val,
                pos |-> Len(indexFile) + 1, end |-> mLastData] : k \in DOMAIN flight.block}
      BY <1>9 DEF WriteIndex
    <3>4. QED
      BY <3>2, <3>3 DEF HistoryTypeOK
  <2>6. Returned \in Handle
    <3>1. flight.block \in Seq(RecordCell) /\ flight.block # << >>
      BY <1>9 DEF WriteIndex, HistoryTypeOK, NoEmptyBlock
    <3>2. Len(flight.block) \in DOMAIN flight.block
      BY <3>1, EmptySeq, LenProperties
    <3>3. flight.block[Len(flight.block)] \in RecordCell
      BY <3>1, <3>2, BlockElement
    <3>4. QED
      BY <3>3 DEF Returned, Handle, ObjectTypeOK, RecordCell
  <2>7. acked' \subseteq Handle
    BY <1>9, <2>6 DEF WriteIndex, HistoryTypeOK
  <2>8. HistoryTypeOK'
    BY <1>0, <1>9, <2>5, <2>7 DEF WriteIndex, HistoryTypeOK
  <2>9. QED
    BY <1>9, <2>3, <2>4, <2>8 DEF WriteIndex, NoEmptyBlock, boundVars
<1>10. CASE WriteIndexFails
  <2>1. DiskTypeOK'
    BY <1>0, <1>10 DEF WriteIndexFails, DiskTypeOK
  <2>2. ObjectTypeOK'
    BY <1>10 DEF WriteIndexFails, ObjectTypeOK, PC
  <2>3. HistoryTypeOK'
    BY <1>0, <1>10 DEF WriteIndexFails, HistoryTypeOK
  <2>4. QED
    BY <1>10, <2>1, <2>2, <2>3, ChunkAssumption DEF WriteIndexFails
<1>11. CASE EndClose
  BY <1>0, <1>11 DEF EndClose, CloseHandles, boundVars, DiskTypeOK, ObjectTypeOK, HistoryTypeOK, PC
<1>12. CASE DisableWrite
  BY <1>0, <1>12 DEF DisableWrite, CloseHandles, boundVars, historyVars, DiskTypeOK, ObjectTypeOK, HistoryTypeOK
<1>13. CASE EnableWrite
  BY <1>0, <1>13 DEF EnableWrite, diskVars, boundVars, historyVars, DiskTypeOK, ObjectTypeOK, HistoryTypeOK
<1>14. CASE Destroy
  BY <1>14 DEF Destroy, diskVars, boundVars, historyVars, DiskTypeOK, ObjectTypeOK, HistoryTypeOK, PC
<1>15. CASE Crash
  <2>1. PICK d \in dataSynced..Len(dataFile), x \in indexSynced..Len(indexFile) :
            /\ dataFile' = Cut(dataFile, d) /\ dataSynced' = d
            /\ indexFile' = Cut(indexFile, x) /\ indexSynced' = x
            /\ settled' = {h \in settled : h.pos <= x /\ h.end <= d}
    BY <1>15 DEF Crash
  <2>2. d \in 0..Len(dataFile) /\ x \in 0..Len(indexFile)
    BY <1>0 DEF DiskTypeOK
  <2>3. /\ dataFile' \in Seq(Cell) /\ Len(dataFile') = d
        /\ indexFile' \in Seq(IndexRecord) /\ Len(indexFile') = x
    BY <2>1, <2>2, CutProps DEF DiskTypeOK
  <2>4. DiskTypeOK'
    BY <1>15, <2>1, <2>2, <2>3 DEF Crash, DiskTypeOK
  <2>5. ObjectTypeOK'
    BY <1>0, <1>15 DEF Crash, ObjectTypeOK, PC
  <2>6. HistoryTypeOK'
    BY <1>0, <1>15, <2>1 DEF Crash, HistoryTypeOK
  <2>7. QED
    BY <1>15, <2>4, <2>5, <2>6, ChunkAssumption DEF Crash
<1>16. CASE UNCHANGED vars
  BY <1>16 DEF vars, diskVars, objectVars, boundVars, historyVars, DiskTypeOK, ObjectTypeOK, HistoryTypeOK
<1>17. QED
  BY <1>1, <1>2, <1>3, <1>4, <1>5, <1>6, <1>7, <1>8, <1>9, <1>10, <1>11, <1>12, <1>13, <1>14,
     <1>15, <1>16 DEF Next

(* The variables of a chunk keep their types, whatever fails. *)
THEOREM TypeCorrect == Spec => []TypeOK
<1>1. QED
  BY TypeInit, TypeNext, PTL DEF Spec

-----------------------------------------------------------------------------
(* What is on disk and synced stays. *)

(* Between two states: the synced part of the data file, the synced part of the
   index file, and both files but for a crash. *)
DataKept ==
    /\ dataSynced <= dataSynced'
    /\ \A i \in 1..dataSynced : dataFile'[i] = dataFile[i]

IndexKept ==
    /\ indexSynced <= indexSynced'
    /\ \A i \in 1..indexSynced : indexFile'[i] = indexFile[i]

FilesGrow == crashes' = crashes => Extends(dataFile, dataFile') /\ Extends(indexFile, indexFile')

LEMMA ExtendsRefl == ASSUME NEW S, NEW f \in Seq(S) PROVE Extends(f, f)
<1>1. Len(f) \in Nat
  BY LenProperties
<1>2. QED
  BY <1>1 DEF Extends

LEMMA DiskStep == TypeOK /\ [Next]_vars => DataKept /\ IndexKept /\ FilesGrow
<1> SUFFICES ASSUME TypeOK, [Next]_vars PROVE DataKept /\ IndexKept /\ FilesGrow
  OBVIOUS
<1>0. /\ dataFile \in Seq(Cell) /\ Len(dataFile) \in Nat /\ dataSynced \in 0..Len(dataFile)
      /\ indexFile \in Seq(IndexRecord) /\ Len(indexFile) \in Nat
      /\ indexSynced \in 0..Len(indexFile)
      /\ Extends(dataFile, dataFile) /\ Extends(indexFile, indexFile)
  BY LenProperties, ExtendsRefl DEF TypeOK, DiskTypeOK
<1>1. CASE UNCHANGED <<dataFile, dataSynced, indexFile, indexSynced>>
  BY <1>0, <1>1 DEF DataKept, IndexKept, FilesGrow
<1>2. CASE WriteData
  <2>1. LogOf(mBlockStream) \in Seq(Cell)
    BY LogOfProps DEF TypeOK, ObjectTypeOK
  <2>2. Extends(dataFile, dataFile')
    BY <1>0, <1>2, <2>1, AfterWriteProps DEF WriteData
  <2>3. QED
    BY <1>0, <1>2, <2>2 DEF WriteData, DataKept, IndexKept, FilesGrow, Extends
<1>3. CASE WriteDataFails
  <2>1. PICK left \in 0..Len(mBlockStream) + 1 :
            dataFile' = AfterWrite(dataFile, SubSeq(LogOf(mBlockStream), 1, left))
    BY <1>3 DEF WriteDataFails
  <2>2. SubSeq(LogOf(mBlockStream), 1, left) \in Seq(Cell)
    BY TornLogProps DEF TypeOK, ObjectTypeOK
  <2>3. Extends(dataFile, dataFile')
    BY <1>0, <2>1, <2>2, AfterWriteProps
  <2>4. QED
    BY <1>0, <1>3, <2>3 DEF WriteDataFails, DataKept, IndexKept, FilesGrow, Extends
<1>4. CASE WriteIndex
  <2> DEFINE r == [mOffset |-> mLastData, mIndex |-> mMaxIndex]
  <2>1. <<r>> \in Seq(IndexRecord)
    BY DEF TypeOK, ObjectTypeOK, IndexRecord
  <2>2. Extends(indexFile, indexFile')
    BY <1>0, <1>4, <2>1, AfterWriteProps DEF WriteIndex
  <2>3. QED
    BY <1>0, <1>4, <2>2 DEF WriteIndex, DataKept, IndexKept, FilesGrow, Extends
<1>5. CASE WriteIndexFails
  BY <1>0, <1>5 DEF WriteIndexFails, DataKept, IndexKept, FilesGrow
<1>6. CASE EndClose \/ DisableWrite
  BY <1>0, <1>6 DEF EndClose, DisableWrite, CloseHandles, DataKept, IndexKept, FilesGrow
<1>7. CASE Crash
  <2>1. PICK d \in dataSynced..Len(dataFile), x \in indexSynced..Len(indexFile) :
            /\ dataFile' = Cut(dataFile, d) /\ dataSynced' = d
            /\ indexFile' = Cut(indexFile, x) /\ indexSynced' = x
    BY <1>7 DEF Crash
  <2>2. /\ \A i \in 1..d : dataFile'[i] = dataFile[i]
        /\ \A i \in 1..x : indexFile'[i] = indexFile[i]
    <3>1. d \in 0..Len(dataFile) /\ x \in 0..Len(indexFile)
      BY <1>0
    <3>2. \A i \in 1..d : Cut(dataFile, d)[i] = dataFile[i]
      BY <1>0, <3>1, CutProps
    <3>3. \A i \in 1..x : Cut(indexFile, x)[i] = indexFile[i]
      BY <1>0, <3>1, CutProps
    <3>4. QED
      BY <2>1, <3>2, <3>3
  <2>3. crashes' # crashes
    BY <1>7 DEF Crash, TypeOK
  <2>4. QED
    BY <1>0, <2>1, <2>2, <2>3 DEF DataKept, IndexKept, FilesGrow
<1>8. QED
  <2>1. CASE UNCHANGED vars
    BY <1>1, <2>1 DEF vars, diskVars
  <2>2. CASE CreateDataFile \/ CreateIndexFile \/ Load \/ (\E v \in Value : AppendRecord(v))
             \/ Flush \/ Close \/ EnableWrite \/ Destroy
    BY <1>1, <2>2 DEF CreateDataFile, CreateIndexFile, Load, AppendRecord, Flush, Close,
                      EnableWrite, Destroy, diskVars
  <2>3. QED
    BY <1>2, <1>3, <1>4, <1>5, <1>6, <1>7, <2>1, <2>2 DEF Next

(* A reader of longer files reads the same. *)
LEMMA ReadsGrow ==
    ASSUME NEW f \in Seq(Cell), NEW g \in Seq(Cell), Extends(f, g),
           NEW x \in Seq(IndexRecord), NEW y \in Seq(IndexRecord), Extends(x, y),
           NEW i, NEW v, Reads(f, x, i, v)
    PROVE  Reads(g, y, i, v)
<1>1. PICK p \in DOMAIN x :
          /\ IsPosition(x, i, p)
          /\ \E k \in DOMAIN BlockAt(f, StartOffset(x, p)) :
                 BlockAt(f, StartOffset(x, p))[k] = DataRecord(i, v)
  BY DEF Reads
<1> DEFINE off == StartOffset(x, p)
           n == f[off + 1].n
<1>2. /\ Len(x) \in Nat /\ DOMAIN x = 1..Len(x) /\ Len(y) \in Nat /\ DOMAIN y = 1..Len(y)
      /\ Len(f) \in Nat /\ Len(g) \in Nat
  BY LenProperties
<1>3. p \in DOMAIN y /\ y[p] = x[p] /\ (p # 1 => p - 1 \in 1..Len(x) /\ y[p - 1] = x[p - 1])
  BY <1>2 DEF Extends
<1>4. IsPosition(y, i, p) /\ StartOffset(y, p) = off
  BY <1>1, <1>3 DEF IsPosition, StartOffset
<1>5. off \in Nat
  <2>1. CASE p = 1
    BY <2>1 DEF StartOffset
  <2>2. CASE p # 1
    <3>1. x[p - 1] \in IndexRecord
      BY <1>3, <2>2, ElementOfSeq
    <3>2. QED
      BY <2>2, <3>1 DEF StartOffset, IndexRecord
  <2>3. QED
    BY <2>1, <2>2
<1> HIDE DEF off
<1>6. off < Len(f) /\ IsLogAt(f, off, n)
  <2>1. DOMAIN BlockAt(f, off) # {}
    BY <1>1 DEF off
  <2>2. BlockAt(f, off) # << >>
    BY <2>1, EmptySeq, LenProperties
  <2>3. QED
    BY <2>2 DEF BlockAt
<1>7. n \in Nat
  <2>1. f[off + 1] \in Cell
    BY <1>2, <1>5, <1>6, ElementOfSeq
  <2>2. QED
    BY <2>1 DEF Cell, RecordCell
<1> HIDE DEF n
<1>8. IsLogAt(g, off, n)
  <2>1. off + 1 + n <= Len(f) /\ off + 1 \in 1..Len(f)
    BY <1>2, <1>5, <1>6, <1>7 DEF IsLogAt
  <2>2. \A j \in 1..Len(f) : f[j] = g[j]
    BY DEF Extends
  <2>3. off + 1 + n <= Len(g)
    BY <1>2, <1>5, <1>7, <2>1 DEF Extends
  <2>4. g[off + 1] = Header(n)
    BY <1>6, <2>1, <2>2 DEF IsLogAt
  <2>5. ASSUME NEW k \in 1..n PROVE f[off + 1 + k] = g[off + 1 + k]
    <3>1. off + 1 + k \in 1..Len(f)
      BY <1>2, <1>5, <1>7, <2>1
    <3>2. QED
      BY <2>2, <3>1
  <2>6. QED
    BY <1>6, <2>3, <2>4, <2>5 DEF IsLogAt
<1>9. /\ DOMAIN BlockAt(f, off) = 1..n /\ \A k \in 1..n : BlockAt(f, off)[k] = f[off + 1 + k]
      /\ DOMAIN BlockAt(g, off) = 1..n /\ \A k \in 1..n : BlockAt(g, off)[k] = g[off + 1 + k]
  BY <1>5, <1>6, <1>7, <1>8, BlockAtProps
<1>10. ASSUME NEW k \in 1..n PROVE f[off + 1 + k] = g[off + 1 + k]
  <2>1. off + 1 + k \in 1..Len(f)
    BY <1>2, <1>5, <1>6, <1>7 DEF IsLogAt
  <2>2. QED
    BY <2>1 DEF Extends
<1>11. \E k \in DOMAIN BlockAt(g, off) : BlockAt(g, off)[k] = DataRecord(i, v)
  BY <1>1, <1>9, <1>10 DEF off
<1>12. QED
  BY <1>3, <1>4, <1>11 DEF Reads, off

LEMMA CutsExtend ==
    ASSUME NEW S, NEW f \in Seq(S), NEW g \in Seq(S), NEW m \in 0..Len(f), NEW n \in 0..Len(g),
           m <= n, \A i \in 1..m : g[i] = f[i]
    PROVE  Cut(f, m) \in Seq(S) /\ Cut(g, n) \in Seq(S) /\ Extends(Cut(f, m), Cut(g, n))
<1>1. /\ Cut(f, m) \in Seq(S) /\ Len(Cut(f, m)) = m /\ \A i \in 1..m : Cut(f, m)[i] = f[i]
      /\ Cut(g, n) \in Seq(S) /\ Len(Cut(g, n)) = n /\ \A i \in 1..n : Cut(g, n)[i] = g[i]
  BY CutProps
<1>2. Len(f) \in Nat /\ Len(g) \in Nat
  BY LenProperties
<1>3. QED
  BY <1>1, <1>2 DEF Extends

(* A handle that can be read after any crash can still be read after any number
   of later appends, failed writes, retries, crashes and restarts. *)
THEOREM DurableForever == Spec => DurableStays
<1>1. TypeOK /\ [Next]_vars =>
          \A i \in 1..MaxIndex, v \in Value :
              Durable([index |-> i, val |-> v]) => Durable([index |-> i, val |-> v])'
  <2> SUFFICES ASSUME TypeOK, [Next]_vars, NEW i \in 1..MaxIndex, NEW v \in Value,
                      Durable([index |-> i, val |-> v])
               PROVE  Durable([index |-> i, val |-> v])'
    OBVIOUS
  <2>1. DiskTypeOK /\ DiskTypeOK' /\ DataKept /\ IndexKept
    BY DiskStep, TypeNext DEF TypeOK
  <2>2. /\ Cut(dataFile, dataSynced) \in Seq(Cell)
        /\ Cut(dataFile', dataSynced') \in Seq(Cell)
        /\ Extends(Cut(dataFile, dataSynced), Cut(dataFile', dataSynced'))
    BY <2>1, CutsExtend DEF DiskTypeOK, DataKept
  <2>3. /\ Cut(indexFile, indexSynced) \in Seq(IndexRecord)
        /\ Cut(indexFile', indexSynced') \in Seq(IndexRecord)
        /\ Extends(Cut(indexFile, indexSynced), Cut(indexFile', indexSynced'))
    BY <2>1, CutsExtend DEF DiskTypeOK, IndexKept
  <2>4. Reads(Cut(dataFile, dataSynced), Cut(indexFile, indexSynced), i, v)
    BY DEF Durable
  <2>5. Reads(Cut(dataFile', dataSynced'), Cut(indexFile', indexSynced'), i, v)
    BY <2>2, <2>3, <2>4, ReadsGrow
  <2>6. QED
    BY <2>5 DEF Durable
<1>2. QED
  BY <1>1, TypeCorrect, PTL DEF Spec, DurableStays

(* While the process lives, what a reader of the files gets for a handle does
   not change, whatever writes fail. *)
THEOREM ReadableForever == Spec => ReadableStays
<1>1. TypeOK /\ [Next]_vars =>
          (crashes' = crashes =>
             \A i \in 1..MaxIndex, v \in Value :
                 Readable([index |-> i, val |-> v]) => Readable([index |-> i, val |-> v])')
  <2> SUFFICES ASSUME TypeOK, [Next]_vars, crashes' = crashes,
                      NEW i \in 1..MaxIndex, NEW v \in Value,
                      Readable([index |-> i, val |-> v])
               PROVE  Readable([index |-> i, val |-> v])'
    OBVIOUS
  <2>1. DiskTypeOK /\ DiskTypeOK' /\ FilesGrow
    BY DiskStep, TypeNext DEF TypeOK
  <2>2. Reads(dataFile, indexFile, i, v)
    BY DEF Readable
  <2>3. Reads(dataFile', indexFile', i, v)
    BY <2>1, <2>2, ReadsGrow DEF DiskTypeOK, FilesGrow
  <2>4. QED
    BY <2>3 DEF Readable
<1>2. QED
  BY <1>1, TypeCorrect, PTL DEF Spec, ReadableStays

-----------------------------------------------------------------------------
(* The index file stays sorted, and settled handles stay readable. *)

LEMMA LastIndexBound ==
    ASSUME NEW x \in Seq(IndexRecord), Increasing(x), NEW p \in DOMAIN x
    PROVE  x[p].mIndex <= LastIndex(x)
<1>1. Len(x) \in Nat /\ DOMAIN x = 1..Len(x)
  BY LenProperties
<1>2. p \in 1..Len(x) /\ Len(x) \in 1..Len(x) /\ x # << >>
  BY <1>1, EmptySeq
<1>3. x[p] \in IndexRecord /\ x[Len(x)] \in IndexRecord
  BY <1>2, ElementOfSeq
<1>4. x[p].mIndex \in Nat /\ x[Len(x)].mIndex \in Nat
  BY <1>3 DEF IndexRecord
<1>5. p = Len(x) \/ x[p].mIndex < x[Len(x)].mIndex
  BY <1>1, <1>2 DEF Increasing
<1>6. QED
  BY <1>2, <1>4, <1>5 DEF LastIndex

LEMMA CutIncreasing ==
    ASSUME NEW x \in Seq(IndexRecord), Increasing(x), NEW n \in 0..Len(x)
    PROVE  Increasing(Cut(x, n))
<1>1. /\ Cut(x, n) \in Seq(IndexRecord) /\ Len(Cut(x, n)) = n
      /\ \A i \in 1..n : Cut(x, n)[i] = x[i]
  BY CutProps
<1>2. DOMAIN Cut(x, n) = 1..n /\ DOMAIN x = 1..Len(x) /\ Len(x) \in Nat
  BY <1>1, LenProperties
<1>3. QED
  BY <1>1, <1>2 DEF Increasing

(* The index file after one more record. *)
LEMMA IndexWritten ==
    ASSUME NEW x \in Seq(IndexRecord), NEW r \in IndexRecord
    PROVE  /\ AfterWrite(x, <<r>>) \in Seq(IndexRecord)
           /\ Len(AfterWrite(x, <<r>>)) = Len(x) + 1
           /\ DOMAIN AfterWrite(x, <<r>>) = 1..Len(x) + 1
           /\ \A i \in 1..Len(x) : AfterWrite(x, <<r>>)[i] = x[i]
           /\ AfterWrite(x, <<r>>)[Len(x) + 1] = r
           /\ LastIndex(AfterWrite(x, <<r>>)) = r.mIndex
           /\ Increasing(x) /\ LastIndex(x) < r.mIndex => Increasing(AfterWrite(x, <<r>>))
<1> DEFINE y == AfterWrite(x, <<r>>)
<1>1. <<r>> \in Seq(IndexRecord) /\ Len(<<r>>) = 1 /\ <<r>>[1] = r /\ Len(x) \in Nat
  BY LenProperties
<1> DEFINE c == <<r>>
<1> HIDE DEF c
<1>2. /\ y \in Seq(IndexRecord) /\ Len(y) = Len(x) + 1
      /\ \A i \in 1..Len(x) : y[i] = x[i]
      /\ y[Len(x) + 1] = r
  <2>1. c \in Seq(IndexRecord) /\ Len(c) = 1 /\ c[1] = r
    BY <1>1 DEF c
  <2>2. y = AfterWrite(x, c)
    BY DEF c
  <2> HIDE DEF y
  <2>3. /\ AfterWrite(x, c) \in Seq(IndexRecord)
        /\ Len(AfterWrite(x, c)) = Len(x) + Len(c)
        /\ \A i \in 1..Len(x) : AfterWrite(x, c)[i] = x[i]
        /\ \A i \in 1..Len(c) : AfterWrite(x, c)[Len(x) + i] = c[i]
    <3>1. AfterWrite(x, c) \in Seq(IndexRecord)
      BY <2>1, AfterWriteProps
    <3>2. Len(AfterWrite(x, c)) = Len(x) + Len(c)
      BY <2>1, AfterWriteProps
    <3>3. \A i \in 1..Len(x) : AfterWrite(x, c)[i] = x[i]
      BY <2>1, AfterWriteProps
    <3>4. \A i \in 1..Len(c) : AfterWrite(x, c)[Len(x) + i] = c[i]
      BY <2>1, AfterWriteNew
    <3>5. QED
      BY <3>1, <3>2, <3>3, <3>4
  <2>4. AfterWrite(x, c)[Len(x) + 1] = r
    BY <2>1, <2>3
  <2>5. QED
    BY <2>1, <2>2, <2>3, <2>4
<1> HIDE DEF y
<1>3. DOMAIN y = 1..Len(x) + 1 /\ DOMAIN x = 1..Len(x)
  BY <1>2, LenProperties
<1>4. LastIndex(y) = r.mIndex
  <2>1. Len(y) # 0
    BY <1>1, <1>2
  <2>2. y # << >>
    BY <2>1, EmptySeq
  <2>3. QED
    BY <1>2, <2>2 DEF LastIndex
<1>5. ASSUME Increasing(x), LastIndex(x) < r.mIndex PROVE Increasing(y)
  <2>1. ASSUME NEW p \in 1..Len(x) PROVE x[p].mIndex \in Nat
    <3>1. x[p] \in IndexRecord
      BY ElementOfSeq
    <3>2. QED
      BY <3>1 DEF IndexRecord
  <2>2. LastIndex(x) \in Nat /\ r.mIndex \in Nat
    BY IndexRecordType DEF IndexRecord
  <2>3. ASSUME NEW p \in DOMAIN y, NEW q \in DOMAIN y, p < q
        PROVE  y[p].mIndex < y[q].mIndex
    <3>1. p \in 1..Len(x) /\ y[p] = x[p]
      BY <1>1, <1>2, <1>3, <2>3
    <3>2. CASE q \in 1..Len(x)
      BY <1>2, <1>3, <1>5, <2>3, <3>1, <3>2 DEF Increasing
    <3>3. CASE q = Len(x) + 1
      <4>1. x[p].mIndex <= LastIndex(x)
        BY <1>3, <1>5, <3>1, LastIndexBound
      <4>2. y[q].mIndex = r.mIndex /\ x[p].mIndex \in Nat
        BY <1>2, <2>1, <3>1, <3>3
      <4>3. QED
        BY <1>5, <2>2, <3>1, <4>1, <4>2
    <3>4. QED
      BY <1>1, <1>3, <3>2, <3>3
  <2>4. QED
    BY <2>3 DEF Increasing
<1>6. QED
  BY <1>2, <1>3, <1>4, <1>5 DEF y

(* The index record that AppendIndex writes covers indices that are all new. *)
LEMMA NewRecord ==
    ASSUME TypeOK, FlightWritten, pc = "index"
    PROVE  /\ [mOffset |-> mLastData, mIndex |-> mMaxIndex] \in IndexRecord
           /\ LastIndex(indexFile) < mMaxIndex
<1>1. Len(flight.block) \in Nat \ {0}
  BY EmptySeq DEF TypeOK, HistoryTypeOK, NoEmptyBlock
<1>2. LastIndex(indexFile) \in Nat /\ mMaxIndex \in Nat /\ mLastData \in Nat
  BY IndexRecordType DEF TypeOK, DiskTypeOK, ObjectTypeOK
<1>3. LastIndex(indexFile) + Len(flight.block) <= mMaxIndex
  BY DEF FlightWritten
<1>4. QED
  BY <1>1, <1>2, <1>3 DEF IndexRecord

LEMMA SortedNext ==
    ASSUME TypeOK, IndexSorted, FlightWritten, [Next]_vars
    PROVE  IndexSorted'
<1>1. CASE WriteIndex
  <2> DEFINE r == [mOffset |-> mLastData, mIndex |-> mMaxIndex]
  <2>1. r \in IndexRecord /\ LastIndex(indexFile) < r.mIndex
    BY <1>1, NewRecord DEF WriteIndex
  <2>2. indexFile' = AfterWrite(indexFile, <<r>>)
    BY <1>1 DEF WriteIndex
  <2> HIDE DEF r
  <2>3. QED
    BY <2>1, <2>2, IndexWritten DEF IndexSorted, TypeOK, DiskTypeOK
<1>2. CASE Crash
  <2>1. PICK x \in indexSynced..Len(indexFile) : indexFile' = Cut(indexFile, x)
    BY <1>2 DEF Crash
  <2>2. x \in 0..Len(indexFile) /\ indexFile \in Seq(IndexRecord)
    BY LenProperties DEF TypeOK, DiskTypeOK
  <2>3. QED
    BY <2>1, <2>2, CutIncreasing DEF IndexSorted
<1>3. CASE UNCHANGED indexFile
  BY <1>3 DEF IndexSorted
<1>4. QED
  BY <1>1, <1>2, <1>3 DEF Next, vars, diskVars, CreateDataFile, CreateIndexFile, Load,
     AppendRecord, Flush, Close, WriteData, WriteDataFails, WriteIndexFails, EndClose,
     DisableWrite, EnableWrite, Destroy

LEMMA BufferNext ==
    ASSUME TypeOK, BufferNumbered, FlightWritten, [Next]_vars
    PROVE  BufferNumbered'
<1>0. /\ Len(mBlockStream) \in Nat /\ DOMAIN mBlockStream = 1..Len(mBlockStream)
      /\ mMaxIndex \in Nat /\ LastIndex(indexFile) \in Nat
      /\ Len(<< >>) = 0 /\ DOMAIN << >> = {}
  BY LenProperties, EmptySeq, IndexRecordType DEF TypeOK, DiskTypeOK, ObjectTypeOK
<1>1. CASE UNCHANGED <<pc, indexFile, mBlockStream, mMaxIndex>>
  BY <1>1 DEF BufferNumbered
<1>2. CASE pc' \in {"creating", "created", "index", "none"}
  BY <1>2 DEF BufferNumbered
<1>3. CASE Load
  <2>1. mMaxIndex' = LastIndex(indexFile) /\ mBlockStream' = << >> /\ indexFile' = indexFile
    BY <1>3 DEF Load, diskVars
  <2>2. QED
    BY <1>0, <2>1 DEF BufferNumbered
<1>4. ASSUME NEW v \in Value, AppendRecord(v) PROVE BufferNumbered'
  <2> DEFINE r == DataRecord(mMaxIndex + 1, v)
  <2>1. mBlockStream \in Seq(RecordCell) /\ r \in RecordCell /\ r.n = mMaxIndex + 1
    BY <1>0, DataRecordType DEF TypeOK, ObjectTypeOK, DataRecord
  <2>2. /\ mBlockStream' = Append(mBlockStream, r) /\ mMaxIndex' = mMaxIndex + 1
        /\ indexFile' = indexFile /\ pc = "idle"
    BY <1>4 DEF AppendRecord, diskVars
  <2> HIDE DEF r
  <2>3. /\ Append(mBlockStream, r) \in Seq(RecordCell)
        /\ Len(Append(mBlockStream, r)) = Len(mBlockStream) + 1
        /\ \A k \in 1..Len(mBlockStream) : Append(mBlockStream, r)[k] = mBlockStream[k]
        /\ Append(mBlockStream, r)[Len(mBlockStream) + 1] = r
    BY <2>1, AppendProperties
  <2>4. DOMAIN mBlockStream' = 1..Len(mBlockStream) + 1
    BY <2>2, <2>3, LenProperties
  <2>5. LastIndex(indexFile') + Len(mBlockStream') <= mMaxIndex'
    BY <1>0, <2>2, <2>3 DEF BufferNumbered
  <2>6. ASSUME NEW k \in 1..Len(mBlockStream) + 1
        PROVE  mBlockStream'[k].n = mMaxIndex' - Len(mBlockStream') + k
    <3>1. CASE k \in 1..Len(mBlockStream)
      <4>1. mBlockStream[k].n = mMaxIndex - Len(mBlockStream) + k
        BY <1>0, <2>2, <3>1 DEF BufferNumbered
      <4>2. mBlockStream'[k] = mBlockStream[k]
        BY <2>2, <2>3, <3>1
      <4>3. QED
        BY <1>0, <2>2, <2>3, <4>1, <4>2
    <3>2. CASE k = Len(mBlockStream) + 1
      <4>1. mBlockStream'[k].n = mMaxIndex + 1
        BY <2>1, <2>2, <2>3, <3>2
      <4>2. QED
        BY <1>0, <2>2, <2>3, <3>2, <4>1
    <3>3. QED
      BY <1>0, <3>1, <3>2
  <2>7. QED
    BY <2>4, <2>5, <2>6 DEF BufferNumbered
<1>5. CASE WriteIndex
  <2> DEFINE r == [mOffset |-> mLastData, mIndex |-> mMaxIndex]
  <2>1. r \in IndexRecord /\ r.mIndex = mMaxIndex /\ indexFile \in Seq(IndexRecord)
    BY <1>5, NewRecord DEF WriteIndex, TypeOK, DiskTypeOK
  <2>2. /\ indexFile' = AfterWrite(indexFile, <<r>>) /\ mBlockStream = << >>
        /\ mBlockStream' = << >> /\ mMaxIndex' = mMaxIndex
    BY <1>5 DEF WriteIndex, FlightWritten
  <2> HIDE DEF r
  <2>3. LastIndex(indexFile') = mMaxIndex
    BY <2>1, <2>2, IndexWritten
  <2>4. QED
    BY <1>0, <2>2, <2>3 DEF BufferNumbered
<1>6. CASE WriteIndexFails
  <2>1. /\ mBlockStream = << >> /\ LastIndex(indexFile) + Len(flight.block) <= mMaxIndex
        /\ mBlockStream' = << >> /\ mMaxIndex' = mMaxIndex /\ indexFile' = indexFile
    BY <1>6 DEF WriteIndexFails, FlightWritten
  <2>2. Len(flight.block) \in Nat
    BY LenProperties DEF TypeOK, HistoryTypeOK
  <2>3. QED
    BY <1>0, <2>1, <2>2 DEF BufferNumbered
<1>7. CASE Flush \/ Close \/ WriteDataFails \/ EndClose
  <2>1. pc \in {"idle", "data", "closing"} /\ UNCHANGED <<indexFile, mBlockStream, mMaxIndex>>
    BY <1>7 DEF Flush, Close, WriteDataFails, EndClose, diskVars
  <2>2. QED
    BY <2>1 DEF BufferNumbered
<1>8. CASE DisableWrite \/ EnableWrite
  BY <1>1, <1>8 DEF DisableWrite, EnableWrite, diskVars
<1>9. CASE CreateDataFile \/ CreateIndexFile \/ WriteData \/ Destroy \/ Crash
  BY <1>2, <1>9 DEF CreateDataFile, CreateIndexFile, WriteData, Destroy, Crash
<1>10. CASE UNCHANGED vars
  BY <1>1, <1>10 DEF vars, diskVars, objectVars
<1>11. QED
  BY <1>3, <1>4, <1>5, <1>6, <1>7, <1>8, <1>9, <1>10 DEF Next

(* After WriteData the block in flight is the end of the data file. *)
LEMMA FlightNext ==
    ASSUME TypeOK, BufferNumbered, FlightWritten, [Next]_vars
    PROVE  FlightWritten'
<1>1. CASE UNCHANGED <<pc, flight, mBlockStream, indexFile, mMaxIndex, mLastData, dataFile>>
  BY <1>1 DEF FlightWritten
<1>2. CASE pc' # "index"
  BY <1>2 DEF FlightWritten
<1>3. CASE WriteData
  <2> DEFINE log == LogOf(mBlockStream)
  <2>0. /\ mBlockStream \in Seq(RecordCell) /\ dataFile \in Seq(Cell)
        /\ Len(mBlockStream) \in Nat /\ Len(dataFile) \in Nat
        /\ DOMAIN mBlockStream = 1..Len(mBlockStream)
    BY LenProperties DEF TypeOK, ObjectTypeOK, DiskTypeOK
  <2>1. /\ log \in Seq(Cell) /\ Len(log) = Len(mBlockStream) + 1
        /\ log[1] = Header(Len(mBlockStream))
        /\ \A k \in 1..Len(mBlockStream) : log[1 + k] = mBlockStream[k]
    BY <2>0, LogOfProps
  <2>2. /\ dataFile' = AfterWrite(dataFile, log) /\ mLastData' = Len(dataFile')
        /\ mBlockStream' = << >> /\ indexFile' = indexFile /\ mMaxIndex' = mMaxIndex
        /\ flight'.start = Len(dataFile) /\ flight'.block = mBlockStream
        /\ flight'.place = "aligned" => Len(dataFile) = EndOfIndex(indexFile)
    BY <1>3 DEF WriteData
  <2> HIDE DEF log
  <2>3. Len(dataFile') = Len(dataFile) + 1 + Len(mBlockStream)
    <3>1. Len(AfterWrite(dataFile, log)) = Len(dataFile) + Len(log)
      BY <2>0, <2>1, AfterWriteProps
    <3>2. QED
      BY <2>0, <2>1, <2>2, <3>1
  <2>4. dataFile'[Len(dataFile) + 1] = Header(Len(mBlockStream))
    <3>1. 1 \in 1..Len(log)
      BY <2>0, <2>1
    <3>2. AfterWrite(dataFile, log)[Len(dataFile) + 1] = log[1]
      BY <2>0, <2>1, <3>1, AfterWriteNew
    <3>3. QED
      BY <2>1, <2>2, <3>2
  <2>5. ASSUME NEW k \in 1..Len(mBlockStream)
        PROVE  dataFile'[Len(dataFile) + 1 + k] = mBlockStream[k]
    <3>1. 1 + k \in 1..Len(log) /\ Len(dataFile) + (1 + k) = Len(dataFile) + 1 + k
      BY <2>0, <2>1
    <3>2. ASSUME NEW j \in 1..Len(log)
          PROVE  AfterWrite(dataFile, log)[Len(dataFile) + j] = log[j]
      BY <2>0, <2>1, AfterWriteNew
    <3>3. AfterWrite(dataFile, log)[Len(dataFile) + (1 + k)] = log[1 + k]
      BY <3>1, <3>2
    <3>4. QED
      BY <2>1, <2>2, <3>1, <3>3
  <2>6. /\ LastIndex(indexFile) + Len(mBlockStream) <= mMaxIndex
        /\ \A k \in DOMAIN mBlockStream :
               mBlockStream[k].n = mMaxIndex - Len(mBlockStream) + k
    BY <1>3 DEF WriteData, BufferNumbered
  <2>7. QED
    BY <2>0, <2>2, <2>3, <2>4, <2>5, <2>6 DEF FlightWritten
<1>4. CASE WriteIndexFails
  <2>1. CASE retryCount = 0
    <3>1. UNCHANGED <<pc, flight, mBlockStream, indexFile, mMaxIndex, mLastData, dataFile>>
      BY <1>4, <2>1 DEF WriteIndexFails
    <3>2. QED
      BY <1>1, <3>1
  <2>2. CASE retryCount # 0
    BY <1>2, <1>4, <2>2 DEF WriteIndexFails
  <2>3. QED
    BY <2>1, <2>2
<1>5. CASE UNCHANGED vars
  BY <1>1, <1>5 DEF vars, diskVars, objectVars, historyVars
<1>6. CASE CreateDataFile \/ CreateIndexFile \/ Load \/ (\E v \in Value : AppendRecord(v))
           \/ Flush \/ Close \/ WriteDataFails \/ WriteIndex \/ EndClose \/ DisableWrite
           \/ EnableWrite \/ Destroy \/ Crash
  BY <1>2, <1>6 DEF CreateDataFile, CreateIndexFile, Load, AppendRecord, Flush, Close,
     WriteDataFails, WriteIndex, EndClose, DisableWrite, EnableWrite, Destroy, Crash
<1>7. QED
  BY <1>3, <1>4, <1>5, <1>6 DEF Next

LEMMA StartOffsetType ==
    ASSUME NEW x \in Seq(IndexRecord), NEW p \in DOMAIN x
    PROVE  StartOffset(x, p) \in Nat
<1>1. DOMAIN x = 1..Len(x) /\ Len(x) \in Nat
  BY LenProperties
<1>2. CASE p = 1
  BY <1>2 DEF StartOffset
<1>3. CASE p # 1
  <2>1. p - 1 \in 1..Len(x)
    BY <1>1, <1>3
  <2>2. x[p - 1] \in IndexRecord
    BY <2>1, ElementOfSeq
  <2>3. QED
    BY <1>3, <2>2 DEF StartOffset, IndexRecord
<1>4. QED
  BY <1>2, <1>3

(* A handle stays stored while the pieces it is stored in stay. *)
LEMMA StoredKept ==
    ASSUME NEW f \in Seq(Cell), NEW g \in Seq(Cell),
           NEW x \in Seq(IndexRecord), NEW y \in Seq(IndexRecord),
           NEW h \in SettledHandle, StoredIn(f, x, h),
           h.end <= Len(g), \A i \in 1..h.end : g[i] = f[i],
           h.pos <= Len(y), \A i \in 1..h.pos : y[i] = x[i]
    PROVE  StoredIn(g, y, h)
<1>1. /\ Len(x) \in Nat /\ DOMAIN x = 1..Len(x) /\ Len(y) \in Nat /\ DOMAIN y = 1..Len(y)
      /\ Len(f) \in Nat /\ Len(g) \in Nat
      /\ h.pos \in Nat /\ h.end \in Nat
  BY LenProperties DEF SettledHandle
<1>2. h.pos \in DOMAIN x /\ IsPosition(x, h.index, h.pos)
  BY DEF StoredIn, IsPosition
<1>3. h.pos \in DOMAIN y /\ y[h.pos] = x[h.pos] /\ (h.pos # 1 => y[h.pos - 1] = x[h.pos - 1])
  <2>1. h.pos \in 1..h.pos /\ (h.pos # 1 => h.pos - 1 \in 1..h.pos)
    BY <1>1, <1>2
  <2>2. h.pos \in DOMAIN y
    BY <1>1, <1>2
  <2>3. QED
    BY <2>1, <2>2
<1>4. IsPosition(y, h.index, h.pos) /\ StartOffset(y, h.pos) = StartOffset(x, h.pos)
  BY <1>2, <1>3 DEF IsPosition, StartOffset
<1> DEFINE off == StartOffset(x, h.pos)
<1>5. off \in Nat
  BY <1>2, StartOffsetType
<1>6. PICK n \in 1..Len(f) :
          /\ IsLogAt(f, off, n) /\ off + 1 + n <= h.end
          /\ \E k \in 1..n : f[off + 1 + k] = DataRecord(h.index, h.val)
  BY DEF StoredIn
<1> HIDE DEF off
<1>7. ASSUME NEW k \in 1..n PROVE g[off + 1 + k] = f[off + 1 + k]
  <2>1. off + 1 + k \in 1..h.end
    BY <1>1, <1>5, <1>6
  <2>2. QED
    BY <2>1
<1>8. g[off + 1] = f[off + 1]
  <2>1. off + 1 \in 1..h.end
    BY <1>1, <1>5, <1>6
  <2>2. QED
    BY <2>1
<1>9. off + 1 + n <= Len(g) /\ n \in 1..Len(g)
  BY <1>1, <1>5, <1>6
<1>10. IsLogAt(g, off, n)
  BY <1>6, <1>7, <1>8, <1>9 DEF IsLogAt
<1>11. \E k \in 1..n : g[off + 1 + k] = DataRecord(h.index, h.val)
  BY <1>6, <1>7
<1>12. QED
  BY <1>4, <1>6, <1>9, <1>10, <1>11 DEF StoredIn, off

(* The handles of a block that was written where the index file ended are
   stored once the index record is written. *)
LEMMA NewlyStored ==
    ASSUME TypeOK, FlightWritten, WriteIndex, flight.place = "aligned",
           NEW k \in DOMAIN flight.block, NEW h,
           h = [index |-> flight.block[k].n, val |-> flight.block[k].val,
                pos |-> Len(indexFile) + 1, end |-> mLastData]
    PROVE  StoredIn(dataFile', indexFile', h)
<1> DEFINE r == [mOffset |-> mLastData, mIndex |-> mMaxIndex]
           b == flight.block
           at == Len(indexFile) + 1
<1>1. /\ indexFile \in Seq(IndexRecord) /\ Len(indexFile) \in Nat
      /\ dataFile \in Seq(Cell) /\ Len(dataFile) \in Nat
      /\ b \in Seq(RecordCell) /\ Len(b) \in Nat /\ DOMAIN b = 1..Len(b)
      /\ mMaxIndex \in Nat /\ LastIndex(indexFile) \in Nat /\ flight.start \in Nat
  BY LenProperties, IndexRecordType DEF TypeOK, DiskTypeOK, HistoryTypeOK, ObjectTypeOK
<1>2. /\ r \in IndexRecord /\ r.mIndex = mMaxIndex
      /\ indexFile' = AfterWrite(indexFile, <<r>>) /\ dataFile' = dataFile
  BY NewRecord DEF WriteIndex
<1>3. /\ LastIndex(indexFile) + Len(b) <= mMaxIndex
      /\ \A j \in DOMAIN b : b[j].n = mMaxIndex - Len(b) + j
      /\ flight.start + 1 + Len(b) = Len(dataFile) /\ mLastData = Len(dataFile)
      /\ dataFile[flight.start + 1] = Header(Len(b))
      /\ \A j \in DOMAIN b : dataFile[flight.start + 1 + j] = b[j]
      /\ flight.start = EndOfIndex(indexFile)
  BY DEF FlightWritten, WriteIndex
<1>4. b[k].n = mMaxIndex - Len(b) + k
  BY <1>3
<1>5. \A j \in DOMAIN b : b[j] \in RecordCell
  BY <1>1, BlockElement
<1> HIDE DEF r, b
<1>6. /\ DOMAIN indexFile' = 1..Len(indexFile) + 1
      /\ \A i \in 1..Len(indexFile) : indexFile'[i] = indexFile[i]
      /\ indexFile'[Len(indexFile) + 1] = r
  BY <1>1, <1>2, IndexWritten
<1>7. /\ at # 1 => /\ indexFile'[at - 1] = indexFile[Len(indexFile)]
                    /\ LastIndex(indexFile) = indexFile[Len(indexFile)].mIndex
                    /\ EndOfIndex(indexFile) = indexFile[Len(indexFile)].mOffset
      /\ at = 1 => EndOfIndex(indexFile) = 0
  <2>1. CASE at = 1
    BY <1>1, <2>1, EmptySeq DEF EndOfIndex
  <2>2. CASE at # 1
    <3>1. indexFile # << >> /\ Len(indexFile) \in 1..Len(indexFile) /\ at - 1 = Len(indexFile)
      BY <1>1, <2>2, EmptySeq
    <3>2. QED
      BY <1>6, <3>1 DEF LastIndex, EndOfIndex
  <2>3. QED
    BY <2>1, <2>2
<1>8. StartOffset(indexFile', at) = flight.start
  BY <1>3, <1>7 DEF StartOffset
<1>9. IsPosition(indexFile', b[k].n, at)
  <2>1. at \in DOMAIN indexFile'
    BY <1>1, <1>6
  <2>2. indexFile'[at].mIndex >= b[k].n
    BY <1>1, <1>2, <1>4, <1>6 DEF b
  <2>3. LastIndex(indexFile) < b[k].n
    BY <1>1, <1>3, <1>4 DEF b
  <2>4. QED
    BY <1>7, <2>1, <2>2, <2>3 DEF IsPosition
<1>10. IsLogAt(dataFile, flight.start, Len(b))
  <2>1. \A j \in 1..Len(b) : dataFile[flight.start + 1 + j].kind = "record"
    <3> TAKE j \in 1..Len(b)
    <3>1. dataFile[flight.start + 1 + j] = b[j]
      BY <1>1, <1>3
    <3>2. b[j].kind = "record"
      BY <1>1, <1>5 DEF RecordCell
    <3>3. QED
      BY <3>1, <3>2
  <2>2. QED
    BY <1>1, <1>3, <2>1 DEF IsLogAt
<1>11. dataFile[flight.start + 1 + k] = DataRecord(b[k].n, b[k].val)
  <2>1. b[k] \in RecordCell /\ dataFile[flight.start + 1 + k] = b[k]
    BY <1>3, <1>5 DEF b
  <2>2. QED
    BY <2>1 DEF RecordCell, DataRecord
<1>12. Len(b) \in 1..Len(dataFile) /\ k \in 1..Len(b)
  <2>1. k \in 1..Len(b)
    BY <1>1 DEF b
  <2>2. QED
    BY <1>1, <1>3, <2>1
<1>13. /\ h.index = b[k].n /\ h.val = b[k].val /\ h.pos = at /\ h.end = Len(dataFile)
  BY <1>3 DEF b
<1> HIDE DEF at
<1>14. StoredIn(dataFile, indexFile', h)
  <2>1. IsPosition(indexFile', h.index, h.pos) /\ h.end <= Len(dataFile)
    BY <1>1, <1>9, <1>13
  <2>2. /\ IsLogAt(dataFile, StartOffset(indexFile', h.pos), Len(b))
        /\ StartOffset(indexFile', h.pos) + 1 + Len(b) <= h.end
    BY <1>1, <1>3, <1>8, <1>10, <1>13
  <2>3. \E j \in 1..Len(b) :
            dataFile[StartOffset(indexFile', h.pos) + 1 + j] = DataRecord(h.index, h.val)
    BY <1>8, <1>11, <1>12, <1>13
  <2>4. QED
    BY <1>12, <2>1, <2>2, <2>3 DEF StoredIn
<1>15. QED
  BY <1>2, <1>14

LEMMA SettledNext ==
    ASSUME TypeOK, FlightWritten, SettledOnDisk, [Next]_vars
    PROVE  SettledOnDisk'
<1>0. /\ dataFile \in Seq(Cell) /\ Len(dataFile) \in Nat
      /\ indexFile \in Seq(IndexRecord) /\ Len(indexFile) \in Nat
      /\ DOMAIN indexFile = 1..Len(indexFile)
      /\ dataFile' \in Seq(Cell) /\ indexFile' \in Seq(IndexRecord)
      /\ settled \subseteq SettledHandle
  BY LenProperties, TypeNext DEF TypeOK, DiskTypeOK, HistoryTypeOK
<1>1. ASSUME NEW h \in settled PROVE h.end \in Nat /\ h.pos \in Nat /\ h \in SettledHandle
                                     /\ h.end <= Len(dataFile) /\ h.pos <= Len(indexFile)
                                     /\ StoredIn(dataFile, indexFile, h)
  BY <1>0 DEF SettledOnDisk, StoredIn, IsPosition, SettledHandle
<1>2. ASSUME Extends(dataFile, dataFile'), Extends(indexFile, indexFile'),
             NEW h \in settled
      PROVE  StoredIn(dataFile', indexFile', h)
  <2>1. /\ h.end <= Len(dataFile') /\ \A i \in 1..h.end : dataFile'[i] = dataFile[i]
        /\ h.pos <= Len(indexFile') /\ \A i \in 1..h.pos : indexFile'[i] = indexFile[i]
    BY <1>0, <1>1, <1>2, LenProperties DEF Extends
  <2>2. h \in SettledHandle /\ StoredIn(dataFile, indexFile, h)
    BY <1>1
  <2>3. QED
    BY <1>0, <2>1, <2>2, StoredKept
<1>3. CASE crashes' = crashes /\ settled' = settled
  BY <1>2, <1>3, DiskStep DEF FilesGrow, SettledOnDisk
<1>4. CASE WriteIndex
  <2>1. crashes' = crashes
    BY <1>4 DEF WriteIndex, boundVars
  <2>2. ASSUME NEW h \in settled PROVE StoredIn(dataFile', indexFile', h)
    BY <1>2, <2>1, DiskStep DEF FilesGrow
  <2>3. ASSUME flight.place = "aligned", NEW k \in DOMAIN flight.block
        PROVE  StoredIn(dataFile', indexFile',
                        [index |-> flight.block[k].n, val |-> flight.block[k].val,
                         pos |-> Len(indexFile) + 1, end |-> mLastData])
    BY <1>4, <2>3, NewlyStored
  <2>4. QED
    BY <1>4, <2>2, <2>3 DEF WriteIndex, SettledOnDisk
<1>5. CASE Crash
  <2>1. PICK d \in dataSynced..Len(dataFile), x \in indexSynced..Len(indexFile) :
            /\ dataFile' = Cut(dataFile, d) /\ indexFile' = Cut(indexFile, x)
            /\ settled' = {h \in settled : h.pos <= x /\ h.end <= d}
    BY <1>5 DEF Crash
  <2>2. d \in 0..Len(dataFile) /\ x \in 0..Len(indexFile)
    BY <1>0 DEF TypeOK, DiskTypeOK
  <2>3. /\ Len(dataFile') = d /\ \A i \in 1..d : dataFile'[i] = dataFile[i]
        /\ Len(indexFile') = x /\ \A i \in 1..x : indexFile'[i] = indexFile[i]
    <3>1. Len(Cut(dataFile, d)) = d /\ \A i \in 1..d : Cut(dataFile, d)[i] = dataFile[i]
      BY <1>0, <2>2, CutProps
    <3>2. Len(Cut(indexFile, x)) = x /\ \A i \in 1..x : Cut(indexFile, x)[i] = indexFile[i]
      BY <1>0, <2>2, CutProps
    <3>3. QED
      BY <2>1, <3>1, <3>2
  <2>4. ASSUME NEW h \in settled, h.pos <= x, h.end <= d
        PROVE  StoredIn(dataFile', indexFile', h)
    <3>1. /\ h.end <= Len(dataFile') /\ \A i \in 1..h.end : dataFile'[i] = dataFile[i]
          /\ h.pos <= Len(indexFile') /\ \A i \in 1..h.pos : indexFile'[i] = indexFile[i]
      BY <1>0, <1>1, <2>2, <2>3, <2>4
    <3>2. h \in SettledHandle /\ StoredIn(dataFile, indexFile, h)
      BY <1>1
    <3>3. QED
      BY <1>0, <3>1, <3>2, StoredKept
  <2>5. QED
    BY <2>1, <2>4 DEF SettledOnDisk
<1>6. CASE UNCHANGED vars
  BY <1>3, <1>6 DEF vars, boundVars, historyVars
<1>7. CASE CreateDataFile \/ CreateIndexFile \/ Load \/ (\E v \in Value : AppendRecord(v))
           \/ Flush \/ Close \/ WriteData \/ WriteDataFails \/ WriteIndexFails \/ EndClose
           \/ DisableWrite \/ EnableWrite \/ Destroy
  BY <1>3, <1>7 DEF CreateDataFile, CreateIndexFile, Load, AppendRecord, Flush, Close,
     WriteData, WriteDataFails, WriteIndexFails, EndClose, DisableWrite, EnableWrite, Destroy,
     boundVars, historyVars
<1>8. QED
  BY <1>4, <1>5, <1>6, <1>7 DEF Next

(* A settled handle is read from what is left of the files, if that reaches as
   far as its block and its index record do. *)
LEMMA StoredReads ==
    ASSUME NEW f \in Seq(Cell), NEW x \in Seq(IndexRecord), NEW h \in SettledHandle,
           StoredIn(f, x, h)
    PROVE  Reads(f, x, h.index, h.val)
<1> DEFINE off == StartOffset(x, h.pos)
<1>1. IsPosition(x, h.index, h.pos) /\ h.pos \in DOMAIN x
  BY DEF StoredIn, IsPosition
<1>2. off \in Nat /\ Len(f) \in Nat
  BY <1>1, StartOffsetType, LenProperties
<1>3. PICK n \in 1..Len(f) :
          /\ IsLogAt(f, off, n)
          /\ \E k \in 1..n : f[off + 1 + k] = DataRecord(h.index, h.val)
  BY DEF StoredIn
<1> HIDE DEF off
<1>4. /\ DOMAIN BlockAt(f, off) = 1..n
      /\ \A k \in 1..n : BlockAt(f, off)[k] = f[off + 1 + k]
  <2>1. off \in Nat /\ n \in 1..Len(f) /\ IsLogAt(f, off, n)
    BY <1>2, <1>3
  <2> HIDE <1>2, <1>3
  <2>2. QED
    BY <2>1, BlockAtProps
<1>5. \E k \in DOMAIN BlockAt(f, off) : BlockAt(f, off)[k] = DataRecord(h.index, h.val)
  BY <1>3, <1>4
<1>6. QED
  BY <1>1, <1>5 DEF Reads, off

LEMMA IInvInit == Init => IInv
<1> SUFFICES ASSUME Init PROVE IInv
  OBVIOUS
<1>1. indexFile = << >> /\ pc = "none" /\ settled = {}
  BY DEF Init
<1>2. DOMAIN indexFile = {}
  BY <1>1
<1>3. QED
  BY <1>1, <1>2, TypeInit DEF IInv, IndexSorted, Increasing, BufferNumbered, FlightWritten,
                              SettledOnDisk

LEMMA IInvNext == IInv /\ [Next]_vars => IInv'
<1> SUFFICES ASSUME IInv, [Next]_vars PROVE IInv'
  OBVIOUS
<1>1. TypeOK /\ IndexSorted /\ BufferNumbered /\ FlightWritten /\ SettledOnDisk
  BY DEF IInv
<1>2. TypeOK'
  BY <1>1, TypeNext
<1>3. IndexSorted' /\ BufferNumbered' /\ FlightWritten' /\ SettledOnDisk'
  BY <1>1, SortedNext, BufferNext, FlightNext, SettledNext
<1>4. QED
  BY <1>2, <1>3 DEF IInv

LEMMA IInvCorrect == Spec => []IInv
<1>1. QED
  BY IInvInit, IInvNext, PTL DEF Spec

(* The index file is strictly increasing, whatever fails: IndexVector::bisearch
   may search it. *)
THEOREM IndexStaysSorted == Spec => []IndexSorted
<1>1. IInv => IndexSorted
  BY DEF IInv
<1>2. QED
  BY <1>1, IInvCorrect, PTL

(* A handle whose block was written where the index file ended, and whose index
   record was written, can be read from then on, whatever fails later. *)
THEOREM SettledStaysReadable == Spec => []SettledReadable
<1>1. ASSUME IInv, NEW h \in settled PROVE Readable(h)
  BY <1>1, StoredReads DEF IInv, TypeOK, DiskTypeOK, HistoryTypeOK, SettledOnDisk, Readable
<1>2. IInv => SettledReadable
  BY <1>1 DEF SettledReadable
<1>3. QED
  BY <1>2, IInvCorrect, PTL

-----------------------------------------------------------------------------
(* No handle is lost, as long as a failed write leaves nothing, an index write
   succeeds when it is retried, and a crash keeps as much of one file as of the
   other.  Then the two files always end at the same block. *)

BenignFaults == {"data-clean", "index-once", "crash-whole"}

FilesAligned ==
    /\ pc # "index" => Len(dataFile) = EndOfIndex(indexFile) /\ flight = NoFlight
    /\ pc = "index" => flight.place = "aligned"

BufferEmpty == pc \notin {"idle", "data"} => mBlockStream = << >>

SameHandle(s, h) == s.index = h.index /\ s.val = h.val

IsSettled(h) == \E s \in settled : SameHandle(s, h)

AckedKept == \A h \in acked : Buffered(h) \/ InFlight(h) \/ IsSettled(h)

(* The block of a committed handle, and its index record, are synced. *)
CommittedKept ==
    \A h \in committed :
        \E s \in settled : SameHandle(s, h) /\ s.pos <= indexSynced /\ s.end <= dataSynced

BInv == IInv /\ FilesAligned /\ BufferEmpty /\ AckedKept /\ CommittedKept

LEMMA NothingIn == DOMAIN << >> = {} /\ DOMAIN NoFlight.block = {}
BY DEF NoFlight

(* The data file ends where the index file says, once the index record is written. *)
LEMMA EndWritten ==
    ASSUME NEW x \in Seq(IndexRecord), NEW r \in IndexRecord
    PROVE  EndOfIndex(AfterWrite(x, <<r>>)) = r.mOffset
<1> DEFINE y == AfterWrite(x, <<r>>)
<1>1. /\ y \in Seq(IndexRecord) /\ Len(y) = Len(x) + 1 /\ y[Len(x) + 1] = r
      /\ Len(x) \in Nat
  BY IndexWritten, LenProperties
<1> HIDE DEF y
<1>2. y # << >>
  BY <1>1, EmptySeq
<1>3. EndOfIndex(y) = r.mOffset
  BY <1>1, <1>2 DEF EndOfIndex
<1>4. QED
  BY <1>3 DEF y

(* A data write that fails and leaves nothing leaves the file as long as it was. *)
LEMMA CleanFailure ==
    ASSUME TypeOK, WriteDataFails, Faults \subseteq BenignFaults
    PROVE  Len(dataFile') = Len(dataFile)
<1>1. PICK left \in 0..Len(mBlockStream) + 1 :
          /\ left > 0 => "data-torn" \in Faults
          /\ dataFile' = AfterWrite(dataFile, SubSeq(LogOf(mBlockStream), 1, left))
  BY DEF WriteDataFails
<1>2. left = 0
  <2>1. Len(mBlockStream) \in Nat
    BY LenProperties DEF TypeOK, ObjectTypeOK
  <2>2. QED
    BY <1>1, <2>1 DEF BenignFaults
<1> DEFINE c == SubSeq(LogOf(mBlockStream), 1, left)
<1>3. c \in Seq(Cell) /\ Len(c) = 0
  <2>1. LogOf(mBlockStream) \in Seq(Cell) /\ left \in 0..Len(LogOf(mBlockStream))
    BY <1>2, LogOfProps, LenProperties DEF TypeOK, ObjectTypeOK
  <2>2. QED
    BY <1>2, <2>1, CutProps DEF Cut
<1> HIDE DEF c
<1>4. dataFile \in Seq(Cell) /\ Len(dataFile) \in Nat
  BY LenProperties DEF TypeOK, DiskTypeOK
<1>5. Len(AfterWrite(dataFile, c)) = Len(dataFile) + Len(c)
  BY <1>3, <1>4, AfterWriteProps
<1>6. QED
  BY <1>1, <1>3, <1>4, <1>5 DEF c

LEMMA AlignedNext ==
    ASSUME TypeOK, FlightWritten, FilesAligned, Faults \subseteq BenignFaults, [Next]_vars
    PROVE  FilesAligned'
<1>1. CASE UNCHANGED <<dataFile, indexFile, flight>> /\ (pc' = "index") = (pc = "index")
  BY <1>1 DEF FilesAligned
<1>2. CASE WriteData
  BY <1>2 DEF WriteData, FilesAligned
<1>3. CASE WriteDataFails
  <2>1. Len(dataFile') = Len(dataFile)
    BY <1>3, CleanFailure
  <2>2. pc # "index" /\ pc' # "index" /\ UNCHANGED <<indexFile, flight>>
    BY <1>3 DEF WriteDataFails, historyVars
  <2>3. QED
    BY <2>1, <2>2 DEF FilesAligned
<1>4. CASE WriteIndex
  <2> DEFINE r == [mOffset |-> mLastData, mIndex |-> mMaxIndex]
  <2>1. r \in IndexRecord /\ indexFile \in Seq(IndexRecord)
    BY <1>4, NewRecord DEF WriteIndex, TypeOK, DiskTypeOK
  <2>2. /\ indexFile' = AfterWrite(indexFile, <<r>>) /\ flight' = NoFlight
        /\ dataFile' = dataFile /\ mLastData = Len(dataFile) /\ pc' # "index"
    BY <1>4 DEF WriteIndex, FlightWritten
  <2>3. EndOfIndex(indexFile') = Len(dataFile)
    BY <2>1, <2>2, EndWritten
  <2>4. QED
    BY <2>2, <2>3 DEF FilesAligned
<1>5. CASE WriteIndexFails
  <2>1. retryCount = 0
    BY <1>5 DEF WriteIndexFails, BenignFaults
  <2>2. UNCHANGED <<pc, dataFile, indexFile, flight>>
    BY <1>5, <2>1 DEF WriteIndexFails
  <2>3. QED
    BY <2>2 DEF FilesAligned
<1>6. CASE Crash
  <2>1. PICK d \in dataSynced..Len(dataFile), x \in indexSynced..Len(indexFile) :
            /\ \/ "crash" \in Faults
               \/ Matching(d, x)
            /\ dataFile' = Cut(dataFile, d) /\ indexFile' = Cut(indexFile, x)
    BY <1>6 DEF Crash
  <2>2. d = EndOfIndex(indexFile')
    BY <2>1 DEF BenignFaults, Matching
  <2>3. Len(dataFile') = d
    <3>1. dataFile \in Seq(Cell) /\ d \in 0..Len(dataFile)
      BY LenProperties DEF TypeOK, DiskTypeOK
    <3>2. QED
      BY <2>1, <3>1, CutProps
  <2>4. pc' # "index" /\ flight' = NoFlight
    BY <1>6 DEF Crash
  <2>5. QED
    BY <2>2, <2>3, <2>4 DEF FilesAligned
<1>7. CASE \E v \in Value : AppendRecord(v)
  BY <1>1, <1>7 DEF AppendRecord, diskVars
<1>8. CASE CreateDataFile \/ CreateIndexFile \/ Load \/ Flush \/ Close \/ EndClose
           \/ DisableWrite \/ EnableWrite \/ Destroy
  BY <1>1, <1>8 DEF CreateDataFile, CreateIndexFile, Load, Flush, Close, EndClose,
     DisableWrite, EnableWrite, Destroy, diskVars, historyVars
<1>9. CASE UNCHANGED vars
  BY <1>1, <1>9 DEF vars, diskVars, objectVars, historyVars
<1>10. QED
  BY <1>2, <1>3, <1>4, <1>5, <1>6, <1>7, <1>8, <1>9 DEF Next

LEMMA EmptyNext ==
    ASSUME BufferEmpty, FlightWritten, [Next]_vars
    PROVE  BufferEmpty'
BY DEF BufferEmpty, FlightWritten, Next, CreateDataFile, CreateIndexFile, Load, AppendRecord,
       Flush, Close, WriteData, WriteDataFails, WriteIndex, WriteIndexFails, EndClose,
       DisableWrite, EnableWrite, Destroy, Crash, vars, objectVars

(* Handles are where they were when the buffer, the block in flight and what is
   settled are. *)
LEMMA AckedStays ==
    ASSUME AckedKept, UNCHANGED <<mBlockStream, flight>>, settled \subseteq settled',
           acked' \subseteq acked
    PROVE  AckedKept'
BY DEF AckedKept, Buffered, InFlight, IsSettled, SameHandle

(* What WriteIndex settles of an aligned block. *)
LEMMA FlightSettles ==
    ASSUME TypeOK, WriteIndex, flight.place = "aligned", NEW k \in DOMAIN flight.block, NEW h,
           flight.block[k] = DataRecord(h.index, h.val)
    PROVE  IsSettled(h)'
<1> DEFINE s == [index |-> flight.block[k].n, val |-> flight.block[k].val,
                 pos |-> Len(indexFile) + 1, end |-> mLastData]
<1>1. s \in settled'
  BY DEF WriteIndex
<1>2. SameHandle(s, h)
  BY DEF SameHandle, DataRecord
<1> HIDE DEF s
<1>3. QED
  BY <1>1, <1>2 DEF IsSettled, SameHandle

LEMMA AckedNext ==
    ASSUME TypeOK, FlightWritten, FilesAligned, BufferEmpty, AckedKept, CommittedKept,
           Faults \subseteq BenignFaults, [Next]_vars
    PROVE  AckedKept'
<1>0. mBlockStream \in Seq(RecordCell)
  BY DEF TypeOK, ObjectTypeOK
<1>1. CASE UNCHANGED <<mBlockStream, acked, settled, flight>>
  BY <1>1, AckedStays
<1>2. ASSUME NEW v \in Value, AppendRecord(v) PROVE AckedKept'
  <2>0. PICK new : new = [index |-> mMaxIndex + 1, val |-> v]
    OBVIOUS
  <2> DEFINE r == DataRecord(new.index, new.val)
  <2>1. r \in RecordCell /\ r = DataRecord(mMaxIndex + 1, v)
    BY <2>0, DataRecordType DEF TypeOK, ObjectTypeOK
  <2>2. /\ mBlockStream' = Append(mBlockStream, r) /\ acked' \subseteq acked \cup {new}
        /\ UNCHANGED <<settled, flight>>
    BY <1>2, <2>0, <2>1 DEF AppendRecord
  <2> HIDE DEF r
  <2>3. /\ DOMAIN mBlockStream = 1..Len(mBlockStream)
        /\ DOMAIN mBlockStream' = 1..Len(mBlockStream) + 1 /\ Len(mBlockStream) \in Nat
        /\ \A k \in 1..Len(mBlockStream) : mBlockStream'[k] = mBlockStream[k]
        /\ mBlockStream'[Len(mBlockStream) + 1] = r
    BY <1>0, <2>1, <2>2, AppendProperties, LenProperties
  <2>4. Buffered(new)'
    BY <2>3 DEF Buffered, r
  <2>5. ASSUME NEW h, Buffered(h) PROVE Buffered(h)'
    BY <2>3, <2>5 DEF Buffered
  <2>6. ASSUME NEW h PROVE (InFlight(h) => InFlight(h)') /\ (IsSettled(h) => IsSettled(h)')
    BY <2>2 DEF InFlight, IsSettled, SameHandle
  <2>7. QED
    BY <2>2, <2>4, <2>5, <2>6 DEF AckedKept
<1>3. CASE WriteData
  <2>1. flight'.block = mBlockStream /\ UNCHANGED <<acked, settled>> /\ flight = NoFlight
    BY <1>3 DEF WriteData, FilesAligned
  <2>2. ASSUME NEW h, Buffered(h) PROVE InFlight(h)'
    BY <2>1, <2>2 DEF Buffered, InFlight
  <2>3. ASSUME NEW h PROVE ~InFlight(h)
    BY <2>1, NothingIn DEF InFlight
  <2>4. ASSUME NEW h, IsSettled(h) PROVE IsSettled(h)'
    BY <2>1, <2>4 DEF IsSettled, SameHandle
  <2>5. QED
    BY <2>1, <2>2, <2>3, <2>4 DEF AckedKept
<1>4. CASE WriteIndex
  <2>1. /\ mBlockStream = << >> /\ settled \subseteq settled' /\ flight.place = "aligned"
        /\ acked' \subseteq acked \cup {Returned} /\ pc = "index"
    BY <1>4 DEF WriteIndex, FlightWritten, FilesAligned
  <2>2. ASSUME NEW h PROVE ~Buffered(h)
    BY <2>1, NothingIn DEF Buffered
  <2>3. ASSUME NEW h, InFlight(h) PROVE IsSettled(h)'
    BY <1>4, <2>1, <2>3, FlightSettles DEF InFlight
  <2>4. ASSUME NEW h, IsSettled(h) PROVE IsSettled(h)'
    BY <2>1, <2>4 DEF IsSettled, SameHandle
  <2>5. PICK r : r = Returned
    OBVIOUS
  <2>6. IsSettled(r)'
    <3> DEFINE b == flight.block
    <3>1. b \in Seq(RecordCell) /\ b # << >>
      BY <2>1 DEF TypeOK, HistoryTypeOK, NoEmptyBlock
    <3>2. Len(b) \in Nat /\ DOMAIN b = 1..Len(b) /\ Len(b) \in DOMAIN b
      BY <3>1, EmptySeq, LenProperties
    <3>3. b[Len(b)] \in RecordCell /\ mMaxIndex \in Nat
      BY <3>1, <3>2, BlockElement DEF TypeOK, ObjectTypeOK
    <3>4. b[Len(b)].n = mMaxIndex - Len(b) + Len(b)
      BY <2>1, <3>2 DEF FlightWritten
    <3>5. b[Len(b)].n = mMaxIndex
      BY <3>2, <3>3, <3>4
    <3>6. r.index = mMaxIndex /\ r.val = b[Len(b)].val
      BY <2>5 DEF Returned
    <3>7. b[Len(b)] = DataRecord(r.index, r.val)
      BY <3>3, <3>5, <3>6 DEF RecordCell, DataRecord
    <3>8. \A k \in DOMAIN flight.block : \A h :
              flight.block[k] = DataRecord(h.index, h.val) => IsSettled(h)'
      BY <1>4, <2>1, FlightSettles
    <3>9. QED
      BY <3>2, <3>7, <3>8
  <2>7. QED
    BY <2>1, <2>2, <2>3, <2>4, <2>5, <2>6 DEF AckedKept
<1>5. CASE WriteDataFails
  BY <1>1, <1>5 DEF WriteDataFails, historyVars
<1>6. CASE WriteIndexFails
  <2>1. retryCount = 0
    BY <1>6 DEF WriteIndexFails, BenignFaults
  <2>2. UNCHANGED <<mBlockStream, acked, settled, flight>>
    BY <1>6, <2>1 DEF WriteIndexFails
  <2>3. QED
    BY <1>1, <2>2
<1>7. CASE Crash
  <2>1. PICK d \in dataSynced..Len(dataFile), x \in indexSynced..Len(indexFile) :
            settled' = {s \in settled : s.pos <= x /\ s.end <= d}
    BY <1>7 DEF Crash
  <2>2. acked' = committed
    BY <1>7 DEF Crash
  <2>3. ASSUME NEW h \in committed PROVE IsSettled(h)'
    <3>1. PICK s \in settled : SameHandle(s, h) /\ s.pos <= indexSynced /\ s.end <= dataSynced
      BY DEF CommittedKept
    <3>2. s.pos \in Nat /\ s.end \in Nat /\ indexSynced \in Nat /\ dataSynced \in Nat
      BY LenProperties DEF TypeOK, HistoryTypeOK, SettledHandle, DiskTypeOK
    <3>3. s \in settled'
      BY <2>1, <3>1, <3>2
    <3>4. QED
      BY <3>1, <3>3 DEF IsSettled, SameHandle
  <2>4. QED
    BY <2>2, <2>3 DEF AckedKept
<1>8. CASE Load
  <2>1. mBlockStream = << >> /\ mBlockStream' = << >> /\ UNCHANGED <<acked, settled, flight>>
    BY <1>8 DEF Load, BufferEmpty, historyVars
  <2>2. QED
    BY <1>1, <2>1
<1>9. CASE CreateDataFile \/ CreateIndexFile \/ Flush \/ Close \/ EndClose
           \/ DisableWrite \/ EnableWrite \/ Destroy
  BY <1>1, <1>9 DEF CreateDataFile, CreateIndexFile, Flush, Close, EndClose,
     DisableWrite, EnableWrite, Destroy, historyVars
<1>10. CASE UNCHANGED vars
  BY <1>1, <1>10 DEF vars, objectVars, historyVars
<1>11. QED
  BY <1>2, <1>3, <1>4, <1>5, <1>6, <1>7, <1>8, <1>9, <1>10 DEF Next

(* When Close ends, every handle that Append returned is settled and synced. *)
LEMMA CommittedNext ==
    ASSUME TypeOK, SettledOnDisk, FilesAligned, BufferEmpty, AckedKept, CommittedKept,
           [Next]_vars
    PROVE  CommittedKept'
<1>0. /\ Len(dataFile) \in Nat /\ dataSynced \in 0..Len(dataFile)
      /\ Len(indexFile) \in Nat /\ indexSynced \in 0..Len(indexFile)
      /\ dataSynced' \in Nat /\ indexSynced' \in Nat
      /\ dataSynced <= dataSynced' /\ indexSynced <= indexSynced'
  BY DiskStep, TypeNext, LenProperties DEF TypeOK, DiskTypeOK, DataKept, IndexKept
<1>1. ASSUME NEW s \in settled
      PROVE  /\ s.pos \in Nat /\ s.end \in Nat
             /\ s.pos <= Len(indexFile) /\ s.end <= Len(dataFile)
  <2>1. StoredIn(dataFile, indexFile, s) /\ s \in SettledHandle
    BY DEF SettledOnDisk, TypeOK, HistoryTypeOK
  <2>2. s.pos \in 1..Len(indexFile)
    BY <2>1, LenProperties DEF StoredIn, IsPosition, TypeOK, DiskTypeOK
  <2>3. QED
    BY <1>0, <2>1, <2>2 DEF StoredIn, SettledHandle
<1>2. ASSUME NEW h \in committed
      PROVE  \E s \in settled : SameHandle(s, h) /\ s.pos <= indexSynced' /\ s.end <= dataSynced'
  <2>1. PICK s \in settled : SameHandle(s, h) /\ s.pos <= indexSynced /\ s.end <= dataSynced
    BY DEF CommittedKept
  <2>2. s.pos <= indexSynced' /\ s.end <= dataSynced'
    BY <1>0, <1>1, <2>1
  <2>3. QED
    BY <2>1, <2>2
<1>3. CASE committed' = committed /\ settled \subseteq settled'
  BY <1>2, <1>3 DEF CommittedKept, SameHandle
<1>4. CASE EndClose
  <2>1. /\ committed' = committed \cup acked /\ settled' = settled
        /\ dataSynced' = Len(dataFile) /\ indexSynced' = Len(indexFile)
        /\ mBlockStream = << >> /\ flight = NoFlight
    BY <1>4 DEF EndClose, CloseHandles, BufferEmpty, FilesAligned
  <2>2. ASSUME NEW h \in acked PROVE IsSettled(h)
    BY <2>1, NothingIn DEF AckedKept, Buffered, InFlight
  <2>3. ASSUME NEW h \in acked
        PROVE  \E s \in settled : SameHandle(s, h) /\ s.pos <= indexSynced' /\ s.end <= dataSynced'
    BY <1>1, <2>1, <2>2 DEF IsSettled
  <2>4. QED
    BY <1>2, <2>1, <2>3 DEF CommittedKept, SameHandle
<1>5. CASE Crash
  <2>1. PICK d \in dataSynced..Len(dataFile), x \in indexSynced..Len(indexFile) :
            /\ dataSynced' = d /\ indexSynced' = x
            /\ settled' = {s \in settled : s.pos <= x /\ s.end <= d}
    BY <1>5 DEF Crash
  <2>2. committed' = committed
    BY <1>5 DEF Crash
  <2>3. QED
    BY <1>2, <2>1, <2>2 DEF CommittedKept, SameHandle
<1>6. CASE WriteIndex
  BY <1>3, <1>6 DEF WriteIndex
<1>7. CASE \E v \in Value : AppendRecord(v)
  BY <1>3, <1>7 DEF AppendRecord
<1>8. CASE CreateDataFile \/ CreateIndexFile \/ Load \/ Flush \/ Close \/ WriteData
           \/ WriteDataFails \/ WriteIndexFails \/ DisableWrite \/ EnableWrite \/ Destroy
  BY <1>3, <1>8 DEF CreateDataFile, CreateIndexFile, Load, Flush, Close, WriteData,
     WriteDataFails, WriteIndexFails, DisableWrite, EnableWrite, Destroy, historyVars
<1>9. CASE UNCHANGED vars
  BY <1>3, <1>9 DEF vars, historyVars
<1>10. QED
  BY <1>4, <1>5, <1>6, <1>7, <1>8, <1>9 DEF Next

LEMMA BInvInit == Init => BInv
<1> SUFFICES ASSUME Init PROVE BInv
  OBVIOUS
<1>1. Len(dataFile) = EndOfIndex(indexFile)
  BY EmptySeq DEF Init, EndOfIndex
<1>2. QED
  BY <1>1, IInvInit DEF Init, BInv, FilesAligned, BufferEmpty, AckedKept, CommittedKept

LEMMA BInvNext ==
    ASSUME BInv, Faults \subseteq BenignFaults, [Next]_vars
    PROVE  BInv'
<1>1. /\ IInv /\ FilesAligned /\ BufferEmpty /\ AckedKept /\ CommittedKept
      /\ TypeOK /\ FlightWritten /\ SettledOnDisk
  BY DEF BInv, IInv
<1>2. IInv'
  BY <1>1, IInvNext
<1>3. FilesAligned' /\ BufferEmpty'
  BY <1>1, AlignedNext, EmptyNext
<1>4. AckedKept' /\ CommittedKept'
  BY <1>1, AckedNext, CommittedNext
<1>5. QED
  BY <1>2, <1>3, <1>4 DEF BInv

(* No failed write, retry, crash that cuts both files at one block, or restart
   loses a handle that Append returned or gives it another value: it is in the
   buffer, in the block that is being written, or a reader of the files gets its
   value. *)
THEOREM NothingAckedIsLost ==
    ASSUME Faults \subseteq BenignFaults
    PROVE  Spec => []ReadYourWrites
<1>1. ASSUME BInv, NEW h \in acked PROVE Buffered(h) \/ InFlight(h) \/ Readable(h)
  <2>1. SUFFICES ASSUME IsSettled(h) PROVE Readable(h)
    BY <1>1 DEF BInv, AckedKept
  <2>2. PICK s \in settled : s.index = h.index /\ s.val = h.val
    BY <2>1 DEF IsSettled, SameHandle
  <2>3. /\ dataFile \in Seq(Cell) /\ indexFile \in Seq(IndexRecord) /\ s \in SettledHandle
        /\ StoredIn(dataFile, indexFile, s)
    BY <1>1 DEF BInv, IInv, TypeOK, DiskTypeOK, HistoryTypeOK, SettledOnDisk
  <2>4. QED
    BY <2>2, <2>3, StoredReads DEF Readable
<1>2. BInv => ReadYourWrites
  BY <1>1 DEF ReadYourWrites
<1>3. QED
  BY <1>2, BInvInit, BInvNext, PTL DEF Spec

(* Every handle that Append had returned when the chunk was closed is read with
   its value from the synced part of the files: any crash leaves it. *)
THEOREM ClosedIsDurable ==
    ASSUME Faults \subseteq BenignFaults
    PROVE  Spec => []CommittedDurable
<1>1. ASSUME BInv, NEW h \in committed PROVE Durable(h)
  <2>1. PICK s \in settled : /\ s.index = h.index /\ s.val = h.val
                             /\ s.pos <= indexSynced /\ s.end <= dataSynced
    BY <1>1 DEF BInv, CommittedKept, SameHandle
  <2>2. /\ dataFile \in Seq(Cell) /\ dataSynced \in 0..Len(dataFile)
        /\ indexFile \in Seq(IndexRecord) /\ indexSynced \in 0..Len(indexFile)
        /\ s \in SettledHandle /\ StoredIn(dataFile, indexFile, s)
    BY <1>1 DEF BInv, IInv, TypeOK, DiskTypeOK, HistoryTypeOK, SettledOnDisk
  <2> DEFINE f == Cut(dataFile, dataSynced)
             x == Cut(indexFile, indexSynced)
  <2>3. /\ f \in Seq(Cell) /\ Len(f) = dataSynced
        /\ \A i \in 1..dataSynced : f[i] = dataFile[i]
    BY <2>2, CutProps
  <2>4. /\ x \in Seq(IndexRecord) /\ Len(x) = indexSynced
        /\ \A i \in 1..indexSynced : x[i] = indexFile[i]
    BY <2>2, CutProps
  <2> HIDE DEF f, x
  <2>5. s.pos \in Nat /\ s.end \in Nat /\ dataSynced \in Nat /\ indexSynced \in Nat
    BY <2>2, LenProperties DEF SettledHandle
  <2>6. /\ s.end <= Len(f) /\ \A i \in 1..s.end : f[i] = dataFile[i]
        /\ s.pos <= Len(x) /\ \A i \in 1..s.pos : x[i] = indexFile[i]
    BY <2>1, <2>3, <2>4, <2>5
  <2>7. StoredIn(f, x, s)
    BY <2>2, <2>3, <2>4, <2>6, StoredKept
  <2>8. Reads(f, x, s.index, s.val)
    BY <2>2, <2>3, <2>4, <2>7, StoredReads
  <2>9. QED
    BY <2>1, <2>8 DEF Durable, f, x
<1>2. BInv => CommittedDurable
  BY <1>1 DEF CommittedDurable
<1>3. QED
  BY <1>2, BInvInit, BInvNext, PTL DEF Spec

(* The indices of a chunk are handed out once: a record appended after a restart
   never gets the index of a handle that was committed before. *)
THEOREM CommittedNotReissued ==
    ASSUME Faults \subseteq BenignFaults
    PROVE  Spec => NoReissue
<1>1. ASSUME BInv, pc = "idle", NEW h \in committed PROVE h.index <= mMaxIndex /\ h.index \in Nat
  <2>1. PICK s \in settled : s.index = h.index
    BY <1>1 DEF BInv, CommittedKept, SameHandle
  <2>2. /\ s \in SettledHandle /\ StoredIn(dataFile, indexFile, s)
        /\ indexFile \in Seq(IndexRecord) /\ Increasing(indexFile)
        /\ LastIndex(indexFile) + Len(mBlockStream) <= mMaxIndex
        /\ mMaxIndex \in Nat /\ mBlockStream \in Seq(RecordCell)
    BY <1>1 DEF BInv, IInv, TypeOK, DiskTypeOK, ObjectTypeOK, HistoryTypeOK, SettledOnDisk,
                IndexSorted, BufferNumbered
  <2>3. s.pos \in DOMAIN indexFile /\ indexFile[s.pos].mIndex >= s.index /\ s.index \in Nat
    BY <2>2 DEF StoredIn, IsPosition, SettledHandle
  <2>4. indexFile[s.pos] \in IndexRecord
    BY <2>2, <2>3, LenProperties, ElementOfSeq
  <2>5. indexFile[s.pos].mIndex \in Nat /\ indexFile[s.pos].mIndex <= LastIndex(indexFile)
    BY <2>2, <2>3, <2>4, LastIndexBound DEF IndexRecord
  <2>6. LastIndex(indexFile) \in Nat /\ Len(mBlockStream) \in Nat
    BY <2>2, IndexRecordType, LenProperties
  <2>7. QED
    BY <2>1, <2>2, <2>3, <2>5, <2>6
<1>2. ASSUME BInv, [Next]_vars, pc = "idle", mMaxIndex' > mMaxIndex, NEW h \in committed
      PROVE  h.index # mMaxIndex'
  <2>1. h.index <= mMaxIndex /\ h.index \in Nat /\ mMaxIndex \in Nat
    BY <1>1, <1>2 DEF BInv, IInv, TypeOK, ObjectTypeOK
  <2>2. mMaxIndex' # mMaxIndex => mMaxIndex' = mMaxIndex + 1 \/ mMaxIndex' = 0
    BY <1>2 DEF Next, CreateDataFile, CreateIndexFile, Load, AppendRecord, Flush, Close,
       WriteData, WriteDataFails, WriteIndex, WriteIndexFails, EndClose, DisableWrite,
       EnableWrite, Destroy, Crash, vars, objectVars
  <2>3. QED
    BY <1>2, <2>1, <2>2
<1>3. BInv /\ [Next]_vars =>
          (pc = "idle" /\ mMaxIndex' > mMaxIndex => \A h \in committed : h.index # mMaxIndex')
  BY <1>2
<1>4. QED
  BY <1>3, BInvInit, BInvNext, PTL DEF Spec, NoReissue

-----------------------------------------------------------------------------
(* The search of a chunk for a block, IndexVector: every sorted index file and every key. *)

LEMMA SearchFacts ==
    ASSUME SearchTypeOK
    PROVE  /\ mValues \in Seq(IndexRecord) /\ Increasing(mValues)
           /\ Len(mValues) \in Nat /\ DOMAIN mValues = 1..Len(mValues)
           /\ key \in Nat
           /\ \A p \in 1..Len(mValues) : mValues[p].mIndex \in Nat
<1>1. mValues \in Seq(IndexRecord) /\ Increasing(mValues) /\ key \in Nat
  BY IndexVectorAssumption DEF SearchTypeOK
<1>2. ASSUME NEW p \in 1..Len(mValues) PROVE mValues[p].mIndex \in Nat
  <2>1. mValues[p] \in IndexRecord
    BY <1>1, ElementOfSeq
  <2>2. QED
    BY <2>1 DEF IndexRecord
<1>3. QED
  BY <1>1, <1>2, LenProperties

LEMMA SearchMidBounds ==
    ASSUME SearchTypeOK, Searching
    PROVE  mid \in Nat /\ first <= mid /\ mid <= last /\ last <= Len(mValues) - 1
<1>1. first \in Nat /\ last \in Nat /\ first <= last /\ Len(mValues) \in Nat
  BY SearchFacts DEF SearchTypeOK, Searching
<1>2. QED
  BY <1>1, SearchFacts DEF mid, SearchTypeOK

LEMMA SearchInvInit == SearchInit => SearchInv
<1> SUFFICES ASSUME SearchInit PROVE SearchInv
  OBVIOUS
<1>1. mValues \in Seq(IndexRecord)
  BY IndexVectorAssumption DEF SearchInit
<1>2. Len(mValues) \in Nat
  BY <1>1, LenProperties
<1>3. QED
  BY <1>2 DEF SearchInit, SearchInv, SearchTypeOK, Narrowed, FindsPosition

LEMMA SearchInvNext == SearchInv /\ [SearchNext]_searchVars => SearchInv'
<1> SUFFICES ASSUME SearchInv, [SearchNext]_searchVars PROVE SearchInv'
  OBVIOUS
<1>0. /\ SearchTypeOK /\ Len(mValues) \in Nat /\ DOMAIN mValues = 1..Len(mValues) /\ key \in Nat
      /\ \A p \in 1..Len(mValues) : mValues[p].mIndex \in Nat
      /\ Increasing(mValues)
  BY SearchFacts DEF SearchInv
<1>1. CASE Hit
  <2>1. /\ mid \in Nat /\ mid <= Len(mValues) - 1
    BY <1>0, <1>1, SearchMidBounds DEF Hit, SearchTypeOK
  <2>2. SearchTypeOK'
    BY <1>0, <1>1, <2>1 DEF Hit, SearchTypeOK
  <2>3. IsPosition(mValues, key, mid + 1)
    BY <1>0, <1>1, <2>1 DEF Hit, IsPosition, IndexAt
  <2>4. QED
    BY <1>1, <2>2, <2>3 DEF Hit, SearchInv, FindsPosition
<1>2. CASE GoRight
  <2>1. /\ mid \in Nat /\ mid <= last /\ first <= mid /\ last <= Len(mValues) - 1
        /\ last \in Int /\ mValues[mid + 1].mIndex < key /\ phase = "search" /\ first' = mid + 1
        /\ UNCHANGED <<mValues, key, last, pos, phase>>
    BY <1>0, <1>2, SearchMidBounds DEF GoRight, SearchTypeOK, Searching, IndexAt
  <2>2. SearchTypeOK'
    BY <1>0, <2>1 DEF SearchTypeOK
  <2>3. ASSUME NEW p \in 1..mid + 1 PROVE mValues[p].mIndex < key
    <3>1. p \in 1..Len(mValues) /\ mid + 1 \in 1..Len(mValues)
      BY <1>0, <2>1
    <3>2. p = mid + 1 \/ mValues[p].mIndex < mValues[mid + 1].mIndex
      BY <1>0, <2>1, <3>1 DEF Increasing
    <3>3. QED
      BY <1>0, <2>1, <3>1, <3>2
  <2>4. Narrowed'
    BY <2>1, <2>3 DEF SearchInv, Narrowed, IndexAt
  <2>5. QED
    BY <2>1, <2>2, <2>4 DEF SearchInv, FindsPosition
<1>3. CASE GoLeft
  <2>1. /\ mid \in Nat /\ mid # 0 /\ mid <= last /\ first <= mid /\ last <= Len(mValues) - 1
        /\ mValues[mid - 1 + 1].mIndex >= key /\ phase = "search" /\ last' = mid - 1
        /\ UNCHANGED <<mValues, key, first, pos, phase>>
    BY <1>0, <1>3, SearchMidBounds DEF GoLeft, SearchTypeOK, Searching, IndexAt
  <2>2. SearchTypeOK'
    BY <1>0, <2>1 DEF SearchTypeOK
  <2>3. Narrowed'
    BY <2>1 DEF SearchInv, Narrowed, IndexAt
  <2>4. QED
    BY <2>1, <2>2, <2>3 DEF SearchInv, FindsPosition
<1>4. CASE GiveUp
  <2>1. /\ phase = "search" /\ first > last /\ pos' = last + 1 /\ phase' = "missing"
        /\ UNCHANGED <<mValues, key, first, last>> /\ Narrowed
    BY <1>4 DEF GiveUp, SearchInv
  <2>2. first \in Nat /\ last \in Int /\ first = last + 1 /\ last <= Len(mValues) - 1
    BY <1>0, <2>1 DEF SearchTypeOK
  <2>3. last = Len(mValues) - 1
    <3>1. ASSUME last < Len(mValues) - 1 PROVE FALSE
      <4>1. last >= 0 /\ mValues[last + 1].mIndex >= key
        BY <2>1, <3>1 DEF Narrowed, IndexAt
      <4>2. last + 1 \in 1..first /\ mValues[last + 1].mIndex < key
        BY <2>1, <2>2, <4>1 DEF Narrowed
      <4>3. mValues[last + 1].mIndex \in Nat
        BY <1>0, <2>2, <3>1, <4>1
      <4>4. QED
        BY <1>0, <4>1, <4>2, <4>3
    <3>2. Len(mValues) \in Nat /\ last \in Int /\ last <= Len(mValues) - 1
      BY <1>0, <2>2
    <3>3. QED
      BY <3>1, <3>2
  <2>4. \A p \in DOMAIN mValues : mValues[p].mIndex < key
    BY <1>0, <2>1, <2>2, <2>3 DEF Narrowed
  <2>5. SearchTypeOK'
    BY <1>0, <2>1, <2>2 DEF SearchTypeOK
  <2>6. QED
    BY <2>1, <2>4, <2>5 DEF SearchInv, FindsPosition
<1>5. CASE UNCHANGED searchVars
  BY <1>5 DEF searchVars, SearchInv, SearchTypeOK, Narrowed, FindsPosition, IndexAt
<1>6. QED
  BY <1>1, <1>2, <1>3, <1>4, <1>5 DEF SearchNext

(* Whatever find returns is right: the position of the block that holds the
   key, or that no block can. *)
THEOREM FindIsCorrect == SearchSpec => []FindsPosition
<1>1. SearchInv => FindsPosition
  BY DEF SearchInv
<1>2. QED
  BY <1>1, SearchInvInit, SearchInvNext, PTL DEF SearchSpec

(* The search never leaves the records. *)
THEOREM SearchInBounds == SearchSpec => []SearchTypeOK
<1>1. SearchInv => SearchTypeOK
  BY DEF SearchInv
<1>2. QED
  BY <1>1, SearchInvInit, SearchInvNext, PTL DEF SearchSpec
=============================================================================
