------------------------- MODULE AppendStoreProofs -------------------------
(***************************************************************************)
(* Theorems about AppendStore, for every value of its constants: whatever  *)
(* the values, the sizes of chunks and blocks, and the calls of the client *)
(* are.                                                                    *)
(***************************************************************************)
EXTENDS AppendStore, Scanner, SequenceTheorems, FiniteSetTheorems, TLAPS

Blocks == [mOffset : Nat, mIndex : Nat, vals : Seq(Value)]

Writers ==
    [state : {"none", "open", "closed"}, id : ChunkId, mMaxIndex : Nat, mLastData : Nat,
     stream : Seq(Value)]

Readers == [state : {"none", "open", "closed"}, loaded : Nat]

(* The items of a disk, of the part of it that is synced, and of a writer. *)
StoredIn(d) == UNION {UNION {ItemsOf(c, d[c][p]) : p \in 1..Len(d[c])} : c \in ChunkId}

DurableIn(d, s) == UNION {UNION {ItemsOf(c, d[c][p]) : p \in 1..s[c]} : c \in ChunkId}

BufferedIn(w) ==
    {Item(w.id, w.mMaxIndex - Len(w.stream) + k, w.stream[k]) : k \in DOMAIN w.stream}

(* Each block of a chunk is numbered above the ones before it. *)
BlockAbove(lower, upper) == lower.mIndex <= upper.mIndex - Len(upper.vals)

DiskNumbered(d, top) ==
    /\ d \in [ChunkId -> Seq(Blocks)]
    /\ \A c \in ChunkId : \A p \in 1..Len(d[c]) :
           /\ Len(d[c][p].vals) <= d[c][p].mIndex /\ d[c][p].mIndex <= top
           /\ \A q \in 1..Len(d[c]) : p < q => BlockAbove(d[c][p], d[c][q])

(* What the writer has in its buffer is numbered above its chunk. *)
WriterNumbered(d, w, top) ==
    /\ w \in Writers
    /\ w.state = "none" => w.stream = << >>
    /\ w.state # "none" => w.mMaxIndex - Len(w.stream) = LastIndex(d[w.id])
    /\ w.mMaxIndex <= top

(* A disk that has all blocks of another one, where they were. *)
Extends(d, e) ==
    \A c \in ChunkId : Len(d[c]) <= Len(e[c]) /\ \A p \in 1..Len(d[c]) : e[c][p] = d[c][p]

-----------------------------------------------------------------------------
(* The inductive invariant. *)

Counted == appends \in 0..MaxAppends /\ deaths \in 0..MaxDeaths

Numbered ==
    /\ DiskNumbered(disk, appends) /\ WriterNumbered(disk, writer, appends)
    /\ Len(writer.stream) < BlockIndexInterval

(* Only the chunk that is open for append has blocks that are not synced. *)
SyncedRight ==
    /\ synced \in [ChunkId -> Nat]
    /\ \A c \in ChunkId : synced[c] <= Len(disk[c]) /\ (~WriterHas(c) => synced[c] = Len(disk[c]))

(* The chunk of the writer is the last one. *)
SessionRight ==
    /\ store \in {"none", "append", "read"}
    /\ mMaxChunkId \in ChunkId /\ mAppendChunkId \in ChunkId
    /\ exists \subseteq ChunkId
    /\ exists = {} \/ \E c \in exists : \A b \in exists : b <= c
    /\ \A c \in ChunkId : disk[c] # << >> => c \in exists
    /\ store # "none" => mMaxChunkId = GetMaxChunkID
    /\ store = "append" => mAppendChunkId = mMaxChunkId
    /\ writer.state # "none" => store = "append" /\ writer.id = mAppendChunkId /\ writer.id \in exists
    /\ store = "none" => mChunkMap = {} /\ current = NoChunk /\ mCache = {} /\ answer = NoAnswer
    /\ deleter \in [ChunkId -> {"none", "open", "closed"}]

ReadersRight ==
    /\ reader \in [ChunkId -> Readers]
    /\ mChunkMap \subseteq ChunkId /\ current \in ChunkId \cup {NoChunk}
    /\ \A c \in ChunkId : /\ reader[c].loaded <= Len(disk[c])
                          /\ reader[c].state = "none" <=> c # current /\ c \notin mChunkMap

(* What was cached or answered is held. *)
AnswerRight ==
    /\ mCache \subseteq given
    /\ \/ answer \in given
       \/ answer.val = NoValue /\ \E c \in ChunkId, i \in 0..MaxAppends : answer = Item(c, i, NoValue)

(* What was promised is durable, and the readers know of it. *)
PromiseRight ==
    /\ promised \subseteq Durable
    /\ \A x \in promised : reader[x.chunk].state # "none" =>
           x \in ItemsIn(x.chunk, reader[x.chunk].loaded)

IInv ==
    /\ Counted
    /\ Numbered
    /\ AckedHeld
    /\ SyncedRight
    /\ SessionRight
    /\ ReadersRight
    /\ AnswerRight
    /\ ClosedSurvives
    /\ PromiseRight
    /\ RefreshedFound

-----------------------------------------------------------------------------
(* The items of disks and writers. *)

LEMMA StoredDef ==
    ASSUME NEW d, NEW x
    PROVE  x \in StoredIn(d) <=>
               \E c \in ChunkId : \E p \in 1..Len(d[c]) : x \in ItemsOf(c, d[c][p])
<1>1. \A c \in ChunkId : x \in UNION {ItemsOf(c, d[c][p]) : p \in 1..Len(d[c])} <=>
                            \E p \in 1..Len(d[c]) : x \in ItemsOf(c, d[c][p])
  OBVIOUS
<1>2. QED
  BY <1>1 DEF StoredIn

LEMMA DurableDef ==
    ASSUME NEW d, NEW s, NEW x
    PROVE  x \in DurableIn(d, s) <=>
               \E c \in ChunkId : \E p \in 1..s[c] : x \in ItemsOf(c, d[c][p])
<1>1. \A c \in ChunkId : x \in UNION {ItemsOf(c, d[c][p]) : p \in 1..s[c]} <=>
                            \E p \in 1..s[c] : x \in ItemsOf(c, d[c][p])
  OBVIOUS
<1>2. QED
  BY <1>1 DEF DurableIn

LEMMA StoreNames ==
    /\ Stored = StoredIn(disk) /\ Durable = DurableIn(disk, synced)
    /\ Buffered = BufferedIn(writer)
BY DEF Stored, Durable, ItemsIn, Buffered, StoredIn, DurableIn, BufferedIn

LEMMA ItemsOfDef ==
    ASSUME NEW c, NEW block, NEW x
    PROVE  x \in ItemsOf(c, block) <=>
               \E k \in DOMAIN block.vals :
                   x = Item(c, block.mIndex - Len(block.vals) + k, block.vals[k])
BY DEF ItemsOf

LEMMA ItemFields ==
    ASSUME NEW c, NEW i, NEW v
    PROVE  Item(c, i, v).chunk = c /\ Item(c, i, v).index = i /\ Item(c, i, v).val = v
BY DEF Item

LEMMA ItemsOfChunk ==
    ASSUME NEW c, NEW block, NEW x \in ItemsOf(c, block)
    PROVE  x.chunk = c
BY ItemsOfDef, ItemFields

(* Where the items of a block are numbered. *)
LEMMA ItemsOfIndex ==
    ASSUME NEW c, NEW block \in Blocks, NEW x \in ItemsOf(c, block)
    PROVE  /\ x.index \in Int /\ x.index > block.mIndex - Len(block.vals) /\ x.index <= block.mIndex
           /\ x.val \in Value
<1>1. block.mIndex \in Nat /\ block.vals \in Seq(Value)
  BY DEF Blocks
<1>2. Len(block.vals) \in Nat /\ DOMAIN block.vals = 1..Len(block.vals)
  BY <1>1, LenProperties
<1>3. PICK k \in 1..Len(block.vals) :
          x = Item(c, block.mIndex - Len(block.vals) + k, block.vals[k])
  BY <1>2, ItemsOfDef
<1>4. block.vals[k] \in Value
  BY <1>1, <1>3, ElementOfSeq
<1>5. x.index = block.mIndex - Len(block.vals) + k /\ x.val = block.vals[k]
  BY <1>3, ItemFields
<1>6. QED
  BY <1>1, <1>2, <1>4, <1>5

(* A disk that extends another one has its items. *)
LEMMA ExtendsStored ==
    ASSUME NEW d, NEW e, Extends(d, e),
           \A c \in ChunkId : Len(d[c]) \in Nat /\ Len(e[c]) \in Nat
    PROVE  StoredIn(d) \subseteq StoredIn(e)
<1> SUFFICES ASSUME NEW x \in StoredIn(d) PROVE x \in StoredIn(e)
  OBVIOUS
<1>0. PICK c \in ChunkId : \E p \in 1..Len(d[c]) : x \in ItemsOf(c, d[c][p])
  BY StoredDef
<1>1. PICK p \in 1..Len(d[c]) : x \in ItemsOf(c, d[c][p])
  BY <1>0
<1>2. e[c][p] = d[c][p] /\ p \in 1..Len(e[c])
  BY <1>1 DEF Extends
<1>3. QED
  BY <1>1, <1>2, StoredDef

LEMMA ExtendsDurable ==
    ASSUME NEW d, NEW e, Extends(d, e), NEW s, NEW t,
           \A c \in ChunkId : /\ Len(d[c]) \in Nat /\ s[c] \in Nat /\ t[c] \in Nat
                               /\ s[c] <= Len(d[c]) /\ s[c] <= t[c]
    PROVE  DurableIn(d, s) \subseteq DurableIn(e, t)
<1> SUFFICES ASSUME NEW x \in DurableIn(d, s) PROVE x \in DurableIn(e, t)
  OBVIOUS
<1>0. PICK c \in ChunkId : \E p \in 1..s[c] : x \in ItemsOf(c, d[c][p])
  BY DurableDef
<1>1. PICK p \in 1..s[c] : x \in ItemsOf(c, d[c][p])
  BY <1>0
<1>2. p \in 1..Len(d[c]) /\ p \in 1..t[c]
  BY <1>1
<1>3. e[c][p] = d[c][p]
  BY <1>2 DEF Extends
<1>4. QED
  BY <1>1, <1>2, <1>3, DurableDef

(* A disk that is synced to the end. *)
LEMMA AllDurable ==
    ASSUME NEW d, NEW s, \A c \in ChunkId : s[c] = Len(d[c])
    PROVE  DurableIn(d, s) = StoredIn(d)
<1>1. ASSUME NEW x PROVE x \in DurableIn(d, s) <=> x \in StoredIn(d)
  BY StoredDef, DurableDef
<1>2. QED
  BY <1>1

(* What is durable is stored. *)
LEMMA DurableStored ==
    ASSUME NEW d, NEW s,
           \A c \in ChunkId : s[c] \in Nat /\ Len(d[c]) \in Nat /\ s[c] <= Len(d[c])
    PROVE  DurableIn(d, s) \subseteq StoredIn(d)
<1> SUFFICES ASSUME NEW x \in DurableIn(d, s) PROVE x \in StoredIn(d)
  OBVIOUS
<1>0. PICK c \in ChunkId : \E p \in 1..s[c] : x \in ItemsOf(c, d[c][p])
  BY DurableDef
<1>1. PICK p \in 1..s[c] : x \in ItemsOf(c, d[c][p])
  BY <1>0
<1>2. p \in 1..Len(d[c])
  BY <1>1
<1>3. QED
  BY <1>1, <1>2, StoredDef

-----------------------------------------------------------------------------
(* Flushing and appending. *)

LEMMA DiskTypes ==
    ASSUME NEW d, NEW top \in Nat, DiskNumbered(d, top)
    PROVE  \A c \in ChunkId :
               /\ d[c] \in Seq(Blocks) /\ Len(d[c]) \in Nat
               /\ \A p \in 1..Len(d[c]) :
                      /\ d[c][p] \in Blocks /\ d[c][p].mIndex \in Nat
                      /\ d[c][p].mOffset \in Nat
                      /\ d[c][p].vals \in Seq(Value) /\ Len(d[c][p].vals) \in Nat
<1> SUFFICES ASSUME NEW c \in ChunkId
             PROVE  /\ d[c] \in Seq(Blocks) /\ Len(d[c]) \in Nat
                    /\ \A p \in 1..Len(d[c]) :
                           /\ d[c][p] \in Blocks /\ d[c][p].mIndex \in Nat
                           /\ d[c][p].mOffset \in Nat
                           /\ d[c][p].vals \in Seq(Value) /\ Len(d[c][p].vals) \in Nat
  OBVIOUS
<1>1. d[c] \in Seq(Blocks)
  BY DEF DiskNumbered
<1>2. Len(d[c]) \in Nat
  BY <1>1, LenProperties
<1>3. ASSUME NEW p \in 1..Len(d[c])
      PROVE  /\ d[c][p] \in Blocks /\ d[c][p].mIndex \in Nat /\ d[c][p].mOffset \in Nat
             /\ d[c][p].vals \in Seq(Value) /\ Len(d[c][p].vals) \in Nat
  <2>1. d[c][p] \in Blocks
    BY <1>1, ElementOfSeq
  <2>2. d[c][p].vals \in Seq(Value) /\ d[c][p].mIndex \in Nat /\ d[c][p].mOffset \in Nat
    BY <2>1 DEF Blocks
  <2>3. QED
    BY <2>1, <2>2, LenProperties
<1>4. QED
  BY <1>1, <1>2, <1>3

(* The last index of a chunk, and where its last block ends. *)
LEMMA LastProps ==
    ASSUME NEW d, NEW top \in Nat, DiskNumbered(d, top), NEW c \in ChunkId
    PROVE  /\ LastIndex(d[c]) \in Nat /\ LastIndex(d[c]) <= top /\ EndOfIndex(d[c]) \in Nat
           /\ \A p \in 1..Len(d[c]) : d[c][p].mIndex <= LastIndex(d[c])
<1>1. /\ d[c] \in Seq(Blocks) /\ Len(d[c]) \in Nat
      /\ \A p \in 1..Len(d[c]) : /\ d[c][p].mIndex \in Nat /\ d[c][p].mOffset \in Nat
                                  /\ Len(d[c][p].vals) \in Nat
  BY DiskTypes
<1>2. CASE d[c] = << >>
  <2>1. Len(d[c]) = 0 /\ LastIndex(d[c]) = 0 /\ EndOfIndex(d[c]) = 0
    BY <1>2, EmptySeq DEF LastIndex, EndOfIndex
  <2>2. QED
    BY <1>1, <2>1
<1>3. CASE d[c] # << >>
  <2> DEFINE n == Len(d[c])
  <2>1. n \in 1..n /\ LastIndex(d[c]) = d[c][n].mIndex /\ EndOfIndex(d[c]) = d[c][n].mOffset
    BY <1>1, <1>3, EmptySeq DEF LastIndex, EndOfIndex
  <2>2. d[c][n].mIndex <= top
    BY <2>1 DEF DiskNumbered
  <2>3. ASSUME NEW p \in 1..n PROVE d[c][p].mIndex <= d[c][n].mIndex
    <3>1. CASE p = n
      BY <1>1, <2>1, <3>1
    <3>2. CASE p # n
      <4>1. p < n
        BY <1>1, <3>2
      <4>2. d[c][p].mIndex <= d[c][n].mIndex - Len(d[c][n].vals)
        BY <2>1, <4>1 DEF DiskNumbered, BlockAbove
      <4>3. QED
        BY <1>1, <2>1, <4>2
    <3>3. QED
      BY <3>1, <3>2
  <2>4. QED
    BY <1>1, <2>1, <2>2, <2>3
<1>4. QED
  BY <1>2, <1>3

LEMMA WriterTypes ==
    ASSUME NEW d, NEW top \in Nat, NEW w, WriterNumbered(d, w, top)
    PROVE  /\ w.state \in {"none", "open", "closed"} /\ w.id \in ChunkId /\ w.mMaxIndex \in Nat
           /\ w.mLastData \in Nat /\ w.stream \in Seq(Value) /\ Len(w.stream) \in Nat
           /\ DOMAIN w.stream = 1..Len(w.stream)
<1>1. /\ w.state \in {"none", "open", "closed"} /\ w.id \in ChunkId /\ w.mMaxIndex \in Nat
      /\ w.mLastData \in Nat /\ w.stream \in Seq(Value)
  BY DEF WriterNumbered, Writers
<1>2. QED
  BY <1>1, LenProperties

LEMMA NoStream ==
    ASSUME NEW w, w.stream = << >>
    PROVE  BufferedIn(w) = {}
<1>1. DOMAIN << >> = {}
  OBVIOUS
<1>2. QED
  BY <1>1 DEF BufferedIn

(* The block that is flushed holds what was in the buffer. *)
LEMMA BlockOfProps ==
    ASSUME NEW d, NEW top \in Nat, DiskNumbered(d, top), NEW w, WriterNumbered(d, w, top),
           w.stream # << >>
    PROVE  /\ BlockOf(w) \in Blocks
           /\ BlockOf(w).mIndex = w.mMaxIndex /\ BlockOf(w).vals = w.stream
           /\ Len(w.stream) <= w.mMaxIndex
           /\ w.mMaxIndex - Len(w.stream) = LastIndex(d[w.id])
           /\ ItemsOf(w.id, BlockOf(w)) = BufferedIn(w)
<1>1. /\ w.id \in ChunkId /\ w.mMaxIndex \in Nat /\ w.mLastData \in Nat
      /\ w.stream \in Seq(Value) /\ Len(w.stream) \in Nat
  BY WriterTypes
<1>2. BlockOf(w) = [mOffset |-> w.mLastData + 1 + Len(w.stream), mIndex |-> w.mMaxIndex,
                    vals |-> w.stream]
  BY DEF BlockOf
<1>3. BlockOf(w) \in Blocks
  BY <1>1, <1>2 DEF Blocks
<1>4. w.mMaxIndex - Len(w.stream) = LastIndex(d[w.id])
  BY DEF WriterNumbered
<1>5. LastIndex(d[w.id]) \in Nat
  BY <1>1, LastProps
<1>6. ItemsOf(w.id, BlockOf(w)) = BufferedIn(w)
  BY <1>2 DEF ItemsOf, BufferedIn
<1>7. QED
  BY <1>1, <1>2, <1>3, <1>4, <1>5, <1>6

LEMMA FlushProps ==
    ASSUME NEW d, NEW top \in Nat, DiskNumbered(d, top), NEW w, WriterNumbered(d, w, top)
    PROVE  /\ DiskNumbered(DiskFlushed(d, w), top)
           /\ WriterNumbered(DiskFlushed(d, w), WriterFlushed(w), top)
           /\ StoredIn(DiskFlushed(d, w)) = StoredIn(d) \cup BufferedIn(w)
           /\ Extends(d, DiskFlushed(d, w))
           /\ \A c \in ChunkId : c # w.id => DiskFlushed(d, w)[c] = d[c]
           /\ WriterFlushed(w).stream = << >> /\ WriterFlushed(w).id = w.id
           /\ WriterFlushed(w).state = w.state /\ WriterFlushed(w).mMaxIndex = w.mMaxIndex
<1> DEFINE e == DiskFlushed(d, w)
           u == WriterFlushed(w)
<1>1. \A c \in ChunkId : d[c] \in Seq(Blocks) /\ Len(d[c]) \in Nat
  BY DiskTypes
<1>2. CASE w.stream = << >>
  <2>1. e = d /\ u = w
    BY <1>2 DEF DiskFlushed, WriterFlushed
  <2>2. BufferedIn(w) = {}
    BY <1>2, NoStream
  <2>3. Extends(d, d)
    BY <1>1 DEF Extends
  <2>4. QED
    BY <1>2, <2>1, <2>2, <2>3
<1>3. CASE w.stream # << >>
  <2> DEFINE h == w.id
             n == Len(d[h])
             block == BlockOf(w)
  <2>1. /\ h \in ChunkId /\ w.mMaxIndex \in Nat /\ w.mLastData \in Nat /\ Len(w.stream) \in Nat
        /\ d \in [ChunkId -> Seq(Blocks)] /\ w.mMaxIndex <= top
    BY WriterTypes DEF DiskNumbered, WriterNumbered
  <2>2. /\ block \in Blocks /\ block.mIndex = w.mMaxIndex /\ block.vals = w.stream
        /\ Len(w.stream) <= w.mMaxIndex /\ w.mMaxIndex - Len(w.stream) = LastIndex(d[h])
        /\ ItemsOf(h, block) = BufferedIn(w)
    BY <1>3, BlockOfProps
  <2>3. e = [d EXCEPT ![h] = Append(d[h], block)]
    BY <1>3 DEF DiskFlushed
  <2>4. u = [w EXCEPT !.mLastData = @ + 1 + Len(w.stream), !.stream = << >>]
    BY <1>3 DEF WriterFlushed
  <2> HIDE DEF block, e, u
  <2>5. /\ Append(d[h], block) \in Seq(Blocks) /\ Len(Append(d[h], block)) = n + 1
        /\ \A i \in 1..n : Append(d[h], block)[i] = d[h][i]
        /\ Append(d[h], block)[n + 1] = block
    BY <1>1, <2>1, <2>2, AppendProperties
  <2>6. /\ e \in [ChunkId -> Seq(Blocks)] /\ e[h] = Append(d[h], block)
        /\ \A c \in ChunkId : c # h => e[c] = d[c]
    BY <2>1, <2>3, <2>5
  <2>7. n \in Nat /\ Len(e[h]) = n + 1 /\ e[h][n + 1] = block /\ \A i \in 1..n : e[h][i] = d[h][i]
    BY <1>1, <2>1, <2>5, <2>6
  <2>8. Extends(d, e)
    <3>1. ASSUME NEW c \in ChunkId
          PROVE  Len(d[c]) <= Len(e[c]) /\ \A p \in 1..Len(d[c]) : e[c][p] = d[c][p]
      <4>1. CASE c = h
        BY <2>7, <4>1
      <4>2. CASE c # h
        BY <1>1, <2>6, <4>2
      <4>3. QED
        BY <4>1, <4>2
    <3>2. QED
      BY <3>1 DEF Extends
  <2>9. DiskNumbered(e, top)
    <3>1. \A i \in 1..n : /\ d[h][i].mIndex \in Nat /\ d[h][i].mIndex <= LastIndex(d[h])
                          /\ Len(d[h][i].vals) <= d[h][i].mIndex /\ d[h][i].mIndex <= top
                          /\ \A j \in 1..n : i < j => BlockAbove(d[h][i], d[h][j])
      BY <2>1, DiskTypes, LastProps DEF DiskNumbered
    <3>2. \A i \in 1..n : BlockAbove(d[h][i], block)
      BY <2>2, <3>1 DEF BlockAbove
    <3>3. ASSUME NEW p \in 1..(n + 1)
          PROVE  /\ Len(e[h][p].vals) <= e[h][p].mIndex /\ e[h][p].mIndex <= top
                 /\ \A q \in 1..(n + 1) : p < q => BlockAbove(e[h][p], e[h][q])
      <4>1. CASE p = n + 1
        <5>1. \A q \in 1..(n + 1) : ~(p < q)
          BY <2>7, <4>1
        <5>2. QED
          BY <2>1, <2>2, <2>7, <4>1, <5>1
      <4>2. CASE p # n + 1
        <5>1. p \in 1..n /\ e[h][p] = d[h][p]
          BY <2>7, <4>2
        <5>2. ASSUME NEW q \in 1..(n + 1), p < q PROVE BlockAbove(e[h][p], e[h][q])
          <6>1. CASE q = n + 1
            BY <2>7, <3>2, <5>1, <6>1
          <6>2. CASE q # n + 1
            <7>1. q \in 1..n /\ e[h][q] = d[h][q]
              BY <2>7, <6>2
            <7>2. QED
              BY <3>1, <5>1, <5>2, <7>1
          <6>3. QED
            BY <6>1, <6>2
        <5>3. QED
          BY <3>1, <5>1, <5>2
      <4>3. QED
        BY <4>1, <4>2
    <3>4. ASSUME NEW c \in ChunkId, NEW p \in 1..Len(e[c])
          PROVE  /\ Len(e[c][p].vals) <= e[c][p].mIndex /\ e[c][p].mIndex <= top
                 /\ \A q \in 1..Len(e[c]) : p < q => BlockAbove(e[c][p], e[c][q])
      <4>1. CASE c = h
        BY <2>7, <3>3, <4>1
      <4>2. CASE c # h
        BY <2>6, <4>2 DEF DiskNumbered
      <4>3. QED
        BY <4>1, <4>2
    <3>5. QED
      BY <2>6, <3>4 DEF DiskNumbered
  <2>10. WriterNumbered(e, u, top)
    <3>1. u \in Writers /\ u.stream = << >> /\ u.id = h /\ u.mMaxIndex = w.mMaxIndex
      <4>1. << >> \in Seq(Value) /\ w.mLastData + 1 + Len(w.stream) \in Nat /\ w \in Writers
        BY <2>1, EmptySeq DEF WriterNumbered
      <4>2. QED
        BY <2>4, <4>1 DEF Writers
    <3>2. e[h] # << >> /\ LastIndex(e[h]) = block.mIndex
      BY <2>7, EmptySeq DEF LastIndex
    <3>3. Len(u.stream) = 0
      BY <3>1, EmptySeq
    <3>4. QED
      BY <2>1, <2>2, <3>1, <3>2, <3>3 DEF WriterNumbered
  <2>11. StoredIn(e) = StoredIn(d) \cup BufferedIn(w)
    <3>1. ASSUME NEW x \in StoredIn(e) PROVE x \in StoredIn(d) \cup BufferedIn(w)
      <4>1. PICK c \in ChunkId : \E p \in 1..Len(e[c]) : x \in ItemsOf(c, e[c][p])
        BY <3>1, StoredDef
      <4>2. PICK p \in 1..Len(e[c]) : x \in ItemsOf(c, e[c][p])
        BY <4>1
      <4>3. CASE c = h /\ p = n + 1
        BY <2>2, <2>7, <4>2, <4>3
      <4>4. CASE ~(c = h /\ p = n + 1)
        <5>1. CASE c # h
          BY <2>6, <4>2, <5>1, StoredDef
        <5>2. CASE c = h
          <6>1. p \in 1..n /\ e[h][p] = d[h][p]
            BY <2>7, <4>2, <4>4, <5>2
          <6>2. QED
            BY <2>1, <4>2, <5>2, <6>1, StoredDef
        <5>3. QED
          BY <5>1, <5>2
      <4>5. QED
        BY <4>3, <4>4
    <3>2. StoredIn(d) \subseteq StoredIn(e)
      <4>1. \A c \in ChunkId : Len(e[c]) \in Nat
        BY <2>6, LenProperties
      <4>2. QED
        BY <1>1, <2>8, <4>1, ExtendsStored
    <3>3. BufferedIn(w) \subseteq StoredIn(e)
      <4>1. n + 1 \in 1..Len(e[h])
        BY <2>7
      <4>2. QED
        BY <2>1, <2>2, <2>7, <4>1, StoredDef
    <3>4. QED
      BY <3>1, <3>2, <3>3
  <2>12. u.stream = << >> /\ u.id = w.id /\ u.state = w.state /\ u.mMaxIndex = w.mMaxIndex
    <3>1. w \in Writers
      BY DEF WriterNumbered
    <3>2. QED
      BY <2>4, <3>1 DEF Writers
  <2>13. QED
    BY <2>6, <2>8, <2>9, <2>10, <2>11, <2>12 DEF e, u
<1>4. QED
  BY <1>2, <1>3

(* A writer with a record put in its buffer, before the buffer is flushed. *)
WithRecord(w, v) == [w EXCEPT !.mMaxIndex = @ + 1, !.stream = Append(@, v)]

LEMMA BufferProps ==
    ASSUME NEW d, NEW top \in Nat, DiskNumbered(d, top), NEW w, WriterNumbered(d, w, top),
           w.state # "none", NEW v \in Value
    PROVE  /\ DiskNumbered(d, top + 1) /\ WriterNumbered(d, WithRecord(w, v), top + 1)
           /\ WithRecord(w, v).id = w.id /\ WithRecord(w, v).state = w.state
           /\ WithRecord(w, v).mMaxIndex = w.mMaxIndex + 1
           /\ BufferedIn(WithRecord(w, v)) = BufferedIn(w) \cup {Item(w.id, w.mMaxIndex + 1, v)}
<1> DEFINE n == Len(w.stream)
           u == WithRecord(w, v)
<1>1. /\ w.id \in ChunkId /\ w.mMaxIndex \in Nat /\ w.mLastData \in Nat
      /\ w.stream \in Seq(Value) /\ n \in Nat /\ DOMAIN w.stream = 1..n
  BY WriterTypes
<1>2. /\ Append(w.stream, v) \in Seq(Value) /\ Len(Append(w.stream, v)) = n + 1
      /\ \A i \in 1..n : Append(w.stream, v)[i] = w.stream[i]
      /\ Append(w.stream, v)[n + 1] = v
  BY <1>1, AppendProperties
<1>3. w \in Writers
  BY DEF WriterNumbered
<1>4. /\ u \in Writers /\ u.id = w.id /\ u.state = w.state /\ u.mMaxIndex = w.mMaxIndex + 1
      /\ u.stream = Append(w.stream, v)
  <2> DEFINE t == Append(w.stream, v)
  <2>1. t \in Seq(Value) /\ w.mMaxIndex + 1 \in Nat
    BY <1>1, <1>2
  <2>2. u = [w EXCEPT !.mMaxIndex = @ + 1, !.stream = t]
    BY DEF WithRecord
  <2> HIDE DEF t, u
  <2>3. /\ u \in Writers /\ u.id = w.id /\ u.state = w.state /\ u.mMaxIndex = w.mMaxIndex + 1
        /\ u.stream = t
    BY <1>3, <2>1, <2>2 DEF Writers
  <2>4. QED
    BY <2>3 DEF t, u
<1> HIDE DEF u
<1>5. u.mMaxIndex - Len(u.stream) = w.mMaxIndex - n
  BY <1>1, <1>2, <1>4
<1>6. DiskNumbered(d, top + 1)
  <2>1. ASSUME NEW c \in ChunkId, NEW p \in 1..Len(d[c])
        PROVE  /\ Len(d[c][p].vals) <= d[c][p].mIndex /\ d[c][p].mIndex <= top + 1
               /\ \A q \in 1..Len(d[c]) : p < q => BlockAbove(d[c][p], d[c][q])
    <3>1. d[c][p].mIndex \in Nat
      BY DiskTypes
    <3>2. d[c][p].mIndex <= top
      BY DEF DiskNumbered
    <3>3. d[c][p].mIndex <= top + 1
      BY <3>1, <3>2
    <3>4. /\ Len(d[c][p].vals) <= d[c][p].mIndex
          /\ \A q \in 1..Len(d[c]) : p < q => BlockAbove(d[c][p], d[c][q])
      BY DEF DiskNumbered
    <3>5. QED
      BY <3>3, <3>4
  <2>2. QED
    BY <2>1 DEF DiskNumbered
<1>7. WriterNumbered(d, u, top + 1)
  BY <1>1, <1>4, <1>5 DEF WriterNumbered
<1>8. BufferedIn(u) = BufferedIn(w) \cup {Item(w.id, w.mMaxIndex + 1, v)}
  <2>1. DOMAIN u.stream = 1..(n + 1)
    BY <1>1, <1>2, <1>4
  <2>2. \A x : x \in BufferedIn(u) <=>
                   \E k \in 1..(n + 1) : x = Item(w.id, w.mMaxIndex - n + k, Append(w.stream, v)[k])
    BY <1>4, <1>5, <2>1 DEF BufferedIn
  <2>3. \A x : x \in BufferedIn(w) <=>
                   \E k \in 1..n : x = Item(w.id, w.mMaxIndex - n + k, w.stream[k])
    BY <1>1 DEF BufferedIn
  <2>4. w.mMaxIndex - n + (n + 1) = w.mMaxIndex + 1
    BY <1>1
  <2>5. ASSUME NEW x \in BufferedIn(u) PROVE x \in BufferedIn(w) \cup {Item(w.id, w.mMaxIndex + 1, v)}
    <3>1. PICK k \in 1..(n + 1) : x = Item(w.id, w.mMaxIndex - n + k, Append(w.stream, v)[k])
      BY <2>2, <2>5
    <3>2. CASE k = n + 1
      BY <1>2, <2>4, <3>1, <3>2
    <3>3. CASE k # n + 1
      <4>1. k \in 1..n
        BY <1>1, <3>3
      <4>2. QED
        BY <1>2, <2>3, <3>1, <4>1
    <3>4. QED
      BY <3>2, <3>3
  <2>6. ASSUME NEW x \in BufferedIn(w) PROVE x \in BufferedIn(u)
    <3>1. PICK k \in 1..n : x = Item(w.id, w.mMaxIndex - n + k, w.stream[k])
      BY <2>3, <2>6
    <3>2. k \in 1..(n + 1)
      BY <1>1
    <3>3. QED
      BY <1>2, <2>2, <3>1, <3>2
  <2>7. Item(w.id, w.mMaxIndex + 1, v) \in BufferedIn(u)
    <3>1. n + 1 \in 1..(n + 1)
      BY <1>1
    <3>2. QED
      BY <1>2, <2>2, <2>4, <3>1
  <2>8. QED
    BY <2>5, <2>6, <2>7
<1>9. QED
  BY <1>2, <1>4, <1>6, <1>7, <1>8 DEF u

LEMMA PutProps ==
    ASSUME NEW d, NEW top \in Nat, DiskNumbered(d, top), NEW w, WriterNumbered(d, w, top),
           w.state # "none", Len(w.stream) < BlockIndexInterval, NEW v \in Value,
           PutRecord(d, w, v)
    PROVE  /\ DiskNumbered(disk', top + 1) /\ WriterNumbered(disk', writer', top + 1)
           /\ Len(writer'.stream) < BlockIndexInterval
           /\ StoredIn(disk') \cup BufferedIn(writer')
                  = StoredIn(d) \cup BufferedIn(w) \cup {Item(w.id, w.mMaxIndex + 1, v)}
           /\ Extends(d, disk') /\ \A c \in ChunkId : c # w.id => disk'[c] = d[c]
           /\ writer'.id = w.id /\ writer'.state = w.state
           /\ given' = given \cup {Item(w.id, w.mMaxIndex + 1, v)} /\ appends' = appends + 1
<1> DEFINE u == WithRecord(w, v)
<1>1. /\ IF Len(u.stream) >= BlockIndexInterval
         THEN disk' = DiskFlushed(d, u) /\ writer' = WriterFlushed(u)
         ELSE disk' = d /\ writer' = u
      /\ given' = given \cup {Item(u.id, u.mMaxIndex, v)}
      /\ appends' = appends + 1
  BY DEF PutRecord, WithRecord
<1>2. /\ DiskNumbered(d, top + 1) /\ WriterNumbered(d, u, top + 1)
      /\ u.id = w.id /\ u.state = w.state /\ u.mMaxIndex = w.mMaxIndex + 1
      /\ BufferedIn(u) = BufferedIn(w) \cup {Item(w.id, w.mMaxIndex + 1, v)}
  BY BufferProps
<1> HIDE DEF u
<1>3. top + 1 \in Nat
  OBVIOUS
<1>4. BlockIndexInterval \in Nat \ {0}
  BY AppendStoreAssumption
<1>5. Len(u.stream) \in Nat /\ Len(<< >>) = 0
  BY <1>2, <1>3, WriterTypes, EmptySeq
<1>6. given' = given \cup {Item(w.id, w.mMaxIndex + 1, v)} /\ appends' = appends + 1
  BY <1>1, <1>2
<1>7. CASE Len(u.stream) >= BlockIndexInterval
  <2>1. disk' = DiskFlushed(d, u) /\ writer' = WriterFlushed(u)
    BY <1>1, <1>7
  <2>2. /\ DiskNumbered(disk', top + 1)
        /\ WriterNumbered(disk', writer', top + 1)
        /\ StoredIn(disk') = StoredIn(d) \cup BufferedIn(u)
        /\ Extends(d, disk')
        /\ \A c \in ChunkId : c # u.id => disk'[c] = d[c]
        /\ writer'.stream = << >> /\ writer'.id = u.id
        /\ writer'.state = u.state
    BY <1>2, <1>3, <2>1, FlushProps
  <2>3. BufferedIn(writer') = {}
    BY <2>2, NoStream
  <2>4. Len(writer'.stream) < BlockIndexInterval
    BY <1>4, <1>5, <2>2
  <2>5. QED
    BY <1>2, <1>6, <2>2, <2>3, <2>4
<1>8. CASE ~(Len(u.stream) >= BlockIndexInterval)
  <2>1. disk' = d /\ writer' = u
    BY <1>1, <1>8
  <2>2. Len(writer'.stream) < BlockIndexInterval
    BY <1>4, <1>5, <1>8, <2>1
  <2>3. Extends(d, disk')
    <3>1. \A c \in ChunkId : Len(d[c]) \in Nat
      BY DiskTypes
    <3>2. QED
      BY <2>1, <3>1 DEF Extends
  <2>4. QED
    BY <1>2, <1>6, <2>1, <2>2, <2>3
<1>9. QED
  BY <1>7, <1>8

(* Opening the writer's chunk again changes none of its items. *)
LEMMA TurnedOnProps ==
    ASSUME NEW top \in Nat, DiskNumbered(disk, top), WriterNumbered(disk, writer, top),
           writer.state # "none"
    PROVE  /\ WriterNumbered(disk, TurnedOn(writer), top) /\ TurnedOn(writer).state = "open"
           /\ TurnedOn(writer).id = writer.id /\ TurnedOn(writer).stream = writer.stream
           /\ TurnedOn(writer).mMaxIndex = writer.mMaxIndex
           /\ BufferedIn(TurnedOn(writer)) = BufferedIn(writer)
<1> DEFINE end == EndOfIndex(disk[writer.id])
           u == TurnedOn(writer)
<1>1. writer \in Writers /\ writer.id \in ChunkId
  BY DEF WriterNumbered, Writers
<1>2. end \in Nat
  BY <1>1, LastProps
<1>3. u = IF writer.state = "open" THEN writer
          ELSE [writer EXCEPT !.state = "open", !.mLastData = end]
  BY DEF TurnedOn, Enabled
<1> HIDE DEF end, u
<1>4. /\ u \in Writers /\ u.state = "open" /\ u.id = writer.id /\ u.stream = writer.stream
      /\ u.mMaxIndex = writer.mMaxIndex
  BY <1>1, <1>2, <1>3 DEF Writers
<1>5. WriterNumbered(disk, u, top)
  BY <1>4 DEF WriterNumbered
<1>6. BufferedIn(u) = BufferedIn(writer)
  BY <1>4 DEF BufferedIn
<1>7. QED
  BY <1>4, <1>5, <1>6 DEF u

LEMMA LoadedProps ==
    ASSUME NEW top \in Nat, DiskNumbered(disk, top), NEW c \in ChunkId
    PROVE  /\ WriterNumbered(disk, Loaded(c), top) /\ Loaded(c).state = "open"
           /\ Loaded(c).id = c /\ Loaded(c).stream = << >> /\ Len(Loaded(c).stream) = 0
           /\ BufferedIn(Loaded(c)) = {}
<1> DEFINE last == LastIndex(disk[c])
           end == EndOfIndex(disk[c])
           u == Loaded(c)
<1>1. last \in Nat /\ last <= top /\ end \in Nat
  BY LastProps
<1>2. u = [state |-> "open", id |-> c, mMaxIndex |-> last, mLastData |-> end, stream |-> << >>]
  BY DEF Loaded
<1>3. << >> \in Seq(Value) /\ Len(<< >>) = 0
  BY EmptySeq
<1> HIDE DEF end, u, last
<1>4. u \in Writers /\ u.state = "open" /\ u.id = c /\ u.stream = << >> /\ u.mMaxIndex = last
  BY <1>1, <1>2, <1>3 DEF Writers
<1>5. last - 0 = last
  BY <1>1
<1>6. WriterNumbered(disk, u, top)
  BY <1>1, <1>3, <1>4, <1>5 DEF WriterNumbered, last
<1>7. QED
  BY <1>3, <1>4, <1>6, NoStream DEF u

-----------------------------------------------------------------------------
(* The data: what the steps do to the disk, the writer and the items given. *)

Data == Counted /\ Numbered /\ AckedHeld /\ SyncedRight

(* A step that loses nothing. *)
Keeps ==
    /\ Extends(disk, disk')
    /\ \A c \in ChunkId : synced[c] <= synced'[c]

(* A step that writes to no chunk but those of the writer. *)
OnlyWriters ==
    \A c \in ChunkId :
        /\ writer.state # "none" => c # writer.id
        /\ writer'.state # "none" => c # writer'.id
        => disk'[c] = disk[c]

SameWriter == writer'.id = writer.id /\ (writer'.state = "none" <=> writer.state = "none")

LEMMA DataTypes ==
    ASSUME Data
    PROVE  /\ appends \in Nat /\ DiskNumbered(disk, appends)
           /\ WriterNumbered(disk, writer, appends) /\ writer.id \in ChunkId
           /\ \A c \in ChunkId : Len(disk[c]) \in Nat /\ synced[c] \in Nat
<1>1. appends \in Nat
  BY AppendStoreAssumption DEF Data, Counted
<1>2. DiskNumbered(disk, appends) /\ WriterNumbered(disk, writer, appends)
  BY DEF Data, Numbered
<1>3. writer.id \in ChunkId
  BY <1>1, <1>2, WriterTypes
<1>4. \A c \in ChunkId : Len(disk[c]) \in Nat
  BY <1>1, <1>2, DiskTypes
<1>5. \A c \in ChunkId : synced[c] \in Nat
  BY DEF Data, SyncedRight
<1>6. QED
  BY <1>1, <1>2, <1>3, <1>4, <1>5

LEMMA NoWriterNumbered ==
    /\ \A d : \A top \in Nat : WriterNumbered(d, NoWriter, top)
    /\ Len(NoWriter.stream) < BlockIndexInterval /\ BufferedIn(NoWriter) = {}
    /\ NoWriter.state = "none"
<1>1. /\ NoWriter.state = "none" /\ NoWriter.id = 0 /\ NoWriter.mMaxIndex = 0
      /\ NoWriter.mLastData = 0 /\ NoWriter.stream = << >>
  BY DEF NoWriter
<1>2. 0 \in ChunkId /\ << >> \in Seq(Value) /\ Len(<< >>) = 0
  BY AppendStoreAssumption, EmptySeq DEF ChunkId
<1>3. NoWriter \in Writers
  BY <1>2 DEF NoWriter, Writers
<1>4. \A d : \A top \in Nat : WriterNumbered(d, NoWriter, top)
  BY <1>1, <1>3 DEF WriterNumbered
<1>5. Len(NoWriter.stream) < BlockIndexInterval
  BY <1>1, <1>2, AppendStoreAssumption
<1>6. QED
  BY <1>1, <1>4, <1>5, NoStream

LEMMA PrefixProps ==
    ASSUME NEW S, NEW s \in Seq(S), NEW n \in Nat, n <= Len(s)
    PROVE  /\ SubSeq(s, 1, n) \in Seq(S) /\ Len(SubSeq(s, 1, n)) = n
           /\ \A p \in 1..n : SubSeq(s, 1, n)[p] = s[p]
<1>1. Len(s) \in Nat
  BY LenProperties
<1>2. \A i \in 1..n : i \in 1..Len(s)
  BY <1>1
<1>3. SubSeq(s, 1, n) \in Seq(S)
  BY <1>2, SubSeqProperties
<1>4. QED
  BY <1>1, <1>3, SubSeqProperties

LEMMA ExtendsSelf ==
    ASSUME NEW d, \A c \in ChunkId : Len(d[c]) \in Nat
    PROVE  Extends(d, d)
BY DEF Extends

(* A step that writes to the end of the writer's chunk. *)
LEMMA SyncedGrows ==
    ASSUME Data, NEW top \in Nat, DiskNumbered(disk', top), Extends(disk, disk'),
           UNCHANGED synced, writer'.state = "open",
           \A c \in ChunkId : c # writer'.id => disk'[c] = disk[c] /\ ~WriterHas(c)
    PROVE  SyncedRight' /\ Keeps
<1>1. \A c \in ChunkId : Len(disk[c]) \in Nat /\ Len(disk'[c]) \in Nat /\ synced[c] \in Nat
  BY DataTypes, DiskTypes
<1>2. /\ synced \in [ChunkId -> Nat]
      /\ \A c \in ChunkId : synced[c] <= Len(disk[c]) /\ (~WriterHas(c) => synced[c] = Len(disk[c]))
  BY DEF Data, SyncedRight
<1>3. \A c \in ChunkId : Len(disk[c]) <= Len(disk'[c])
  BY DEF Extends
<1>4. ASSUME NEW c \in ChunkId
      PROVE  synced'[c] <= Len(disk'[c]) /\ (~WriterHas(c)' => synced'[c] = Len(disk'[c]))
  <2>1. CASE c = writer'.id
    <3>1. WriterHas(c)'
      BY <2>1 DEF WriterHas
    <3>2. QED
      BY <1>1, <1>2, <1>3, <3>1
  <2>2. CASE c # writer'.id
    BY <1>1, <1>2, <2>2
  <2>3. QED
    BY <2>1, <2>2
<1>5. SyncedRight'
  BY <1>2, <1>4 DEF SyncedRight
<1>6. Keeps
  BY <1>1 DEF Keeps
<1>7. QED
  BY <1>5, <1>6

LEMMA AppendToCurrentData ==
    ASSUME Data, NEW v \in Value, AppendToCurrent(v)
    PROVE  Data' /\ Keeps /\ OnlyWriters /\ SameWriter
<1> DEFINE w == TurnedOn(writer)
           x == Item(w.id, w.mMaxIndex + 1, v)
<1>1. /\ appends < MaxAppends /\ writer.state # "none" /\ PutRecord(disk, w, v)
      /\ UNCHANGED <<synced, deaths>>
  BY DEF AppendToCurrent, MayAppend
<1>2. /\ appends \in Nat /\ DiskNumbered(disk, appends)
      /\ WriterNumbered(disk, writer, appends) /\ writer.id \in ChunkId
      /\ Len(writer.stream) < BlockIndexInterval
  BY DataTypes DEF Data, Numbered
<1>3. /\ WriterNumbered(disk, w, appends) /\ w.state = "open" /\ w.id = writer.id
      /\ w.stream = writer.stream /\ BufferedIn(w) = BufferedIn(writer)
  BY <1>1, <1>2, TurnedOnProps
<1>4. w.state # "none" /\ Len(w.stream) < BlockIndexInterval
  BY <1>2, <1>3
<1> HIDE DEF w
<1>5. /\ DiskNumbered(disk', appends + 1) /\ WriterNumbered(disk', writer', appends + 1)
      /\ Len(writer'.stream) < BlockIndexInterval
      /\ StoredIn(disk') \cup BufferedIn(writer') = StoredIn(disk) \cup BufferedIn(w) \cup {x}
      /\ Extends(disk, disk') /\ \A c \in ChunkId : c # w.id => disk'[c] = disk[c]
      /\ writer'.id = w.id /\ writer'.state = w.state
      /\ given' = given \cup {x} /\ appends' = appends + 1
  BY <1>1, <1>2, <1>3, <1>4, PutProps
<1>6. Counted'
  BY <1>1, <1>2, <1>5, AppendStoreAssumption DEF Data, Counted
<1>7. Numbered'
  BY <1>5 DEF Numbered
<1>8. AckedHeld'
  <2>1. given = StoredIn(disk) \cup BufferedIn(writer)
    BY StoreNames DEF Data, AckedHeld
  <2>2. given' = StoredIn(disk') \cup BufferedIn(writer')
    BY <1>3, <1>5, <2>1
  <2>3. QED
    BY <2>2 DEF AckedHeld, Stored, ItemsIn, Buffered, StoredIn, BufferedIn
<1>9. SyncedRight' /\ Keeps
  <2>1. \A c \in ChunkId : c # writer'.id => disk'[c] = disk[c] /\ ~WriterHas(c)
    BY <1>3, <1>5 DEF WriterHas
  <2>2. appends + 1 \in Nat
    BY <1>2
  <2>3. QED
    BY <1>1, <1>3, <1>5, <2>1, <2>2, SyncedGrows
<1>10. OnlyWriters /\ SameWriter
  BY <1>1, <1>3, <1>5 DEF OnlyWriters, SameWriter
<1>11. QED
  BY <1>6, <1>7, <1>8, <1>9, <1>10 DEF Data

LEMMA AppendToLoadedData ==
    ASSUME Data, SessionRight, NEW v \in Value, AppendToLoaded(v)
    PROVE  Data' /\ Keeps /\ OnlyWriters /\ writer'.id = mAppendChunkId /\ writer'.state = "open"
<1> DEFINE w == Loaded(mAppendChunkId)
           x == Item(w.id, w.mMaxIndex + 1, v)
<1>1. /\ appends < MaxAppends /\ writer.state = "none"
      /\ IF IsChunkFull(w) THEN writer' = w /\ UNCHANGED <<disk, given, appends>>
         ELSE PutRecord(disk, w, v)
      /\ UNCHANGED <<synced, deaths>>
  BY DEF AppendToLoaded, MayAppend
<1>2. /\ appends \in Nat /\ DiskNumbered(disk, appends)
      /\ WriterNumbered(disk, writer, appends) /\ mAppendChunkId \in ChunkId
      /\ BufferedIn(writer) = {}
  <2>1. writer.stream = << >>
    BY <1>1 DEF Data, Numbered, WriterNumbered
  <2>2. QED
    BY <2>1, DataTypes, NoStream DEF SessionRight
<1>3. /\ WriterNumbered(disk, w, appends) /\ w.state = "open" /\ w.id = mAppendChunkId
      /\ Len(w.stream) = 0 /\ BufferedIn(w) = {}
  BY <1>2, LoadedProps
<1>4. w.state # "none" /\ Len(w.stream) < BlockIndexInterval
  BY <1>3, AppendStoreAssumption
<1>5. given = StoredIn(disk) \cup BufferedIn(writer)
  BY StoreNames DEF Data, AckedHeld
<1> HIDE DEF w
<1>6. /\ DiskNumbered(disk', appends') /\ WriterNumbered(disk', writer', appends')
      /\ Len(writer'.stream) < BlockIndexInterval
      /\ Extends(disk, disk') /\ \A c \in ChunkId : c # w.id => disk'[c] = disk[c]
      /\ writer'.id = w.id /\ writer'.state = "open"
      /\ given' = StoredIn(disk') \cup BufferedIn(writer')
      /\ appends' \in 0..MaxAppends
  <2>1. CASE IsChunkFull(w)
    <3>1. writer' = w /\ disk' = disk /\ given' = given /\ appends' = appends
      BY <1>1, <2>1
    <3>2. Extends(disk, disk')
      BY <3>1, ExtendsSelf, DataTypes
    <3>3. given' = StoredIn(disk') \cup BufferedIn(writer')
      BY <1>2, <1>3, <1>5, <3>1
    <3>4. appends' \in 0..MaxAppends
      BY <3>1 DEF Data, Counted
    <3>5. QED
      BY <1>2, <1>3, <1>4, <3>1, <3>2, <3>3, <3>4
  <2>2. CASE ~IsChunkFull(w)
    <3>1. PutRecord(disk, w, v)
      BY <1>1, <2>2
    <3>2. /\ DiskNumbered(disk', appends + 1) /\ WriterNumbered(disk', writer', appends + 1)
          /\ Len(writer'.stream) < BlockIndexInterval
          /\ StoredIn(disk') \cup BufferedIn(writer') = StoredIn(disk) \cup BufferedIn(w) \cup {x}
          /\ Extends(disk, disk') /\ \A c \in ChunkId : c # w.id => disk'[c] = disk[c]
          /\ writer'.id = w.id /\ writer'.state = w.state
          /\ given' = given \cup {x} /\ appends' = appends + 1
      BY <1>2, <1>3, <1>4, <3>1, PutProps
    <3>3. given' = StoredIn(disk') \cup BufferedIn(writer')
      BY <1>2, <1>3, <1>5, <3>2
    <3>4. appends' \in 0..MaxAppends
      BY <1>1, <1>2, <3>2, AppendStoreAssumption
    <3>5. QED
      BY <1>3, <3>2, <3>3, <3>4
  <2>3. QED
    BY <2>1, <2>2
<1>7. Counted'
  BY <1>1, <1>6 DEF Data, Counted
<1>8. Numbered'
  BY <1>6 DEF Numbered
<1>9. AckedHeld'
  BY <1>6 DEF AckedHeld, Stored, ItemsIn, Buffered, StoredIn, BufferedIn
<1>10. SyncedRight' /\ Keeps
  <2>1. \A c \in ChunkId : c # writer'.id => disk'[c] = disk[c] /\ ~WriterHas(c)
    BY <1>1, <1>6 DEF WriterHas
  <2>2. appends' \in Nat
    BY <1>6, AppendStoreAssumption
  <2>3. QED
    BY <1>1, <1>6, <2>1, <2>2, SyncedGrows
<1>11. OnlyWriters
  BY <1>6 DEF OnlyWriters
<1>12. QED
  BY <1>3, <1>6, <1>7, <1>8, <1>9, <1>10, <1>11 DEF Data

LEMMA AppendToNextData ==
    ASSUME Data, SessionRight, NEW v \in Value, AppendToNext(v)
    PROVE  Data' /\ Keeps /\ OnlyWriters /\ writer'.id = mMaxChunkId + 1 /\ writer'.state = "open"
<1> DEFINE t == TurnedOn(writer)
           closed == DiskFlushed(disk, t)
           b == mMaxChunkId + 1
           w == Loaded(b)
           x == Item(w.id, w.mMaxIndex + 1, v)
           h == writer.id
<1>1. /\ appends < MaxAppends /\ writer.state # "none" /\ mMaxChunkId < MaxChunk
      /\ PutRecord(closed, w, v)
      /\ synced' = [synced EXCEPT ![h] = Len(closed[h])]
      /\ UNCHANGED deaths
  BY DEF AppendToNext, MayAppend
<1>2. /\ appends \in Nat /\ DiskNumbered(disk, appends)
      /\ WriterNumbered(disk, writer, appends) /\ h \in ChunkId
      /\ \A c \in ChunkId : Len(disk[c]) \in Nat
  BY DataTypes
<1>3. b \in ChunkId /\ h = mMaxChunkId /\ h # b
  <2>1. /\ mMaxChunkId \in 0..MaxChunk /\ MaxChunk \in Nat
        /\ store = "append" /\ h = mAppendChunkId /\ mAppendChunkId = mMaxChunkId
    BY <1>1, AppendStoreAssumption DEF SessionRight, ChunkId
  <2>2. QED
    BY <1>1, <2>1 DEF ChunkId
<1>4. /\ WriterNumbered(disk, t, appends) /\ t.id = h /\ BufferedIn(t) = BufferedIn(writer)
  BY <1>1, <1>2, TurnedOnProps
<1>5. /\ WriterNumbered(disk, w, appends) /\ w.state = "open" /\ w.id = b
      /\ Len(w.stream) = 0 /\ BufferedIn(w) = {}
  BY <1>2, <1>3, LoadedProps
<1>6. w.state # "none" /\ Len(w.stream) < BlockIndexInterval
  BY <1>5, AppendStoreAssumption
<1>7. given = StoredIn(disk) \cup BufferedIn(writer)
  BY StoreNames DEF Data, AckedHeld
<1> HIDE DEF t
<1>8. /\ DiskNumbered(closed, appends) /\ StoredIn(closed) = StoredIn(disk) \cup BufferedIn(t)
      /\ Extends(disk, closed) /\ \A c \in ChunkId : c # h => closed[c] = disk[c]
  BY <1>2, <1>4, FlushProps
<1> HIDE DEF closed, w, b, h
<1>9. WriterNumbered(closed, w, appends)
  BY <1>3, <1>5, <1>8 DEF WriterNumbered
<1>10. /\ DiskNumbered(disk', appends + 1) /\ WriterNumbered(disk', writer', appends + 1)
       /\ Len(writer'.stream) < BlockIndexInterval
       /\ StoredIn(disk') \cup BufferedIn(writer') = StoredIn(closed) \cup BufferedIn(w) \cup {x}
       /\ Extends(closed, disk') /\ \A c \in ChunkId : c # w.id => disk'[c] = closed[c]
       /\ writer'.id = w.id /\ writer'.state = w.state
       /\ given' = given \cup {x} /\ appends' = appends + 1
  BY <1>1, <1>2, <1>6, <1>8, <1>9, PutProps
<1>11. Counted'
  BY <1>1, <1>2, <1>10, AppendStoreAssumption DEF Data, Counted
<1>12. Numbered'
  BY <1>10 DEF Numbered
<1>13. AckedHeld'
  <2>1. given' = StoredIn(disk') \cup BufferedIn(writer')
    BY <1>4, <1>5, <1>7, <1>8, <1>10
  <2>2. QED
    BY <2>1 DEF AckedHeld, Stored, ItemsIn, Buffered, StoredIn, BufferedIn
<1>14. \A c \in ChunkId : Len(closed[c]) \in Nat /\ Len(disk'[c]) \in Nat
  <2>1. appends + 1 \in Nat
    BY <1>2
  <2>2. QED
    BY <1>2, <1>8, <1>10, <2>1, DiskTypes
<1>15. Extends(disk, disk')
  <2>1. ASSUME NEW c \in ChunkId
        PROVE  Len(disk[c]) <= Len(disk'[c]) /\ \A p \in 1..Len(disk[c]) : disk'[c][p] = disk[c][p]
    <3>1. /\ Len(disk[c]) <= Len(closed[c]) /\ Len(closed[c]) <= Len(disk'[c])
          /\ \A p \in 1..Len(disk[c]) : closed[c][p] = disk[c][p]
          /\ \A p \in 1..Len(closed[c]) : disk'[c][p] = closed[c][p]
      BY <1>8, <1>10 DEF Extends
    <3>2. Len(disk[c]) \in Nat /\ Len(closed[c]) \in Nat /\ Len(disk'[c]) \in Nat
      BY <1>2, <1>14
    <3>3. 1..Len(disk[c]) \subseteq 1..Len(closed[c])
      BY <3>1, <3>2
    <3>4. QED
      BY <3>1, <3>2, <3>3
  <2>2. QED
    BY <2>1 DEF Extends
<1>16. \A c \in ChunkId : synced[c] <= synced'[c] /\ synced'[c] <= Len(disk'[c])
                          /\ (c # b => synced'[c] = Len(disk'[c]))
  <2>1. /\ synced \in [ChunkId -> Nat]
        /\ \A c \in ChunkId : /\ synced[c] <= Len(disk[c])
                              /\ c # h => synced[c] = Len(disk[c])
    BY DEF Data, SyncedRight, WriterHas, h
  <2>2. ASSUME NEW c \in ChunkId
        PROVE  /\ synced[c] <= synced'[c] /\ synced'[c] <= Len(disk'[c])
               /\ c # b => synced'[c] = Len(disk'[c])
    <3>1. CASE c = h
      <4>1. synced'[c] = Len(closed[c]) /\ disk'[c] = closed[c]
        BY <1>1, <1>2, <1>3, <1>5, <1>10, <2>1, <3>1
      <4>2. Len(disk[c]) <= Len(closed[c])
        BY <1>8 DEF Extends
      <4>3. QED
        BY <1>2, <1>14, <2>1, <4>1, <4>2
    <3>2. CASE c # h
      <4>1. synced'[c] = synced[c] /\ synced[c] = Len(disk[c])
        BY <1>1, <2>1, <3>2
      <4>2. Len(disk[c]) <= Len(disk'[c])
        BY <1>15 DEF Extends
      <4>3. c # b => disk'[c] = disk[c]
        BY <1>5, <1>8, <1>10, <3>2
      <4>4. QED
        BY <1>2, <1>14, <4>1, <4>2, <4>3
    <3>3. QED
      BY <3>1, <3>2
  <2>3. QED
    BY <2>2
<1>17. SyncedRight'
  <2>1. synced' \in [ChunkId -> Nat]
    BY <1>1, <1>14 DEF Data, SyncedRight
  <2>2. \A c \in ChunkId : ~WriterHas(c)' => c # b
    BY <1>5, <1>10 DEF WriterHas
  <2>3. QED
    BY <1>16, <2>1, <2>2 DEF SyncedRight
<1>18. Keeps
  BY <1>15, <1>16 DEF Keeps
<1>19. OnlyWriters
  BY <1>1, <1>5, <1>8, <1>10 DEF OnlyWriters, h
<1>20. writer'.id = mMaxChunkId + 1 /\ writer'.state = "open"
  BY <1>5, <1>10 DEF b
<1>21. QED
  BY <1>11, <1>12, <1>13, <1>17, <1>18, <1>19, <1>20 DEF Data

(* Flushing the writer's buffer moves its items to the disk. *)
LEMMA FlushedData ==
    ASSUME Data, NEW w, WriterNumbered(disk, w, appends), w.id = writer.id,
           Len(w.stream) < BlockIndexInterval, BufferedIn(w) = BufferedIn(writer),
           UNCHANGED <<appends, deaths, given>>,
           disk' = DiskFlushed(disk, w)
    PROVE  /\ Counted' /\ DiskNumbered(disk', appends') /\ Extends(disk, disk')
           /\ WriterNumbered(disk', WriterFlushed(w), appends')
           /\ WriterFlushed(w).stream = << >> /\ WriterFlushed(w).id = w.id
           /\ WriterFlushed(w).state = w.state
           /\ given' = StoredIn(disk')
           /\ \A c \in ChunkId : c # writer.id => disk'[c] = disk[c]
           /\ \A c \in ChunkId : Len(disk'[c]) \in Nat
<1>1. /\ appends \in Nat /\ DiskNumbered(disk, appends) /\ appends' = appends
  BY DataTypes
<1>2. /\ DiskNumbered(disk', appends) /\ WriterNumbered(disk', WriterFlushed(w), appends)
      /\ StoredIn(disk') = StoredIn(disk) \cup BufferedIn(w)
      /\ Extends(disk, disk') /\ \A c \in ChunkId : c # w.id => disk'[c] = disk[c]
      /\ WriterFlushed(w).stream = << >> /\ WriterFlushed(w).id = w.id
      /\ WriterFlushed(w).state = w.state
  BY <1>1, FlushProps
<1>3. given = StoredIn(disk) \cup BufferedIn(writer)
  BY StoreNames DEF Data, AckedHeld
<1>4. Counted'
  BY DEF Data, Counted
<1>5. \A c \in ChunkId : Len(disk'[c]) \in Nat
  BY <1>1, <1>2, DiskTypes
<1>6. QED
  BY <1>1, <1>2, <1>3, <1>4, <1>5

(* A step that leaves the data alone. *)
LEMMA DataUnchanged ==
    ASSUME Data, UNCHANGED <<disk, writer, synced, appends, deaths, given>>
    PROVE  Data' /\ Keeps /\ OnlyWriters /\ SameWriter
<1>1. Counted' /\ Numbered'
  BY DEF Data, Counted, Numbered
<1>2. AckedHeld'
  BY DEF Data, AckedHeld, Stored, ItemsIn, Buffered
<1>3. SyncedRight'
  BY DEF Data, SyncedRight, WriterHas
<1>4. Keeps
  <2>1. \A c \in ChunkId : Len(disk[c]) \in Nat /\ synced[c] \in Nat
    BY DataTypes
  <2>2. Extends(disk, disk')
    BY <2>1, ExtendsSelf
  <2>3. QED
    BY <2>1, <2>2 DEF Keeps
<1>5. OnlyWriters /\ SameWriter
  BY DEF OnlyWriters, SameWriter
<1>6. QED
  BY <1>1, <1>2, <1>3, <1>4, <1>5 DEF Data

LEMMA FlushData ==
    ASSUME Data, Flush
    PROVE  Data' /\ Keeps /\ OnlyWriters /\ SameWriter
<1>1. CASE writer.state = "none"
  <2>1. UNCHANGED <<disk, writer, synced, appends, deaths, given>>
    BY <1>1 DEF Flush, boundVars
  <2>2. QED
    BY <2>1, DataUnchanged
<1>2. CASE writer.state # "none"
  <2> DEFINE w == TurnedOn(writer)
  <2>1. /\ disk' = DiskFlushed(disk, w) /\ writer' = WriterFlushed(w)
        /\ UNCHANGED <<synced, appends, deaths, given>>
    BY <1>2 DEF Flush, boundVars
  <2>2. /\ appends \in Nat /\ DiskNumbered(disk, appends)
        /\ WriterNumbered(disk, writer, appends)
        /\ Len(writer.stream) < BlockIndexInterval
    BY DataTypes DEF Data, Numbered
  <2>3. /\ WriterNumbered(disk, w, appends) /\ w.state = "open" /\ w.id = writer.id
        /\ w.stream = writer.stream /\ BufferedIn(w) = BufferedIn(writer)
    BY <1>2, <2>2, TurnedOnProps
  <2> HIDE DEF w
  <2>4. /\ Counted' /\ DiskNumbered(disk', appends') /\ Extends(disk, disk')
        /\ WriterNumbered(disk', writer', appends')
        /\ writer'.stream = << >> /\ writer'.id = w.id /\ writer'.state = w.state
        /\ given' = StoredIn(disk')
        /\ \A c \in ChunkId : c # writer.id => disk'[c] = disk[c]
    BY <2>1, <2>2, <2>3, FlushedData
  <2>5. Numbered'
    BY <2>4, EmptySeq, AppendStoreAssumption DEF Numbered
  <2>6. AckedHeld'
    <3>1. BufferedIn(writer') = {}
      BY <2>4, NoStream
    <3>2. given' = StoredIn(disk') \cup BufferedIn(writer')
      BY <2>4, <3>1
    <3>3. QED
      BY <3>2 DEF AckedHeld, Stored, ItemsIn, Buffered, StoredIn, BufferedIn
  <2>7. SyncedRight' /\ Keeps
    <3>1. \A c \in ChunkId : c # writer'.id => disk'[c] = disk[c] /\ ~WriterHas(c)
      BY <2>3, <2>4 DEF WriterHas
    <3>2. appends' \in Nat
      BY <2>1, <2>2
    <3>3. QED
      BY <2>1, <2>3, <2>4, <3>1, <3>2, SyncedGrows
  <2>8. OnlyWriters /\ SameWriter
    BY <1>2, <2>3, <2>4 DEF OnlyWriters, SameWriter
  <2>9. QED
    BY <2>4, <2>5, <2>6, <2>7, <2>8 DEF Data
<1>3. QED
  BY <1>1, <1>2

(* Closing the writer's file, after what was in the buffer if that is flushed. *)
LEMMA TurnOnReadData ==
    ASSUME Data, NEW c \in ChunkId, TurnOnRead(c), UNCHANGED <<disk, appends, deaths, given>>
    PROVE  Data' /\ Keeps /\ OnlyWriters /\ SameWriter
<1>1. CASE WriterHas(c)
  <2>1. /\ writer' = [writer EXCEPT !.state = "closed"]
        /\ synced' = [synced EXCEPT ![c] = Len(disk[c])]
        /\ writer.state = "open" /\ writer.id = c
    BY <1>1 DEF TurnOnRead, WriterHas
  <2>2. /\ appends \in Nat /\ WriterNumbered(disk, writer, appends) /\ writer \in Writers
        /\ \A b \in ChunkId : Len(disk[b]) \in Nat /\ synced[b] \in Nat
    BY DataTypes DEF WriterNumbered
  <2>3. /\ writer' \in Writers /\ writer'.state = "closed" /\ writer'.id = writer.id
        /\ writer'.stream = writer.stream /\ writer'.mMaxIndex = writer.mMaxIndex
    BY <2>1, <2>2 DEF Writers
  <2>4. WriterNumbered(disk, writer', appends)
    BY <2>1, <2>2, <2>3 DEF WriterNumbered
  <2>5. Counted' /\ Numbered'
    BY <2>3, <2>4 DEF Data, Counted, Numbered
  <2>6. AckedHeld'
    <3>1. given = StoredIn(disk) \cup BufferedIn(writer)
      BY StoreNames DEF Data, AckedHeld
    <3>2. BufferedIn(writer') = BufferedIn(writer)
      BY <2>3 DEF BufferedIn
    <3>3. given' = StoredIn(disk') \cup BufferedIn(writer')
      BY <3>1, <3>2
    <3>4. QED
      BY <3>3 DEF AckedHeld, Stored, ItemsIn, Buffered, StoredIn, BufferedIn
  <2>7. /\ synced' \in [ChunkId -> Nat]
        /\ \A b \in ChunkId : synced[b] <= synced'[b] /\ synced'[b] = Len(disk[b])
    <3>1. /\ synced \in [ChunkId -> Nat]
          /\ \A b \in ChunkId : synced[b] <= Len(disk[b]) /\ (b # c => synced[b] = Len(disk[b]))
      BY <2>1 DEF Data, SyncedRight, WriterHas
    <3>2. QED
      BY <2>1, <2>2, <3>1
  <2>8. SyncedRight'
    BY <2>2, <2>7 DEF SyncedRight
  <2>9. Keeps
    <3>1. Extends(disk, disk')
      BY <2>2, ExtendsSelf
    <3>2. QED
      BY <2>7, <3>1 DEF Keeps
  <2>10. OnlyWriters /\ SameWriter
    BY <2>1, <2>3 DEF OnlyWriters, SameWriter
  <2>11. QED
    BY <2>5, <2>6, <2>8, <2>9, <2>10 DEF Data
<1>2. CASE ~WriterHas(c)
  <2>1. UNCHANGED <<writer, synced>>
    BY <1>2 DEF TurnOnRead
  <2>2. QED
    BY <2>1, DataUnchanged
<1>3. QED
  BY <1>1, <1>2

(* Closing the writer: all of its items are on disk for good. *)
LEMMA CloseData ==
    ASSUME Data, SessionRight, Close
    PROVE  Data' /\ Keeps /\ OnlyWriters /\ SameWriter /\ kept' \subseteq Durable'
<1>1. UNCHANGED <<appends, deaths, given>> /\ kept' = given
  BY DEF Close, boundVars
<1>2. /\ appends \in Nat /\ DiskNumbered(disk, appends)
      /\ WriterNumbered(disk, writer, appends) /\ writer.id \in ChunkId
      /\ Len(writer.stream) < BlockIndexInterval
      /\ \A c \in ChunkId : Len(disk[c]) \in Nat /\ synced[c] \in Nat
  BY DataTypes DEF Data, Numbered
<1>3. /\ synced \in [ChunkId -> Nat]
      /\ \A c \in ChunkId : synced[c] <= Len(disk[c]) /\ (~WriterHas(c) => synced[c] = Len(disk[c]))
  BY DEF Data, SyncedRight
<1>4. CASE writer.state = "none"
  <2>1. UNCHANGED <<disk, writer, synced>>
    BY <1>4 DEF Close
  <2>2. Data' /\ Keeps /\ OnlyWriters /\ SameWriter
    BY <1>1, <2>1, DataUnchanged
  <2>3. kept' \subseteq Durable'
    <3>1. BufferedIn(writer) = {}
      BY <1>2, <1>4, NoStream DEF WriterNumbered
    <3>2. given = StoredIn(disk)
      BY <3>1, StoreNames DEF Data, AckedHeld
    <3>3. DurableIn(disk, synced) = StoredIn(disk)
      BY <1>3, <1>4, AllDurable DEF WriterHas
    <3>4. kept' = DurableIn(disk', synced')
      BY <1>1, <2>1, <3>2, <3>3
    <3>5. QED
      BY <3>4 DEF Durable, ItemsIn, DurableIn
  <2>4. QED
    BY <2>2, <2>3
<1>5. CASE writer.state # "none"
  <2> DEFINE w == TurnedOn(writer)
             u == WriterFlushed(w)
  <2>1. /\ disk' = DiskFlushed(disk, w) /\ writer' = [u EXCEPT !.state = "closed"]
        /\ synced' = [synced EXCEPT ![writer.id] = Len(DiskFlushed(disk, w)[writer.id])]
    BY <1>5 DEF Close, CloseWriter, SessionRight
  <2>2. /\ WriterNumbered(disk, w, appends) /\ w.state = "open" /\ w.id = writer.id
        /\ w.stream = writer.stream /\ BufferedIn(w) = BufferedIn(writer)
    BY <1>2, <1>5, TurnedOnProps
  <2> HIDE DEF w
  <2>3. /\ Counted' /\ DiskNumbered(disk', appends') /\ Extends(disk, disk')
        /\ WriterNumbered(disk', u, appends')
        /\ u.stream = << >> /\ u.id = w.id /\ u.state = w.state
        /\ given' = StoredIn(disk')
        /\ \A c \in ChunkId : c # writer.id => disk'[c] = disk[c]
        /\ \A c \in ChunkId : Len(disk'[c]) \in Nat
    BY <1>1, <1>2, <2>1, <2>2, FlushedData
  <2> HIDE DEF u
  <2>4. /\ writer' \in Writers /\ writer'.state = "closed" /\ writer'.id = u.id
        /\ writer'.stream = u.stream /\ writer'.mMaxIndex = u.mMaxIndex
    <3>1. u \in Writers
      BY <2>3 DEF WriterNumbered
    <3>2. QED
      BY <2>1, <3>1 DEF Writers
  <2>5. Numbered'
    <3>1. WriterNumbered(disk', writer', appends')
      BY <2>2, <2>3, <2>4 DEF WriterNumbered
    <3>2. Len(writer'.stream) < BlockIndexInterval
      BY <2>3, <2>4, EmptySeq, AppendStoreAssumption
    <3>3. QED
      BY <2>3, <3>1, <3>2 DEF Numbered
  <2>6. AckedHeld'
    <3>1. BufferedIn(writer') = {}
      BY <2>3, <2>4, NoStream
    <3>2. given' = StoredIn(disk') \cup BufferedIn(writer')
      BY <2>3, <3>1
    <3>3. QED
      BY <3>2 DEF AckedHeld, Stored, ItemsIn, Buffered, StoredIn, BufferedIn
  <2>7. synced' \in [ChunkId -> Nat] /\ \A c \in ChunkId : synced'[c] = Len(disk'[c])
    <3>1. \A c \in ChunkId : c # writer.id => synced[c] = Len(disk[c])
      BY <1>3 DEF WriterHas
    <3>2. \A c \in ChunkId : c # writer.id => synced'[c] = Len(disk'[c])
      BY <1>3, <2>1, <2>3, <3>1
    <3>3. synced'[writer.id] = Len(disk'[writer.id])
      BY <1>2, <1>3, <2>1
    <3>4. synced' \in [ChunkId -> Nat]
      BY <1>2, <1>3, <2>1, <2>3
    <3>5. QED
      BY <3>2, <3>3, <3>4
  <2>8. SyncedRight'
    BY <2>3, <2>7 DEF SyncedRight
  <2>9. Keeps
    <3>1. \A c \in ChunkId : Len(disk[c]) <= Len(disk'[c])
      BY <2>3 DEF Extends
    <3>2. \A c \in ChunkId : synced[c] <= synced'[c]
      BY <1>2, <1>3, <2>3, <2>7, <3>1
    <3>3. QED
      BY <2>3, <3>2 DEF Keeps
  <2>10. kept' \subseteq Durable'
    <3>1. DurableIn(disk', synced') = StoredIn(disk')
      BY <2>7, AllDurable
    <3>2. kept' = DurableIn(disk', synced')
      BY <1>1, <2>3, <3>1
    <3>3. QED
      BY <3>2 DEF Durable, ItemsIn, DurableIn
  <2>11. OnlyWriters /\ SameWriter
    BY <1>5, <2>2, <2>3, <2>4 DEF OnlyWriters, SameWriter
  <2>12. QED
    BY <2>3, <2>5, <2>6, <2>8, <2>9, <2>10, <2>11 DEF Data
<1>6. QED
  BY <1>4, <1>5

(* Destroying the objects, after their destructors flushed the buffer. *)
LEMMA DropData ==
    ASSUME Data, Drop
    PROVE  Data' /\ Keeps /\ OnlyWriters /\ kept' \subseteq Durable'
<1>1. /\ disk' = DiskFlushed(disk, writer)
      /\ synced' = [c \in ChunkId |-> Len(disk'[c])] /\ writer' = NoWriter
      /\ UNCHANGED <<appends, deaths, given>> /\ kept' = given
  BY DEF Drop, Gone, boundVars
<1>2. /\ appends \in Nat /\ WriterNumbered(disk, writer, appends)
      /\ Len(writer.stream) < BlockIndexInterval
      /\ \A c \in ChunkId : Len(disk[c]) \in Nat /\ synced[c] \in Nat
  BY DataTypes DEF Data, Numbered
<1>3. /\ Counted' /\ DiskNumbered(disk', appends') /\ Extends(disk, disk')
      /\ given' = StoredIn(disk')
      /\ \A c \in ChunkId : Len(disk'[c]) \in Nat
      /\ \A c \in ChunkId : c # writer.id => disk'[c] = disk[c]
  BY <1>1, <1>2, FlushedData
<1>4. Numbered'
  BY <1>1, <1>2, <1>3, NoWriterNumbered DEF Numbered
<1>5. AckedHeld'
  <2>1. BufferedIn(writer') = {}
    BY <1>1, NoWriterNumbered
  <2>2. given' = StoredIn(disk') \cup BufferedIn(writer')
    BY <1>3, <2>1
  <2>3. QED
    BY <2>2 DEF AckedHeld, Stored, ItemsIn, Buffered, StoredIn, BufferedIn
<1>6. synced' \in [ChunkId -> Nat] /\ \A c \in ChunkId : synced'[c] = Len(disk'[c])
  BY <1>1, <1>3
<1>7. SyncedRight'
  BY <1>3, <1>6 DEF SyncedRight
<1>8. Keeps
  <2>1. \A c \in ChunkId : Len(disk[c]) <= Len(disk'[c]) /\ synced[c] <= Len(disk[c])
    BY <1>3 DEF Extends, Data, SyncedRight
  <2>2. \A c \in ChunkId : synced[c] <= synced'[c]
    BY <1>2, <1>3, <1>6, <2>1
  <2>3. QED
    BY <1>3, <2>2 DEF Keeps
<1>9. kept' \subseteq Durable'
  <2>1. DurableIn(disk', synced') = StoredIn(disk')
    BY <1>6, AllDurable
  <2>2. kept' = DurableIn(disk', synced')
    BY <1>1, <1>3, <2>1
  <2>3. QED
    BY <2>2 DEF Durable, ItemsIn, DurableIn
<1>10. OnlyWriters
  <2>1. CASE writer.state = "none"
    <3>1. disk' = disk
      BY <1>1, <1>2, <2>1 DEF DiskFlushed, WriterNumbered
    <3>2. QED
      BY <3>1 DEF OnlyWriters
  <2>2. CASE writer.state # "none"
    BY <1>3, <2>2 DEF OnlyWriters
  <2>3. QED
    BY <2>1, <2>2
<1>11. QED
  BY <1>3, <1>4, <1>5, <1>7, <1>8, <1>9, <1>10 DEF Data

(* The process dies: what was synced is still there, and what is given is durable. *)
LEMMA DieData ==
    ASSUME Data, Die
    PROVE  /\ Data' /\ Durable \subseteq Durable' /\ given' \subseteq Durable'
           /\ given' \subseteq given
           /\ \A c \in ChunkId : disk'[c] # << >> => disk[c] # << >>
<1> DEFINE h == writer.id
<1>1. PICK n \in synced[h]..Len(disk[h]) :
          /\ disk' = [disk EXCEPT ![h] = SubSeq(@, 1, n)]
          /\ synced' = [synced EXCEPT ![h] = n]
  BY DEF Die
<1>2. /\ given' = StoredIn(disk') /\ writer' = NoWriter
      /\ deaths < MaxDeaths /\ deaths' = deaths + 1 /\ appends' = appends
  BY DEF Die, Gone, StoredIn
<1>3. /\ appends \in Nat /\ DiskNumbered(disk, appends) /\ h \in ChunkId
      /\ \A c \in ChunkId : Len(disk[c]) \in Nat /\ synced[c] \in Nat
      /\ disk \in [ChunkId -> Seq(Blocks)] /\ synced \in [ChunkId -> Nat]
      /\ \A c \in ChunkId : synced[c] <= Len(disk[c]) /\ (c # h => synced[c] = Len(disk[c]))
  BY DataTypes DEF DiskNumbered, Data, SyncedRight, WriterHas
<1> HIDE DEF h
<1>4. n \in Nat /\ synced[h] <= n /\ n <= Len(disk[h])
  BY <1>1, <1>3
<1>5. /\ SubSeq(disk[h], 1, n) \in Seq(Blocks) /\ Len(SubSeq(disk[h], 1, n)) = n
      /\ \A p \in 1..n : SubSeq(disk[h], 1, n)[p] = disk[h][p]
  <2>1. disk[h] \in Seq(Blocks)
    BY <1>3
  <2>2. QED
    BY <1>3, <1>4, <2>1, PrefixProps
<1>6. /\ disk' \in [ChunkId -> Seq(Blocks)]
      /\ \A c \in ChunkId : c # h => disk'[c] = disk[c] /\ synced'[c] = synced[c]
      /\ Len(disk'[h]) = n /\ synced'[h] = n /\ \A p \in 1..n : disk'[h][p] = disk[h][p]
      /\ synced' \in [ChunkId -> Nat]
  BY <1>1, <1>3, <1>4, <1>5
<1>7. /\ Extends(disk', disk)
      /\ \A c \in ChunkId : synced'[c] = Len(disk'[c]) /\ synced[c] <= synced'[c]
  <2>1. ASSUME NEW c \in ChunkId
        PROVE  /\ Len(disk'[c]) <= Len(disk[c])
               /\ \A p \in 1..Len(disk'[c]) : disk[c][p] = disk'[c][p]
               /\ synced'[c] = Len(disk'[c]) /\ synced[c] <= synced'[c]
    <3>1. CASE c = h
      BY <1>4, <1>6, <3>1
    <3>2. CASE c # h
      BY <1>3, <1>6, <3>2
    <3>3. QED
      BY <3>1, <3>2
  <2>2. QED
    BY <2>1 DEF Extends
<1>8. \A c \in ChunkId : Len(disk'[c]) \in Nat
  BY <1>6, LenProperties
<1>9. DiskNumbered(disk', appends)
  <2>1. ASSUME NEW c \in ChunkId, NEW p \in 1..Len(disk'[c])
        PROVE  /\ Len(disk'[c][p].vals) <= disk'[c][p].mIndex /\ disk'[c][p].mIndex <= appends
               /\ \A q \in 1..Len(disk'[c]) : p < q => BlockAbove(disk'[c][p], disk'[c][q])
    <3>1. /\ 1..Len(disk'[c]) \subseteq 1..Len(disk[c])
          /\ \A q \in 1..Len(disk'[c]) : disk'[c][q] = disk[c][q]
      BY <1>3, <1>7, <1>8 DEF Extends
    <3>2. /\ Len(disk[c][p].vals) <= disk[c][p].mIndex /\ disk[c][p].mIndex <= appends
          /\ \A q \in 1..Len(disk[c]) : p < q => BlockAbove(disk[c][p], disk[c][q])
      BY <1>3, <3>1 DEF DiskNumbered
    <3>3. QED
      BY <3>1, <3>2
  <2>2. QED
    BY <1>6, <2>1 DEF DiskNumbered
<1>10. Counted'
  BY <1>2, AppendStoreAssumption DEF Data, Counted
<1>11. Numbered'
  BY <1>2, <1>3, <1>9, NoWriterNumbered DEF Numbered
<1>12. AckedHeld'
  <2>1. BufferedIn(writer') = {}
    BY <1>2, NoWriterNumbered
  <2>2. given' = StoredIn(disk') \cup BufferedIn(writer')
    BY <1>2, <2>1
  <2>3. QED
    BY <2>2 DEF AckedHeld, Stored, ItemsIn, Buffered, StoredIn, BufferedIn
<1>13. SyncedRight'
  BY <1>6, <1>7, <1>8 DEF SyncedRight
<1>14. Durable' = StoredIn(disk')
  <2>1. DurableIn(disk', synced') = StoredIn(disk')
    BY <1>7, AllDurable
  <2>2. QED
    BY <2>1 DEF Durable, ItemsIn, DurableIn
<1>15. Durable \subseteq Durable'
  <2>1. ASSUME NEW x \in DurableIn(disk, synced) PROVE x \in StoredIn(disk')
    <3>1. PICK c \in ChunkId : \E p \in 1..synced[c] : x \in ItemsOf(c, disk[c][p])
      BY <2>1, DurableDef
    <3>2. PICK p \in 1..synced[c] : x \in ItemsOf(c, disk[c][p])
      BY <3>1
    <3>3. p \in 1..Len(disk'[c])
      BY <1>3, <1>7, <1>8, <3>2
    <3>4. disk'[c][p] = disk[c][p]
      BY <1>7, <3>3 DEF Extends
    <3>5. QED
      BY <3>2, <3>3, <3>4, StoredDef
  <2>2. QED
    BY <1>14, <2>1, StoreNames
<1>16. given' \subseteq given
  <2>1. StoredIn(disk') \subseteq StoredIn(disk)
    BY <1>3, <1>7, <1>8, ExtendsStored
  <2>2. StoredIn(disk) \subseteq given
    BY StoreNames DEF Data, AckedHeld
  <2>3. QED
    BY <1>2, <2>1, <2>2
<1>17. ASSUME NEW c \in ChunkId, disk'[c] # << >> PROVE disk[c] # << >>
  <2>1. CASE c # h
    BY <1>6, <1>17, <2>1
  <2>2. CASE c = h /\ disk[c] = << >>
    <3>1. Len(disk[h]) = 0
      BY <2>2, EmptySeq
    <3>2. Len(disk'[h]) = 0 /\ disk'[h] \in Seq(Blocks)
      BY <1>3, <1>4, <1>6, <3>1
    <3>3. disk'[h] = << >>
      BY <3>2, EmptySeq
    <3>4. QED
      BY <1>17, <2>2, <3>3
  <2>3. QED
    BY <2>1, <2>2
<1>18. QED
  BY <1>2, <1>10, <1>11, <1>12, <1>13, <1>14, <1>15, <1>16, <1>17 DEF Data

-----------------------------------------------------------------------------
(* The session: the ids of the chunks, and what an open store knows of them. *)

MaxIn(S) == IF S = {} THEN 0 ELSE CHOOSE c \in S : \A b \in S : b <= c

HasMax(S) == S = {} \/ \E c \in S : \A b \in S : b <= c

LEMMA MaxNames ==
    GetMaxChunkID = MaxIn(exists) /\ GetMaxChunkID' = MaxIn(exists')
BY DEF GetMaxChunkID, MaxIn

LEMMA MaxProps ==
    ASSUME NEW S, S \subseteq ChunkId, HasMax(S)
    PROVE  /\ MaxIn(S) \in ChunkId /\ \A b \in S : b <= MaxIn(S)
           /\ S # {} => MaxIn(S) \in S
<1>1. CASE S = {}
  <2>1. MaxIn(S) = 0 /\ 0 \in ChunkId
    BY <1>1, AppendStoreAssumption DEF MaxIn, ChunkId
  <2>2. QED
    BY <1>1, <2>1
<1>2. CASE S # {}
  <2>1. MaxIn(S) \in S /\ \A b \in S : b <= MaxIn(S)
    BY <1>2 DEF MaxIn, HasMax
  <2>2. QED
    BY <2>1
<1>3. QED
  BY <1>1, <1>2

LEMMA MaxIs ==
    ASSUME NEW S, S \subseteq ChunkId, NEW m \in S, \A b \in S : b <= m
    PROVE  HasMax(S) /\ MaxIn(S) = m
<1>1. HasMax(S)
  BY DEF HasMax
<1>2. MaxIn(S) \in S /\ m <= MaxIn(S) /\ MaxIn(S) <= m
  <2>1. S # {}
    OBVIOUS
  <2>2. MaxIn(S) \in S /\ \A b \in S : b <= MaxIn(S)
    BY <1>1, <2>1, MaxProps
  <2>3. QED
    BY <2>2
<1>3. MaxIn(S) \in Int /\ m \in Int
  <2>1. MaxIn(S) \in ChunkId /\ m \in ChunkId
    BY <1>2
  <2>2. QED
    BY <2>1, AppendStoreAssumption DEF ChunkId
<1>4. QED
  BY <1>1, <1>2, <1>3

(* What SessionRight says of the chunks that exist. *)
LEMMA SessionMax ==
    ASSUME SessionRight
    PROVE  /\ exists \subseteq ChunkId /\ HasMax(exists)
           /\ GetMaxChunkID \in ChunkId /\ \A b \in exists : b <= GetMaxChunkID
           /\ exists # {} => GetMaxChunkID \in exists
<1>1. exists \subseteq ChunkId /\ HasMax(exists)
  BY DEF SessionRight, HasMax
<1>2. QED
  BY <1>1, MaxNames, MaxProps

(* A store that makes files of a chunk that is not above the last one. *)
LEMMA MaxKept ==
    ASSUME SessionRight, NEW c \in ChunkId, c <= GetMaxChunkID, exists' = exists \cup {c}
    PROVE  /\ exists' \subseteq ChunkId /\ HasMax(exists')
           /\ GetMaxChunkID' = GetMaxChunkID
<1>1. /\ exists \subseteq ChunkId /\ GetMaxChunkID \in ChunkId
      /\ \A b \in exists : b <= GetMaxChunkID
      /\ exists # {} => GetMaxChunkID \in exists
  BY SessionMax
<1>2. GetMaxChunkID \in exists' /\ \A b \in exists' : b <= GetMaxChunkID
  <2>1. CASE exists = {}
    <3>1. GetMaxChunkID = 0
      BY <2>1 DEF GetMaxChunkID
    <3>2. c = 0
      BY <3>1 DEF ChunkId
    <3>3. QED
      BY <2>1, <3>1, <3>2
  <2>2. CASE exists # {}
    BY <1>1, <2>2
  <2>3. QED
    BY <2>1, <2>2
<1>3. exists' \subseteq ChunkId
  BY <1>1
<1>4. QED
  BY <1>2, <1>3, MaxIs, MaxNames

LEMMA FilesExist ==
    ASSUME SessionRight, OnlyWriters, exists \subseteq exists',
           writer'.state # "none" => writer'.id \in exists'
    PROVE  \A c \in ChunkId : disk'[c] # << >> => c \in exists'
BY DEF SessionRight, OnlyWriters

LEMMA SessionUnchanged ==
    ASSUME SessionRight, OnlyWriters, SameWriter,
           UNCHANGED <<exists, store, mMaxChunkId, mAppendChunkId>>, store # "none",
           deleter' \in [ChunkId -> {"none", "open", "closed"}]
    PROVE  SessionRight'
<1>1. \A c \in ChunkId : disk'[c] # << >> => c \in exists'
  <2>1. writer'.state # "none" => writer'.id \in exists'
    BY DEF SessionRight, SameWriter
  <2>2. QED
    BY <2>1, FilesExist
<1>2. GetMaxChunkID' = GetMaxChunkID
  BY DEF GetMaxChunkID
<1>3. QED
  BY <1>1, <1>2 DEF SessionRight, SameWriter

(* A new writer or a new reader of a chunk that is not above the last one. *)
LEMMA SessionAdds ==
    ASSUME SessionRight, OnlyWriters, NEW c \in ChunkId, c <= mMaxChunkId,
           exists' = exists \cup {c},
           UNCHANGED <<store, mMaxChunkId, mAppendChunkId, deleter>>, store # "none",
           SameWriter \/ (store = "append" /\ writer'.id = mAppendChunkId /\ c = mAppendChunkId)
    PROVE  SessionRight'
<1>1. mMaxChunkId = GetMaxChunkID
  BY DEF SessionRight
<1>2. exists' \subseteq ChunkId /\ HasMax(exists') /\ GetMaxChunkID' = GetMaxChunkID
  BY <1>1, MaxKept
<1>3. writer'.state # "none" => store = "append" /\ writer'.id = mAppendChunkId /\ writer'.id \in exists'
  BY DEF SessionRight, SameWriter
<1>4. \A b \in ChunkId : disk'[b] # << >> => b \in exists'
  BY <1>3, FilesExist
<1>5. QED
  BY <1>1, <1>2, <1>3, <1>4 DEF SessionRight, HasMax

(* A writer of the next chunk. *)
LEMMA SessionNext ==
    ASSUME SessionRight, OnlyWriters, store = "append", mMaxChunkId < MaxChunk,
           exists' = exists \cup {mMaxChunkId + 1}, mMaxChunkId' = mMaxChunkId + 1,
           mAppendChunkId' = mMaxChunkId + 1, writer'.id = mMaxChunkId + 1,
           UNCHANGED <<store, deleter>>
    PROVE  SessionRight'
<1> DEFINE b == mMaxChunkId + 1
<1>1. mMaxChunkId = GetMaxChunkID /\ mMaxChunkId \in ChunkId
  BY DEF SessionRight
<1>2. b \in ChunkId /\ b > mMaxChunkId
  BY <1>1, AppendStoreAssumption DEF ChunkId
<1>3. exists' \subseteq ChunkId /\ b \in exists' /\ \A c \in exists' : c <= b
  <2>1. exists \subseteq ChunkId /\ \A c \in exists : c <= mMaxChunkId
    BY <1>1, SessionMax
  <2>2. \A c \in exists : c <= b
    BY <1>1, <1>2, <2>1 DEF ChunkId
  <2>3. QED
    BY <1>2, <2>1, <2>2
<1>4. HasMax(exists') /\ GetMaxChunkID' = b
  BY <1>3, MaxIs, MaxNames
<1>5. \A c \in ChunkId : disk'[c] # << >> => c \in exists'
  BY FilesExist
<1>6. QED
  BY <1>2, <1>3, <1>4, <1>5 DEF SessionRight, HasMax

LEMMA OpenSession ==
    ASSUME SessionRight, NEW mode \in {"append", "read"}, Open(mode)
    PROVE  SessionRight'
<1>1. /\ store = "none" /\ store' = mode /\ mMaxChunkId' = GetMaxChunkID
      /\ mAppendChunkId' = (IF mode = "append" THEN GetMaxChunkID ELSE 0)
      /\ UNCHANGED <<exists, disk, writer, deleter>>
  BY DEF Open, diskVars
<1>2. GetMaxChunkID \in ChunkId /\ GetMaxChunkID' = GetMaxChunkID /\ 0 \in ChunkId
  BY <1>1, SessionMax, AppendStoreAssumption DEF GetMaxChunkID, ChunkId
<1>3. writer'.state = "none"
  BY <1>1 DEF SessionRight
<1>4. QED
  BY <1>1, <1>2, <1>3 DEF SessionRight

(* The objects are gone, and no chunk has data that had none. *)
LEMMA GoneSession ==
    ASSUME SessionRight, Gone, UNCHANGED exists,
           \A c \in ChunkId : disk'[c] # << >> => c \in exists
    PROVE  SessionRight'
<1>1. /\ store' = "none" /\ mMaxChunkId' = 0 /\ mAppendChunkId' = 0 /\ writer'.state = "none"
      /\ mChunkMap' = {} /\ current' = NoChunk /\ mCache' = {} /\ answer' = NoAnswer
      /\ deleter' = [c \in ChunkId |-> "none"]
  BY DEF Gone, NoWriter
<1>2. 0 \in ChunkId
  BY AppendStoreAssumption DEF ChunkId
<1>3. QED
  BY <1>1, <1>2 DEF SessionRight

-----------------------------------------------------------------------------
(* The readers: what they loaded, what they promise and what they answer. *)

LoadedIn(d, c, n) == UNION {ItemsOf(c, d[c][p]) : p \in 1..n}

LEMMA LoadedDef ==
    ASSUME NEW d, NEW c, NEW n, NEW x
    PROVE  x \in LoadedIn(d, c, n) <=> \E p \in 1..n : x \in ItemsOf(c, d[c][p])
BY DEF LoadedIn

(* A reader's items stay where they are on a disk that extends the one it loaded. *)
LEMMA LoadedKept ==
    ASSUME NEW d, NEW e, Extends(d, e), NEW c \in ChunkId, Len(d[c]) \in Nat,
           NEW n \in Nat, n <= Len(d[c])
    PROVE  LoadedIn(d, c, n) = LoadedIn(e, c, n)
<1>1. \A p \in 1..n : d[c][p] = e[c][p]
  BY DEF Extends
<1>2. QED
  BY <1>1 DEF LoadedIn

(* What a chunk holds for good, a reader that loads at least that much has. *)
LEMMA DurableLoaded ==
    ASSUME NEW d, NEW s, NEW x \in DurableIn(d, s), NEW n \in Nat,
           s[x.chunk] \in Nat, s[x.chunk] <= n
    PROVE  x.chunk \in ChunkId /\ x \in LoadedIn(d, x.chunk, n)
<1>1. PICK c \in ChunkId : \E p \in 1..s[c] : x \in ItemsOf(c, d[c][p])
  BY DurableDef
<1>2. PICK p \in 1..s[c] : x \in ItemsOf(c, d[c][p])
  BY <1>1
<1>3. x.chunk = c
  BY <1>2, ItemsOfChunk
<1>4. p \in 1..n
  BY <1>2, <1>3
<1>5. QED
  BY <1>2, <1>3, <1>4, LoadedDef

LEMMA LoadedStored ==
    ASSUME NEW d, NEW c \in ChunkId, Len(d[c]) \in Nat, NEW n \in Nat, n <= Len(d[c])
    PROVE  LoadedIn(d, c, n) \subseteq StoredIn(d)
<1> SUFFICES ASSUME NEW x \in LoadedIn(d, c, n) PROVE x \in StoredIn(d)
  OBVIOUS
<1>1. PICK p \in 1..n : x \in ItemsOf(c, d[c][p])
  BY LoadedDef
<1>2. p \in 1..Len(d[c])
  OBVIOUS
<1>3. QED
  BY <1>1, <1>2, StoredDef

(* The chunks, numbers and values of what is stored. *)
LEMMA StoredTypes ==
    ASSUME NEW d, NEW top \in Nat, DiskNumbered(d, top), NEW x \in StoredIn(d)
    PROVE  /\ x.chunk \in ChunkId /\ x.index \in Nat /\ 1 <= x.index /\ x.index <= top
           /\ x.val \in Value /\ d[x.chunk] # << >>
<1>1. PICK c \in ChunkId : \E p \in 1..Len(d[c]) : x \in ItemsOf(c, d[c][p])
  BY StoredDef
<1>2. PICK p \in 1..Len(d[c]) : x \in ItemsOf(c, d[c][p])
  BY <1>1
<1>3. /\ d[c][p] \in Blocks /\ d[c][p].mIndex \in Nat /\ Len(d[c][p].vals) \in Nat
      /\ Len(d[c]) \in Nat
  BY DiskTypes
<1>4. /\ x.index \in Int /\ x.index > d[c][p].mIndex - Len(d[c][p].vals)
      /\ x.index <= d[c][p].mIndex /\ x.val \in Value
  BY <1>2, <1>3, ItemsOfIndex
<1>5. Len(d[c][p].vals) <= d[c][p].mIndex /\ d[c][p].mIndex <= top
  BY DEF DiskNumbered
<1>6. x.chunk = c
  BY <1>2, ItemsOfChunk
<1>7. d[c] # << >>
  BY <1>2, <1>3, EmptySeq
<1>8. x.index \in Nat /\ 1 <= x.index /\ x.index <= top
  BY <1>3, <1>4, <1>5
<1>9. QED
  BY <1>4, <1>6, <1>7, <1>8

LEMMA DurableKept ==
    ASSUME Data, Data', Keeps
    PROVE  Durable \subseteq Durable'
<1>1. \A c \in ChunkId : /\ Len(disk[c]) \in Nat /\ synced[c] \in Nat
                         /\ synced[c] <= Len(disk[c])
  BY DataTypes DEF Data, SyncedRight
<1>2. \A c \in ChunkId : synced'[c] \in Nat
  BY DEF Data, SyncedRight
<1>3. DurableIn(disk, synced) \subseteq DurableIn(disk', synced')
  BY <1>1, <1>2, ExtendsDurable DEF Keeps
<1>4. QED
  BY <1>3 DEF Durable, ItemsIn, DurableIn

(* What is promised is held, in a chunk that has files. *)
LEMMA PromisedTypes ==
    ASSUME Data, PromiseRight, NEW x \in promised
    PROVE  /\ x \in DurableIn(disk, synced) /\ x \in given
           /\ x.chunk \in ChunkId /\ 1 <= x.index /\ x.index \in Nat /\ disk[x.chunk] # << >>
<1>1. x \in DurableIn(disk, synced)
  BY StoreNames DEF PromiseRight
<1>2. /\ appends \in Nat /\ DiskNumbered(disk, appends)
      /\ \A c \in ChunkId : Len(disk[c]) \in Nat /\ synced[c] \in Nat /\ synced[c] <= Len(disk[c])
  BY DataTypes DEF Data, SyncedRight
<1>3. x \in StoredIn(disk)
  BY <1>1, <1>2, DurableStored
<1>4. x \in given
  BY <1>3, StoreNames DEF Data, AckedHeld
<1>5. QED
  BY <1>1, <1>2, <1>3, <1>4, StoredTypes

(* No reader appears, and those that stay have what they loaded. *)
FewerReaders ==
    \A c \in ChunkId : reader'[c].state # "none" =>
        reader[c].state # "none" /\ reader'[c].loaded = reader[c].loaded

LEMMA PromiseKept ==
    ASSUME Data, Data', Keeps, ReadersRight, PromiseRight, FewerReaders, UNCHANGED promised
    PROVE  PromiseRight'
<1>1. promised' \subseteq Durable'
  BY DurableKept DEF PromiseRight
<1>2. ASSUME NEW x \in promised', reader'[x.chunk].state # "none"
      PROVE  x \in ItemsIn(x.chunk, reader[x.chunk].loaded)'
  <2> DEFINE c == x.chunk
             n == reader[c].loaded
  <2>1. x \in promised /\ c \in ChunkId
    BY PromisedTypes
  <2>2. reader[c].state # "none" /\ reader'[c].loaded = n
    BY <1>2, <2>1 DEF FewerReaders
  <2>3. x \in LoadedIn(disk, c, n)
    BY <2>1, <2>2 DEF PromiseRight, ItemsIn, LoadedIn
  <2>4. n \in Nat /\ n <= Len(disk[c]) /\ Len(disk[c]) \in Nat
    BY <2>1, DataTypes DEF ReadersRight, Readers
  <2>5. LoadedIn(disk, c, n) = LoadedIn(disk', c, n)
    BY <2>1, <2>4, LoadedKept DEF Keeps
  <2>6. QED
    BY <2>2, <2>3, <2>5 DEF ItemsIn, LoadedIn
<1>3. QED
  BY <1>1, <1>2 DEF PromiseRight

(* The readers of the same chunks. *)
SameReaders ==
    /\ reader' \in [ChunkId -> Readers]
    /\ UNCHANGED <<mChunkMap, current>>
    /\ \A c \in ChunkId : /\ reader'[c].loaded = reader[c].loaded
                          /\ reader'[c].state = "none" <=> reader[c].state = "none"

LEMMA ReadersKept ==
    ASSUME Data, Data', Keeps, ReadersRight, SameReaders
    PROVE  ReadersRight'
<1>1. \A c \in ChunkId : Len(disk[c]) \in Nat /\ Len(disk'[c]) \in Nat
  <2>1. appends' \in Nat /\ DiskNumbered(disk', appends')
    BY AppendStoreAssumption DEF Data, Counted, Numbered
  <2>2. QED
    BY <2>1, DataTypes, DiskTypes
<1>2. ASSUME NEW c \in ChunkId PROVE reader'[c].loaded <= Len(disk'[c])
  <2>1. /\ reader[c].loaded \in Nat /\ reader[c].loaded <= Len(disk[c])
        /\ Len(disk[c]) <= Len(disk'[c]) /\ reader'[c].loaded = reader[c].loaded
    BY DEF ReadersRight, Readers, Keeps, Extends, SameReaders
  <2>2. QED
    BY <1>1, <2>1
<1>3. QED
  BY <1>2 DEF ReadersRight, SameReaders

(* A step that leaves the readers and the client alone. *)
LEMMA ClientUnchanged ==
    ASSUME IInv, Data', Keeps, SessionRight', SameReaders, given \subseteq given',
           UNCHANGED <<mCache, answer, promised>>, kept' = kept \/ kept' \subseteq Durable'
    PROVE  IInv'
<1>1. Data /\ ReadersRight /\ PromiseRight
  BY DEF IInv, Data
<1>2. ReadersRight'
  BY <1>1, ReadersKept
<1>3. PromiseRight'
  <2>1. FewerReaders
    BY DEF SameReaders, FewerReaders
  <2>2. QED
    BY <1>1, <2>1, PromiseKept
<1>4. ClosedSurvives'
  BY <1>1, DurableKept DEF IInv, ClosedSurvives
<1>5. AnswerRight'
  BY DEF IInv, AnswerRight
<1>6. RefreshedFound'
  BY DEF IInv, RefreshedFound, Has
<1>7. QED
  BY <1>2, <1>3, <1>4, <1>5, <1>6 DEF IInv, Data

(* Read finds what the reader loaded: the position in the index is of the block
   that has the number, if any has it. *)
LEMMA ReadBlockFinds ==
    ASSUME NEW top \in Nat, DiskNumbered(disk, top), NEW c \in ChunkId, NEW i \in Nat,
           NEW n \in Nat, n <= Len(disk[c]), ReadBlock(c, i, n)
    PROVE  /\ mCache' \subseteq LoadedIn(disk, c, n) \/ mCache' = mCache
           /\ \/ answer' \in LoadedIn(disk, c, n)
              \/ answer' = Item(c, i, NoValue) /\ ~Has(LoadedIn(disk, c, n), c, i)
<1> DEFINE loaded == SubSeq(disk[c], 1, n)
           all == LoadedIn(disk, c, n)
<1>1. disk[c] \in Seq(Blocks) /\ Len(disk[c]) \in Nat
  BY DiskTypes
<1>2. Len(loaded) = n /\ loaded \in Seq(Blocks) /\ \A p \in 1..n : loaded[p] = disk[c][p]
  BY <1>1, PrefixProps
<1>3. DOMAIN loaded = 1..n
  BY <1>2, LenProperties
<1>4. \A p \in 1..n : p \in 1..Len(disk[c])
  BY <1>1
<1>5. \A p \in 1..n : /\ disk[c][p] \in Blocks /\ disk[c][p].mIndex \in Nat
                      /\ Len(disk[c][p].vals) \in Nat
                      /\ Len(disk[c][p].vals) <= disk[c][p].mIndex
                      /\ \A q \in 1..n : p < q => BlockAbove(disk[c][p], disk[c][q])
  BY <1>4, DiskTypes DEF DiskNumbered
<1>6. ASSUME NEW x \in all, x.index = i
      PROVE  \E q \in 1..n : /\ x \in ItemsOf(c, disk[c][q])
                             /\ disk[c][q].mIndex - Len(disk[c][q].vals) < i
                             /\ i <= disk[c][q].mIndex
  <2>1. PICK q \in 1..n : x \in ItemsOf(c, disk[c][q])
    BY LoadedDef
  <2>2. /\ x.index \in Int /\ x.index > disk[c][q].mIndex - Len(disk[c][q].vals)
        /\ x.index <= disk[c][q].mIndex
    BY <1>5, <2>1, ItemsOfIndex
  <2>3. disk[c][q].mIndex - Len(disk[c][q].vals) < i
    BY <1>5, <1>6, <2>2
  <2>4. QED
    BY <1>6, <2>1, <2>2, <2>3
<1> HIDE DEF loaded, all
<1>7. CASE \E p \in 1..n :
               /\ IsPosition(loaded, i, p)
               /\ mCache' = ItemsOf(c, loaded[p])
               /\ IF Has(mCache', c, i)
                  THEN \E x \in mCache' : x.index = i /\ answer' = x
                  ELSE answer' = Item(c, i, NoValue)
  <2>1. PICK p \in 1..n :
               /\ IsPosition(loaded, i, p)
               /\ mCache' = ItemsOf(c, loaded[p])
               /\ IF Has(mCache', c, i)
                  THEN \E x \in mCache' : x.index = i /\ answer' = x
                  ELSE answer' = Item(c, i, NoValue)
    BY <1>7
  <2>2. mCache' = ItemsOf(c, disk[c][p])
    BY <1>2, <2>1
  <2>3. mCache' \subseteq all
    BY <2>1, <2>2, LoadedDef DEF all
  <2>4. disk[c][p].mIndex >= i /\ (p # 1 => disk[c][p - 1].mIndex < i)
    <3>1. loaded[p].mIndex >= i /\ (p # 1 => loaded[p - 1].mIndex < i)
      BY <2>1 DEF IsPosition
    <3>2. p # 1 => p - 1 \in 1..n
      BY <2>1
    <3>3. QED
      BY <1>2, <2>1, <3>1, <3>2
  <2>5. CASE Has(mCache', c, i)
    BY <2>1, <2>3, <2>5 DEF all
  <2>6. CASE ~Has(mCache', c, i)
    <3>1. ASSUME NEW x \in all, x.chunk = c, x.index = i PROVE FALSE
      <4>1. PICK q \in 1..n : /\ x \in ItemsOf(c, disk[c][q])
                              /\ disk[c][q].mIndex - Len(disk[c][q].vals) < i
                              /\ i <= disk[c][q].mIndex
        BY <1>6, <3>1
      <4>2. CASE q = p
        BY <2>2, <2>6, <3>1, <4>1, <4>2 DEF Has
      <4>3. CASE q < p
        <5>1. p - 1 \in 1..n /\ q <= p - 1 /\ p # 1
          BY <4>3
        <5>2. disk[c][q].mIndex <= disk[c][p - 1].mIndex
          <6>1. CASE q = p - 1
            BY <1>5, <6>1
          <6>2. CASE q # p - 1
            <7>1. q < p - 1
              BY <5>1, <6>2
            <7>2. disk[c][q].mIndex <= disk[c][p - 1].mIndex - Len(disk[c][p - 1].vals)
              BY <1>5, <5>1, <7>1 DEF BlockAbove
            <7>3. QED
              BY <1>5, <5>1, <7>2, SMTT(30)
          <6>3. QED
            BY <6>1, <6>2
        <5>3. QED
          BY <1>5, <2>4, <4>1, <5>1, <5>2
      <4>4. CASE p < q
        <5>1. disk[c][p].mIndex <= disk[c][q].mIndex - Len(disk[c][q].vals)
          BY <1>5, <4>4 DEF BlockAbove
        <5>2. QED
          BY <1>5, <2>4, <4>1, <5>1
      <4>5. QED
        BY <4>2, <4>3, <4>4
    <3>2. ~Has(all, c, i)
      BY <3>1 DEF Has
    <3>3. QED
      BY <2>1, <2>3, <2>6, <3>2 DEF all
  <2>7. QED
    BY <2>5, <2>6
<1>8. CASE /\ \A p \in 1..n : loaded[p].mIndex < i
           /\ answer' = Item(c, i, NoValue)
           /\ UNCHANGED mCache
  <2>1. ASSUME NEW x \in all, x.chunk = c, x.index = i PROVE FALSE
    <3>1. PICK q \in 1..n : i <= disk[c][q].mIndex
      BY <1>6, <2>1
    <3>2. disk[c][q].mIndex < i
      BY <1>2, <1>8
    <3>3. QED
      BY <1>5, <3>1, <3>2
  <2>2. ~Has(all, c, i)
    BY <2>1 DEF Has
  <2>3. QED
    BY <1>8, <2>2 DEF all
<1>9. QED
  BY <1>7, <1>8 DEF ReadBlock, loaded

(* A Read that asks a reader which loaded all that was promised of the chunk. *)
LEMMA ReadAnswer ==
    ASSUME IInv, NEW c \in ChunkId, NEW i \in 1..MaxAppends, NEW n \in Nat, n <= Len(disk[c]),
           ReadBlock(c, i, n), UNCHANGED <<given, promised>>,
           \A x \in promised : x.chunk = c => x \in LoadedIn(disk, c, n)
    PROVE  AnswerRight' /\ RefreshedFound'
<1> DEFINE all == LoadedIn(disk, c, n)
<1>1. Data /\ AnswerRight
  BY DEF IInv, Data
<1>2. /\ appends \in Nat /\ DiskNumbered(disk, appends) /\ Len(disk[c]) \in Nat /\ i \in Nat
      /\ i \in 0..MaxAppends
  BY <1>1, DataTypes
<1>3. /\ mCache' \subseteq all \/ mCache' = mCache
      /\ answer' \in all \/ (answer' = Item(c, i, NoValue) /\ ~Has(all, c, i))
  BY <1>2, ReadBlockFinds
<1> HIDE DEF all
<1>4. all \subseteq StoredIn(disk) /\ StoredIn(disk) \subseteq given
  BY <1>1, <1>2, LoadedStored, StoreNames DEF Data, AckedHeld, all
<1>5. AnswerRight'
  <2>1. mCache' \subseteq given'
    BY <1>1, <1>3, <1>4 DEF AnswerRight
  <2>2. CASE answer' \in all
    BY <1>4, <2>1, <2>2 DEF AnswerRight
  <2>3. CASE answer' = Item(c, i, NoValue)
    <3>1. answer'.val = NoValue
      BY <2>3, ItemFields
    <3>2. QED
      BY <1>2, <2>1, <2>3, <3>1 DEF AnswerRight
  <2>4. QED
    BY <1>3, <2>2, <2>3
<1>6. RefreshedFound'
  <2>1. SUFFICES ASSUME answer'.val = NoValue
                 PROVE  ~Has(promised', answer'.chunk, answer'.index)
    BY DEF RefreshedFound
  <2>2. answer' \notin all
    <3>1. \A x \in all : x.val \in Value
      BY <1>2, <1>4, StoredTypes
    <3>2. QED
      BY <2>1, <3>1, AppendStoreAssumption DEF NoValue
  <2>3. answer'.chunk = c /\ answer'.index = i /\ ~Has(all, c, i)
    BY <1>3, <2>2, ItemFields
  <2>4. ASSUME Has(promised, c, i) PROVE FALSE
    <3>1. PICK x \in promised : x.chunk = c /\ x.index = i
      BY <2>4 DEF Has
    <3>2. x \in all
      BY <3>1 DEF all
    <3>3. QED
      BY <2>3, <3>1, <3>2 DEF Has
  <2>5. QED
    BY <2>3, <2>4
<1>7. QED
  BY <1>5, <1>6

(* The values of what is given. *)
LEMMA GivenTypes ==
    ASSUME Data, NEW x \in given
    PROVE  /\ x.chunk \in ChunkId /\ x.index \in Nat /\ 1 <= x.index /\ x.index <= appends
           /\ x.val \in Value
<1>1. /\ appends \in Nat /\ DiskNumbered(disk, appends)
      /\ WriterNumbered(disk, writer, appends)
  BY DataTypes
<1>2. x \in StoredIn(disk) \cup BufferedIn(writer)
  BY StoreNames DEF Data, AckedHeld
<1>3. CASE x \in StoredIn(disk)
  BY <1>1, <1>3, StoredTypes
<1>4. CASE x \in BufferedIn(writer)
  <2> DEFINE n == Len(writer.stream)
  <2>1. /\ writer.id \in ChunkId /\ writer.mMaxIndex \in Nat /\ writer.stream \in Seq(Value)
        /\ n \in Nat /\ DOMAIN writer.stream = 1..n
    BY <1>1, WriterTypes
  <2>2. PICK k \in 1..n : x = Item(writer.id, writer.mMaxIndex - n + k, writer.stream[k])
    BY <1>4, <2>1 DEF BufferedIn
  <2>3. writer.stream[k] \in Value
    BY <2>1, <2>2, ElementOfSeq
  <2>4. x.chunk = writer.id /\ x.index = writer.mMaxIndex - n + k /\ x.val = writer.stream[k]
    BY <2>2, ItemFields
  <2>5. writer.state # "none"
    <3>1. n # 0
      BY <2>1, <2>2
    <3>2. writer.stream # << >>
      BY <3>1, EmptySeq
    <3>3. QED
      BY <1>1, <3>2 DEF WriterNumbered
  <2>6. writer.mMaxIndex - n = LastIndex(disk[writer.id]) /\ writer.mMaxIndex <= appends
    BY <1>1, <2>5 DEF WriterNumbered
  <2>7. LastIndex(disk[writer.id]) \in Nat
    BY <1>1, <2>1, LastProps
  <2>8. QED
    BY <1>1, <2>1, <2>2, <2>3, <2>4, <2>6, <2>7
<1>5. QED
  BY <1>2, <1>3, <1>4

(* A client with no answer, of a store that promises what is durable. *)
LEMMA ForgottenRight ==
    ASSUME Data', PromiseRight', mCache' = {}, answer' = NoAnswer
    PROVE  AnswerRight' /\ RefreshedFound'
<1>1. answer'.val = NoValue /\ answer'.chunk = 0 /\ answer'.index = 0
  BY ItemFields DEF NoAnswer
<1>2. 0 \in ChunkId /\ 0 \in 0..MaxAppends
  BY AppendStoreAssumption DEF ChunkId
<1>3. AnswerRight'
  BY <1>1, <1>2 DEF AnswerRight, NoAnswer
<1>4. ASSUME NEW x \in promised' PROVE x.index # 0
  <2>1. x \in DurableIn(disk', synced')
    BY DEF PromiseRight, Durable, ItemsIn, DurableIn
  <2>2. appends' \in Nat /\ DiskNumbered(disk', appends')
    BY AppendStoreAssumption DEF Data, Counted, Numbered
  <2>3. \A c \in ChunkId : Len(disk'[c]) \in Nat
    BY <2>2, DiskTypes
  <2>4. \A c \in ChunkId : synced'[c] \in Nat /\ synced'[c] <= Len(disk'[c])
    BY DEF Data, SyncedRight
  <2>5. x \in StoredIn(disk')
    BY <2>1, <2>3, <2>4, DurableStored
  <2>6. x.index \in Nat /\ 1 <= x.index
    BY <2>2, <2>5, StoredTypes
  <2>7. QED
    BY <2>6
<1>5. RefreshedFound'
  BY <1>1, <1>4 DEF RefreshedFound, Has
<1>6. QED
  BY <1>3, <1>5

(* A store without readers. *)
LEMMA NoReaders ==
    ASSUME reader' = [c \in ChunkId |-> NoReader], mChunkMap' = {}, current' = NoChunk, Data'
    PROVE  ReadersRight' /\ (promised' \subseteq Durable' => PromiseRight')
<1>1. NoReader.state = "none" /\ NoReader.loaded = 0 /\ NoReader \in Readers
  BY DEF NoReader, Readers
<1>2. \A c \in ChunkId : c # NoChunk
  BY AppendStoreAssumption DEF ChunkId, NoChunk
<1>3. \A c \in ChunkId : Len(disk'[c]) \in Nat
  <2>1. appends' \in Nat /\ DiskNumbered(disk', appends')
    BY AppendStoreAssumption DEF Data, Counted, Numbered
  <2>2. QED
    BY <2>1, DiskTypes
<1>4. ReadersRight'
  BY <1>1, <1>2, <1>3 DEF ReadersRight
<1>5. ASSUME promised' \subseteq Durable' PROVE PromiseRight'
  <2>1. ASSUME NEW x \in promised' PROVE reader'[x.chunk].state = "none"
    <3>1. x \in DurableIn(disk', synced')
      BY <1>5 DEF Durable, ItemsIn, DurableIn
    <3>2. \A c \in ChunkId : synced'[c] \in Nat
      BY DEF Data, SyncedRight
    <3>3. PICK c \in ChunkId : \E p \in 1..synced'[c] : x \in ItemsOf(c, disk'[c][p])
      BY <3>1, DurableDef
    <3>4. x.chunk = c
      BY <3>3, ItemsOfChunk
    <3>5. QED
      BY <1>1, <3>4
  <2>2. QED
    BY <1>5, <2>1 DEF PromiseRight
<1>6. QED
  BY <1>4, <1>5

(* The readers after TurnOnWrite: none appears or goes. *)
LEMMA TurnOnWriteSame ==
    ASSUME ReadersRight, reader' = TurnOnWriteReaders(writer), UNCHANGED <<mChunkMap, current>>
    PROVE  SameReaders
<1>1. reader \in [ChunkId -> Readers] /\ mChunkMap \subseteq ChunkId
  BY DEF ReadersRight
<1>2. CASE writer.state # "open" /\ writer.id \in mChunkMap /\ reader[writer.id].state = "open"
  <2>1. reader' = [reader EXCEPT ![writer.id].state = "closed"]
    BY <1>2 DEF TurnOnWriteReaders
  <2>2. QED
    BY <1>1, <1>2, <2>1 DEF SameReaders, Readers
<1>3. CASE ~(writer.state # "open" /\ writer.id \in mChunkMap /\ reader[writer.id].state = "open")
  <2>1. reader' = reader
    BY <1>3 DEF TurnOnWriteReaders
  <2>2. QED
    BY <1>1, <2>1 DEF SameReaders
<1>4. QED
  BY <1>2, <1>3

LEMMA UnchangedSame ==
    ASSUME ReadersRight, UNCHANGED <<reader, mChunkMap, current>>
    PROVE  SameReaders
BY DEF SameReaders, ReadersRight

LEMMA DeleterUnchanged ==
    ASSUME SessionRight, UNCHANGED deleter
    PROVE  deleter' \in [ChunkId -> {"none", "open", "closed"}]
BY DEF SessionRight

-----------------------------------------------------------------------------
(* The steps. *)

LEMMA IInvParts ==
    IInv <=> Data /\ SessionRight /\ ReadersRight /\ AnswerRight /\ ClosedSurvives
             /\ PromiseRight /\ RefreshedFound
BY DEF IInv, Data

LEMMA StepAppendToCurrent ==
    ASSUME IInv, NEW v \in Value, AppendToCurrent(v)
    PROVE  IInv'
<1>1. Data' /\ Keeps /\ OnlyWriters /\ SameWriter
  BY IInvParts, AppendToCurrentData
<1>2. /\ store # "none"
      /\ UNCHANGED <<exists, store, mMaxChunkId, mAppendChunkId, mChunkMap, current, deleter,
                     mCache, answer, promised, kept>>
      /\ reader' = TurnOnWriteReaders(writer) /\ given \subseteq given'
  BY DEF AppendToCurrent, MayAppend, PutRecord, chunkIdVars, promiseVars
<1>3. SessionRight'
  BY <1>1, <1>2, IInvParts, SessionUnchanged, DeleterUnchanged
<1>4. SameReaders
  BY <1>2, IInvParts, TurnOnWriteSame
<1>5. QED
  BY <1>1, <1>2, <1>3, <1>4, ClientUnchanged

LEMMA StepAppendToNext ==
    ASSUME IInv, NEW v \in Value, AppendToNext(v)
    PROVE  IInv'
<1>1. Data' /\ Keeps /\ OnlyWriters /\ writer'.id = mMaxChunkId + 1 /\ writer'.state = "open"
  BY IInvParts, AppendToNextData
<1>2. /\ store = "append" /\ mMaxChunkId < MaxChunk
      /\ exists' = exists \cup {mMaxChunkId + 1}
      /\ mMaxChunkId' = mMaxChunkId + 1 /\ mAppendChunkId' = mMaxChunkId + 1
      /\ UNCHANGED <<store, mChunkMap, current, deleter, mCache, answer, promised, kept>>
      /\ reader' = TurnOnWriteReaders(writer) /\ given \subseteq given'
  BY DEF AppendToNext, MayAppend, PutRecord, promiseVars
<1>3. SessionRight'
  BY <1>1, <1>2, IInvParts, SessionNext
<1>4. SameReaders
  BY <1>2, IInvParts, TurnOnWriteSame
<1>5. QED
  BY <1>1, <1>2, <1>3, <1>4, ClientUnchanged

LEMMA StepAppendToLoaded ==
    ASSUME IInv, NEW v \in Value, AppendToLoaded(v)
    PROVE  IInv'
<1>1. Data' /\ Keeps /\ OnlyWriters /\ writer'.id = mAppendChunkId /\ writer'.state = "open"
  BY IInvParts, AppendToLoadedData
<1>2. /\ store = "append" /\ exists' = exists \cup {mAppendChunkId}
      /\ UNCHANGED <<store, mMaxChunkId, mAppendChunkId, reader, mChunkMap, current, deleter,
                     mCache, answer, promised, kept>>
      /\ given \subseteq given'
  BY DEF AppendToLoaded, MayAppend, PutRecord, chunkIdVars, readerVars, promiseVars
<1>3. mAppendChunkId \in ChunkId /\ mAppendChunkId <= mMaxChunkId
  <2>1. mAppendChunkId \in ChunkId /\ mAppendChunkId = mMaxChunkId
    BY <1>2, IInvParts DEF SessionRight
  <2>2. QED
    BY <2>1, AppendStoreAssumption DEF ChunkId
<1>4. SessionRight'
  BY <1>1, <1>2, <1>3, IInvParts, SessionAdds
<1>5. SameReaders
  BY <1>2, IInvParts, UnchangedSame
<1>6. QED
  BY <1>1, <1>2, <1>4, <1>5, ClientUnchanged

LEMMA StepFlush ==
    ASSUME IInv, Flush
    PROVE  IInv'
<1>1. Data' /\ Keeps /\ OnlyWriters /\ SameWriter
  BY IInvParts, FlushData
<1>2. /\ store # "none"
      /\ UNCHANGED <<exists, store, mMaxChunkId, mAppendChunkId, mChunkMap, current, deleter,
                     mCache, answer, promised, kept, given>>
      /\ reader' = reader \/ reader' = TurnOnWriteReaders(writer)
  BY DEF Flush, chunkIdVars, promiseVars
<1>3. SessionRight'
  BY <1>1, <1>2, IInvParts, SessionUnchanged, DeleterUnchanged
<1>4. SameReaders
  BY <1>2, IInvParts, TurnOnWriteSame, UnchangedSame
<1>5. QED
  BY <1>1, <1>2, <1>3, <1>4, ClientUnchanged

LEMMA StepRemove ==
    ASSUME IInv, NEW c \in ChunkId, Remove(c)
    PROVE  IInv'
<1>1. /\ store # "none" /\ deleter' = [deleter EXCEPT ![c] = "open"]
      /\ UNCHANGED <<exists, disk, synced, store, mMaxChunkId, mAppendChunkId, writer, reader,
                     mChunkMap, current, mCache, appends, deaths, given, answer, promised, kept>>
  BY DEF Remove, diskVars, chunkIdVars, readerVars, boundVars, promiseVars
<1>2. Data' /\ Keeps /\ OnlyWriters /\ SameWriter
  BY <1>1, IInvParts, DataUnchanged
<1>3. deleter' \in [ChunkId -> {"none", "open", "closed"}]
  BY <1>1, IInvParts DEF SessionRight
<1>4. SessionRight'
  BY <1>1, <1>2, <1>3, IInvParts, SessionUnchanged
<1>5. SameReaders
  BY <1>1, IInvParts, UnchangedSame
<1>6. QED
  BY <1>1, <1>2, <1>4, <1>5, ClientUnchanged

LEMMA StepClose ==
    ASSUME IInv, Close
    PROVE  IInv'
<1>1. Data' /\ Keeps /\ OnlyWriters /\ SameWriter /\ kept' \subseteq Durable'
  BY IInvParts, CloseData
<1>2. /\ store # "none"
      /\ reader' = [c \in ChunkId |-> IF c \in mChunkMap THEN [reader[c] EXCEPT !.state = "closed"]
                                      ELSE reader[c]]
      /\ deleter' = [c \in ChunkId |-> IF deleter[c] = "open" THEN "closed" ELSE deleter[c]]
      /\ UNCHANGED <<exists, store, mMaxChunkId, mAppendChunkId, mChunkMap, current, mCache,
                     given, promised, answer>>
  BY DEF Close, chunkIdVars
<1>3. deleter' \in [ChunkId -> {"none", "open", "closed"}]
  BY <1>2, IInvParts DEF SessionRight
<1>4. SessionRight'
  BY <1>1, <1>2, <1>3, IInvParts, SessionUnchanged
<1>5. SameReaders
  <2>1. /\ reader \in [ChunkId -> Readers]
        /\ \A c \in mChunkMap : reader[c].state # "none" /\ c \in ChunkId
    BY IInvParts DEF ReadersRight
  <2>2. ASSUME NEW c \in ChunkId
        PROVE  /\ reader'[c] \in Readers /\ reader'[c].loaded = reader[c].loaded
               /\ reader'[c].state = "none" <=> reader[c].state = "none"
    <3>1. CASE c \in mChunkMap
      <4>1. reader'[c] = [reader[c] EXCEPT !.state = "closed"]
        BY <1>2, <3>1
      <4>2. reader[c] \in Readers /\ reader[c].state # "none"
        BY <2>1, <3>1
      <4>3. QED
        BY <4>1, <4>2 DEF Readers
    <3>2. CASE c \notin mChunkMap
      BY <1>2, <2>1, <3>2
    <3>3. QED
      BY <3>1, <3>2
  <2>3. reader' \in [ChunkId -> Readers]
    BY <1>2, <2>2
  <2>4. QED
    BY <1>2, <2>2, <2>3 DEF SameReaders
<1>6. QED
  BY <1>1, <1>2, <1>4, <1>5, ClientUnchanged

LEMMA StepReadCached ==
    ASSUME IInv, NEW c \in ChunkId, NEW i \in 1..MaxAppends, ReadCached(c, i)
    PROVE  IInv'
<1>1. PICK x \in mCache : x.chunk = c /\ x.index = i /\ answer' = x
  BY DEF ReadCached
<1>2. /\ store # "none"
      /\ UNCHANGED <<exists, disk, synced, store, mMaxChunkId, mAppendChunkId, writer, reader,
                     mChunkMap, current, deleter, mCache, appends, deaths, given, promised, kept>>
  BY DEF ReadCached, MayRead, diskVars, chunkIdVars, readerVars, boundVars, promiseVars
<1>3. Data' /\ Keeps /\ OnlyWriters /\ SameWriter
  BY <1>2, IInvParts, DataUnchanged
<1>4. SessionRight'
  BY <1>2, <1>3, IInvParts, SessionUnchanged, DeleterUnchanged
<1>5. SameReaders
  BY <1>2, IInvParts, UnchangedSame
<1>6. ReadersRight' /\ PromiseRight' /\ ClosedSurvives'
  <2>1. FewerReaders
    BY <1>2 DEF FewerReaders
  <2>2. Durable' = Durable
    BY <1>2 DEF Durable, ItemsIn
  <2>3. QED
    BY <1>2, <1>3, <1>5, <2>1, <2>2, IInvParts, ReadersKept, PromiseKept DEF ClosedSurvives
<1>7. AnswerRight'
  BY <1>1, <1>2, IInvParts DEF AnswerRight
<1>8. RefreshedFound'
  <2>1. x \in given
    BY IInvParts DEF AnswerRight
  <2>2. x.val \in Value
    BY <2>1, IInvParts, GivenTypes
  <2>3. QED
    BY <1>1, <2>2, AppendStoreAssumption DEF RefreshedFound, NoValue
<1>9. QED
  BY <1>3, <1>4, <1>6, <1>7, <1>8, IInvParts DEF IInv, Data

LEMMA StepReadNoChunk ==
    ASSUME IInv, NEW c \in ChunkId, NEW i \in 1..MaxAppends, ReadNoChunk(c, i)
    PROVE  IInv'
<1>1. /\ store # "none" /\ c > mMaxChunkId /\ answer' = Item(c, i, NoValue)
      /\ UNCHANGED <<exists, disk, synced, store, mMaxChunkId, mAppendChunkId, writer, reader,
                     mChunkMap, current, deleter, mCache, appends, deaths, given, promised, kept>>
  BY DEF ReadNoChunk, MayRead, diskVars, chunkIdVars, readerVars, boundVars, promiseVars
<1>2. Data' /\ Keeps /\ OnlyWriters /\ SameWriter
  BY <1>1, IInvParts, DataUnchanged
<1>3. SessionRight'
  BY <1>1, <1>2, IInvParts, SessionUnchanged, DeleterUnchanged
<1>4. SameReaders
  BY <1>1, IInvParts, UnchangedSame
<1>5. ReadersRight' /\ PromiseRight' /\ ClosedSurvives'
  <2>1. FewerReaders
    BY <1>1 DEF FewerReaders
  <2>2. Durable' = Durable
    BY <1>1 DEF Durable, ItemsIn
  <2>3. QED
    BY <1>1, <1>2, <1>4, <2>1, <2>2, IInvParts, ReadersKept, PromiseKept DEF ClosedSurvives
<1>6. answer'.val = NoValue /\ answer'.chunk = c /\ answer'.index = i
  BY <1>1, ItemFields
<1>7. AnswerRight'
  <2>1. i \in 0..MaxAppends
    OBVIOUS
  <2>2. QED
    BY <1>1, <1>6, <2>1, IInvParts DEF AnswerRight
<1>8. RefreshedFound'
  <2>1. ASSUME NEW x \in promised, x.chunk = c PROVE FALSE
    <3>1. disk[c] # << >>
      BY <2>1, IInvParts, PromisedTypes
    <3>2. c \in exists
      BY <3>1, IInvParts DEF SessionRight
    <3>3. c <= mMaxChunkId /\ mMaxChunkId \in ChunkId
      BY <1>1, <3>2, IInvParts, SessionMax DEF SessionRight
    <3>4. QED
      BY <1>1, <3>3, AppendStoreAssumption DEF ChunkId
  <2>2. QED
    BY <1>1, <1>6, <2>1 DEF RefreshedFound, Has
<1>9. QED
  BY <1>2, <1>3, <1>5, <1>7, <1>8, IInvParts DEF IInv, Data

LEMMA StepReadLoaded ==
    ASSUME IInv, NEW c \in ChunkId, NEW i \in 1..MaxAppends, ReadLoaded(c, i)
    PROVE  IInv'
<1> DEFINE n == reader[c].loaded
<1>1. /\ store # "none" /\ (current = c \/ c \in mChunkMap) /\ TurnOnRead(c)
      /\ reader' = [reader EXCEPT ![c].state = "open"]
      /\ ReadBlock(c, i, n)
      /\ UNCHANGED <<exists, disk, store, mMaxChunkId, mAppendChunkId, mChunkMap, current,
                     deleter, appends, deaths, given, promised, kept>>
  BY DEF ReadLoaded, MayRead, chunkIdVars, boundVars, promiseVars
<1>2. Data' /\ Keeps /\ OnlyWriters /\ SameWriter
  BY <1>1, IInvParts, TurnOnReadData
<1>3. SessionRight'
  BY <1>1, <1>2, IInvParts, SessionUnchanged, DeleterUnchanged
<1>4. /\ reader \in [ChunkId -> Readers] /\ reader[c].state # "none"
      /\ n \in Nat /\ n <= Len(disk[c])
  BY <1>1, IInvParts DEF ReadersRight, Readers
<1>5. SameReaders
  BY <1>1, <1>4 DEF SameReaders, Readers
<1>6. ReadersRight' /\ PromiseRight' /\ ClosedSurvives'
  <2>1. FewerReaders
    BY <1>5 DEF FewerReaders, SameReaders
  <2>2. Durable \subseteq Durable'
    BY <1>2, IInvParts, DurableKept
  <2>3. QED
    BY <1>1, <1>2, <1>5, <2>1, <2>2, IInvParts, ReadersKept, PromiseKept DEF ClosedSurvives
<1>7. AnswerRight' /\ RefreshedFound'
  <2>1. \A x \in promised : x.chunk = c => x \in LoadedIn(disk, c, n)
    BY <1>4, IInvParts DEF PromiseRight, ItemsIn, LoadedIn
  <2>2. QED
    BY <1>1, <1>4, <2>1, ReadAnswer
<1>8. QED
  BY <1>2, <1>3, <1>6, <1>7, IInvParts DEF IInv, Data

LEMMA StepReadNew ==
    ASSUME IInv, NEW c \in ChunkId, NEW i \in 1..MaxAppends, ReadNew(c, i)
    PROVE  IInv'
<1>1. /\ store # "none" /\ c <= mMaxChunkId /\ current # c /\ c \notin mChunkMap
      /\ exists' = exists \cup {c} /\ TurnOnRead(c)
      /\ mChunkMap' = mChunkMap \cup {c} /\ current' = c
      /\ UNCHANGED <<disk, store, mMaxChunkId, mAppendChunkId, deleter, appends, deaths, given,
                     promised, kept>>
  BY DEF ReadNew, MayRead, chunkIdVars, boundVars, promiseVars
<1>2. PICK n \in Visible(c) :
          /\ reader' = [b \in ChunkId |->
                           IF b = c THEN [state |-> "open", loaded |-> n]
                           ELSE IF b = current /\ b \notin mChunkMap THEN NoReader
                           ELSE reader[b]]
          /\ ReadBlock(c, i, n)
  BY DEF ReadNew
<1>3. /\ \A b \in ChunkId : Len(disk[b]) \in Nat /\ synced[b] \in Nat /\ synced[b] <= Len(disk[b])
      /\ reader \in [ChunkId -> Readers] /\ mChunkMap \subseteq ChunkId
      /\ \A b \in ChunkId : /\ reader[b].loaded <= Len(disk[b])
                            /\ reader[b].state = "none" <=> b # current /\ b \notin mChunkMap
  BY IInvParts, DataTypes DEF ReadersRight, Data, SyncedRight
<1>4. n \in Nat /\ n <= Len(disk[c]) /\ synced[c] <= n
  <2>1. CASE WriterHas(c)
    BY <1>2, <1>3, <2>1 DEF Visible
  <2>2. CASE ~WriterHas(c)
    BY <1>2, <1>3, <2>2 DEF Visible
  <2>3. QED
    BY <2>1, <2>2
<1>5. Data' /\ Keeps /\ OnlyWriters /\ SameWriter
  BY <1>1, IInvParts, TurnOnReadData
<1>6. SessionRight'
  BY <1>1, <1>5, IInvParts, SessionAdds
<1>7. NoReader.state = "none" /\ NoReader.loaded = 0 /\ NoReader \in Readers
  BY DEF NoReader, Readers
<1>8. reader'[c].state = "open" /\ reader'[c].loaded = n /\ reader'[c] \in Readers
  BY <1>2, <1>4 DEF Readers
<1>9. ASSUME NEW b \in ChunkId, b # c
      PROVE  /\ reader'[b] \in Readers
             /\ reader'[b].loaded <= Len(disk[b])
             /\ reader'[b].state = "none" <=> b \notin mChunkMap
             /\ reader'[b].state # "none" => reader'[b] = reader[b]
  <2>1. CASE b = current /\ b \notin mChunkMap
    <3>1. reader'[b] = NoReader
      BY <1>2, <1>9, <2>1
    <3>2. QED
      BY <1>3, <1>7, <2>1, <3>1
  <2>2. CASE ~(b = current /\ b \notin mChunkMap)
    <3>1. reader'[b] = reader[b]
      BY <1>2, <1>9, <2>2
    <3>2. QED
      BY <1>3, <2>2, <3>1
  <2>3. QED
    BY <2>1, <2>2
<1>10. ReadersRight'
  <2>1. reader' \in [ChunkId -> Readers]
    BY <1>2, <1>8, <1>9
  <2>2. mChunkMap' \subseteq ChunkId /\ current' \in ChunkId \cup {NoChunk} /\ disk' = disk
    BY <1>1, <1>3
  <2>3. ASSUME NEW b \in ChunkId
        PROVE  /\ reader'[b].loaded <= Len(disk[b])
               /\ reader'[b].state = "none" <=> b # current' /\ b \notin mChunkMap'
    <3>1. CASE b = c
      BY <1>1, <1>4, <1>8, <3>1
    <3>2. CASE b # c
      BY <1>1, <1>9, <3>2
    <3>3. QED
      BY <3>1, <3>2
  <2>4. QED
    BY <2>1, <2>2, <2>3 DEF ReadersRight
<1>11. \A x \in promised : x.chunk \in ChunkId /\ (x.chunk = c => x \in LoadedIn(disk, c, n))
  BY <1>3, <1>4, IInvParts, PromisedTypes, DurableLoaded
<1>12. PromiseRight'
  <2>1. promised' \subseteq Durable'
    BY <1>1, <1>5, IInvParts, DurableKept DEF PromiseRight
  <2>2. ASSUME NEW x \in promised, reader'[x.chunk].state # "none"
        PROVE  x \in ItemsIn(x.chunk, reader[x.chunk].loaded)'
    <3>1. CASE x.chunk = c
      <4>1. x \in LoadedIn(disk', x.chunk, reader'[x.chunk].loaded)
        BY <1>1, <1>8, <1>11, <3>1
      <4>2. QED
        BY <4>1 DEF LoadedIn, ItemsIn
    <3>2. CASE x.chunk # c
      <4>1. reader'[x.chunk] = reader[x.chunk]
        BY <1>9, <1>11, <2>2, <3>2
      <4>2. x \in ItemsIn(x.chunk, reader[x.chunk].loaded)
        BY <2>2, <4>1, IInvParts DEF PromiseRight
      <4>3. QED
        BY <1>1, <4>1, <4>2 DEF ItemsIn
    <3>3. QED
      BY <3>1, <3>2
  <2>3. QED
    BY <1>1, <2>1, <2>2 DEF PromiseRight
<1>13. AnswerRight' /\ RefreshedFound'
  BY <1>1, <1>2, <1>4, <1>11, ReadAnswer
<1>14. ClosedSurvives'
  BY <1>1, <1>5, IInvParts, DurableKept DEF ClosedSurvives
<1>15. QED
  BY <1>5, <1>6, <1>10, <1>12, <1>13, <1>14, IInvParts DEF IInv, Data

(* Every reader is dropped, and what is durable now is promised. *)
LEMMA StepReload ==
    ASSUME IInv, Reload
    PROVE  IInv'
<1>1. /\ store # "none"
      /\ reader' = [c \in ChunkId |-> NoReader]
      /\ mChunkMap' = {} /\ current' = NoChunk /\ mCache' = {}
      /\ mMaxChunkId' = GetMaxChunkID
      /\ promised' = Durable /\ answer' = NoAnswer
      /\ UNCHANGED <<exists, disk, synced, store, mAppendChunkId, writer, deleter, appends,
                     deaths, given, kept>>
  BY DEF Reload, diskVars, boundVars
<1>2. Data' /\ Keeps /\ OnlyWriters /\ SameWriter
  BY <1>1, IInvParts, DataUnchanged
<1>3. mMaxChunkId' = mMaxChunkId
  BY <1>1, IInvParts DEF SessionRight
<1>4. SessionRight'
  BY <1>1, <1>2, <1>3, IInvParts, SessionUnchanged, DeleterUnchanged
<1>5. ReadersRight' /\ (promised' \subseteq Durable' => PromiseRight')
  BY <1>1, <1>2, NoReaders
<1>6. Durable' = Durable
  BY <1>1 DEF Durable, ItemsIn
<1>7. AnswerRight' /\ RefreshedFound'
  BY <1>1, <1>2, <1>5, <1>6, ForgottenRight
<1>8. ClosedSurvives'
  BY <1>1, <1>6, IInvParts DEF ClosedSurvives
<1>9. QED
  BY <1>1, <1>2, <1>4, <1>5, <1>6, <1>7, <1>8, IInvParts DEF IInv, Data

LEMMA StepGarbageCollection ==
    ASSUME IInv, GarbageCollection
    PROVE  IInv'
<1>1. /\ store # "none" /\ mChunkMap' = {}
      /\ reader' = [c \in ChunkId |-> IF c = current THEN reader[c] ELSE NoReader]
      /\ UNCHANGED <<exists, disk, synced, store, mMaxChunkId, mAppendChunkId, writer, current,
                     deleter, mCache, appends, deaths, given, answer, promised, kept>>
  BY DEF GarbageCollection, diskVars, chunkIdVars, boundVars, promiseVars
<1>2. Data' /\ Keeps /\ OnlyWriters /\ SameWriter
  BY <1>1, IInvParts, DataUnchanged
<1>3. SessionRight'
  BY <1>1, <1>2, IInvParts, SessionUnchanged, DeleterUnchanged
<1>4. /\ reader \in [ChunkId -> Readers]
      /\ \A c \in ChunkId : /\ reader[c].loaded <= Len(disk[c]) /\ Len(disk[c]) \in Nat
                            /\ reader[c].state = "none" <=> c # current /\ c \notin mChunkMap
  BY IInvParts, DataTypes DEF ReadersRight
<1>5. NoReader.state = "none" /\ NoReader.loaded = 0 /\ NoReader \in Readers
  BY DEF NoReader, Readers
<1>6. ASSUME NEW c \in ChunkId
      PROVE  /\ reader'[c] \in Readers /\ reader'[c].loaded <= Len(disk[c])
             /\ reader'[c].state = "none" <=> c # current
             /\ reader'[c].state # "none" => reader'[c] = reader[c]
  <2>1. CASE c = current
    <3>1. reader'[c] = reader[c]
      BY <1>1, <2>1
    <3>2. QED
      BY <1>4, <2>1, <3>1
  <2>2. CASE c # current
    <3>1. reader'[c] = NoReader
      BY <1>1, <2>2
    <3>2. QED
      BY <1>4, <1>5, <2>2, <3>1
  <2>3. QED
    BY <2>1, <2>2
<1>7. ReadersRight'
  <2>1. reader' \in [ChunkId -> Readers]
    BY <1>1, <1>6
  <2>2. current' \in ChunkId \cup {NoChunk}
    BY <1>1, IInvParts DEF ReadersRight
  <2>3. QED
    BY <1>1, <1>6, <2>1, <2>2 DEF ReadersRight
<1>8. PromiseRight'
  <2>1. FewerReaders
    BY <1>6 DEF FewerReaders
  <2>2. QED
    BY <1>1, <1>2, <2>1, IInvParts, PromiseKept
<1>9. AnswerRight' /\ RefreshedFound' /\ ClosedSurvives'
  <2>1. Durable' = Durable
    BY <1>1 DEF Durable, ItemsIn
  <2>2. QED
    BY <1>1, <2>1, IInvParts DEF AnswerRight, RefreshedFound, ClosedSurvives, Has
<1>10. QED
  BY <1>2, <1>3, <1>7, <1>8, <1>9, IInvParts DEF IInv, Data

(* A store that is opened has no readers yet, and promises what is durable. *)
LEMMA StepOpen ==
    ASSUME IInv, NEW mode \in {"append", "read"}, Open(mode)
    PROVE  IInv'
<1>1. /\ store = "none" /\ promised' = Durable
      /\ UNCHANGED <<exists, disk, synced, writer, reader, mChunkMap, current, deleter, mCache,
                     appends, deaths, given, kept, answer>>
  BY DEF Open, diskVars, readerVars, boundVars
<1>2. mChunkMap = {} /\ current = NoChunk /\ mCache = {} /\ answer = NoAnswer
  BY <1>1, IInvParts DEF SessionRight
<1>3. Data' /\ Keeps
  BY <1>1, IInvParts, DataUnchanged
<1>4. SessionRight'
  BY IInvParts, OpenSession
<1>5. Durable' = Durable
  BY <1>1 DEF Durable, ItemsIn
<1>6. ReadersRight'
  BY <1>1, <1>3, IInvParts, UnchangedSame, ReadersKept
<1>7. PromiseRight'
  <2>1. \A c \in ChunkId : c # NoChunk
    BY AppendStoreAssumption DEF ChunkId, NoChunk
  <2>2. ASSUME NEW x \in promised' PROVE reader'[x.chunk].state = "none"
    <3>1. x \in DurableIn(disk, synced)
      BY <1>1, StoreNames
    <3>2. PICK c \in ChunkId : \E p \in 1..synced[c] : x \in ItemsOf(c, disk[c][p])
      BY <3>1, DurableDef
    <3>3. x.chunk = c
      BY <3>2, ItemsOfChunk
    <3>4. QED
      BY <1>1, <1>2, <2>1, <3>3, IInvParts DEF ReadersRight
  <2>3. QED
    BY <1>1, <1>5, <2>2 DEF PromiseRight
<1>8. AnswerRight' /\ RefreshedFound'
  BY <1>1, <1>2, <1>3, <1>7, ForgottenRight
<1>9. ClosedSurvives'
  BY <1>1, <1>5, IInvParts DEF ClosedSurvives
<1>10. QED
  BY <1>3, <1>4, <1>6, <1>7, <1>8, <1>9, IInvParts DEF IInv, Data

(* The objects are gone: no reader, no cache, no answer. *)
LEMMA GoneRight ==
    ASSUME Data', Gone, promised' \subseteq Durable', SessionRight', kept' \subseteq Durable'
    PROVE  IInv'
<1>1. /\ reader' = [c \in ChunkId |-> NoReader] /\ mChunkMap' = {} /\ current' = NoChunk
      /\ mCache' = {} /\ answer' = NoAnswer
  BY DEF Gone
<1>2. ReadersRight' /\ PromiseRight'
  BY <1>1, NoReaders
<1>3. AnswerRight' /\ RefreshedFound'
  BY <1>1, <1>2, ForgottenRight
<1>4. QED
  BY <1>2, <1>3 DEF IInv, Data, ClosedSurvives

LEMMA StepDrop ==
    ASSUME IInv, Drop
    PROVE  IInv'
<1>1. Gone /\ UNCHANGED <<exists, promised>>
  BY DEF Drop
<1>2. Data' /\ Keeps /\ OnlyWriters /\ kept' \subseteq Durable'
  BY IInvParts, DropData
<1>3. \A c \in ChunkId : disk'[c] # << >> => c \in exists'
  <2>1. writer'.state = "none"
    BY <1>1 DEF Gone, NoWriter
  <2>2. QED
    BY <1>1, <1>2, <2>1, IInvParts, FilesExist
<1>4. SessionRight'
  BY <1>1, <1>3, IInvParts, GoneSession
<1>5. promised' \subseteq Durable'
  BY <1>1, <1>2, IInvParts, DurableKept DEF PromiseRight
<1>6. QED
  BY <1>1, <1>2, <1>4, <1>5, GoneRight

LEMMA StepDie ==
    ASSUME IInv, Die
    PROVE  IInv'
<1>1. Gone /\ UNCHANGED <<exists, kept>> /\ promised' = promised \cap given'
  BY DEF Die
<1>2. /\ Data' /\ Durable \subseteq Durable' /\ given' \subseteq Durable'
      /\ \A c \in ChunkId : disk'[c] # << >> => disk[c] # << >>
  BY IInvParts, DieData
<1>3. SessionRight'
  <2>1. \A c \in ChunkId : disk'[c] # << >> => c \in exists
    BY <1>2, IInvParts DEF SessionRight
  <2>2. QED
    BY <1>1, <2>1, IInvParts, GoneSession
<1>4. promised' \subseteq Durable' /\ kept' \subseteq Durable'
  BY <1>1, <1>2, IInvParts DEF ClosedSurvives
<1>5. QED
  BY <1>1, <1>2, <1>3, <1>4, GoneRight

LEMMA StepStutters ==
    ASSUME IInv, UNCHANGED vars
    PROVE  IInv'
<1>1. UNCHANGED <<exists, disk, synced, store, mMaxChunkId, mAppendChunkId, writer, reader,
                  mChunkMap, current, deleter, mCache, appends, deaths, given, promised, kept,
                  answer>>
  BY DEF vars, diskVars, chunkIdVars, readerVars, boundVars, promiseVars
<1>2. Data' /\ Keeps
  BY <1>1, IInvParts, DataUnchanged
<1>3. SessionRight'
  <2>1. GetMaxChunkID' = GetMaxChunkID
    BY <1>1 DEF GetMaxChunkID
  <2>2. QED
    BY <1>1, <2>1, IInvParts DEF SessionRight
<1>4. SameReaders
  BY <1>1, IInvParts, UnchangedSame
<1>5. QED
  BY <1>1, <1>2, <1>3, <1>4, ClientUnchanged

LEMMA Inductive ==
    IInv /\ [Next]_vars => IInv'
<1> SUFFICES ASSUME IInv, [Next]_vars PROVE IInv'
  OBVIOUS
<1>1. CASE \E mode \in {"append", "read"} : Open(mode)
  BY <1>1, StepOpen
<1>2. CASE \E v \in Value : AppendToCurrent(v) \/ AppendToNext(v) \/ AppendToLoaded(v)
  BY <1>2, StepAppendToCurrent, StepAppendToNext, StepAppendToLoaded
<1>3. CASE Flush
  BY <1>3, StepFlush
<1>4. CASE \E c \in ChunkId, i \in 1..MaxAppends :
               ReadCached(c, i) \/ ReadNoChunk(c, i) \/ ReadLoaded(c, i) \/ ReadNew(c, i)
  BY <1>4, StepReadCached, StepReadNoChunk, StepReadLoaded, StepReadNew
<1>5. CASE Reload \/ GarbageCollection
  BY <1>5, StepReload, StepGarbageCollection
<1>6. CASE \E c \in ChunkId : Remove(c)
  BY <1>6, StepRemove
<1>7. CASE Close \/ Drop \/ Die
  BY <1>7, StepClose, StepDrop, StepDie
<1>8. CASE UNCHANGED vars
  BY <1>8, StepStutters
<1>9. QED
  BY <1>1, <1>2, <1>3, <1>4, <1>5, <1>6, <1>7, <1>8 DEF Next

LEMMA InitRight ==
    Init => IInv
<1> SUFFICES ASSUME Init PROVE IInv
  OBVIOUS
<1>1. /\ exists = {} /\ disk = [c \in ChunkId |-> << >>] /\ synced = [c \in ChunkId |-> 0]
      /\ store = "none" /\ mMaxChunkId = 0 /\ mAppendChunkId = 0 /\ writer = NoWriter
      /\ reader = [c \in ChunkId |-> NoReader] /\ mChunkMap = {} /\ current = NoChunk
      /\ deleter = [c \in ChunkId |-> "none"] /\ mCache = {} /\ appends = 0 /\ deaths = 0
      /\ given = {} /\ promised = {} /\ kept = {} /\ answer = NoAnswer
  BY DEF Init
<1>2. \A c \in ChunkId : disk[c] = << >> /\ Len(disk[c]) = 0 /\ synced[c] = 0
  BY <1>1, EmptySeq
<1>3. 0 \in ChunkId /\ 0 \in 0..MaxAppends /\ 0 \in 0..MaxDeaths
  BY AppendStoreAssumption DEF ChunkId
<1>4. Counted
  BY <1>1, <1>3 DEF Counted
<1>5. Numbered
  <2>1. disk \in [ChunkId -> Seq(Blocks)]
    BY <1>1, EmptySeq
  <2>2. DiskNumbered(disk, appends)
    BY <1>2, <2>1 DEF DiskNumbered
  <2>3. QED
    BY <1>1, <2>2, NoWriterNumbered DEF Numbered
<1>6. StoredIn(disk) = {} /\ DurableIn(disk, synced) = {}
  BY <1>2, StoredDef, DurableDef
<1>7. AckedHeld
  BY <1>1, <1>6, NoWriterNumbered, StoreNames DEF AckedHeld
<1>8. SyncedRight
  BY <1>1, <1>2 DEF SyncedRight
<1>9. SessionRight
  BY <1>1, <1>2, <1>3, NoWriterNumbered DEF SessionRight
<1>10. ReadersRight
  <2>1. NoReader.state = "none" /\ NoReader.loaded = 0 /\ NoReader \in Readers
    BY DEF NoReader, Readers
  <2>2. \A c \in ChunkId : c # NoChunk
    BY AppendStoreAssumption DEF ChunkId, NoChunk
  <2>3. QED
    BY <1>1, <1>2, <2>1, <2>2 DEF ReadersRight
<1>11. AnswerRight
  <2>1. answer.val = NoValue
    BY <1>1, ItemFields DEF NoAnswer
  <2>2. QED
    BY <1>1, <1>3, <2>1 DEF AnswerRight, NoAnswer
<1>12. ClosedSurvives /\ PromiseRight /\ RefreshedFound
  BY <1>1 DEF ClosedSurvives, PromiseRight, RefreshedFound, Has
<1>13. QED
  BY <1>4, <1>5, <1>7, <1>8, <1>9, <1>10, <1>11, <1>12 DEF IInv

LEMMA Invariant ==
    Spec => []IInv
BY InitRight, Inductive, PTL DEF Spec

-----------------------------------------------------------------------------
(* Every handle that Append returned is in the writer's buffer or on disk, and
   nothing else is, whatever chunks the store rolled over to, turned off and
   opened again. *)
THEOREM AppendedIsHeld ==
    Spec => []AckedHeld
<1>1. IInv => AckedHeld
  BY DEF IInv
<1>2. QED
  BY <1>1, Invariant, PTL

(* All the data that the store had when it was closed is durable from then on. *)
THEOREM ClosedIsDurable ==
    Spec => []ClosedSurvives
<1>1. IInv => ClosedSurvives
  BY DEF IInv
<1>2. QED
  BY <1>1, Invariant, PTL

(* Read finds what was durable when the readers were last refreshed. *)
THEOREM RefreshedIsFound ==
    Spec => []RefreshedFound
<1>1. IInv => RefreshedFound
  BY DEF IInv
<1>2. QED
  BY <1>1, Invariant, PTL

(* The types of the variables. *)
THEOREM AppendStoreTypes ==
    Spec => []TypeOK
<1>1. ASSUME IInv PROVE TypeOK
  <2>1. Data /\ SessionRight /\ ReadersRight /\ AnswerRight
    BY <1>1, IInvParts
  <2>2. WriterTypeOK
    BY <2>1, DataTypes, WriterTypes DEF WriterTypeOK, Data, Numbered
  <2>3. \A c \in ChunkId : Len(disk[c]) \in Nat /\ synced[c] \in 0..Len(disk[c])
    BY <2>1, DataTypes DEF Data, SyncedRight
  <2>4. ReaderTypeOK
    BY <2>1, <2>3 DEF ReaderTypeOK, ReadersRight, Readers
  <2>5. \A x \in given \cup mCache : IsItem(x)
    <3>1. appends \in 0..MaxAppends /\ MaxAppends \in Nat
      BY <2>1, AppendStoreAssumption DEF Data, Counted
    <3>2. ASSUME NEW x \in given PROVE IsItem(x)
      <4>1. /\ x.chunk \in ChunkId /\ x.index \in Nat /\ 1 <= x.index /\ x.index <= appends
            /\ x.val \in Value
        BY <2>1, GivenTypes
      <4>2. x.index \in 1..MaxAppends
        BY <3>1, <4>1
      <4>3. QED
        BY <4>1, <4>2 DEF IsItem
    <3>3. QED
      BY <2>1, <3>2 DEF AnswerRight
  <2>6. QED
    BY <2>1, <2>2, <2>3, <2>4, <2>5 DEF TypeOK, SessionRight, Data, Counted
<1>2. QED
  BY <1>1, Invariant, PTL

-----------------------------------------------------------------------------
(* No chunk is open for reading and for writing, when nothing is read before the
   first Append of a session: the first Append closes no reader. *)

ReadersBelow ==
    /\ store = "append" /\ writer.state = "none" => mChunkMap = {}
    /\ \A c \in mChunkMap : c <= mMaxChunkId
    /\ ReaderOrWriter

(* Turning the writer on closes the reader of its chunk. *)
LEMMA TurnOnWriteCloses ==
    ASSUME IInv, ReadersBelow, reader' = TurnOnWriteReaders(writer), SameWriter,
           UNCHANGED <<store, mMaxChunkId, mChunkMap>>
    PROVE  ReadersBelow'
<1>1. reader \in [ChunkId -> Readers] /\ mChunkMap \subseteq ChunkId
  BY IInvParts DEF ReadersRight
<1>2. ASSUME writer.id \in mChunkMap PROVE reader'[writer.id].state # "open"
  <2>1. CASE writer.state # "open" /\ reader[writer.id].state = "open"
    <3>1. reader' = [reader EXCEPT ![writer.id].state = "closed"]
      BY <1>2, <2>1 DEF TurnOnWriteReaders
    <3>2. QED
      BY <1>1, <1>2, <3>1 DEF Readers
  <2>2. CASE ~(writer.state # "open" /\ reader[writer.id].state = "open")
    <3>1. reader' = reader
      BY <2>2 DEF TurnOnWriteReaders
    <3>2. QED
      BY <1>2, <2>2, <3>1 DEF ReadersBelow, ReaderOrWriter
  <2>3. QED
    BY <2>1, <2>2
<1>3. QED
  BY <1>2 DEF ReadersBelow, ReaderOrWriter, SameWriter

(* A step that makes no reader. *)
LEMMA ReadersBelowKept ==
    ASSUME ReadersBelow, UNCHANGED <<store, mMaxChunkId, reader, mChunkMap, writer>>
    PROVE  ReadersBelow'
BY DEF ReadersBelow, ReaderOrWriter

LEMMA NoneBelow ==
    ASSUME mChunkMap' = {}
    PROVE  ReadersBelow'
BY DEF ReadersBelow, ReaderOrWriter

LEMMA BelowAppend ==
    ASSUME IInv, ReadersBelow, NEW v \in Value,
           AppendToCurrent(v) \/ AppendToNext(v) \/ AppendToLoaded(v)
    PROVE  ReadersBelow'
<1>1. CASE AppendToCurrent(v)
  <2>1. /\ reader' = TurnOnWriteReaders(writer)
        /\ UNCHANGED <<store, mMaxChunkId, mChunkMap>>
    BY <1>1 DEF AppendToCurrent, chunkIdVars
  <2>2. SameWriter
    BY <1>1, IInvParts, AppendToCurrentData
  <2>3. QED
    BY <2>1, <2>2, TurnOnWriteCloses
<1>2. CASE AppendToNext(v)
  <2>1. /\ mMaxChunkId' = mMaxChunkId + 1 /\ UNCHANGED <<store, mChunkMap>>
        /\ writer'.id = mMaxChunkId + 1 /\ writer'.state = "open"
    BY <1>2, IInvParts, AppendToNextData DEF AppendToNext
  <2>2. /\ mChunkMap \subseteq ChunkId /\ mMaxChunkId \in ChunkId
        /\ \A c \in mChunkMap : c <= mMaxChunkId
    BY IInvParts DEF ReadersRight, SessionRight, ReadersBelow
  <2>3. \A c \in mChunkMap : c <= mMaxChunkId + 1 /\ c # mMaxChunkId + 1
    BY <2>2, AppendStoreAssumption DEF ChunkId
  <2>4. QED
    BY <2>1, <2>3 DEF ReadersBelow, ReaderOrWriter
<1>3. CASE AppendToLoaded(v)
  <2>1. store = "append" /\ writer.state = "none" /\ mChunkMap' = mChunkMap
    BY <1>3 DEF AppendToLoaded, MayAppend, readerVars
  <2>2. mChunkMap' = {}
    BY <2>1 DEF ReadersBelow
  <2>3. QED
    BY <2>2, NoneBelow
<1>4. QED
  BY <1>1, <1>2, <1>3

LEMMA BelowRead ==
    ASSUME IInv, ReadersBelow, "read-first" \notin Calls, NEW c \in ChunkId,
           NEW i \in 1..MaxAppends,
           ReadCached(c, i) \/ ReadNoChunk(c, i) \/ ReadLoaded(c, i) \/ ReadNew(c, i)
    PROVE  ReadersBelow'
<1>1. CASE ReadCached(c, i) \/ ReadNoChunk(c, i)
  <2>1. UNCHANGED <<store, mMaxChunkId, reader, mChunkMap, writer>>
    BY <1>1 DEF ReadCached, ReadNoChunk, chunkIdVars, readerVars
  <2>2. QED
    BY <2>1, ReadersBelowKept
<1>2. CASE ReadLoaded(c, i) \/ ReadNew(c, i)
  <2>1. /\ ~(store = "append" /\ writer.state = "none") /\ TurnOnRead(c) /\ c <= mMaxChunkId
        /\ mChunkMap' \subseteq mChunkMap \cup {c}
        /\ UNCHANGED <<store, mMaxChunkId, disk, appends, deaths, given>>
    BY <1>2 DEF ReadLoaded, ReadNew, MayRead, chunkIdVars, boundVars
  <2>2. reader \in [ChunkId -> Readers] /\ mChunkMap \subseteq ChunkId
    BY IInvParts DEF ReadersRight
  <2>3. ASSUME NEW b \in mChunkMap, b # c PROVE reader'[b] = reader[b]
    <3>1. CASE ReadLoaded(c, i)
      <4>1. reader' = [reader EXCEPT ![c].state = "open"]
        BY <3>1 DEF ReadLoaded
      <4>2. QED
        BY <2>2, <2>3, <4>1
    <3>2. CASE ReadNew(c, i)
      <4>1. PICK n \in Visible(c) :
                reader' = [a \in ChunkId |->
                           IF a = c THEN [state |-> "open", loaded |-> n]
                           ELSE IF a = current /\ a \notin mChunkMap THEN NoReader
                           ELSE reader[a]]
        BY <3>2 DEF ReadNew
      <4>2. QED
        BY <2>2, <2>3, <4>1
    <3>3. QED
      BY <1>2, <3>1, <3>2
  <2>4. SameWriter
    BY <2>1, IInvParts, TurnOnReadData
  <2>5. ReaderOrWriter'
    <3>1. CASE WriterHas(c)
      <4>1. writer' = [writer EXCEPT !.state = "closed"]
        BY <2>1, <3>1 DEF TurnOnRead
      <4>2. writer \in Writers
        BY IInvParts, DataTypes DEF WriterNumbered
      <4>3. writer'.state = "closed"
        BY <4>1, <4>2 DEF Writers
      <4>4. QED
        BY <4>3 DEF ReaderOrWriter
    <3>2. CASE ~WriterHas(c)
      <4>1. writer' = writer
        BY <2>1, <3>2 DEF TurnOnRead
      <4>2. SUFFICES ASSUME writer.state = "open", writer.id \in mChunkMap'
                     PROVE  reader'[writer.id].state # "open"
        BY <4>1 DEF ReaderOrWriter
      <4>3. writer.id \in mChunkMap /\ writer.id # c
        BY <2>1, <3>2, <4>2 DEF WriterHas
      <4>4. QED
        BY <2>3, <4>2, <4>3 DEF ReadersBelow, ReaderOrWriter
    <3>3. QED
      BY <3>1, <3>2
  <2>6. QED
    BY <2>1, <2>4, <2>5 DEF ReadersBelow, SameWriter
<1>3. QED
  BY <1>1, <1>2

LEMMA BelowOthers ==
    ASSUME IInv, ReadersBelow,
           \/ \E mode \in {"append", "read"} : Open(mode)
           \/ Flush \/ Reload \/ GarbageCollection
           \/ \E c \in ChunkId : Remove(c)
           \/ Close \/ Drop \/ Die \/ UNCHANGED vars
    PROVE  ReadersBelow'
<1>1. CASE \E mode \in {"append", "read"} : Open(mode)
  <2>1. mChunkMap' = {}
    BY <1>1, IInvParts DEF Open, readerVars, SessionRight
  <2>2. QED
    BY <2>1, NoneBelow
<1>2. CASE Flush
  <2>1. CASE writer.state = "none"
    <3>1. UNCHANGED <<store, mMaxChunkId, reader, mChunkMap, writer>>
      BY <1>2, <2>1 DEF Flush, chunkIdVars
    <3>2. QED
      BY <3>1, ReadersBelowKept
  <2>2. CASE writer.state # "none"
    <3>1. /\ reader' = TurnOnWriteReaders(writer)
          /\ UNCHANGED <<store, mMaxChunkId, mChunkMap>>
      BY <1>2, <2>2 DEF Flush, chunkIdVars
    <3>2. SameWriter
      BY <1>2, IInvParts, FlushData
    <3>3. QED
      BY <3>1, <3>2, TurnOnWriteCloses
  <2>3. QED
    BY <2>1, <2>2
<1>3. CASE Reload \/ GarbageCollection \/ Drop \/ Die
  BY <1>3, NoneBelow DEF Reload, GarbageCollection, Drop, Die, Gone
<1>4. CASE (\E c \in ChunkId : Remove(c)) \/ UNCHANGED vars
  <2>1. UNCHANGED <<store, mMaxChunkId, reader, mChunkMap, writer>>
    BY <1>4 DEF Remove, vars, chunkIdVars, readerVars
  <2>2. QED
    BY <2>1, ReadersBelowKept
<1>5. CASE Close
  <2>1. UNCHANGED <<store, mMaxChunkId, mChunkMap>>
    BY <1>5 DEF Close, chunkIdVars
  <2>2. SameWriter
    BY <1>5, IInvParts, CloseData
  <2>3. writer'.state # "open"
    <3>1. CASE store = "append" /\ writer.state # "none"
      <4>1. writer' = [WriterFlushed(TurnedOn(writer)) EXCEPT !.state = "closed"]
        BY <1>5, <3>1 DEF Close, CloseWriter
      <4>2. writer' \in Writers
        BY <1>5, IInvParts, CloseData DEF Data, Numbered, WriterNumbered
      <4>3. QED
        BY <4>1, <4>2 DEF Writers
    <3>2. CASE ~(store = "append" /\ writer.state # "none")
      BY <1>5, <3>2, IInvParts DEF Close, SessionRight
    <3>3. QED
      BY <3>1, <3>2
  <2>4. QED
    BY <2>1, <2>2, <2>3 DEF ReadersBelow, ReaderOrWriter, SameWriter
<1>6. QED
  BY <1>1, <1>2, <1>3, <1>4, <1>5

(* As long as the client of an append store reads nothing before its first
   Append, no chunk that mChunkMap holds is open for reading and for writing. *)
THEOREM ReadsOrWrites ==
    ASSUME "read-first" \notin Calls
    PROVE  Spec => []ReaderOrWriter
<1>1. Init => ReadersBelow
  BY DEF Init, ReadersBelow, ReaderOrWriter, NoWriter
<1>2. IInv /\ ReadersBelow /\ [Next]_vars => ReadersBelow'
  BY BelowAppend, BelowRead, BelowOthers DEF Next
<1>3. ReadersBelow => ReaderOrWriter
  BY DEF ReadersBelow
<1>4. QED
  BY <1>1, <1>2, <1>3, Invariant, PTL DEF Spec

-----------------------------------------------------------------------------
(***************************************************************************)
(* The append store implements HandleStore, for every value of the         *)
(* constants.  Each step of the store is a step of the interface:          *)
(*                                                                         *)
(*   an Append that returns a handle     Put                               *)
(*   the death of the process            Lose                              *)
(*   anything else                       Get, of the handle that the store *)
(*                                       answers for now                   *)
(*                                                                         *)
(* What makes this true is that the handle of an Append is above all of its*)
(* chunk (HandleIsNew), that durable data only grows (Data, Keeps) and that*)
(* an answer is held (AnswerRight): the invariant above.                   *)
(***************************************************************************)
Contents == {Abstract(x) : x \in given}

AbstractDurable == {Abstract(x) : x \in Durable}

LEMMA AbstractFields ==
    ASSUME NEW x
    PROVE  /\ Abstract(x).handle = [chunk |-> x.chunk, index |-> x.index]
           /\ Abstract(x).val = x.val
           /\ Abstract(x).handle.chunk = x.chunk /\ Abstract(x).handle.index = x.index
BY DEF Abstract

LEMMA AbstractItem ==
    ASSUME NEW c, NEW i, NEW v
    PROVE  Abstract(Item(c, i, v)) = Interface!Pair([chunk |-> c, index |-> i], v)
BY DEF Abstract, Item, Interface!Pair

(* The numbers of the items of the writer's chunk. *)
LEMMA HandleIsNew ==
    ASSUME NEW d, NEW top \in Nat, DiskNumbered(d, top), NEW w, WriterNumbered(d, w, top),
           w.state # "none", NEW x \in StoredIn(d) \cup BufferedIn(w), x.chunk = w.id
    PROVE  x.index <= w.mMaxIndex /\ x.index \in Int
<1> DEFINE n == Len(w.stream)
<1>1. /\ w.id \in ChunkId /\ w.mMaxIndex \in Nat /\ w.stream \in Seq(Value)
      /\ n \in Nat /\ DOMAIN w.stream = 1..n /\ w.mMaxIndex - n = LastIndex(d[w.id])
  BY WriterTypes DEF WriterNumbered
<1>2. CASE x \in StoredIn(d)
  <2>1. PICK c \in ChunkId : \E p \in 1..Len(d[c]) : x \in ItemsOf(c, d[c][p])
    BY <1>2, StoredDef
  <2>2. PICK p \in 1..Len(d[c]) : x \in ItemsOf(c, d[c][p])
    BY <2>1
  <2>3. c = w.id
    BY <2>2, ItemsOfChunk
  <2>4. /\ d[c][p] \in Blocks /\ d[c][p].mIndex \in Nat /\ LastIndex(d[c]) \in Nat
        /\ d[c][p].mIndex <= LastIndex(d[c])
    BY DiskTypes, LastProps
  <2>5. x.index \in Int /\ x.index <= d[c][p].mIndex
    BY <2>2, <2>4, ItemsOfIndex
  <2>6. QED
    BY <1>1, <2>3, <2>4, <2>5
<1>3. CASE x \in BufferedIn(w)
  <2>1. PICK k \in 1..n : x = Item(w.id, w.mMaxIndex - n + k, w.stream[k])
    BY <1>1, <1>3 DEF BufferedIn
  <2>2. x.index = w.mMaxIndex - n + k
    BY <2>1, ItemFields
  <2>3. QED
    BY <1>1, <2>1, <2>2
<1>4. QED
  BY <1>2, <1>3

(* What becomes durable is held. *)
LEMMA Hardening ==
    ASSUME Data', Durable \subseteq Durable'
    PROVE  AbstractDurable \subseteq AbstractDurable' /\ AbstractDurable' \subseteq Contents'
<1>1. \A c \in ChunkId : Len(disk'[c]) \in Nat
  <2>1. appends' \in Nat /\ DiskNumbered(disk', appends')
    BY AppendStoreAssumption DEF Data, Counted, Numbered
  <2>2. QED
    BY <2>1, DiskTypes
<1>2. \A c \in ChunkId : synced'[c] \in Nat /\ synced'[c] <= Len(disk'[c])
  BY DEF Data, SyncedRight
<1>3. DurableIn(disk', synced') \subseteq StoredIn(disk')
  BY <1>1, <1>2, DurableStored
<1>4. Durable' = DurableIn(disk', synced') /\ Stored' = StoredIn(disk')
  BY DEF Durable, Stored, ItemsIn, DurableIn, StoredIn
<1>5. Durable' \subseteq given'
  BY <1>3, <1>4 DEF Data, AckedHeld
<1>6. QED
  BY <1>5 DEF AbstractDurable, Contents

(* PutRecord gives the item after the last one of the writer. *)
LEMMA PutGives ==
    ASSUME NEW d, NEW w, w \in Writers, NEW v, PutRecord(d, w, v)
    PROVE  given' = given \cup {Item(w.id, w.mMaxIndex + 1, v)}
BY DEF PutRecord, Writers

-----------------------------------------------------------------------------
(* The steps of the interface. *)

LEMMA PutStep ==
    ASSUME Data', Durable \subseteq Durable', NEW c \in ChunkId, NEW i \in 0..MaxAppends,
           NEW v \in Value, given' = given \cup {Item(c, i, v)}, UNCHANGED answer,
           \A x \in given : ~(x.chunk = c /\ x.index = i)
    PROVE  Interface!Next
<1> DEFINE h == [chunk |-> c, index |-> i]
<1>1. h \in AbstractHandle
  BY DEF AbstractHandle
<1>2. \A p \in Contents : p.handle # h
  <2>1. ASSUME NEW p \in Contents, p.handle = h PROVE FALSE
    <3>1. PICK x \in given : p = Abstract(x)
      BY DEF Contents
    <3>2. x.chunk = p.handle.chunk /\ x.index = p.handle.index
      BY <3>1, AbstractFields
    <3>3. h.chunk = c /\ h.index = i
      OBVIOUS
    <3>4. QED
      BY <2>1, <3>1, <3>2, <3>3
  <2>2. QED
    BY <2>1
<1>3. Contents' = Contents \cup {Interface!Pair(h, v)}
  <2>1. Contents' = {Abstract(x) : x \in given'}
    BY DEF Contents, Abstract
  <2>2. Contents' = Contents \cup {Abstract(Item(c, i, v))}
    BY <2>1 DEF Contents
  <2>3. QED
    BY <2>2, AbstractItem
<1>4. AbstractDurable \subseteq AbstractDurable' /\ AbstractDurable' \subseteq Contents'
  BY Hardening
<1>5. Abstract(answer)' = Abstract(answer)
  BY DEF Abstract
<1>6. Interface!Put(h, v)
  BY <1>2, <1>3, <1>4, <1>5 DEF Interface!Put, Interface!Hardens, Contents, AbstractDurable
<1>7. QED
  BY <1>1, <1>6 DEF Interface!Next

LEMMA GetStep ==
    ASSUME Data, Data', Durable \subseteq Durable', UNCHANGED given, AnswerRight'
    PROVE  Interface!Next
<1>1. Contents' = Contents
  BY DEF Contents, Abstract
<1>2. AbstractDurable \subseteq AbstractDurable' /\ AbstractDurable' \subseteq Contents'
  BY Hardening
<1>3. \/ answer' \in given
      \/ \E c \in ChunkId, i \in 0..MaxAppends : answer' = Item(c, i, NoValue)
  BY DEF AnswerRight
<1>4. PICK h \in AbstractHandle :
          \/ Abstract(answer') = Interface!Pair(h, NoValue)
          \/ \E p \in Contents : p.handle = h /\ Abstract(answer') = p
  <2>1. CASE answer' \in given
    <3>1. Abstract(answer') \in Contents
      BY <2>1 DEF Contents
    <3>2. Abstract(answer').handle \in AbstractHandle
      <4>1. appends \in 0..MaxAppends /\ MaxAppends \in Nat
        BY AppendStoreAssumption DEF Data, Counted
      <4>2. answer'.chunk \in ChunkId /\ answer'.index \in Nat /\ answer'.index <= appends
        BY <2>1, GivenTypes
      <4>3. answer'.index \in 0..MaxAppends
        BY <4>1, <4>2
      <4>4. Abstract(answer').handle = [chunk |-> answer'.chunk, index |-> answer'.index]
        BY AbstractFields
      <4>5. QED
        BY <4>2, <4>3, <4>4 DEF AbstractHandle
    <3>3. QED
      BY <3>1, <3>2
  <2>2. CASE \E c \in ChunkId, i \in 0..MaxAppends : answer' = Item(c, i, NoValue)
    <3>1. PICK c \in ChunkId, i \in 0..MaxAppends : answer' = Item(c, i, NoValue)
      BY <2>2
    <3>2. [chunk |-> c, index |-> i] \in AbstractHandle
      BY DEF AbstractHandle
    <3>3. QED
      BY <3>1, <3>2, AbstractItem
  <2>3. QED
    BY <1>3, <2>1, <2>2
<1>5. Abstract(answer)' = Abstract(answer')
  BY DEF Abstract
<1>6. Interface!Get(h)
  BY <1>1, <1>2, <1>4, <1>5 DEF Interface!Get, Interface!Hardens, Contents, AbstractDurable
<1>7. QED
  BY <1>6 DEF Interface!Next

LEMMA DieStep ==
    ASSUME IInv, Die
    PROVE  Interface!Next
<1>1. Data' /\ Durable \subseteq Durable' /\ given' \subseteq given /\ given' \subseteq Durable'
  BY IInvParts, DieData
<1>2. AbstractDurable \subseteq AbstractDurable' /\ AbstractDurable' \subseteq Contents'
  BY <1>1, Hardening
<1>3. Contents' \subseteq Contents
  BY <1>1 DEF Contents, Abstract
<1>4. Abstract(answer)' \in Interface!NoAnswers
  <2>1. answer' = Item(0, 0, NoValue)
    BY DEF Die, Gone, NoAnswer
  <2>2. [chunk |-> 0, index |-> 0] \in AbstractHandle
    BY AppendStoreAssumption DEF AbstractHandle, ChunkId
  <2>3. Abstract(answer') = Interface!Pair([chunk |-> 0, index |-> 0], NoValue)
    BY <2>1, AbstractItem
  <2>4. Abstract(answer)' = Abstract(answer')
    BY DEF Abstract
  <2>5. QED
    BY <2>2, <2>3, <2>4 DEF Interface!NoAnswers
<1>5. Interface!Lose
  BY <1>2, <1>3, <1>4 DEF Interface!Lose, Interface!Hardens, Interface!Forgets, Contents,
                          AbstractDurable
<1>6. QED
  BY <1>5 DEF Interface!Next

LEMMA AppendStep ==
    ASSUME IInv, NEW v \in Value, AppendToCurrent(v) \/ AppendToNext(v) \/ AppendToLoaded(v)
    PROVE  Interface!Next
<1>1. Data' /\ Keeps /\ Data /\ SessionRight
  BY IInvParts, AppendToCurrentData, AppendToNextData, AppendToLoadedData
<1>2. Durable \subseteq Durable' /\ UNCHANGED answer
  BY <1>1, DurableKept DEF AppendToCurrent, AppendToNext, AppendToLoaded
<1>3. /\ appends \in Nat /\ DiskNumbered(disk, appends)
      /\ WriterNumbered(disk, writer, appends) /\ MaxAppends \in Nat /\ appends < MaxAppends
      /\ given = StoredIn(disk) \cup BufferedIn(writer)
  BY <1>1, DataTypes, AppendStoreAssumption, StoreNames
     DEF AppendToCurrent, AppendToNext, AppendToLoaded, MayAppend, Data, AckedHeld
<1>4. ASSUME NEW w, w.state # "none", WriterNumbered(disk, w, appends),
             given' = given \cup {Item(w.id, w.mMaxIndex + 1, v)},
             \A x \in given : x.chunk = w.id => x \in StoredIn(disk) \cup BufferedIn(w)
      PROVE  Interface!Next
  <2>1. w.id \in ChunkId /\ w.mMaxIndex \in Nat /\ w.mMaxIndex <= appends
    BY <1>3, <1>4, WriterTypes DEF WriterNumbered
  <2>2. w.mMaxIndex + 1 \in 0..MaxAppends
    BY <1>3, <2>1
  <2>3. ASSUME NEW x \in given, x.chunk = w.id, x.index = w.mMaxIndex + 1 PROVE FALSE
    <3>1. x \in StoredIn(disk) \cup BufferedIn(w)
      BY <1>4, <2>3
    <3>2. x.index <= w.mMaxIndex /\ x.index \in Int
      BY <1>3, <1>4, <2>3, <3>1, HandleIsNew
    <3>3. QED
      BY <2>1, <2>3, <3>2
  <2>4. QED
    BY <1>1, <1>2, <1>4, <2>1, <2>2, <2>3, PutStep
<1>5. CASE AppendToCurrent(v)
  <2> DEFINE w == TurnedOn(writer)
  <2>1. /\ writer.state # "none" /\ PutRecord(disk, w, v)
        /\ Len(writer.stream) < BlockIndexInterval
    BY <1>1, <1>5 DEF AppendToCurrent, Data, Numbered
  <2>2. /\ WriterNumbered(disk, w, appends) /\ w.state = "open"
        /\ w.stream = writer.stream /\ BufferedIn(w) = BufferedIn(writer)
    BY <1>3, <2>1, TurnedOnProps
  <2>3. w.state # "none" /\ Len(w.stream) < BlockIndexInterval
    BY <2>1, <2>2
  <2>4. given' = given \cup {Item(w.id, w.mMaxIndex + 1, v)}
    BY <1>3, <2>1, <2>2, <2>3, PutProps
  <2> HIDE DEF w
  <2>5. QED
    BY <1>3, <1>4, <2>2, <2>3, <2>4
<1>6. CASE AppendToNext(v) \/ (AppendToLoaded(v) /\ ~IsChunkFull(Loaded(mAppendChunkId)))
  <2> DEFINE c == IF AppendToNext(v) THEN mMaxChunkId + 1 ELSE mAppendChunkId
  <2>1. /\ c \in ChunkId
        /\ \A x \in BufferedIn(writer) : x.chunk # c
        /\ \E d : PutRecord(d, Loaded(c), v)
    <3>1. CASE AppendToNext(v)
      <4>1. /\ writer.state # "none" /\ mMaxChunkId < MaxChunk /\ c = mMaxChunkId + 1
            /\ PutRecord(DiskFlushed(disk, TurnedOn(writer)), Loaded(mMaxChunkId + 1), v)
        BY <3>1 DEF AppendToNext
      <4>2. mMaxChunkId \in ChunkId /\ writer.id = mMaxChunkId
        BY <1>1, <4>1 DEF SessionRight
      <4>3. mMaxChunkId + 1 \in ChunkId /\ mMaxChunkId # mMaxChunkId + 1
        BY <4>1, <4>2, AppendStoreAssumption DEF ChunkId
      <4>4. \A x \in BufferedIn(writer) : x.chunk = writer.id
        BY ItemFields DEF BufferedIn
      <4>5. QED
        BY <4>1, <4>2, <4>3, <4>4
    <3>2. CASE ~AppendToNext(v)
      <4>1. /\ writer.state = "none" /\ c = mAppendChunkId
            /\ PutRecord(disk, Loaded(mAppendChunkId), v)
        BY <1>6, <3>2 DEF AppendToLoaded
      <4>2. BufferedIn(writer) = {} /\ mAppendChunkId \in ChunkId
        BY <1>1, <1>3, <4>1, NoStream DEF WriterNumbered, SessionRight
      <4>3. QED
        BY <4>1, <4>2
    <3>3. QED
      BY <3>1, <3>2
  <2> DEFINE w == Loaded(c)
  <2> HIDE DEF c
  <2>2. /\ WriterNumbered(disk, w, appends) /\ w.state = "open" /\ w.id = c
        /\ BufferedIn(w) = {}
    BY <1>3, <2>1, LoadedProps
  <2>3. given' = given \cup {Item(w.id, w.mMaxIndex + 1, v)}
    <3>1. w \in Writers
      BY <2>2 DEF WriterNumbered
    <3>2. QED
      BY <2>1, <3>1, PutGives
  <2>4. \A x \in given : x.chunk = w.id => x \in StoredIn(disk) \cup BufferedIn(w)
    BY <1>3, <2>1, <2>2
  <2> HIDE DEF w
  <2>5. w.state # "none"
    BY <2>2
  <2>6. QED
    BY <1>4, <2>2, <2>3, <2>4, <2>5
<1>7. CASE AppendToLoaded(v) /\ IsChunkFull(Loaded(mAppendChunkId))
  <2>1. given' = given
    BY <1>7 DEF AppendToLoaded
  <2>2. AnswerRight'
    BY <1>7, StepAppendToLoaded DEF IInv
  <2>3. QED
    BY <1>1, <1>2, <2>1, <2>2, GetStep
<1>8. QED
  BY <1>5, <1>6, <1>7

LEMMA OtherStep ==
    ASSUME IInv, IInv',
           \/ \E mode \in {"append", "read"} : Open(mode)
           \/ Flush \/ Reload \/ GarbageCollection
           \/ \E c \in ChunkId, i \in 1..MaxAppends :
                  ReadCached(c, i) \/ ReadNoChunk(c, i) \/ ReadLoaded(c, i) \/ ReadNew(c, i)
           \/ \E c \in ChunkId : Remove(c)
           \/ Close \/ Drop
    PROVE  Interface!Next
<1>1. Data /\ SessionRight /\ Data' /\ AnswerRight'
  BY IInvParts DEF IInv, Data
<1>2. CASE Flush \/ Close \/ Drop
  <2>1. Keeps /\ UNCHANGED given
    BY <1>1, <1>2, FlushData, CloseData, DropData DEF Flush, Close, Drop
  <2>2. QED
    BY <1>1, <2>1, DurableKept, GetStep
<1>3. CASE \E c \in ChunkId, i \in 1..MaxAppends : ReadLoaded(c, i) \/ ReadNew(c, i)
  <2>1. PICK c \in ChunkId, i \in 1..MaxAppends : ReadLoaded(c, i) \/ ReadNew(c, i)
    BY <1>3
  <2>2. TurnOnRead(c) /\ UNCHANGED <<disk, appends, deaths, given>>
    BY <2>1 DEF ReadLoaded, ReadNew, boundVars
  <2>3. Keeps
    BY <1>1, <2>2, TurnOnReadData
  <2>4. QED
    BY <1>1, <2>2, <2>3, DurableKept, GetStep
<1>4. CASE \/ \E mode \in {"append", "read"} : Open(mode)
           \/ Reload \/ GarbageCollection
           \/ \E c \in ChunkId, i \in 1..MaxAppends : ReadCached(c, i) \/ ReadNoChunk(c, i)
           \/ \E c \in ChunkId : Remove(c)
  <2>1. UNCHANGED <<disk, synced, given>>
    BY <1>4 DEF Open, Reload, GarbageCollection, ReadCached, ReadNoChunk, Remove, diskVars
  <2>2. Durable' = Durable
    BY <2>1 DEF Durable, ItemsIn
  <2>3. QED
    BY <1>1, <2>1, <2>2, GetStep
<1>5. QED
  BY <1>2, <1>3, <1>4

(* The append store keeps the promises of the interface: no handle is given
   twice, data is lost only when the process dies and never once it is durable,
   and Read answers with the data of a handle or says that it has none. *)
THEOREM KeepsPromises ==
    Spec => ImplementsHandleStore
<1>1. Init => Interface!Init
  <2> SUFFICES ASSUME Init PROVE Interface!Init
    OBVIOUS
  <2>1. given = {} /\ answer = Item(0, 0, NoValue) /\ IInv
    BY InitRight DEF Init, NoAnswer
  <2>2. Durable = {}
    <3>1. \A c \in ChunkId : synced[c] = 0
      BY DEF Init
    <3>2. QED
      BY <3>1, StoreNames, DurableDef
  <2>3. [chunk |-> 0, index |-> 0] \in AbstractHandle
    BY AppendStoreAssumption DEF AbstractHandle, ChunkId
  <2>4. Abstract(answer) \in Interface!NoAnswers
    BY <2>1, <2>3, AbstractItem DEF Interface!NoAnswers
  <2>5. QED
    BY <2>1, <2>2, <2>4 DEF Interface!Init
<1>2. IInv /\ IInv' /\ [Next]_vars => [Interface!Next]_(Interface!vars)
  <2> SUFFICES ASSUME IInv, IInv', [Next]_vars PROVE [Interface!Next]_(Interface!vars)
    OBVIOUS
  <2>1. CASE Next
    BY <2>1, AppendStep, OtherStep, DieStep DEF Next
  <2>2. CASE UNCHANGED vars
    BY <2>2 DEF vars, diskVars, Interface!vars, Durable, ItemsIn, Abstract
  <2>3. QED
    BY <2>1, <2>2
<1>3. QED
  BY <1>1, <1>2, Invariant, PTL DEF Spec, ImplementsHandleStore, Interface!Spec

-----------------------------------------------------------------------------
(***************************************************************************)
(* What the interface promises of every store that keeps it, and so of     *)
(* this one.                                                               *)
(***************************************************************************)
LEMMA InterfaceInit ==
    Interface!Init => Interface!TypeOK /\ Interface!OneValue
BY DEF Interface!Init, Interface!TypeOK, Interface!OneValue, Interface!NoAnswers, Interface!Pair

LEMMA InterfaceNext ==
    Interface!TypeOK /\ Interface!OneValue /\ [Interface!Next]_(Interface!vars)
        => Interface!TypeOK' /\ Interface!OneValue'
<1> SUFFICES ASSUME Interface!TypeOK, Interface!OneValue, [Interface!Next]_(Interface!vars)
             PROVE  Interface!TypeOK' /\ Interface!OneValue'
  OBVIOUS
<1> USE DEF Interface!TypeOK, Interface!OneValue
<1>1. ASSUME NEW h \in AbstractHandle, NEW v \in Value, Interface!Put(h, v)
      PROVE  Interface!TypeOK' /\ Interface!OneValue'
  BY <1>1 DEF Interface!Put, Interface!Hardens, Interface!Pair
<1>2. ASSUME NEW h \in AbstractHandle, Interface!Get(h)
      PROVE  Interface!TypeOK' /\ Interface!OneValue'
  BY <1>2 DEF Interface!Get, Interface!Hardens, Interface!Pair
<1>3. CASE Interface!Sync \/ Interface!Lose
  <2>1. CASE Interface!Sync
    BY <2>1, SMTT(30) DEF Interface!Sync, Interface!Forgets, Interface!Hardens,
                          Interface!NoAnswers, Interface!Pair
  <2>2. CASE Interface!Lose
    BY <2>2, SMTT(30) DEF Interface!Lose, Interface!Forgets, Interface!Hardens,
                          Interface!NoAnswers, Interface!Pair
  <2>3. QED
    BY <1>3, <2>1, <2>2
<1>4. CASE UNCHANGED Interface!vars
  BY <1>4 DEF Interface!vars
<1>5. QED
  BY <1>1, <1>2, <1>3, <1>4 DEF Interface!Next

(* No two data of the store have one handle: after any reloads, roll-overs and deaths, a
   handle that Append returned is the handle of that data alone, of what was durable too. *)
THEOREM OneValuePerHandle ==
    Spec => [](Interface!TypeOK /\ Interface!OneValue)
<1>1. Interface!Spec => [](Interface!TypeOK /\ Interface!OneValue)
  BY InterfaceInit, InterfaceNext, PTL DEF Interface!Spec
<1>2. QED
  BY <1>1, KeepsPromises, PTL DEF ImplementsHandleStore

-----------------------------------------------------------------------------
(***************************************************************************)
(* Scanner, for every set of stores: whatever their chunks, blocks and     *)
(* records are, and whichever records are removed while a scan goes on.    *)
(***************************************************************************)
Sorted(s) == \A j, k \in 1..Len(s) : j < k => s[j] < s[k]

ScanOpen == pc \in {"scanning", "done"} /\ chunks # << >>

Types ==
    /\ chunks \in Stores
    /\ log \in [ChunkIds -> SUBSET Nat]
    /\ \A c \in ChunkIds : log[c] \subseteq (IF c \in DOMAIN chunks THEN IndicesIn(chunks[c]) ELSE {})
    /\ pc \in {"none", "scanning", "done", "dead"}
    /\ returned \in Seq(Items)
    /\ pc = "none" => /\ returned = << >> /\ removedBefore = NoLog
                      /\ blocksRead = 0 /\ mDataStream = << >>
    /\ mChunkList \in Seq(DOMAIN chunks)

(* The chunk that is read, and those behind it. *)
AtChunk ==
    /\ mChunkId \in DOMAIN chunks
    /\ Sorted(mChunkList)
    /\ \A k \in 1..Len(mChunkList) : mChunkId < mChunkList[k]
    /\ \A c \in DOMAIN chunks : mChunkId < c => \E k \in 1..Len(mChunkList) : mChunkList[k] = c

(* What is left of the block that was read last. *)
AtRecord ==
    /\ blocksRead \in 0..Len(chunks[mChunkId])
    /\ mDataStream \in Seq(Nat)
    /\ blocksRead = 0 => mDataStream = << >>
    /\ blocksRead # 0 =>
           LET block == chunks[mChunkId][blocksRead]
           IN  /\ Len(mDataStream) <= Len(block)
               /\ \A j \in 1..Len(mDataStream) :
                      mDataStream[j] = block[Len(block) - Len(mDataStream) + j]

AtEnd == mDataStream = << >> /\ blocksRead = Len(chunks[mChunkId]) /\ mChunkList = << >>

SInv ==
    /\ Types
    /\ ScanOpen => AtChunk /\ AtRecord
    /\ pc = "done" => chunks # << >> /\ AtEnd

(* The records that the scanner has passed, to return or to skip them. *)
PassedAt(b, k) ==
    /\ b \in 1..blocksRead /\ k \in 1..Len(chunks[mChunkId][b])
    /\ b = blocksRead => k <= Len(chunks[mChunkId][b]) - Len(mDataStream)

PassedIndex(i) == \E b, k \in Nat : PassedAt(b, k) /\ chunks[mChunkId][b][k] = i

Passed(h) ==
    /\ ScanOpen /\ h \in Items
    /\ h[1] < mChunkId \/ (h[1] = mChunkId /\ PassedIndex(h[2]))

(* The chunk from which a scan starts. *)
AtFirst == \A c \in DOMAIN chunks : mChunkId <= c

(* What was returned of the records that were passed. *)
PInv ==
    /\ \A h \in Items : Returned(h) => Passed(h)
    /\ log = NoLog => removedBefore = NoLog /\ mDeleteSet = {}
    /\ log = NoLog => \A h \in Items : Passed(h) => Returned(h)
    /\ ScanOpen /\ AtFirst => mDeleteSet = removedBefore[mChunkId]
    /\ \A h \in FirstChunk : Passed(h) => (Returned(h) <=> h \notin Removed(removedBefore))

-----------------------------------------------------------------------------
(* The stores, and the list of their chunks. *)

LEMMA StoreTypes ==
    ASSUME chunks \in Stores
    PROVE  /\ DOMAIN chunks \subseteq ChunkIds /\ DOMAIN chunks \subseteq Nat /\ IsFiniteSet(DOMAIN chunks)
           /\ chunks # << >> <=> DOMAIN chunks # {}
           /\ \A c \in DOMAIN chunks : chunks[c] \in Seq(Seq(Nat)) /\ IndicesIn(chunks[c]) \subseteq Nat
           /\ \A h \in Items : /\ h[1] \in DOMAIN chunks /\ h[2] \in IndicesIn(chunks[h[1]])
                               /\ h = Handle(h[1], h[2])
           /\ \A c \in DOMAIN chunks : \A i \in IndicesIn(chunks[c]) : Handle(c, i) \in Items
<1>1. /\ DOMAIN chunks \subseteq ChunkIds /\ DOMAIN chunks \subseteq Nat /\ IsFiniteSet(DOMAIN chunks)
      /\ chunks \in [DOMAIN chunks -> Seq(Seq(Nat))]
  BY ScannerAssumption
<1>2. chunks # << >> <=> DOMAIN chunks # {}
  BY <1>1
<1>3. ASSUME NEW c \in DOMAIN chunks
      PROVE  chunks[c] \in Seq(Seq(Nat)) /\ IndicesIn(chunks[c]) \subseteq Nat
  <2>1. chunks[c] \in Seq(Seq(Nat))
    BY <1>1
  <2>2. \A b \in DOMAIN chunks[c] : chunks[c][b] \in Seq(Nat)
    BY <2>1, LenProperties, ElementOfSeq
  <2>3. \A b \in DOMAIN chunks[c] : \A k \in DOMAIN chunks[c][b] : chunks[c][b][k] \in Nat
    BY <2>2, LenProperties, ElementOfSeq
  <2>4. QED
    BY <2>1, <2>3 DEF IndicesIn
<1>4. /\ \A h \in Items : /\ h[1] \in DOMAIN chunks /\ h[2] \in IndicesIn(chunks[h[1]])
                          /\ h = Handle(h[1], h[2])
      /\ \A c \in DOMAIN chunks : \A i \in IndicesIn(chunks[c]) : Handle(c, i) \in Items
  BY DEF Items, Handle
<1>5. QED
  BY <1>1, <1>2, <1>3, <1>4

(* A finite set of numbers is the range of a sorted list of its size: the n-th is
   the one with n members up to it. *)
LEMMA SortedListExists ==
    ASSUME NEW S \in SUBSET Nat, IsFiniteSet(S)
    PROVE  \E list \in [1..Cardinality(S) -> S] : \A j, k \in DOMAIN list : j < k => list[j] < list[k]
<1> DEFINE Upto(q) == {x \in S : x <= q}
           size == Cardinality(S)
           f == [q \in S |-> Cardinality(Upto(q))]
           At(n) == CHOOSE q \in S : f[q] = n
           list == [n \in 1..size |-> At(n)]
<1>1. size \in Nat
  BY FS_CardinalityType
<1>2. \A q \in S : /\ IsFiniteSet(Upto(q)) /\ Cardinality(Upto(q)) \in Nat
                   /\ Cardinality(Upto(q)) <= size
  <2> TAKE q \in S
  <2>1. Upto(q) \in SUBSET S
    OBVIOUS
  <2>2. QED
    BY <2>1, FS_Subset, FS_CardinalityType
<1>3. \A q \in S : Cardinality(Upto(q)) # 0
  <2> TAKE q \in S
  <2>1. q \in Upto(q)
    OBVIOUS
  <2>2. QED
    BY <1>2, <2>1, FS_EmptySet
<1>4. ASSUME NEW q \in S, NEW r \in S, q < r
      PROVE  Cardinality(Upto(q)) < Cardinality(Upto(r))
  <2>1. q \in Nat /\ r \in Nat /\ \A x \in S : x \in Nat /\ (x <= q => x <= r)
    BY <1>4
  <2>2. Upto(q) \in SUBSET Upto(r)
    BY <2>1
  <2>3. Upto(q) # Upto(r)
    <3>1. r \in Upto(r) /\ r \notin Upto(q)
      BY <1>4, <2>1
    <3>2. QED
      BY <3>1
  <2>4. Cardinality(Upto(q)) <= Cardinality(Upto(r)) /\ Cardinality(Upto(q)) # Cardinality(Upto(r))
    BY <1>2, <2>2, <2>3, FS_Subset
  <2>5. QED
    BY <1>2, <2>4
<1>5. /\ \A q \in S : f[q] \in 1..size
      /\ \A q, r \in S : q < r => f[q] < f[r]
  BY <1>1, <1>2, <1>3, <1>4
<1> HIDE DEF size, f
<1>6. f \in [S -> 1..size]
  BY <1>5 DEF f
<1>7. \A q, r \in S : f[q] = f[r] => q = r
  <2> TAKE q \in S, r \in S
  <2>1. q \in Nat /\ r \in Nat /\ f[q] \in Nat /\ f[r] \in Nat
    BY <1>1, <1>5
  <2>2. QED
    BY <1>5, <2>1
<1>8. f \in Surjection(S, 1..size)
  <2>1. f \in Injection(S, 1..size)
    BY <1>6, <1>7 DEF Injection, IsInjective
  <2>2. IsFiniteSet(1..size) /\ Cardinality(1..size) = size
    BY <1>1, FS_Interval
  <2>3. Cardinality(S) = Cardinality(1..size)
    BY <2>2 DEF size
  <2>4. QED
    BY <2>1, <2>2, <2>3, FS_Injection
<1>9. \A n \in 1..size : \E q \in S : f[q] = n
  BY <1>8 DEF Surjection
<1>10. \A n \in 1..size : At(n) \in S /\ f[At(n)] = n
  BY <1>9
<1> HIDE DEF At
<1>11. ASSUME NEW j \in 1..size, NEW k \in 1..size, j < k
       PROVE  At(j) < At(k)
  <2>1. At(j) \in Nat /\ At(k) \in Nat /\ At(j) \in S /\ At(k) \in S /\ f[At(j)] = j /\ f[At(k)] = k
    BY <1>10
  <2>2. ~(At(k) < At(j)) /\ At(k) # At(j)
    BY <1>1, <1>5, <1>11, <2>1
  <2>3. QED
    BY <2>1, <2>2
<1>12. list \in [1..size -> S] /\ \A j, k \in DOMAIN list : j < k => list[j] < list[k]
  BY <1>10, <1>11
<1>13. QED
  BY <1>12 DEF size

LEMMA ChunkListProps ==
    ASSUME chunks \in Stores
    PROVE  /\ GetAllChunkID \in Seq(DOMAIN chunks) /\ Sorted(GetAllChunkID)
           /\ GetAllChunkID = << >> <=> chunks = << >>
           /\ \A c \in DOMAIN chunks : \E k \in 1..Len(GetAllChunkID) : GetAllChunkID[k] = c
<1> DEFINE D == DOMAIN chunks
           size == Cardinality(D)
           list == GetAllChunkID
<1>1. D \in SUBSET Nat /\ IsFiniteSet(D) /\ (chunks # << >> <=> D # {})
  BY StoreTypes
<1>2. size \in Nat /\ (size = 0 <=> D = {})
  BY <1>1, FS_CardinalityType, FS_EmptySet
<1>3. \E l \in [1..size -> D] : \A j, k \in DOMAIN l : j < k => l[j] < l[k]
  BY <1>1, SortedListExists
<1>4. list \in [1..size -> D] /\ \A j, k \in DOMAIN list : j < k => list[j] < list[k]
  BY <1>3 DEF GetAllChunkID
<1> HIDE DEF list, size, D
<1>5. \A n \in 1..size : list[n] \in D
  BY <1>4
<1>6. list = [n \in 1..size |-> list[n]] /\ DOMAIN list = 1..size
  BY <1>4
<1>7. list \in Seq(D) /\ Len(list) = size
  <2>1. [n \in 1..size |-> list[n]] \in Seq(D)
    BY <1>2, <1>5, IsASeq
  <2>2. Len([n \in 1..size |-> list[n]]) = size
    BY <1>2, <2>1, LenProperties
  <2>3. QED
    BY <1>6, <2>1, <2>2
<1>8. \A c \in D : \E k \in 1..size : list[k] = c
  <2>1. ASSUME NEW j \in 1..size, NEW k \in 1..size, list[j] = list[k]
        PROVE  j = k
    <3>1. j \in Nat /\ k \in Nat /\ list[j] \in Nat /\ list[k] \in Nat
      <4>1. j \in Nat /\ k \in Nat
        BY <1>2
      <4>2. list[j] \in D /\ list[k] \in D
        BY <1>5
      <4>3. QED
        BY <1>1, <4>1, <4>2
    <3>2. ~(j < k) /\ ~(k < j)
      BY <1>4, <1>6, <2>1, <3>1
    <3>3. QED
      BY <3>1, <3>2
  <2>2. list \in Injection(1..size, D)
    BY <1>4, <2>1 DEF Injection, IsInjective
  <2>3. Cardinality(1..size) = size
    BY <1>2, FS_Interval
  <2>4. Cardinality(1..size) = Cardinality(D)
    BY <2>3 DEF size
  <2>5. list \in Surjection(1..size, D)
    BY <1>1, <2>2, <2>4, FS_Injection
  <2>6. QED
    BY <2>5 DEF Surjection
<1>9. Sorted(list)
  BY <1>4, <1>6, <1>7 DEF Sorted
<1>10. list = << >> <=> size = 0
  BY <1>2, <1>7, EmptySeq
<1>11. QED
  BY <1>1, <1>2, <1>7, <1>8, <1>9, <1>10 DEF list, D

LEMMA HeadTail ==
    ASSUME NEW T, NEW s \in Seq(T), s # << >>
    PROVE  /\ Head(s) = s[1] /\ Head(s) \in T /\ Tail(s) \in Seq(T)
           /\ Len(s) \in Nat /\ Len(s) > 0 /\ Len(Tail(s)) = Len(s) - 1 /\ Len(Tail(s)) \in Nat
           /\ \A j \in 1..Len(Tail(s)) : Tail(s)[j] = s[j + 1]
           /\ \A j \in 1..Len(s) : j = 1 \/ (j - 1 \in 1..Len(Tail(s)) /\ Tail(s)[j - 1] = s[j])
<1>1. /\ Head(s) = s[1] /\ Head(s) \in T /\ Tail(s) \in Seq(T) /\ Len(Tail(s)) = Len(s) - 1
      /\ \A j \in 1..Len(Tail(s)) : Tail(s)[j] = s[j + 1]
  BY HeadTailProperties
<1>2. Len(s) \in Nat /\ Len(s) > 0
  BY EmptySeq
<1>3. ASSUME NEW j \in 1..Len(s), j # 1
      PROVE  j - 1 \in 1..Len(Tail(s)) /\ Tail(s)[j - 1] = s[j]
  <2>1. j - 1 \in 1..Len(Tail(s)) /\ (j - 1) + 1 = j
    BY <1>1, <1>2, <1>3
  <2>2. QED
    BY <1>1, <2>1
<1>4. QED
  BY <1>1, <1>2, <1>3

-----------------------------------------------------------------------------
(* The types, and where the scanner is. *)

LEMMA InitSInv == ScanInit => SInv
<1> SUFFICES ASSUME ScanInit
             PROVE  SInv
  OBVIOUS
<1>1. log \in [ChunkIds -> SUBSET Nat] /\ \A c \in ChunkIds : log[c] = {}
  BY DEF ScanInit, NoLog
<1>2. Types
  BY <1>1 DEF ScanInit, Types
<1>3. ~ScanOpen /\ pc # "done"
  BY DEF ScanInit, ScanOpen
<1>4. QED
  BY <1>2, <1>3 DEF SInv

LEMMA RemoveTypes ==
    ASSUME SInv, NEW c \in DOMAIN chunks, NEW i \in IndicesIn(chunks[c]), RemoveRecord(c, i)
    PROVE  SInv'
<1>1. /\ log' = [log EXCEPT ![c] = @ \cup {i}]
      /\ UNCHANGED <<chunks, pc, mChunkList, mChunkId, blocksRead, mDataStream, returned, removedBefore>>
  BY DEF RemoveRecord, scannerVars
<1>2. c \in ChunkIds /\ i \in Nat /\ Types
  BY StoreTypes DEF SInv, Types
<1>3. /\ log' \in [ChunkIds -> SUBSET Nat]
      /\ \A d \in ChunkIds : log'[d] = IF d = c THEN log[c] \cup {i} ELSE log[d]
  BY <1>1, <1>2 DEF Types
<1>4. \A d \in ChunkIds : log'[d] \subseteq (IF d \in DOMAIN chunks THEN IndicesIn(chunks[d]) ELSE {})
  BY <1>2, <1>3 DEF Types
<1>5. Types'
  BY <1>1, <1>2, <1>3, <1>4 DEF Types, Items
<1>6. QED
  BY <1>1, <1>5 DEF SInv, ScanOpen, AtChunk, AtRecord, AtEnd

LEMMA InitScannerTypes ==
    ASSUME SInv, InitScanner
    PROVE  SInv'
<1>1. /\ pc = "none" /\ pc' = "scanning"
      /\ UNCHANGED <<chunks, log, blocksRead, mDataStream, returned>>
      /\ blocksRead = 0 /\ mDataStream = << >>
  BY DEF InitScanner, storeVars, SInv, Types
<1>2. chunks \in Stores /\ Types
  BY DEF SInv, Types
<1>3. CASE chunks = << >>
  <2>1. GetAllChunkID = << >> /\ UNCHANGED mChunkList
    BY <1>2, <1>3, ChunkListProps DEF InitScanner
  <2>2. Types'
    BY <1>1, <1>2, <2>1 DEF Types, Items
  <2>3. QED
    BY <1>1, <1>3, <2>2 DEF SInv, ScanOpen
<1>4. CASE chunks # << >>
  <2>1. /\ GetAllChunkID # << >> /\ GetAllChunkID \in Seq(DOMAIN chunks) /\ Sorted(GetAllChunkID)
        /\ \A c \in DOMAIN chunks : \E k \in 1..Len(GetAllChunkID) : GetAllChunkID[k] = c
    BY <1>2, <1>4, ChunkListProps
  <2> DEFINE list == GetAllChunkID
  <2>2. mChunkId' = Head(list) /\ mChunkList' = Tail(list)
    BY <2>1 DEF InitScanner
  <2> HIDE DEF list
  <2>3. /\ list \in Seq(DOMAIN chunks) /\ list # << >> /\ Sorted(list)
        /\ \A c \in DOMAIN chunks : \E k \in 1..Len(list) : list[k] = c
    BY <2>1 DEF list
  <2>4. /\ Head(list) = list[1] /\ Head(list) \in DOMAIN chunks /\ Tail(list) \in Seq(DOMAIN chunks)
        /\ Len(list) \in Nat /\ Len(list) > 0 /\ Len(Tail(list)) = Len(list) - 1
        /\ \A j \in 1..Len(Tail(list)) : Tail(list)[j] = list[j + 1]
        /\ \A j \in 1..Len(list) : j = 1 \/ (j - 1 \in 1..Len(Tail(list)) /\ Tail(list)[j - 1] = list[j])
    BY <2>3, HeadTail
  <2>5. Sorted(Tail(list)) /\ \A j \in 1..Len(Tail(list)) : Head(list) < Tail(list)[j]
    BY <2>3, <2>4 DEF Sorted
  <2>6. ASSUME NEW c \in DOMAIN chunks, Head(list) < c
        PROVE  \E k \in 1..Len(Tail(list)) : Tail(list)[k] = c
    <3>1. PICK k \in 1..Len(list) : list[k] = c
      BY <2>3
    <3>2. k # 1
      <4>1. c \in Nat
        BY <1>2, StoreTypes
      <4>2. QED
        BY <2>4, <2>6, <3>1, <4>1
    <3>3. QED
      BY <2>4, <3>1, <3>2
  <2>7. AtChunk'
    BY <1>1, <2>2, <2>4, <2>5, <2>6 DEF AtChunk
  <2>8. AtRecord'
    <3>1. chunks[Head(list)] \in Seq(Seq(Nat))
      BY <1>2, <2>4, StoreTypes
    <3>2. Len(chunks[Head(list)]) \in Nat
      BY <3>1, LenProperties
    <3>3. << >> \in Seq(Nat)
      OBVIOUS
    <3>4. QED
      BY <1>1, <2>2, <3>2, <3>3 DEF AtRecord
  <2>9. Types'
    BY <1>1, <1>2, <2>2, <2>4 DEF Types, Items
  <2>10. QED
    BY <1>1, <2>7, <2>8, <2>9 DEF SInv
<1>5. QED
  BY <1>3, <1>4

(* What a turn of Next finds. *)
LEMMA ScanningProps ==
    ASSUME SInv, Scanning
    PROVE  /\ ScanOpen /\ pc = "scanning" /\ chunks # << >> /\ Types /\ AtChunk /\ AtRecord
           /\ chunks \in Stores /\ mChunkId \in DOMAIN chunks /\ mChunkId \in Nat
           /\ chunks[mChunkId] \in Seq(Seq(Nat)) /\ Len(chunks[mChunkId]) \in Nat
           /\ \A b \in 1..Len(chunks[mChunkId]) :
                  chunks[mChunkId][b] \in Seq(Nat) /\ Len(chunks[mChunkId][b]) \in Nat
           /\ blocksRead \in Nat /\ blocksRead \in 0..Len(chunks[mChunkId])
           /\ mDataStream \in Seq(Nat) /\ Len(mDataStream) \in Nat
           /\ mDataStream # << >> => blocksRead \in 1..Len(chunks[mChunkId])
<1>1. ScanOpen /\ pc = "scanning" /\ chunks # << >> /\ Types /\ AtChunk /\ AtRecord /\ chunks \in Stores
  BY DEF SInv, Types, Scanning, ScanOpen
<1>2. mChunkId \in DOMAIN chunks /\ mChunkId \in Nat /\ chunks[mChunkId] \in Seq(Seq(Nat))
  BY <1>1, StoreTypes DEF AtChunk
<1>3. Len(chunks[mChunkId]) \in Nat
  BY <1>2, LenProperties
<1>4. \A b \in 1..Len(chunks[mChunkId]) :
          chunks[mChunkId][b] \in Seq(Nat) /\ Len(chunks[mChunkId][b]) \in Nat
  <2> TAKE b \in 1..Len(chunks[mChunkId])
  <2>1. chunks[mChunkId][b] \in Seq(Nat)
    BY <1>2, ElementOfSeq
  <2>2. QED
    BY <2>1, LenProperties
<1>5. mDataStream \in Seq(Nat) /\ Len(mDataStream) \in Nat
  BY <1>1, LenProperties DEF AtRecord
<1>6. blocksRead \in 0..Len(chunks[mChunkId]) /\ (mDataStream # << >> => blocksRead # 0)
  BY <1>1 DEF AtRecord
<1>7. QED
  BY <1>1, <1>2, <1>3, <1>4, <1>5, <1>6

LEMMA LoadBlockTypes ==
    ASSUME SInv, LoadBlock
    PROVE  SInv'
<1>1. /\ Scanning /\ blocksRead < Len(chunks[mChunkId])
      /\ mDataStream' = chunks[mChunkId][blocksRead + 1] /\ blocksRead' = blocksRead + 1
      /\ UNCHANGED <<chunks, log, pc, mChunkList, mChunkId, returned, removedBefore>>
  BY DEF LoadBlock, storeVars
<1>2. /\ pc = "scanning" /\ Types /\ AtChunk /\ blocksRead \in Nat /\ Len(chunks[mChunkId]) \in Nat
      /\ \A b \in 1..Len(chunks[mChunkId]) :
             chunks[mChunkId][b] \in Seq(Nat) /\ Len(chunks[mChunkId][b]) \in Nat
  BY <1>1, ScanningProps
<1>3. blocksRead + 1 \in 1..Len(chunks[mChunkId]) /\ blocksRead + 1 # 0
  BY <1>1, <1>2
<1>4. AtRecord'
  <2>1. mDataStream' \in Seq(Nat) /\ Len(mDataStream') \in Nat
    BY <1>1, <1>2, <1>3
  <2>2. \A j \in 1..Len(mDataStream') : Len(mDataStream') - Len(mDataStream') + j = j
    BY <2>1
  <2>3. QED
    BY <1>1, <1>2, <1>3, <2>1, <2>2 DEF AtRecord
<1>5. Types'
  BY <1>1, <1>2 DEF Types, Items
<1>6. AtChunk'
  BY <1>1, <1>2 DEF AtChunk
<1>7. QED
  BY <1>1, <1>2, <1>4, <1>5, <1>6 DEF SInv

LEMMA NextChunkTypes ==
    ASSUME SInv, NextChunk
    PROVE  SInv'
<1>1. /\ Scanning /\ mChunkList # << >> /\ mDataStream = << >>
      /\ mChunkId' = Head(mChunkList) /\ mChunkList' = Tail(mChunkList) /\ blocksRead' = 0
      /\ UNCHANGED <<chunks, log, pc, mDataStream, returned, removedBefore>>
  BY DEF NextChunk, AtEndOfChunk, storeVars
<1>2. pc = "scanning" /\ Types /\ AtChunk /\ chunks \in Stores /\ mChunkId \in Nat
  BY <1>1, ScanningProps
<1>3. /\ Head(mChunkList) = mChunkList[1] /\ Head(mChunkList) \in DOMAIN chunks
      /\ Tail(mChunkList) \in Seq(DOMAIN chunks)
      /\ Len(mChunkList) \in Nat /\ Len(mChunkList) > 0 /\ Len(Tail(mChunkList)) = Len(mChunkList) - 1
      /\ \A j \in 1..Len(Tail(mChunkList)) : Tail(mChunkList)[j] = mChunkList[j + 1]
      /\ \A j \in 1..Len(mChunkList) : j = 1 \/ (/\ j - 1 \in 1..Len(Tail(mChunkList))
                                               /\ Tail(mChunkList)[j - 1] = mChunkList[j])
  BY <1>1, <1>2, HeadTail DEF Types
<1>4. /\ Sorted(Tail(mChunkList))
      /\ \A j \in 1..Len(Tail(mChunkList)) : Head(mChunkList) < Tail(mChunkList)[j]
  BY <1>2, <1>3 DEF AtChunk, Sorted
<1>5. ASSUME NEW c \in DOMAIN chunks, Head(mChunkList) < c
      PROVE  \E k \in 1..Len(Tail(mChunkList)) : Tail(mChunkList)[k] = c
  <2>1. c \in Nat /\ Head(mChunkList) \in Nat
    BY <1>2, <1>3, StoreTypes
  <2>2. mChunkId < Head(mChunkList)
    <3>1. 1 \in 1..Len(mChunkList)
      BY <1>3
    <3>2. QED
      BY <1>2, <1>3, <3>1 DEF AtChunk
  <2>3. mChunkId < c
    BY <1>2, <1>5, <2>1, <2>2
  <2>4. PICK k \in 1..Len(mChunkList) : mChunkList[k] = c
    BY <1>2, <2>3 DEF AtChunk
  <2>5. k # 1
    BY <1>3, <1>5, <2>1, <2>4
  <2>6. QED
    BY <1>3, <2>4, <2>5
<1>6. AtChunk'
  BY <1>1, <1>3, <1>4, <1>5 DEF AtChunk
<1>7. AtRecord'
  <2>1. chunks[Head(mChunkList)] \in Seq(Seq(Nat))
    BY <1>2, <1>3, StoreTypes
  <2>2. Len(chunks[Head(mChunkList)]) \in Nat
    BY <2>1, LenProperties
  <2>3. << >> \in Seq(Nat)
    OBVIOUS
  <2>4. QED
    BY <1>1, <2>2, <2>3 DEF AtRecord
<1>8. Types'
  BY <1>1, <1>2, <1>3 DEF Types, Items
<1>9. QED
  BY <1>1, <1>2, <1>6, <1>7, <1>8 DEF SInv

(* The next record is one of the block that was read last. *)
LEMMA HeadInItems ==
    ASSUME SInv, Scanning, mDataStream # << >>
    PROVE  /\ Handle(mChunkId, Head(mDataStream)) \in Items
           /\ LET block == chunks[mChunkId][blocksRead]
                  k == Len(block) - Len(mDataStream) + 1
              IN  k \in 1..Len(block) /\ Head(mDataStream) = block[k]
<1> DEFINE block == chunks[mChunkId][blocksRead]
           k == Len(block) - Len(mDataStream) + 1
<1>1. /\ AtRecord /\ mChunkId \in DOMAIN chunks /\ chunks \in Stores
      /\ mDataStream \in Seq(Nat) /\ blocksRead \in 1..Len(chunks[mChunkId])
      /\ chunks[mChunkId] \in Seq(Seq(Nat)) /\ block \in Seq(Nat) /\ Len(block) \in Nat
  BY ScanningProps
<1>2. Head(mDataStream) = mDataStream[1] /\ Len(mDataStream) \in Nat /\ Len(mDataStream) > 0
  BY <1>1, HeadTail
<1>3. /\ Len(mDataStream) <= Len(block)
      /\ \A j \in 1..Len(mDataStream) : mDataStream[j] = block[Len(block) - Len(mDataStream) + j]
  <2>1. blocksRead # 0
    BY <1>1
  <2>2. QED
    BY <1>1, <2>1 DEF AtRecord
<1> HIDE DEF block
<1>4. k \in 1..Len(block) /\ Head(mDataStream) = block[k]
  BY <1>1, <1>2, <1>3
<1>5. Head(mDataStream) \in IndicesIn(chunks[mChunkId])
  <2>1. DOMAIN block = 1..Len(block) /\ DOMAIN chunks[mChunkId] = 1..Len(chunks[mChunkId])
    BY <1>1, LenProperties
  <2>2. block[k] \in {block[j] : j \in DOMAIN block}
    BY <1>4, <2>1
  <2>3. {block[j] : j \in DOMAIN block} \subseteq IndicesIn(chunks[mChunkId])
    BY <1>1, <2>1 DEF IndicesIn, block
  <2>4. QED
    BY <1>4, <2>2, <2>3
<1>6. QED
  BY <1>1, <1>4, <1>5, StoreTypes DEF block

LEMMA RecordTypes ==
    ASSUME SInv, Scanning, mDataStream # << >>, mDataStream' = Tail(mDataStream),
           UNCHANGED <<chunks, log, pc, mChunkList, mChunkId, blocksRead, removedBefore>>,
           returned' \in Seq(Items)
    PROVE  SInv'
<1> DEFINE block == chunks[mChunkId][blocksRead]
<1>1. /\ pc = "scanning" /\ Types /\ AtChunk /\ AtRecord
      /\ mDataStream \in Seq(Nat) /\ blocksRead \in 1..Len(chunks[mChunkId])
      /\ block \in Seq(Nat) /\ Len(block) \in Nat
  BY ScanningProps
<1>2. /\ Tail(mDataStream) \in Seq(Nat) /\ Len(mDataStream) \in Nat /\ Len(mDataStream) > 0
      /\ Len(Tail(mDataStream)) = Len(mDataStream) - 1
      /\ \A j \in 1..Len(Tail(mDataStream)) : Tail(mDataStream)[j] = mDataStream[j + 1]
  BY <1>1, HeadTail
<1>3. /\ Len(mDataStream) <= Len(block)
      /\ \A j \in 1..Len(mDataStream) : mDataStream[j] = block[Len(block) - Len(mDataStream) + j]
  <2>1. blocksRead # 0
    BY <1>1
  <2>2. QED
    BY <1>1, <2>1 DEF AtRecord
<1> HIDE DEF block
<1>4. AtRecord'
  <2>1. Len(mDataStream') \in Nat /\ Len(mDataStream') = Len(mDataStream) - 1
        /\ Len(mDataStream') <= Len(block)
    BY <1>1, <1>2, <1>3
  <2>2. ASSUME NEW j \in 1..Len(mDataStream')
        PROVE  mDataStream'[j] = block[Len(block) - Len(mDataStream') + j]
    <3>1. mDataStream'[j] = mDataStream[j + 1] /\ j + 1 \in 1..Len(mDataStream)
      BY <1>2, <2>1
    <3>2. Len(block) - Len(mDataStream) + (j + 1) = Len(block) - Len(mDataStream') + j
      BY <1>1, <1>2, <2>1
    <3>3. QED
      BY <1>3, <3>1, <3>2
  <2>3. blocksRead \in 0..Len(chunks[mChunkId]) /\ blocksRead # 0
    BY <1>1 DEF AtRecord
  <2>4. QED
    BY <1>2, <2>1, <2>2, <2>3 DEF AtRecord, block
<1>5. Types'
  BY <1>1 DEF Types, Items
<1>6. AtChunk'
  BY <1>1 DEF AtChunk
<1>7. QED
  BY <1>1, <1>4, <1>5, <1>6 DEF SInv

LEMMA NextSInv == SInv /\ [ScanNext]_scanVars => SInv'
<1> SUFFICES ASSUME SInv, [ScanNext]_scanVars
             PROVE  SInv'
  OBVIOUS
<1>1. ASSUME NEW c \in DOMAIN chunks, NEW i \in IndicesIn(chunks[c]), RemoveRecord(c, i)
      PROVE  SInv'
  BY <1>1, RemoveTypes
<1>2. CASE InitScanner
  BY <1>2, InitScannerTypes
<1>3. CASE LoadBlock
  BY <1>3, LoadBlockTypes
<1>4. CASE NextChunk
  BY <1>4, NextChunkTypes
<1>5. CASE EndOfScan
  <2>1. /\ Scanning /\ AtEnd /\ pc' = "done"
        /\ UNCHANGED <<chunks, log, mChunkList, mChunkId, blocksRead, mDataStream, returned, removedBefore>>
    BY <1>5 DEF EndOfScan, AtEndOfChunk, AtEnd, storeVars
  <2>2. chunks # << >> /\ Types /\ AtChunk /\ AtRecord
    BY <2>1, ScanningProps
  <2>3. Types'
    BY <2>1, <2>2 DEF Types, Items
  <2>4. QED
    BY <2>1, <2>2, <2>3 DEF SInv, AtChunk, AtRecord, AtEnd
<1>6. CASE SkipRecord
  <2>1. returned' \in Seq(Items)
    BY <1>6 DEF SkipRecord, SInv, Types
  <2>2. QED
    BY <1>6, <2>1, RecordTypes DEF SkipRecord, storeVars
<1>7. CASE ReturnRecord
  <2>1. Handle(mChunkId, Head(mDataStream)) \in Items
    <3>1. Scanning /\ mDataStream # << >>
      BY <1>7 DEF ReturnRecord
    <3>2. QED
      BY <3>1, HeadInItems
  <2>2. returned' \in Seq(Items)
    BY <1>7, <2>1, AppendProperties DEF ReturnRecord, SInv, Types
  <2>3. QED
    BY <1>7, <2>2, RecordTypes DEF ReturnRecord, storeVars
<1>8. CASE NextWild
  <2>1. /\ chunks = << >> /\ pc' = "dead" /\ UNCHANGED <<chunks, log, mChunkList, returned>>
    BY <1>8 DEF NextWild, storeVars
  <2>2. Types'
    BY <2>1 DEF SInv, Types, Items
  <2>3. QED
    BY <2>1, <2>2 DEF SInv, ScanOpen
<1>9. CASE UNCHANGED scanVars
  <2>1. UNCHANGED <<chunks, log, pc, mChunkList, mChunkId, blocksRead, mDataStream, returned, removedBefore>>
    BY <1>9 DEF scanVars, storeVars, scannerVars
  <2>2. QED
    BY <2>1 DEF SInv, Types, Items, ScanOpen, AtChunk, AtRecord, AtEnd
<1>10. QED
  BY <1>1, <1>2, <1>3, <1>4, <1>5, <1>6, <1>7, <1>8, <1>9 DEF ScanNext, NextTurn

LEMMA AlwaysSInv == ScanSpec => []SInv
BY InitSInv, NextSInv, PTL DEF ScanSpec

(* The scanner stays within the files of the store and goes through the chunks
   upwards. *)
THEOREM ScannerTypes == ScanSpec => []ScanTypeOK
<1>1. SInv => ScanTypeOK
  <2> SUFFICES ASSUME SInv
               PROVE  ScanTypeOK
    OBVIOUS
  <2>1. /\ mChunkList \in Seq(DOMAIN chunks) /\ DOMAIN mChunkList = 1..Len(mChunkList)
        /\ returned \in Seq(Items) /\ DOMAIN returned = 1..Len(returned)
    BY LenProperties DEF SInv, Types
  <2>2. /\ \A k \in DOMAIN mChunkList : mChunkList[k] \in DOMAIN chunks
        /\ \A k \in DOMAIN returned : returned[k] \in Items
    BY <2>1, ElementOfSeq
  <2>3. Scanning => /\ mChunkId \in DOMAIN chunks /\ blocksRead \in 0..Len(chunks[mChunkId])
                    /\ \A k \in DOMAIN mChunkList : mChunkId < mChunkList[k]
    BY <2>1, ScanningProps DEF AtChunk
  <2>4. QED
    BY <2>2, <2>3 DEF ScanTypeOK, SInv, Types
<1>2. QED
  BY <1>1, AlwaysSInv, PTL

-----------------------------------------------------------------------------
(* The records that each step passes. *)

(* At the end of a chunk all its records are passed. *)
LEMMA ChunkPassed ==
    ASSUME chunks \in Stores, mChunkId \in DOMAIN chunks, mDataStream = << >>,
           blocksRead = Len(chunks[mChunkId]), NEW i \in IndicesIn(chunks[mChunkId])
    PROVE  PassedIndex(i)
<1>1. chunks[mChunkId] \in Seq(Seq(Nat))
  BY StoreTypes
<1>2. DOMAIN chunks[mChunkId] = 1..Len(chunks[mChunkId]) /\ Len(chunks[mChunkId]) \in Nat
  BY <1>1, LenProperties
<1>3. PICK b \in DOMAIN chunks[mChunkId] : \E k \in DOMAIN chunks[mChunkId][b] : chunks[mChunkId][b][k] = i
  BY DEF IndicesIn
<1>4. chunks[mChunkId][b] \in Seq(Nat)
  BY <1>1, <1>2, <1>3, ElementOfSeq
<1>5. DOMAIN chunks[mChunkId][b] = 1..Len(chunks[mChunkId][b]) /\ Len(chunks[mChunkId][b]) \in Nat
  BY <1>4, LenProperties
<1>6. PICK k \in 1..Len(chunks[mChunkId][b]) : chunks[mChunkId][b][k] = i
  BY <1>3, <1>5
<1>7. PassedAt(b, k) /\ b \in Nat /\ k \in Nat
  BY <1>2, <1>3, <1>5, <1>6 DEF PassedAt
<1>8. QED
  BY <1>6, <1>7 DEF PassedIndex

LEMMA LoadBlockPassed ==
    ASSUME SInv, LoadBlock
    PROVE  \A h : Passed(h)' <=> Passed(h)
<1>1. /\ Scanning /\ blocksRead < Len(chunks[mChunkId]) /\ mDataStream = << >>
      /\ mDataStream' = chunks[mChunkId][blocksRead + 1] /\ blocksRead' = blocksRead + 1
      /\ UNCHANGED <<chunks, pc, mChunkId>>
  BY DEF LoadBlock, storeVars
<1>2. /\ blocksRead \in Nat /\ Len(chunks[mChunkId]) \in Nat
      /\ \A b \in 1..Len(chunks[mChunkId]) : Len(chunks[mChunkId][b]) \in Nat
  BY <1>1, ScanningProps
<1>3. \A b, k \in Nat : PassedAt(b, k)' <=> PassedAt(b, k)
  <2> TAKE b, k \in Nat
  <2>1. CASE b \in 1..blocksRead
    <3>1. Len(chunks[mChunkId][b]) \in Nat /\ Len(mDataStream) = 0 /\ b # blocksRead'
      BY <1>1, <1>2, <2>1
    <3>2. b \in 1..blocksRead'
      BY <1>1, <1>2, <2>1
    <3>3. PassedAt(b, k) <=> k \in 1..Len(chunks[mChunkId][b])
      BY <2>1, <3>1 DEF PassedAt
    <3>4. QED
      BY <1>1, <3>1, <3>2, <3>3 DEF PassedAt
  <2>2. CASE b = blocksRead + 1
    <3>1. Len(chunks[mChunkId][b]) \in Nat /\ mDataStream' = chunks[mChunkId][b] /\ b \notin 1..blocksRead
      BY <1>1, <1>2, <2>2
    <3>2. Len(chunks[mChunkId][b]) - Len(mDataStream') = 0 /\ b = blocksRead'
      BY <1>1, <2>2, <3>1
    <3>3. ~PassedAt(b, k)'
      BY <1>1, <3>1, <3>2 DEF PassedAt
    <3>4. QED
      BY <3>1, <3>3 DEF PassedAt
  <2>3. CASE b \notin 1..blocksRead /\ b # blocksRead + 1
    <3>1. b \notin 1..blocksRead'
      BY <1>1, <1>2, <2>3
    <3>2. QED
      BY <2>3, <3>1 DEF PassedAt
  <2>4. QED
    BY <2>1, <2>2, <2>3
<1>4. QED
  BY <1>1, <1>3 DEF Passed, PassedIndex, ScanOpen, Items

LEMMA NextChunkPassed ==
    ASSUME SInv, NextChunk
    PROVE  \A h : Passed(h)' <=> Passed(h)
<1>1. /\ Scanning /\ mChunkList # << >> /\ mDataStream = << >> /\ blocksRead = Len(chunks[mChunkId])
      /\ mChunkId' = Head(mChunkList) /\ blocksRead' = 0 /\ UNCHANGED <<chunks, pc>>
  BY DEF NextChunk, AtEndOfChunk, storeVars
<1>2. ScanOpen /\ Types /\ AtChunk /\ chunks \in Stores /\ mChunkId \in DOMAIN chunks /\ mChunkId \in Nat
  BY <1>1, ScanningProps
<1>3. /\ Head(mChunkList) = mChunkList[1] /\ Head(mChunkList) \in DOMAIN chunks
      /\ Len(mChunkList) \in Nat /\ Len(mChunkList) > 0 /\ 1 \in 1..Len(mChunkList)
  BY <1>1, <1>2, HeadTail DEF Types
<1>4. mChunkId < Head(mChunkList) /\ Head(mChunkList) \in Nat
  BY <1>2, <1>3, StoreTypes DEF AtChunk
<1>5. ASSUME NEW c \in DOMAIN chunks
      PROVE  c < Head(mChunkList) <=> c <= mChunkId
  <2>1. c \in Nat
    BY <1>2, StoreTypes
  <2>2. ASSUME mChunkId < c
        PROVE  Head(mChunkList) <= c
    <3>1. PICK k \in 1..Len(mChunkList) : mChunkList[k] = c
      BY <1>2, <2>2 DEF AtChunk
    <3>2. CASE k = 1
      BY <1>3, <1>4, <3>1, <3>2
    <3>3. CASE k # 1
      <4>1. 1 < k
        BY <1>3, <3>3
      <4>2. mChunkList[1] < mChunkList[k]
        BY <1>2, <1>3, <3>1, <4>1 DEF AtChunk, Sorted
      <4>3. QED
        BY <1>3, <1>4, <2>1, <3>1, <4>2
    <3>4. QED
      BY <3>2, <3>3
  <2>3. QED
    BY <1>2, <1>4, <2>1, <2>2
<1>6. \A i : ~PassedIndex(i)'
  BY <1>1 DEF PassedIndex, PassedAt
<1>7. ASSUME NEW h
      PROVE  Passed(h)' <=> Passed(h)
  <2>1. Passed(h)' <=> h \in Items /\ h[1] < Head(mChunkList)
    BY <1>1, <1>2, <1>6 DEF Passed, ScanOpen, Items
  <2>2. ASSUME h \in Items
        PROVE  h[1] < Head(mChunkList) <=> h[1] < mChunkId \/ h[1] = mChunkId
    <3>1. h[1] \in DOMAIN chunks /\ h[1] \in Nat
      BY <1>2, <2>2, StoreTypes
    <3>2. QED
      BY <1>2, <1>5, <3>1
  <2>3. ASSUME h \in Items, h[1] = mChunkId
        PROVE  PassedIndex(h[2])
    <3>1. h[2] \in IndicesIn(chunks[mChunkId])
      BY <1>2, <2>3, StoreTypes
    <3>2. QED
      BY <1>1, <1>2, <3>1, ChunkPassed
  <2>4. QED
    BY <1>2, <2>1, <2>2, <2>3 DEF Passed
<1>8. QED
  BY <1>7

LEMMA RecordPassed ==
    ASSUME SInv, Scanning, mDataStream # << >>, mDataStream' = Tail(mDataStream),
           UNCHANGED <<chunks, pc, mChunkId, blocksRead>>
    PROVE  \A h : Passed(h)' <=> Passed(h) \/ h = Handle(mChunkId, Head(mDataStream))
<1> DEFINE block == chunks[mChunkId][blocksRead]
           next == Len(block) - Len(mDataStream) + 1
<1>1. /\ ScanOpen /\ chunks \in Stores /\ blocksRead \in 1..Len(chunks[mChunkId]) /\ blocksRead \in Nat
      /\ mDataStream \in Seq(Nat) /\ Len(block) \in Nat /\ mChunkId \in Nat
  BY ScanningProps
<1>2. Len(mDataStream) \in Nat /\ Len(mDataStream) > 0 /\ Len(mDataStream') = Len(mDataStream) - 1
  BY <1>1, HeadTail
<1>3. /\ Handle(mChunkId, Head(mDataStream)) \in Items
      /\ next \in 1..Len(block) /\ Head(mDataStream) = block[next]
  BY HeadInItems
<1>4. \A b, k \in Nat : PassedAt(b, k)' <=> PassedAt(b, k) \/ (b = blocksRead /\ k = next)
  <2> TAKE b, k \in Nat
  <2>1. CASE b # blocksRead
    BY <2>1 DEF PassedAt
  <2>2. CASE b = blocksRead
    <3>1. PassedAt(b, k) <=> k \in 1..Len(block) /\ k <= Len(block) - Len(mDataStream)
      BY <1>1, <2>2 DEF PassedAt
    <3>2. PassedAt(b, k)' <=> k \in 1..Len(block) /\ k <= Len(block) - Len(mDataStream')
      BY <1>1, <2>2 DEF PassedAt
    <3> HIDE DEF block
    <3>3. \A len, left \in Nat : left > 0 =>
              (k <= len - (left - 1) <=> k <= len - left \/ k = len - left + 1)
      OBVIOUS
    <3>4. k <= Len(block) - Len(mDataStream') <=> k <= Len(block) - Len(mDataStream) \/ k = next
      BY <1>1, <1>2, <3>3
    <3> HIDE DEF next
    <3>5. QED
      BY <1>3, <2>2, <3>1, <3>2, <3>4
  <2>3. QED
    BY <2>1, <2>2
<1>5. \A i : PassedIndex(i)' <=> PassedIndex(i) \/ i = Head(mDataStream)
  <2>1. next \in Nat
    BY <1>1, <1>2, <1>3
  <2> HIDE DEF next
  <2>2. QED
    BY <1>1, <1>3, <1>4, <2>1 DEF PassedIndex
<1>6. QED
  <2> TAKE h
  <2>1. Passed(h)' <=> /\ h \in Items
                       /\ \/ h[1] < mChunkId
                          \/ h[1] = mChunkId /\ (PassedIndex(h[2]) \/ h[2] = Head(mDataStream))
    BY <1>1, <1>5 DEF Passed, ScanOpen, Items
  <2>2. Passed(h) <=> /\ h \in Items
                      /\ h[1] < mChunkId \/ (h[1] = mChunkId /\ PassedIndex(h[2]))
    BY <1>1 DEF Passed
  <2>3. h \in Items /\ h[1] = mChunkId /\ h[2] = Head(mDataStream)
            <=> h = Handle(mChunkId, Head(mDataStream))
    <3>1. h \in Items => h = Handle(h[1], h[2])
      BY <1>1, StoreTypes
    <3>2. QED
      BY <1>3, <3>1 DEF Handle
  <2>4. QED
    BY <2>1, <2>2, <2>3

LEMMA InitScannerPassed ==
    ASSUME SInv, InitScanner
    PROVE  /\ \A h : ~Passed(h)
           /\ chunks # << >> => (AtFirst' /\ mDeleteSet' = log[mChunkId'])
           /\ \A h : ~Passed(h)'
<1>1. /\ pc = "none" /\ pc' = "scanning" /\ UNCHANGED <<chunks, blocksRead>> /\ blocksRead = 0
      /\ chunks \in Stores
  BY DEF InitScanner, storeVars, SInv, Types
<1>2. \A h : ~Passed(h)
  BY <1>1 DEF Passed, ScanOpen
<1>3. CASE chunks = << >>
  BY <1>1, <1>2, <1>3 DEF Passed, ScanOpen
<1>4. CASE chunks # << >>
  <2>1. /\ GetAllChunkID # << >> /\ GetAllChunkID \in Seq(DOMAIN chunks) /\ Sorted(GetAllChunkID)
        /\ \A c \in DOMAIN chunks : \E k \in 1..Len(GetAllChunkID) : GetAllChunkID[k] = c
    BY <1>1, <1>4, ChunkListProps
  <2> DEFINE list == GetAllChunkID
  <2>2. mChunkId' = Head(list) /\ mDeleteSet' = log[Head(list)]
    BY <2>1 DEF InitScanner
  <2> HIDE DEF list
  <2>3. /\ list \in Seq(DOMAIN chunks) /\ list # << >> /\ Sorted(list)
        /\ \A c \in DOMAIN chunks : \E k \in 1..Len(list) : list[k] = c
    BY <2>1 DEF list
  <2>4. Head(list) = list[1] /\ Head(list) \in DOMAIN chunks /\ Len(list) \in Nat /\ 1 \in 1..Len(list)
    BY <2>3, HeadTail
  <2>5. ASSUME NEW c \in DOMAIN chunks
        PROVE  Head(list) <= c
    <3>1. c \in Nat /\ Head(list) \in Nat
      BY <1>1, <2>4, StoreTypes
    <3>2. PICK k \in 1..Len(list) : list[k] = c
      BY <2>3
    <3>3. k = 1 \/ 1 < k
      BY <2>4
    <3>4. 1 < k => list[1] < list[k]
      BY <2>3, <2>4 DEF Sorted
    <3>5. QED
      BY <2>4, <3>1, <3>2, <3>3, <3>4
  <2>6. AtFirst'
    BY <1>1, <2>2, <2>5 DEF AtFirst
  <2>7. ASSUME NEW h
        PROVE  ~Passed(h)'
    <3>1. ~PassedIndex(h[2])'
      BY <1>1 DEF PassedIndex, PassedAt
    <3>2. h \in Items => ~(h[1] < Head(list))
      <4>1. SUFFICES ASSUME h \in Items
                     PROVE  ~(h[1] < Head(list))
        OBVIOUS
      <4>2. h[1] \in DOMAIN chunks /\ h[1] \in Nat /\ Head(list) \in Nat
        BY <1>1, <2>4, <4>1, StoreTypes
      <4>3. QED
        BY <2>5, <4>2
    <3>3. QED
      BY <1>1, <2>2, <3>1, <3>2 DEF Passed, Items
  <2>8. QED
    BY <1>2, <2>2, <2>6, <2>7
<1>5. QED
  BY <1>3, <1>4

-----------------------------------------------------------------------------
(* What was returned of the records that were passed. *)

LEMMA InitPInv == ScanInit => PInv
<1> SUFFICES ASSUME ScanInit
             PROVE  PInv
  OBVIOUS
<1>1. pc = "none" /\ returned = << >> /\ removedBefore = NoLog /\ mDeleteSet = {}
  BY DEF ScanInit
<1>2. \A h : ~Passed(h) /\ ~Returned(h)
  BY <1>1 DEF Passed, ScanOpen, Returned
<1>3. QED
  BY <1>1, <1>2 DEF PInv, ScanOpen

LEMMA RemovePInv ==
    ASSUME SInv, PInv, NEW c \in DOMAIN chunks, NEW i \in IndicesIn(chunks[c]), RemoveRecord(c, i)
    PROVE  PInv'
<1>1. /\ log' = [log EXCEPT ![c] = @ \cup {i}]
      /\ UNCHANGED <<chunks, pc, mChunkId, blocksRead, mDataStream, mDeleteSet, returned, removedBefore>>
  BY DEF RemoveRecord, scannerVars
<1>2. c \in ChunkIds /\ log \in [ChunkIds -> SUBSET Nat]
  BY StoreTypes DEF SInv, Types
<1>3. log' # NoLog
  BY <1>1, <1>2 DEF NoLog
<1>4. \A h : Passed(h)' <=> Passed(h)
  BY <1>1 DEF Passed, PassedIndex, PassedAt, ScanOpen, Items
<1>5. \A h : Returned(h)' <=> Returned(h)
  BY <1>1 DEF Returned
<1>6. FirstChunk' = FirstChunk /\ Removed(removedBefore)' = Removed(removedBefore)
      /\ Items' = Items /\ (ScanOpen /\ AtFirst)' = (ScanOpen /\ AtFirst)
  BY <1>1 DEF FirstChunk, Removed, Items, ScanOpen, AtFirst
<1>7. QED
  BY <1>1, <1>3, <1>4, <1>5, <1>6 DEF PInv

LEMMA InitScannerPInv ==
    ASSUME SInv, PInv, InitScanner
    PROVE  PInv'
<1>1. /\ pc = "none" /\ removedBefore' = log /\ returned = << >>
      /\ UNCHANGED <<chunks, log, returned>>
  BY DEF InitScanner, storeVars, SInv, Types
<1>2. /\ chunks # << >> => (AtFirst' /\ mDeleteSet' = log[mChunkId'])
      /\ \A h : ~Passed(h)'
  BY InitScannerPassed
<1>3. log = NoLog => mDeleteSet' = {}
  <2>1. CASE chunks = << >>
    <3>1. GetAllChunkID = << >>
      BY <2>1, ChunkListProps DEF SInv, Types
    <3>2. mDeleteSet' = mDeleteSet
      BY <3>1 DEF InitScanner
    <3>3. QED
      BY <3>2 DEF PInv
  <2>2. CASE chunks # << >>
    <3>1. SInv' /\ ScanOpen'
      BY <1>1, <2>2, InitScannerTypes DEF InitScanner, ScanOpen
    <3>2. mChunkId' \in ChunkIds
      BY <1>1, <3>1, StoreTypes DEF SInv, Types, AtChunk
    <3>3. QED
      BY <1>2, <2>2, <3>2 DEF NoLog
  <2>3. QED
    BY <2>1, <2>2
<1>4. ScanOpen' => mDeleteSet' = removedBefore'[mChunkId']
  BY <1>1, <1>2 DEF ScanOpen
<1>5. \A h : ~Returned(h)'
  BY <1>1 DEF Returned
<1>6. QED
  BY <1>1, <1>2, <1>3, <1>4, <1>5 DEF PInv

(* A step that passes no record and returns none. *)
LEMMA IdlePInv ==
    ASSUME PInv, UNCHANGED <<chunks, log, returned, removedBefore>>,
           \A h : Passed(h)' <=> Passed(h),
           log = NoLog => mDeleteSet' = {},
           (ScanOpen /\ AtFirst)' => mDeleteSet' = removedBefore'[mChunkId']
    PROVE  PInv'
<1>1. \A h : Returned(h)' <=> Returned(h)
  BY DEF Returned
<1>2. FirstChunk' = FirstChunk /\ Removed(removedBefore)' = Removed(removedBefore) /\ Items' = Items
  BY DEF FirstChunk, Removed, Items
<1>3. QED
  BY <1>1, <1>2 DEF PInv

LEMMA NextChunkPInv ==
    ASSUME SInv, PInv, NextChunk
    PROVE  PInv'
<1>1. /\ Scanning /\ mChunkList # << >> /\ mChunkId' = Head(mChunkList)
      /\ mDeleteSet' \in LogRead(Tail(mChunkList))
      /\ UNCHANGED <<chunks, log, returned, removedBefore>>
  BY DEF NextChunk, AtEndOfChunk, storeVars
<1>2. Types /\ AtChunk /\ chunks \in Stores /\ mChunkId \in DOMAIN chunks /\ mChunkId \in Nat
  BY <1>1, ScanningProps
<1>3. /\ Head(mChunkList) = mChunkList[1] /\ Len(mChunkList) \in Nat /\ 1 \in 1..Len(mChunkList)
      /\ Head(mChunkList) \in DOMAIN chunks /\ Tail(mChunkList) \in Seq(DOMAIN chunks)
  BY <1>1, <1>2, HeadTail DEF Types
<1>4. ~AtFirst'
  <2>1. mChunkId < Head(mChunkList) /\ Head(mChunkList) \in Nat
    BY <1>2, <1>3, StoreTypes DEF AtChunk
  <2>2. ~(Head(mChunkList) <= mChunkId)
    BY <1>2, <2>1
  <2>3. QED
    BY <1>1, <1>2, <2>2 DEF AtFirst
<1>5. log = NoLog => mDeleteSet' = {}
  <2>1. Tail(mChunkList) # << >> => Head(Tail(mChunkList)) \in ChunkIds
    <3>1. Tail(mChunkList) # << >> => Head(Tail(mChunkList)) \in DOMAIN chunks
      BY <1>3, HeadTail
    <3>2. QED
      BY <1>2, <3>1, StoreTypes
  <2>2. QED
    BY <1>1, <2>1 DEF LogRead, NoLog
<1>6. QED
  BY <1>1, <1>4, <1>5, NextChunkPassed, IdlePInv

LEMMA SkipRecordPInv ==
    ASSUME SInv, PInv, SkipRecord
    PROVE  PInv'
<1> DEFINE next == Handle(mChunkId, Head(mDataStream))
<1>1. /\ Scanning /\ mDataStream # << >> /\ Head(mDataStream) \in mDeleteSet
      /\ mDataStream' = Tail(mDataStream)
      /\ UNCHANGED <<chunks, log, pc, mChunkId, blocksRead, mDeleteSet, returned, removedBefore>>
  BY DEF SkipRecord, storeVars
<1>2. \A h : Passed(h)' <=> Passed(h) \/ h = next
  BY <1>1, RecordPassed
<1>3. next \in Items /\ next[1] = mChunkId /\ next[2] = Head(mDataStream)
  BY <1>1, HeadInItems DEF Handle
<1>4. ScanOpen /\ ScanOpen' /\ log # NoLog
  BY <1>1, ScanningProps DEF PInv, ScanOpen
<1>5. \A h : Returned(h)' <=> Returned(h)
  BY <1>1 DEF Returned
<1>6. FirstChunk' = FirstChunk /\ Removed(removedBefore)' = Removed(removedBefore) /\ AtFirst' = AtFirst
      /\ Items' = Items
  BY <1>1 DEF FirstChunk, Removed, Items, AtFirst
<1> HIDE DEF next
<1>7. ASSUME next \in FirstChunk
      PROVE  next \in Removed(removedBefore) /\ ~Returned(next)
  <2>1. AtFirst
    BY <1>3, <1>7 DEF FirstChunk, AtFirst
  <2>2. mDeleteSet = removedBefore[mChunkId]
    BY <1>4, <2>1 DEF PInv
  <2>3. next \in Removed(removedBefore)
    BY <1>1, <1>3, <2>2 DEF Removed
  <2>4. ~Returned(next)
    BY <1>3, <1>7, <2>3 DEF PInv
  <2>5. QED
    BY <2>3, <2>4
<1>8. \A h \in Items' : Returned(h)' => Passed(h)'
  BY <1>2, <1>5, <1>6 DEF PInv
<1>9. \A h \in FirstChunk' : Passed(h)' => (Returned(h)' <=> h \notin Removed(removedBefore)')
  BY <1>2, <1>5, <1>6, <1>7 DEF PInv
<1>10. (ScanOpen /\ AtFirst)' => mDeleteSet' = removedBefore'[mChunkId']
  BY <1>1, <1>4, <1>6 DEF PInv
<1>11. log' # NoLog
  BY <1>1, <1>4
<1>12. QED
  BY <1>8, <1>9, <1>10, <1>11 DEF PInv

LEMMA ReturnRecordPInv ==
    ASSUME SInv, PInv, ReturnRecord
    PROVE  PInv'
<1> DEFINE next == Handle(mChunkId, Head(mDataStream))
<1>1. /\ Scanning /\ mDataStream # << >> /\ Head(mDataStream) \notin mDeleteSet
      /\ mDataStream' = Tail(mDataStream) /\ returned' = Append(returned, next)
      /\ UNCHANGED <<chunks, log, pc, mChunkId, blocksRead, mDeleteSet, removedBefore>>
  BY DEF ReturnRecord, storeVars
<1>2. \A h : Passed(h)' <=> Passed(h) \/ h = next
  BY <1>1, RecordPassed
<1>3. next \in Items /\ next[1] = mChunkId /\ next[2] = Head(mDataStream)
  BY <1>1, HeadInItems DEF Handle
<1>4. ScanOpen /\ ScanOpen'
  BY <1>1, ScanningProps DEF ScanOpen
<1> HIDE DEF next
<1>5. /\ returned \in Seq(Items) /\ Len(returned) \in Nat /\ DOMAIN returned = 1..Len(returned)
      /\ returned' \in Seq(Items) /\ Len(returned') = Len(returned) + 1
      /\ DOMAIN returned' = 1..Len(returned')
      /\ \A k \in 1..Len(returned) : returned'[k] = returned[k]
      /\ returned'[Len(returned) + 1] = next
  BY <1>1, <1>3, AppendProperties, LenProperties DEF SInv, Types
<1>6. \A h : Returned(h)' <=> Returned(h) \/ h = next
  BY <1>5 DEF Returned
<1>7. FirstChunk' = FirstChunk /\ Removed(removedBefore)' = Removed(removedBefore) /\ AtFirst' = AtFirst
      /\ Items' = Items
  BY <1>1 DEF FirstChunk, Removed, Items, AtFirst
<1>8. ASSUME next \in FirstChunk
      PROVE  next \notin Removed(removedBefore)
  <2>1. AtFirst
    BY <1>3, <1>8 DEF FirstChunk, AtFirst
  <2>2. mDeleteSet = removedBefore[mChunkId]
    BY <1>4, <2>1 DEF PInv
  <2>3. QED
    BY <1>1, <1>3, <2>2 DEF Removed
<1>9. \A h \in Items' : Returned(h)' => Passed(h)'
  BY <1>2, <1>6, <1>7 DEF PInv
<1>10. \A h \in FirstChunk' : Passed(h)' => (Returned(h)' <=> h \notin Removed(removedBefore)')
  BY <1>2, <1>6, <1>7, <1>8 DEF PInv
<1>11. (ScanOpen /\ AtFirst)' => mDeleteSet' = removedBefore'[mChunkId']
  BY <1>1, <1>4, <1>7 DEF PInv
<1>12. log' = NoLog => \A h \in Items' : Passed(h)' => Returned(h)'
  BY <1>1, <1>2, <1>6, <1>7 DEF PInv
<1>13. log' = NoLog => removedBefore' = NoLog /\ mDeleteSet' = {}
  BY <1>1 DEF PInv
<1>14. QED
  BY <1>9, <1>10, <1>11, <1>12, <1>13 DEF PInv

LEMMA NextPInv == SInv /\ PInv /\ [ScanNext]_scanVars => PInv'
<1> SUFFICES ASSUME SInv, PInv, [ScanNext]_scanVars
             PROVE  PInv'
  OBVIOUS
<1>1. ASSUME NEW c \in DOMAIN chunks, NEW i \in IndicesIn(chunks[c]), RemoveRecord(c, i)
      PROVE  PInv'
  BY <1>1, RemovePInv
<1>2. CASE InitScanner
  BY <1>2, InitScannerPInv
<1>3. CASE LoadBlock
  <2>1. UNCHANGED <<chunks, log, pc, mChunkId, mDeleteSet, returned, removedBefore>>
    BY <1>3 DEF LoadBlock, storeVars
  <2>2. \A h : Passed(h)' <=> Passed(h)
    BY <1>3, LoadBlockPassed
  <2>3. QED
    BY <2>1, <2>2, IdlePInv DEF PInv, ScanOpen, AtFirst
<1>4. CASE NextChunk
  BY <1>4, NextChunkPInv
<1>5. CASE EndOfScan
  <2>1. /\ Scanning /\ pc' = "done"
        /\ UNCHANGED <<chunks, log, mChunkId, blocksRead, mDataStream, mDeleteSet, returned, removedBefore>>
    BY <1>5 DEF EndOfScan, AtEndOfChunk, storeVars
  <2>2. ScanOpen /\ ScanOpen'
    BY <2>1, ScanningProps DEF ScanOpen
  <2>3. \A h : Passed(h)' <=> Passed(h)
    BY <2>1, <2>2 DEF Passed, PassedIndex, PassedAt, Items
  <2>4. QED
    BY <2>1, <2>2, <2>3, IdlePInv DEF PInv, AtFirst
<1>6. CASE SkipRecord
  BY <1>6, SkipRecordPInv
<1>7. CASE ReturnRecord
  BY <1>7, ReturnRecordPInv
<1>8. CASE NextWild
  <2>1. /\ chunks = << >> /\ UNCHANGED <<chunks, log, mChunkId, mDeleteSet, returned, removedBefore>>
    BY <1>8 DEF NextWild, storeVars
  <2>2. ~ScanOpen /\ ~ScanOpen'
    BY <2>1 DEF ScanOpen
  <2>3. \A h : Passed(h)' <=> Passed(h)
    BY <2>2 DEF Passed
  <2>4. QED
    BY <2>1, <2>2, <2>3, IdlePInv DEF PInv
<1>9. CASE UNCHANGED scanVars
  <2>1. UNCHANGED <<chunks, log, pc, mChunkId, blocksRead, mDataStream, mDeleteSet, returned, removedBefore>>
    BY <1>9 DEF scanVars, storeVars, scannerVars
  <2>2. \A h : Passed(h)' <=> Passed(h)
    BY <2>1 DEF Passed, PassedIndex, PassedAt, ScanOpen, Items
  <2>3. QED
    BY <2>1, <2>2, IdlePInv DEF PInv, ScanOpen, AtFirst
<1>10. QED
  BY <1>1, <1>2, <1>3, <1>4, <1>5, <1>6, <1>7, <1>8, <1>9 DEF ScanNext, NextTurn

LEMMA AlwaysPInv == ScanSpec => [](SInv /\ PInv)
<1>1. ScanInit => SInv /\ PInv
  BY InitSInv, InitPInv
<1>2. SInv /\ PInv /\ [ScanNext]_scanVars => (SInv /\ PInv)'
  BY NextSInv, NextPInv
<1>3. QED
  BY <1>1, <1>2, PTL DEF ScanSpec

(* At the end of a scan every record was passed. *)
LEMMA AllPassed ==
    ASSUME SInv, pc = "done"
    PROVE  \A h \in Items : Passed(h)
<1>1. ScanOpen /\ AtChunk /\ AtEnd /\ chunks \in Stores /\ mChunkId \in DOMAIN chunks
  BY DEF SInv, Types, ScanOpen, AtChunk
<1>2. TAKE h \in Items
<1>3. h[1] \in DOMAIN chunks /\ h[1] \in Nat /\ mChunkId \in Nat /\ h[2] \in IndicesIn(chunks[h[1]])
  BY <1>1, StoreTypes
<1>4. ~(mChunkId < h[1])
  <2>1. Len(mChunkList) = 0
    BY <1>1 DEF AtEnd
  <2>2. QED
    BY <1>1, <1>3, <2>1 DEF AtChunk
<1>5. h[1] = mChunkId => PassedIndex(h[2])
  BY <1>1, <1>3, ChunkPassed DEF AtEnd
<1>6. QED
  BY <1>1, <1>3, <1>4, <1>5 DEF Passed

(* A scan of a store from which nothing was removed returns all its records, however
   they lie in blocks and chunks. *)
THEOREM ScansAll == ScanSpec => []AllWhenNothingRemoved
<1>1. SInv /\ PInv => AllWhenNothingRemoved
  BY AllPassed DEF PInv, AllWhenNothingRemoved
<1>2. QED
  BY <1>1, AlwaysPInv, PTL

(* Of the first chunk a scan returns exactly the records that were not removed when
   it began: Init reads the delete log of the chunk that it opens. *)
THEOREM FirstChunkScanned == ScanSpec => []FirstChunkRight
<1>1. SInv /\ PInv => FirstChunkRight
  <2> SUFFICES ASSUME SInv, PInv
               PROVE  FirstChunkRight
    OBVIOUS
  <2>1. \A h \in FirstChunk : Returned(h) => Passed(h)
    BY DEF PInv, FirstChunk
  <2>2. \A h \in FirstChunk \cap Removed(removedBefore) : ~Returned(h)
    BY <2>1 DEF PInv
  <2>3. pc = "done" => \A h \in FirstChunk \ Removed(removedBefore) : Returned(h)
    BY AllPassed DEF PInv, FirstChunk
  <2>4. QED
    BY <2>2, <2>3 DEF FirstChunkRight
<1>2. QED
  BY <1>1, AlwaysPInv, PTL

-----------------------------------------------------------------------------
(* The order of the records. *)

AllAscending == \A s \in Stores : \A c \in DOMAIN s : Ascending(s[c])

LEMMA PassedBefore ==
    ASSUME AllAscending, SInv, Scanning, mDataStream # << >>, NEW h, Passed(h)
    PROVE  Before(h, Handle(mChunkId, Head(mDataStream)))
<1> DEFINE block == chunks[mChunkId][blocksRead]
           next == Len(block) - Len(mDataStream) + 1
<1>1. /\ ScanOpen /\ chunks \in Stores /\ mChunkId \in DOMAIN chunks
      /\ blocksRead \in 1..Len(chunks[mChunkId]) /\ blocksRead \in Nat
      /\ chunks[mChunkId] \in Seq(Seq(Nat)) /\ Len(chunks[mChunkId]) \in Nat
      /\ \A b \in 1..Len(chunks[mChunkId]) :
             chunks[mChunkId][b] \in Seq(Nat) /\ Len(chunks[mChunkId][b]) \in Nat
      /\ mDataStream \in Seq(Nat) /\ Len(block) \in Nat /\ mChunkId \in Nat
  BY ScanningProps
<1>2. Len(mDataStream) \in Nat /\ Len(mDataStream) > 0
  BY <1>1, HeadTail
<1>3. next \in 1..Len(block) /\ Head(mDataStream) = block[next]
  BY HeadInItems
<1>4. CASE h[1] < mChunkId
  BY <1>4 DEF Before, Handle
<1>5. CASE h[1] = mChunkId /\ PassedIndex(h[2])
  <2>1. PICK b \in Nat, k \in Nat : PassedAt(b, k) /\ chunks[mChunkId][b][k] = h[2]
    BY <1>5 DEF PassedIndex
  <2>2. /\ b \in 1..blocksRead /\ b \in 1..Len(chunks[mChunkId]) /\ k \in 1..Len(chunks[mChunkId][b])
        /\ b = blocksRead => k <= Len(block) - Len(mDataStream)
    BY <1>1, <2>1 DEF PassedAt
  <2> HIDE DEF block
  <2>3. b < blocksRead \/ (b = blocksRead /\ k < next)
    BY <1>1, <1>2, <1>3, <2>2
  <2>4. DOMAIN chunks[mChunkId] = 1..Len(chunks[mChunkId])
        /\ DOMAIN chunks[mChunkId][b] = 1..Len(chunks[mChunkId][b])
        /\ DOMAIN block = 1..Len(block)
    BY <1>1, <2>2, LenProperties DEF block
  <2>5. Ascending(chunks[mChunkId])
    BY <1>1 DEF AllAscending
  <2>6. chunks[mChunkId][b][k] < block[next]
    <3> HIDE DEF next
    <3>1. QED
      BY <1>1, <1>3, <2>2, <2>3, <2>4, <2>5 DEF Ascending, block
  <2>7. QED
    BY <1>3, <1>5, <2>1, <2>6 DEF Before, Handle
<1>6. QED
  BY <1>4, <1>5 DEF Passed

(* If the records of every chunk are numbered upwards through its file, a scan returns
   the records in the order in which they were appended, and none twice. *)
THEOREM ScansInOrder ==
    ASSUME AllAscending
    PROVE  ScanSpec => []InOrder
<1>1. ScanInit => InOrder
  BY DEF ScanInit, InOrder
<1>2. SInv /\ PInv /\ InOrder /\ [ScanNext]_scanVars => InOrder'
  <2> SUFFICES ASSUME SInv, PInv, InOrder, [ScanNext]_scanVars
               PROVE  InOrder'
    OBVIOUS
  <2>1. CASE UNCHANGED returned
    BY <2>1 DEF InOrder
  <2>2. CASE ReturnRecord
    <3> DEFINE next == Handle(mChunkId, Head(mDataStream))
    <3>1. Scanning /\ mDataStream # << >> /\ returned' = Append(returned, next)
      BY <2>2 DEF ReturnRecord
    <3>2. next \in Items
      BY <3>1, HeadInItems
    <3>3. ASSUME NEW h, Passed(h)
          PROVE  Before(h, next)
      BY <3>1, <3>3, PassedBefore
    <3> HIDE DEF next
    <3>4. /\ Len(returned) \in Nat /\ DOMAIN returned = 1..Len(returned)
          /\ DOMAIN returned' = 1..Len(returned) + 1
          /\ \A k \in 1..Len(returned) : returned'[k] = returned[k]
          /\ returned'[Len(returned) + 1] = next
          /\ \A k \in 1..Len(returned) : returned[k] \in Items /\ Returned(returned[k])
      BY <3>1, <3>2, AppendProperties, LenProperties, ElementOfSeq DEF SInv, Types, Returned
    <3>5. ASSUME NEW j \in DOMAIN returned', NEW k \in DOMAIN returned', j < k
          PROVE  Before(returned'[j], returned'[k])
      <4>1. j \in 1..Len(returned)
        BY <3>4, <3>5
      <4>2. CASE k \in 1..Len(returned)
        BY <3>4, <3>5, <4>1, <4>2 DEF InOrder
      <4>3. CASE k = Len(returned) + 1
        BY <3>3, <3>4, <4>1, <4>3 DEF PInv
      <4>4. QED
        BY <3>4, <4>2, <4>3
    <3>6. QED
      BY <3>5 DEF InOrder
  <2>3. [ScanNext]_scanVars => UNCHANGED returned \/ ReturnRecord
    BY DEF ScanNext, NextTurn, RemoveRecord, InitScanner, LoadBlock, NextChunk, EndOfScan, SkipRecord,
           NextWild, scanVars
  <2>4. QED
    BY <2>1, <2>2, <2>3
<1>3. QED
  BY <1>1, <1>2, AlwaysPInv, PTL DEF ScanSpec
=============================================================================
