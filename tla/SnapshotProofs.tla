--------------------------- MODULE SnapshotProofs ---------------------------
(***************************************************************************)
(* Theorems about Snapshot, for every value of its constants: whatever the *)
(* blocks, the images, the file of the CDS and the bounds are.             *)
(*                                                                         *)
(* The filters are proved with every fault.  What the recipes restore is   *)
(* proved with crashes, for a CDS whose servers always answer: a BatchGet  *)
(* that fails leaves the answers to other questions.                       *)
(***************************************************************************)
EXTENDS Snapshot, SequenceTheorems, FiniteSetTheorems, WellFoundedInduction, TLAPS

IsFunction(f) == f = [id \in SnapshotId |-> f[id]]

(* What a run of the program is about, and how far it is. *)
Stages ==
    /\ IsFunction(metas) /\ IsFunction(filters) /\ IsFunction(completed)
    /\ sound \subseteq SnapshotId
    /\ pc \in {"none", "segments", "meta", "filters", "close"}
    /\ pc # "none" => job.id \in SnapshotId /\ job.image \in Images
    /\ segments \in Nat
    /\ pc = "none" => segments = 0 /\ job.image = NoData
    /\ pc # "none" => segments <= Len(job.image)
    /\ pc \in {"meta", "filters", "close"} => segments = Len(job.image)
    /\ \A id \in SnapshotId : metas[id].exists \in BOOLEAN /\ completed[id] \in Images \cup {NoData}
    /\ \A id \in SnapshotId : completed[id] # NoData \/ id \in sound => metas[id].exists
    /\ pc \in {"filters", "close"} =>
           /\ metas[job.id] = [exists |-> TRUE, recipe |-> snapshotRecipe]
           /\ completed[job.id] = NoData /\ job.id \notin sound

(* The filter in memory has the blocks of the segments so far, the files have
   those of the finished snapshots. *)
FilterSteps ==
    /\ pc # "none" =>
           \A k \in 1..segments : \A p \in DOMAIN job.image[k] : job.image[k][p] \in filter
    /\ pc = "close" => filters[job.id].elements = filter
    /\ filter \subseteq Block /\ \A id \in SnapshotId : filters[id].elements \subseteq Block
    /\ FiltersComplete

FInv == Stages /\ FilterSteps

-----------------------------------------------------------------------------
LEMMA ImageTypes ==
    ASSUME NEW image \in Images
    PROVE  /\ image \in Seq(Seq(Block)) /\ Len(image) \in Nat
           /\ DOMAIN image = 1..Len(image)
           /\ \A k \in 1..Len(image) : image[k] \in Seq(Block) \ {<< >>}
<1>1. image \in Seq(Seq(Block) \ {<< >>})
  BY SnapshotAssumption
<1>2. \A k \in 1..Len(image) : image[k] \in Seq(Block) \ {<< >>}
  BY <1>1, ElementOfSeq
<1>3. image \in Seq(Seq(Block)) /\ Len(image) \in Nat /\ DOMAIN image = 1..Len(image)
  <2>1. Len(image) \in Nat /\ DOMAIN image = 1..Len(image) /\ image = [k \in 1..Len(image) |-> image[k]]
    BY <1>1, LenProperties
  <2>2. [k \in 1..Len(image) |-> image[k]] \in Seq(Seq(Block))
    BY <1>2, <2>1, IsASeq
  <2>3. QED
    BY <2>1, <2>2
<1>4. QED
  BY <1>2, <1>3

LEMMA InitFInv == Init => FInv
<1> SUFFICES ASSUME Init
             PROVE  FInv
  OBVIOUS
<1>1. Stages
  BY DEF Init, Stages, IsFunction, NoMeta, NoFilter
<1>2. FilterSteps
  BY DEF Init, FilterSteps, FiltersComplete, NoFilter
<1>3. QED
  BY <1>1, <1>2 DEF FInv

(* A segment is the next one, whose blocks the filter gets. *)
LEMMA SegmentFInv ==
    ASSUME FInv, HasSegment, UpdateBloomFilters, segments' = segments + 1,
           UNCHANGED <<metas, filters, pc, job, completed, sound>>
    PROVE  FInv'
<1>1. job.image \in Images /\ segments \in Nat /\ pc = "segments" /\ Len(job.image) \in Nat
  BY ImageTypes DEF FInv, Stages, HasSegment
<1>2. Stages'
  BY <1>1 DEF FInv, Stages, IsFunction, HasSegment
<1>3. ASSUME NEW k \in 1..(segments + 1), NEW p \in DOMAIN job.image[k]
      PROVE  job.image[k][p] \in filter'
  <2>1. CASE k = segments + 1
    BY <2>1 DEF UpdateBloomFilters, Current
  <2>2. CASE k # segments + 1
    <3>1. k \in 1..segments
      BY <1>1, <2>2
    <3>2. QED
      BY <1>1, <3>1 DEF FInv, FilterSteps, UpdateBloomFilters
  <2>3. QED
    BY <2>1, <2>2
<1>4. filter' \subseteq Block
  <2>1. segments + 1 \in 1..Len(job.image)
    BY <1>1 DEF HasSegment
  <2>2. Current \in Seq(Block)
    BY <1>1, <2>1, ImageTypes DEF Current
  <2>3. \A p \in DOMAIN Current : Current[p] \in Block
    BY <2>2, LenProperties, ElementOfSeq
  <2>4. QED
    BY <2>3 DEF FInv, FilterSteps, UpdateBloomFilters
<1>5. FilterSteps'
  BY <1>1, <1>3, <1>4 DEF FInv, FilterSteps, FiltersComplete
<1>6. QED
  BY <1>2, <1>5 DEF FInv

LEMMA NextFInv == FInv /\ [Next]_vars => FInv'
<1> SUFFICES ASSUME FInv, [Next]_vars
             PROVE  FInv'
  OBVIOUS
<1> USE DEF FInv
<1>1. ASSUME NEW id \in SnapshotId, NEW image \in Images, NEW parent \in SnapshotId \cup {NoSnapshot},
             Begin(id, image, parent)
      PROVE  FInv'
  <2>1. /\ pc = "none" /\ pc' = "segments" /\ job'.id = id /\ job'.image = image /\ segments' = 0
        /\ filter' = {} /\ UNCHANGED <<metas, filters, completed, sound>>
    BY <1>1 DEF Begin, diskVars
  <2>2. Len(image) \in Nat
    BY ImageTypes
  <2>3. Stages'
    BY <2>1, <2>2 DEF Stages, IsFunction
  <2>4. FilterSteps'
    BY <2>1 DEF FilterSteps, FiltersComplete
  <2>5. QED
    BY <2>3, <2>4
<1>2. CASE SegmentInParent
  BY <1>2, SegmentFInv DEF SegmentInParent, diskVars, historyVars
<1>3. CASE WriteSegment
  BY <1>3, SegmentFInv DEF WriteSegment, historyVars
<1>4. CASE EndOfImage
  <2>1. Stages'
    BY <1>4, ImageTypes DEF EndOfImage, Stages, IsFunction, diskVars, memoryVars, historyVars
  <2>2. FilterSteps'
    BY <1>4 DEF EndOfImage, FilterSteps, FiltersComplete, diskVars, memoryVars, historyVars
  <2>3. QED
    BY <2>1, <2>2
<1>5. CASE RemoveMeta
  <2>1. /\ pc = "meta" /\ pc' = pc /\ job' = job /\ segments' = segments /\ filter' = filter
        /\ filters' = filters
        /\ metas' = [metas EXCEPT ![job.id] = NoMeta]
        /\ completed' = [completed EXCEPT ![job.id] = NoData] /\ sound' = sound \ {job.id}
    BY <1>5 DEF RemoveMeta, memoryVars
  <2>2. Stages'
    BY <2>1 DEF Stages, IsFunction, NoMeta
  <2>3. FilterSteps'
    BY <2>1 DEF FilterSteps, FiltersComplete, Stages, IsFunction
  <2>4. QED
    BY <2>2, <2>3
<1>6. CASE SaveMeta
  <2>1. /\ pc = "meta" /\ pc' = "filters" /\ job' = job /\ segments' = segments /\ filter' = filter
        /\ filters' = filters /\ snapshotRecipe' = snapshotRecipe
        /\ metas[job.id] = NoMeta
        /\ metas' = [metas EXCEPT ![job.id] = [exists |-> TRUE, recipe |-> snapshotRecipe]]
        /\ completed' = completed /\ sound' = sound
    BY <1>6 DEF SaveMeta, memoryVars, historyVars
  <2>2. job.id \in SnapshotId /\ ~metas[job.id].exists
    BY <2>1 DEF Stages, NoMeta
  <2>3. completed[job.id] = NoData /\ job.id \notin sound
    BY <2>2 DEF Stages
  <2>4. Stages'
    BY <2>1, <2>2, <2>3 DEF Stages, IsFunction
  <2>5. FilterSteps'
    BY <2>1 DEF FilterSteps, FiltersComplete
  <2>6. QED
    BY <2>4, <2>5
<1>7. CASE SaveFilters
  <2>1. /\ pc = "filters" /\ pc' = "close" /\ job' = job /\ segments' = segments /\ filter' = filter
        /\ filters' = [filters EXCEPT ![job.id] = [exists |-> TRUE, elements |-> filter]]
        /\ snapshotRecipe' = snapshotRecipe /\ metas' = metas
        /\ completed' = completed /\ sound' = sound
    BY <1>7 DEF SaveFilters, memoryVars, historyVars
  <2>2. Stages'
    BY <2>1 DEF Stages, IsFunction
  <2>3. job.id \in SnapshotId /\ completed[job.id] = NoData
    BY <2>1 DEF Stages
  <2>4. filters'[job.id].elements = filter
    BY <2>1, <2>3 DEF Stages, IsFunction
  <2>5. \A id \in SnapshotId : id # job.id => filters'[id] = filters[id]
    BY <2>1 DEF Stages, IsFunction
  <2>6. FiltersComplete'
    BY <2>1, <2>3, <2>5 DEF FilterSteps, FiltersComplete
  <2>7. FilterSteps'
    BY <2>1, <2>4, <2>5, <2>6 DEF FilterSteps
  <2>8. QED
    BY <2>2, <2>7
<1>8. CASE FlushAndClose
  <2>1. /\ pc = "close" /\ pc' = "none" /\ segments' = 0 /\ job'.image = NoData /\ filter' = {}
        /\ completed' = [completed EXCEPT ![job.id] = job.image]
        /\ sound' = IF job.parent \in sound \cup {NoSnapshot} THEN sound \cup {job.id} ELSE sound
        /\ filters' = filters /\ metas' = metas
    BY <1>8 DEF FlushAndClose
  <2>2. /\ job.id \in SnapshotId /\ job.image \in Images /\ metas[job.id].exists
        /\ segments = Len(job.image)
    BY <2>1 DEF Stages
  <2>3. completed'[job.id] = job.image /\ \A id \in SnapshotId : id # job.id => completed'[id] = completed[id]
    BY <2>1, <2>2 DEF Stages, IsFunction
  <2>4. Stages'
    BY <2>1, <2>2, <2>3 DEF Stages, IsFunction
  <2>5. DOMAIN job.image = 1..segments
    BY <2>2, ImageTypes
  <2>6. FiltersComplete'
    BY <2>1, <2>2, <2>3, <2>5 DEF FilterSteps, FiltersComplete
  <2>7. QED
    BY <2>1, <2>4, <2>6 DEF FilterSteps
<1>9. CASE Sync
  <2>1. UNCHANGED <<metas, filters, completed, sound, pc, job, segments, snapshotRecipe, filter>>
    BY <1>9 DEF Sync, memoryVars, historyVars
  <2>2. QED
    BY <2>1 DEF Stages, FilterSteps, FiltersComplete, IsFunction
<1>10. CASE Die
  <2>1. /\ pc' = "none" /\ segments' = 0 /\ job'.image = NoData /\ filter' = {}
        /\ UNCHANGED <<metas, filters, completed, sound>>
    BY <1>10 DEF Die
  <2>2. QED
    BY <2>1 DEF Stages, FilterSteps, FiltersComplete, IsFunction
<1>11. CASE UNCHANGED vars
  <2>1. UNCHANGED <<metas, filters, completed, sound, pc, job, segments, snapshotRecipe, filter>>
    BY <1>11 DEF vars, diskVars, memoryVars, historyVars
  <2>2. QED
    BY <2>1 DEF Stages, FilterSteps, FiltersComplete, IsFunction
<1>12. QED
  BY <1>1, <1>2, <1>3, <1>4, <1>5, <1>6, <1>7, <1>8, <1>9, <1>10, <1>11 DEF Next

LEMMA AlwaysFInv == Spec => []FInv
<1>1. Init => FInv
  BY InitFInv
<1>2. FInv /\ [Next]_vars => FInv'
  BY NextFInv
<1>3. QED
  BY <1>1, <1>2, PTL DEF Spec

(* The Bloom filters of a snapshot whose write ended have every block of its
   data, those that were found in the parent or in the CDS, too, whichever runs
   died or were repeated (UpdateBloomFilters, SaveBloomFilters). *)
THEOREM FiltersHaveAll == Spec => []FiltersComplete
<1>1. FInv => FiltersComplete
  BY DEF FInv, FilterSteps
<1>2. QED
  BY <1>1, AlwaysFInv, PTL

-----------------------------------------------------------------------------
(* The end offsets of the segments of an image. *)

(* The function that EndIn(image, n) defines. *)
IsEnd(f, image, n) ==
    f = [k \in 0..n |-> IF k = 0 THEN 0 ELSE f[k - 1] + Len(image[k])]

LEMMA LeastNat ==
    ASSUME NEW S \in SUBSET Nat, S # {}
    PROVE  \E n \in S : \A m \in S : n <= m
<1>1. IsWellFoundedOn(OpToRel(<, Nat), Nat)
  BY NatLessThanWellFounded
<1>2. PICK n \in S : \A m \in S : ~(<<m, n>> \in OpToRel(<, Nat))
  BY <1>1, WFMin
<1>3. \A m \in S : ~(m < n)
  BY <1>2 DEF OpToRel
<1>4. QED
  BY <1>3

LEMMA EndExists ==
    ASSUME NEW image
    PROVE  \A n \in Nat : \E f : IsEnd(f, image, n)
<1> DEFINE S == {n \in Nat : ~\E f : IsEnd(f, image, n)}
<1> SUFFICES ASSUME S # {}
             PROVE  FALSE
  OBVIOUS
<1>1. PICK n \in S : \A m \in S : n <= m
  BY LeastNat
<1>2. CASE n = 0
  <2>1. IsEnd([k \in 0..0 |-> 0], image, 0)
    BY DEF IsEnd
  <2>2. QED
    BY <1>2, <2>1
<1>3. CASE n # 0
  <2>1. n - 1 \in Nat /\ n - 1 \notin S
    BY <1>1, <1>3
  <2>2. PICK f : IsEnd(f, image, n - 1)
    BY <2>1
  <2> DEFINE g == [k \in 0..n |-> IF k = n THEN f[n - 1] + Len(image[n]) ELSE f[k]]
  <2>3. \A k \in 0..(n - 1) : g[k] = f[k]
    BY <2>1
  <2>4. ASSUME NEW k \in 0..n
        PROVE  g[k] = IF k = 0 THEN 0 ELSE g[k - 1] + Len(image[k])
    <3>1. CASE k = n
      BY <1>3, <2>1, <2>3, <3>1
    <3>2. CASE k # n
      <4>1. k \in 0..(n - 1)
        BY <2>1, <3>2
      <4>2. f[k] = IF k = 0 THEN 0 ELSE f[k - 1] + Len(image[k])
        BY <2>2, <4>1 DEF IsEnd
      <4>3. k # 0 => k - 1 \in 0..(n - 1)
        BY <4>1
      <4>4. QED
        BY <2>3, <4>1, <4>2, <4>3
    <3>3. QED
      BY <3>1, <3>2
  <2> HIDE DEF g
  <2>5. g = [k \in 0..n |-> g[k]]
    BY DEF g
  <2>6. IsEnd(g, image, n)
    BY <2>4, <2>5 DEF IsEnd
  <2>7. QED
    BY <2>6
<1>4. QED
  BY <1>2, <1>3

LEMMA EndStep ==
    ASSUME NEW image
    PROVE  /\ EndIn(image, 0) = 0
           /\ \A n \in Nat : EndIn(image, n + 1) = EndIn(image, n) + Len(image[n + 1])
<1> DEFINE End(n) == CHOOSE f : IsEnd(f, image, n)
<1>1. \A n \in Nat : IsEnd(End(n), image, n) /\ EndIn(image, n) = End(n)[n]
  <2> TAKE n \in Nat
  <2>1. IsEnd(End(n), image, n)
    BY EndExists
  <2>2. EndIn(image, n) = End(n)[n]
    BY DEF EndIn, IsEnd
  <2>3. QED
    BY <2>1, <2>2
<1> HIDE DEF End
<1>2. \A n \in Nat : \A k \in 0..n :
          End(n)[k] = IF k = 0 THEN 0 ELSE End(n)[k - 1] + Len(image[k])
  BY <1>1 DEF IsEnd
<1>3. EndIn(image, 0) = 0
  BY <1>1, <1>2
<1>4. ASSUME NEW n \in Nat
      PROVE  EndIn(image, n + 1) = EndIn(image, n) + Len(image[n + 1])
  <2> DEFINE S == {k \in 0..n : End(n + 1)[k] # End(n)[k]}
  <2>1. S = {}
    <3> SUFFICES ASSUME S # {}
                 PROVE  FALSE
      OBVIOUS
    <3>1. S \in SUBSET Nat
      OBVIOUS
    <3>2. PICK k \in S : \A m \in S : k <= m
      BY <3>1, LeastNat
    <3>3. k \in 0..n /\ k \in 0..(n + 1) /\ n + 1 \in Nat
      BY <3>2
    <3>4. k # 0 => k - 1 \in 0..n /\ k - 1 \notin S
      BY <3>2, <3>3
    <3>5. QED
      BY <1>2, <3>2, <3>3, <3>4
  <2>2. End(n + 1)[n] = End(n)[n]
    BY <2>1
  <2>3. n + 1 \in Nat /\ n + 1 \in 0..(n + 1) /\ n + 1 # 0 /\ (n + 1) - 1 = n
    OBVIOUS
  <2>4. End(n + 1)[n + 1] = End(n + 1)[n] + Len(image[n + 1])
    BY <1>2, <2>3
  <2>5. QED
    BY <1>1, <2>2, <2>3, <2>4
<1>5. QED
  BY <1>3, <1>4

(* They grow with the segments: no segment is empty. *)
LEMMA EndProps ==
    ASSUME NEW image \in Images
    PROVE  /\ \A n \in 0..Len(image) : EndIn(image, n) \in Nat
           /\ \A m, n \in 1..Len(image) : EndIn(image, m) = EndIn(image, n) => m = n
<1> DEFINE end(n) == EndIn(image, n)
           Bad == {n \in 0..Len(image) :
                      ~(end(n) \in Nat /\ \A m \in 0..(n - 1) : end(m) < end(n))}
<1>1. Len(image) \in Nat /\ \A k \in 1..Len(image) : Len(image[k]) \in Nat /\ Len(image[k]) > 0
  <2>1. ASSUME NEW k \in 1..Len(image)
        PROVE  Len(image[k]) \in Nat /\ Len(image[k]) > 0
    <3>1. image[k] \in Seq(Block) /\ image[k] # << >>
      BY ImageTypes
    <3>2. QED
      BY <3>1, LenProperties, EmptySeq
  <2>2. QED
    BY <2>1, ImageTypes
<1>2. end(0) = 0 /\ end(0) \in Nat
  BY EndStep
<1>3. \A n \in Nat : end(n + 1) = end(n) + Len(image[n + 1])
  BY EndStep
<1> HIDE DEF end
<1>4. Bad = {}
  <2> SUFFICES ASSUME Bad # {}
               PROVE  FALSE
    OBVIOUS
  <2>1. Bad \in SUBSET Nat
    BY <1>1
  <2>2. PICK n \in Bad : \A m \in Bad : n <= m
    BY <2>1, LeastNat
  <2>3. n # 0
    <3>1. \A m \in 0..(0 - 1) : FALSE
      OBVIOUS
    <3>2. QED
      BY <1>2, <2>2, <3>1
  <2>4. n - 1 \in Nat /\ n - 1 \in 0..Len(image) /\ n - 1 \notin Bad /\ n \in 1..Len(image)
        /\ (n - 1) + 1 = n
    BY <1>1, <2>2, <2>3
  <2>5. end(n - 1) \in Nat /\ \A m \in 0..((n - 1) - 1) : end(m) < end(n - 1)
    BY <2>4
  <2>6. end(n) = end(n - 1) + Len(image[n])
    BY <1>3, <2>4
  <2>7. Len(image[n]) \in Nat /\ Len(image[n]) > 0
    BY <1>1, <2>4
  <2>8. end(n) \in Nat /\ end(n - 1) < end(n)
    BY <2>5, <2>6, <2>7
  <2>9. ASSUME NEW m \in 0..(n - 1)
        PROVE  end(m) < end(n)
    <3>1. CASE m = n - 1
      BY <2>8, <3>1
    <3>2. CASE m # n - 1
      <4>1. m \in 0..((n - 1) - 1) /\ m \in 0..Len(image) /\ m < n /\ m \in Nat
        BY <1>1, <2>4, <3>2
      <4>2. m \notin Bad
        BY <2>2, <4>1
      <4>3. end(m) \in Nat /\ end(m) < end(n - 1)
        BY <2>5, <4>1, <4>2
      <4>4. QED
        BY <2>5, <2>8, <4>3
    <3>3. QED
      BY <3>1, <3>2
  <2>10. QED
    BY <2>2, <2>8, <2>9
<1>5. \A n \in 0..Len(image) : end(n) \in Nat /\ \A m \in 0..(n - 1) : end(m) < end(n)
  BY <1>4
<1>6. ASSUME NEW m \in 1..Len(image), NEW n \in 1..Len(image), end(m) = end(n)
      PROVE  m = n
  <2>1. m \in Nat /\ n \in Nat /\ m \in 0..Len(image) /\ n \in 0..Len(image)
    BY <1>1
  <2>2. m < n => m \in 0..(n - 1)
    BY <2>1
  <2>3. n < m => n \in 0..(m - 1)
    BY <2>1
  <2>4. end(m) \in Nat /\ end(n) \in Nat
    BY <1>5, <2>1
  <2>5. ~(m < n) /\ ~(n < m)
    BY <1>5, <1>6, <2>1, <2>2, <2>3, <2>4
  <2>6. QED
    BY <2>1, <2>5
<1>7. QED
  BY <1>5, <1>6 DEF end

-----------------------------------------------------------------------------
(* What the variables hold. *)
BM == [cksum : Block, handle : Nat, flags : SUBSET Flag]

Entry ==
    [kind : {"block"}, data : Block, recipe : {<< >>}]
        \cup [kind : {"recipe"}, data : {"none"}, recipe : Seq(BM)]

SM == [cksum : Seq(Block), end_offset : Nat, handle : Nat]

PB == [cksum : Seq(Block), end_offset : Nat, recipe : Seq(BM)]

Types ==
    /\ log \in Seq(Entry) /\ synced \in 0..Len(log)
    /\ \A id \in SnapshotId : metas[id].recipe \in Seq(SM)
    /\ parentRecipe \in Seq(SM) /\ snapshotRecipe \in Seq(SM) /\ pending \in Seq(PB)
    /\ Len(snapshotRecipe) + Len(pending) = segments
    /\ Len(pending) < DF_MAX_PENDING
    /\ \A n \in DOMAIN answers : answers[n].offset \in Nat

(* One of the first n segments of the image. *)
IsSegment(sm, image, n) ==
    \E k \in 1..n : image[k] = sm.cksum /\ EndIn(image, k) = sm.end_offset

Distinct(s) == \A i, j \in 1..Len(s) : s[i].end_offset = s[j].end_offset => i = j

(* The recipe and the buffer have segments of what was read of an image, each once. *)
InPlace(recipe, buffer, image, n) ==
    /\ \A j \in 1..Len(recipe) : IsSegment(recipe[j], image, n)
    /\ \A j \in 1..Len(buffer) : IsSegment(buffer[j], image, n)
    /\ Distinct(recipe) /\ Distinct(buffer)
    /\ \A i \in 1..Len(recipe), j \in 1..Len(buffer) :
           recipe[i].end_offset # buffer[j].end_offset

(* A snapshot whose write ended has each segment of its data at most once, and lacks
   fewer than a batch. *)
PlacedOnDisk ==
    \A id \in SnapshotId : completed[id] # NoData \/ id \in sound =>
        /\ Len(completed[id]) - Len(metas[id].recipe) < DF_MAX_PENDING
        /\ InPlace(metas[id].recipe, << >>, completed[id], Len(completed[id]))

Placed ==
    /\ PlacedOnDisk
    /\ pc # "none" => InPlace(snapshotRecipe, pending, job.image, segments)

TInv == Types /\ Placed

(* A block, the blocks of a segment, and a segment are found in the CDS and in the
   first n entries of the store l. *)
GoodBlock(bm, b, l, n) ==
    /\ bm.cksum = b
    /\ IF "IN_CDS" \in bm.flags
       THEN bm.handle + 1 \in DOMAIN CdsFile /\ CdsFile[bm.handle + 1] = b
       ELSE bm.handle \in 1..n /\ l[bm.handle].kind = "block" /\ l[bm.handle].data = b

GoodRecipe(recipe, data, l, n) ==
    /\ Len(recipe) = Len(data)
    /\ \A k \in 1..Len(data) : GoodBlock(recipe[k], data[k], l, n)

GoodSegment(sm, l, n) ==
    /\ sm.handle \in 1..n /\ l[sm.handle].kind = "recipe"
    /\ GoodRecipe(l[sm.handle].recipe, sm.cksum, l, n)

(* What a sound snapshot needs is synced. *)
OnDisk ==
    \A id \in sound : \A j \in 1..Len(metas[id].recipe) :
        GoodSegment(metas[id].recipe[j], log, synced)

(* What the run has made of its image is in the store. *)
Made(recipe, buffer, l) ==
    /\ \A j \in 1..Len(recipe) : GoodSegment(recipe[j], l, Len(l))
    /\ \A j \in 1..Len(buffer) : GoodRecipe(buffer[j].recipe, buffer[j].cksum, l, Len(l))

(* It is, while the parent is sound. *)
InMemory ==
    pc # "none" =>
        /\ job.parent = NoSnapshot => parentRecipe = << >>
        /\ job.parent \in sound \cup {NoSnapshot} =>
               /\ \A j \in 1..Len(parentRecipe) : GoodSegment(parentRecipe[j], log, Len(log))
               /\ Made(snapshotRecipe, pending, log)

RInv == OnDisk /\ InMemory

(* Every segment in the recipe of a snapshot whose write ended, and those of all
   its ancestors, restores as a segment of its data, and the recipe lacks at most
   the last batch: whichever processes died, before or after, and whatever was
   lost with them or written over the ancestors. *)
RecipesRestore ==
    \A id \in sound :
        /\ Len(completed[id]) - Len(metas[id].recipe) < DF_MAX_PENDING
        /\ \A j \in DOMAIN metas[id].recipe : \E k \in DOMAIN completed[id] :
               /\ metas[id].recipe[j].cksum = completed[id][k]
               /\ Restores(metas[id].recipe[j], completed[id][k])

-----------------------------------------------------------------------------
(* Positions of a segment, and the data at them. *)

LEMMA RankProps ==
    ASSUME NEW n \in Nat, NEW S \in SUBSET (1..n), NEW p \in S
    PROVE  /\ Cardinality(S) \in Nat
           /\ RankIn(S, p) \in 1..Cardinality(S)
           /\ \A q \in S : RankIn(S, q) = RankIn(S, p) => q = p
<1> DEFINE Upto(q) == {x \in S : x <= q}
<1>1. IsFiniteSet(1..n) /\ IsFiniteSet(S)
  <2>1. IsFiniteSet(1..n)
    BY FS_Interval
  <2>2. QED
    BY <2>1, FS_Subset
<1>2. \A q \in S : /\ IsFiniteSet(Upto(q)) /\ Cardinality(Upto(q)) \in Nat
                   /\ Cardinality(Upto(q)) <= Cardinality(S)
  <2> TAKE q \in S
  <2>1. Upto(q) \in SUBSET S
    OBVIOUS
  <2>2. QED
    BY <1>1, <2>1, FS_Subset, FS_CardinalityType
<1>3. Cardinality(S) \in Nat
  BY <1>1, FS_CardinalityType
<1>4. Cardinality(Upto(p)) # 0
  <2>1. p \in Upto(p)
    OBVIOUS
  <2>2. QED
    BY <1>2, <2>1, FS_EmptySet
<1>5. ASSUME NEW q \in S, NEW r \in S, q < r, Cardinality(Upto(q)) = Cardinality(Upto(r))
      PROVE  FALSE
  <2>1. q \in Nat /\ r \in Nat /\ \A x \in S : x \in Nat /\ (x <= q => x <= r)
    BY <1>5
  <2>2. Upto(q) \in SUBSET Upto(r)
    BY <2>1
  <2>3. Upto(q) = Upto(r)
    BY <1>2, <1>5, <2>2, FS_Subset
  <2>4. r \in Upto(r) /\ r \notin Upto(q)
    BY <1>5, <2>1
  <2>5. QED
    BY <2>3, <2>4
<1>6. \A q \in S : RankIn(S, q) = Cardinality(Upto(q))
  BY DEF RankIn
<1>7. ASSUME NEW q \in S, RankIn(S, q) = RankIn(S, p)
      PROVE  q = p
  <2>1. ~(q < p) /\ ~(p < q)
    BY <1>5, <1>6, <1>7
  <2>2. QED
    BY <2>1
<1>8. QED
  BY <1>2, <1>3, <1>4, <1>6, <1>7

LEMMA SelectProps ==
    ASSUME NEW T, NEW seq \in Seq(T), NEW S \in SUBSET (1..Len(seq))
    PROVE  /\ Cardinality(S) \in Nat
           /\ Select(seq, S) \in Seq(T) /\ Len(Select(seq, S)) = Cardinality(S)
           /\ DOMAIN Select(seq, S) = 1..Cardinality(S)
           /\ \A p \in S : Select(seq, S)[RankIn(S, p)] = seq[p]
<1> DEFINE c == Cardinality(S)
           f == [p \in S |-> RankIn(S, p)]
           At(n) == CHOOSE p \in S : RankIn(S, p) = n
<1>1. Len(seq) \in Nat
  BY LenProperties
<1>2. IsFiniteSet(S) /\ c \in Nat
  <2>1. IsFiniteSet(1..Len(seq))
    BY <1>1, FS_Interval
  <2>2. IsFiniteSet(S)
    BY <2>1, FS_Subset
  <2>3. QED
    BY <2>2, FS_CardinalityType
<1>3. \A p \in S : RankIn(S, p) \in 1..c /\ \A q \in S : RankIn(S, q) = RankIn(S, p) => q = p
  BY <1>1, RankProps
<1>4. f \in Injection(S, 1..c)
  BY <1>3 DEF Injection, IsInjective
<1>5. IsFiniteSet(1..c) /\ Cardinality(1..c) = c
  BY <1>2, FS_Interval
<1>6. f \in Surjection(S, 1..c)
  BY <1>4, <1>5, FS_Injection
<1>7. \A n \in 1..c : \E p \in S : RankIn(S, p) = n
  BY <1>6 DEF Surjection
<1>8. \A n \in 1..c : At(n) \in S /\ RankIn(S, At(n)) = n
  BY <1>7
<1>9. \A p \in S : At(RankIn(S, p)) = p
  BY <1>3, <1>8
<1>10. \A n \in 1..c : At(n) \in 1..Len(seq)
  BY <1>8
<1>11. Select(seq, S) = [n \in 1..c |-> seq[At(n)]]
  BY DEF Select
<1> HIDE DEF At, c
<1>12. \A n \in 1..c : seq[At(n)] \in T
  BY <1>10, ElementOfSeq
<1>13. [n \in 1..c |-> seq[At(n)]] \in Seq(T)
  BY <1>2, <1>12, IsASeq
<1>14. Len([n \in 1..c |-> seq[At(n)]]) = c
  BY <1>2, <1>13, LenProperties
<1>15. \A p \in S : Select(seq, S)[RankIn(S, p)] = seq[p]
  BY <1>3, <1>9, <1>11
<1>16. QED
  BY <1>2, <1>11, <1>13, <1>14, <1>15 DEF c

-----------------------------------------------------------------------------
(* What is good stays so when the store grows. *)

LEMMA GoodStays ==
    ASSUME NEW l, NEW n \in Nat, NEW m, NEW n2 \in Nat, n <= n2,
           \A i \in 1..n : m[i] = l[i]
    PROVE  /\ \A recipe, data : GoodRecipe(recipe, data, l, n) => GoodRecipe(recipe, data, m, n2)
           /\ \A sm : GoodSegment(sm, l, n) => GoodSegment(sm, m, n2)
<1>1. ASSUME NEW bm, NEW b, GoodBlock(bm, b, l, n)
      PROVE  GoodBlock(bm, b, m, n2)
  BY <1>1 DEF GoodBlock
<1>2. ASSUME NEW recipe, NEW data, GoodRecipe(recipe, data, l, n)
      PROVE  GoodRecipe(recipe, data, m, n2)
  BY <1>1, <1>2 DEF GoodRecipe
<1>3. ASSUME NEW sm, GoodSegment(sm, l, n)
      PROVE  GoodSegment(sm, m, n2)
  <2>1. sm.handle \in 1..n /\ m[sm.handle] = l[sm.handle]
    BY <1>3 DEF GoodSegment
  <2>2. QED
    BY <1>2, <1>3, <2>1 DEF GoodSegment
<1>4. QED
  BY <1>2, <1>3

(* A good segment restores. *)
LEMMA GoodRestores ==
    ASSUME Types, NEW n \in Nat, n <= Len(log), NEW sm \in SM, GoodSegment(sm, log, n)
    PROVE  Restores(sm, sm.cksum)
<1> DEFINE recipe == log[sm.handle].recipe
<1>1. log \in Seq(Entry) /\ DOMAIN log = 1..Len(log) /\ Len(log) \in Nat
  BY LenProperties DEF Types
<1>2. sm.handle \in 1..Len(log) /\ log[sm.handle].kind = "recipe"
  BY <1>1 DEF GoodSegment
<1>3. recipe \in Seq(BM) /\ IsRecipe(sm.handle)
  <2>1. log[sm.handle] \in Entry
    BY <1>1, <1>2, ElementOfSeq
  <2>2. QED
    BY <1>1, <1>2, <2>1 DEF Entry, IsRecipe
<1>4. GoodRecipe(recipe, sm.cksum, log, n)
  BY DEF GoodSegment
<1>5. DOMAIN recipe = 1..Len(sm.cksum) /\ Len(recipe) = Len(sm.cksum)
  BY <1>3, <1>4, LenProperties DEF GoodRecipe
<1> HIDE DEF recipe
<1>6. \A k \in DOMAIN recipe : Loads(recipe[k]) /\ DataOf(recipe[k]) = sm.cksum[k]
  BY <1>1, <1>4, <1>5 DEF GoodRecipe, GoodBlock, Loads, DataOf
<1>7. QED
  BY <1>3, <1>5, <1>6 DEF Restores, recipe

-----------------------------------------------------------------------------
(* The blocks of a segment that is written. *)

LEMMA CdsProps ==
    ASSUME NEW queries, NEW reply \in BatchGet(queries)
    PROVE  /\ DOMAIN reply = DOMAIN queries
           /\ \A n \in DOMAIN queries : reply[n].found =>
                  /\ reply[n].offset \in Nat /\ reply[n].offset + 1 \in DOMAIN CdsFile
                  /\ CdsFile[reply[n].offset + 1] = queries[n]
<1>1. PICK known \in SUBSET {queries[n] : n \in {m \in DOMAIN queries : InCds(queries[m])}} :
          reply = [n \in DOMAIN queries |-> IF queries[n] \in known
                                           THEN [found |-> TRUE, offset |-> Offset(queries[n])]
                                           ELSE NotFound]
  BY DEF BatchGet
<1>2. DOMAIN CdsFile = 1..Len(CdsFile) /\ Len(CdsFile) \in Nat
  BY SnapshotAssumption, LenProperties
<1>3. ASSUME NEW n \in DOMAIN queries, reply[n].found
      PROVE  /\ reply[n].offset \in Nat /\ reply[n].offset + 1 \in DOMAIN CdsFile
             /\ CdsFile[reply[n].offset + 1] = queries[n]
  <2>1. queries[n] \in known
    BY <1>1, <1>3 DEF NotFound
  <2>2. InCds(queries[n])
    BY <1>1, <2>1
  <2>3. reply[n].offset = Offset(queries[n])
    BY <1>1, <2>1
  <2> DEFINE k == CHOOSE k \in DOMAIN CdsFile : CdsFile[k] = queries[n]
  <2>4. k \in DOMAIN CdsFile /\ CdsFile[k] = queries[n]
    BY <2>2 DEF InCds
  <2>5. Offset(queries[n]) = k - 1
    BY DEF Offset
  <2> HIDE DEF k
  <2>6. k \in Nat /\ k >= 1
    BY <1>2, <2>4
  <2>7. k - 1 \in Nat /\ (k - 1) + 1 = k
    BY <2>6
  <2>8. QED
    BY <2>3, <2>4, <2>5, <2>7
<1>4. QED
  BY <1>1, <1>3

(* The blocks of the parent's segment: what its recipe says of them is good when
   the parent's recipe is. *)
LEMMA ParentProps ==
    ASSUME Types
    PROVE  /\ ParentBlocks \in Seq(BM) /\ DOMAIN ParentBlocks = 1..Len(ParentBlocks)
           /\ (\A j \in 1..Len(parentRecipe) : GoodSegment(parentRecipe[j], log, Len(log))) =>
                  \A q \in DOMAIN ParentBlocks :
                      GoodBlock(ParentBlocks[q], ParentBlocks[q].cksum, log, Len(log))
<1>1. /\ log \in Seq(Entry) /\ DOMAIN log = 1..Len(log)
      /\ parentRecipe \in Seq(SM) /\ DOMAIN parentRecipe = 1..Len(parentRecipe)
  BY LenProperties DEF Types
<1>2. CASE HasParentSegment /\ IsRecipe(ParentSegment.handle)
  <2>1. ParentBlocks = log[ParentSegment.handle].recipe
    BY <1>2 DEF ParentBlocks
  <2>2. log[ParentSegment.handle] \in Entry
    BY <1>1, <1>2, ElementOfSeq DEF IsRecipe
  <2>3. ParentBlocks \in Seq(BM)
    <3>1. log[ParentSegment.handle].kind = "recipe"
      BY <1>2 DEF IsRecipe
    <3>2. log[ParentSegment.handle].recipe \in Seq(BM)
      BY <2>2, <3>1 DEF Entry
    <3>3. QED
      BY <2>1, <3>2
  <2>4. DOMAIN ParentBlocks = 1..Len(ParentBlocks)
    BY <2>3, LenProperties
  <2>5. ASSUME \A j \in 1..Len(parentRecipe) : GoodSegment(parentRecipe[j], log, Len(log)),
               NEW q \in DOMAIN ParentBlocks
        PROVE  GoodBlock(ParentBlocks[q], ParentBlocks[q].cksum, log, Len(log))
    <3>1. GoodSegment(ParentSegment, log, Len(log))
      BY <1>1, <1>2, <2>5 DEF HasParentSegment, ParentSegment
    <3>2. GoodRecipe(ParentBlocks, ParentSegment.cksum, log, Len(log))
      BY <2>1, <3>1 DEF GoodSegment
    <3>3. GoodBlock(ParentBlocks[q], ParentSegment.cksum[q], log, Len(log))
      BY <2>4, <2>5, <3>2 DEF GoodRecipe
    <3>4. QED
      BY <3>3 DEF GoodBlock
  <2>6. QED
    BY <2>3, <2>4, <2>5
<1>3. CASE ~(HasParentSegment /\ IsRecipe(ParentSegment.handle))
  <2>1. ParentBlocks = << >>
    BY <1>3 DEF ParentBlocks
  <2>2. << >> \in Seq(BM) /\ DOMAIN (<< >>) = {} /\ Len(<< >>) = 0
    OBVIOUS
  <2>3. QED
    BY <2>1, <2>2
<1>4. QED
  BY <1>2, <1>3

(* The recipe of the segment, when the blocks that are new come behind the store. *)
LEMMA RecipeProps ==
    ASSUME Types, Current \in Seq(Block),
           NEW reply, \A n \in DOMAIN Select(Current, Asked) : reply[n].offset \in Nat,
           NEW new, new = {p \in Asked : ~reply[RankIn(Asked, p)].found}
    PROVE  /\ new \in SUBSET (1..Len(Current))
           /\ RecipeOf(reply, new) \in Seq(BM)
           /\ \A m : \A n \in Nat :
                  /\ reply \in BatchGet(Select(Current, Asked))
                  /\ Len(log) + Cardinality(new) <= n
                  /\ \A i \in 1..Len(log) : m[i] = log[i]
                  /\ \A p \in new : m[Len(log) + RankIn(new, p)] = BlockEntry(Current[p])
                  /\ \A j \in 1..Len(parentRecipe) : GoodSegment(parentRecipe[j], log, Len(log))
                  => GoodRecipe(RecipeOf(reply, new), Current, m, n)
<1> DEFINE queries == Select(Current, Asked)
           recipe == RecipeOf(reply, new)
           Source(p) == CHOOSE q \in SearchBlock(Current[p]) : TRUE
<1>1. DOMAIN Current = 1..Len(Current) /\ Len(Current) \in Nat /\ Len(log) \in Nat
  BY LenProperties DEF Types
<1>2. Asked \in SUBSET (1..Len(Current)) /\ new \in SUBSET (1..Len(Current))
  BY <1>1 DEF Asked
<1>3. /\ DOMAIN queries = 1..Cardinality(Asked)
      /\ \A p \in Asked : queries[RankIn(Asked, p)] = Current[p]
  BY <1>2, SelectProps
<1>4. \A p \in Asked : RankIn(Asked, p) \in DOMAIN queries
  BY <1>1, <1>2, <1>3, RankProps
<1>5. \A p \in Asked \ new :
          /\ reply[RankIn(Asked, p)].offset \in Nat
          /\ reply \in BatchGet(queries) =>
                 LET offset == reply[RankIn(Asked, p)].offset
                 IN  offset + 1 \in DOMAIN CdsFile /\ CdsFile[offset + 1] = Current[p]
  <2> TAKE p \in Asked \ new
  <2>1. reply[RankIn(Asked, p)].found
    OBVIOUS
  <2>2. RankIn(Asked, p) \in DOMAIN queries /\ queries[RankIn(Asked, p)] = Current[p]
    BY <1>3, <1>4
  <2>3. reply \in BatchGet(queries) =>
            \A n \in DOMAIN queries : reply[n].found =>
                reply[n].offset + 1 \in DOMAIN CdsFile /\ CdsFile[reply[n].offset + 1] = queries[n]
    BY CdsProps
  <2>4. QED
    BY <2>1, <2>2, <2>3
<1>6. Cardinality(new) \in Nat /\ \A p \in new : RankIn(new, p) \in 1..Cardinality(new)
  <2>1. \A p \in new : RankIn(new, p) \in 1..Cardinality(new)
    BY <1>1, <1>2, RankProps
  <2>2. QED
    BY <1>2, <2>1, SelectProps
<1>7. \A p \in (1..Len(Current)) \ Asked :
          /\ Source(p) \in DOMAIN ParentBlocks /\ ParentBlocks[Source(p)].cksum = Current[p]
  <2> TAKE p \in (1..Len(Current)) \ Asked
  <2>1. SearchBlock(Current[p]) # {}
    BY <1>1 DEF Asked
  <2>2. Source(p) \in SearchBlock(Current[p])
    BY <2>1
  <2>3. QED
    BY <2>2 DEF SearchBlock
<1>8. recipe = [p \in 1..Len(Current) |->
                  IF p \notin Asked
                  THEN BlockMeta(Current[p], ParentBlocks[Source(p)].handle,
                                 ParentBlocks[Source(p)].flags \cup {"IN_PARENT"})
                  ELSE IF p \notin new
                  THEN BlockMeta(Current[p], reply[RankIn(Asked, p)].offset, {"IN_CDS"})
                  ELSE BlockMeta(Current[p], Len(log) + RankIn(new, p), {"IN_AS"})]
  BY <1>1 DEF RecipeOf
<1> HIDE DEF queries, recipe, Source
<1>9. \A p \in (1..Len(Current)) \ Asked : ParentBlocks[Source(p)] \in BM
  BY <1>7, ParentProps, ElementOfSeq
<1>10. \A p \in 1..Len(Current) : Current[p] \in Block
  BY ElementOfSeq
<1>11. ASSUME NEW p \in 1..Len(Current)
       PROVE  recipe[p] \in BM
  <2>1. CASE p \notin Asked
    BY <1>8, <1>9, <1>10, <2>1 DEF BM, BlockMeta, Flag
  <2>2. CASE p \in Asked \ new
    BY <1>5, <1>8, <1>10, <2>2 DEF BM, BlockMeta, Flag
  <2>3. CASE p \in new
    <3>1. p \in Asked /\ Len(log) + RankIn(new, p) \in Nat
      BY <1>1, <1>6, <2>3
    <3>2. QED
      BY <1>8, <1>10, <2>3, <3>1 DEF BM, BlockMeta, Flag
  <2>4. QED
    BY <2>1, <2>2, <2>3
<1>12. recipe \in Seq(BM)
  <2>1. recipe = [p \in 1..Len(Current) |-> recipe[p]]
    BY <1>8
  <2>2. [p \in 1..Len(Current) |-> recipe[p]] \in Seq(BM)
    BY <1>1, <1>11, IsASeq
  <2>3. QED
    BY <2>1, <2>2
<1>13. Len(recipe) = Len(Current)
  BY <1>1, <1>8, <1>12, LenProperties
<1>14. ASSUME reply \in BatchGet(queries),
              NEW m, NEW n \in Nat, Len(log) + Cardinality(new) <= n,
              \A i \in 1..Len(log) : m[i] = log[i],
              \A p \in new : m[Len(log) + RankIn(new, p)] = BlockEntry(Current[p]),
              \A j \in 1..Len(parentRecipe) : GoodSegment(parentRecipe[j], log, Len(log)),
              NEW p \in 1..Len(Current)
       PROVE  GoodBlock(recipe[p], Current[p], m, n)
  <2>1. CASE p \notin Asked
    <3> DEFINE bm == ParentBlocks[Source(p)]
    <3>1. GoodBlock(bm, Current[p], log, Len(log))
      BY <1>7, <1>14, <2>1, ParentProps
    <3>2. recipe[p] = BlockMeta(Current[p], bm.handle, bm.flags \cup {"IN_PARENT"})
      BY <1>8, <2>1
    <3> HIDE DEF bm
    <3>3. /\ recipe[p].cksum = Current[p] /\ recipe[p].handle = bm.handle
          /\ "IN_CDS" \in recipe[p].flags <=> "IN_CDS" \in bm.flags
      BY <3>2 DEF BlockMeta
    <3>4. bm.handle \in 1..Len(log) => bm.handle \in 1..n /\ m[bm.handle] = log[bm.handle]
      BY <1>1, <1>6, <1>14
    <3>5. QED
      BY <3>1, <3>3, <3>4 DEF GoodBlock
  <2>2. CASE p \in Asked \ new
    <3>1. recipe[p] = BlockMeta(Current[p], reply[RankIn(Asked, p)].offset, {"IN_CDS"})
      BY <1>8, <2>2
    <3>2. QED
      BY <1>5, <1>14, <2>2, <3>1 DEF GoodBlock, BlockMeta
  <2>3. CASE p \in new
    <3>1. p \in Asked
      BY <2>3
    <3>2. recipe[p] = BlockMeta(Current[p], Len(log) + RankIn(new, p), {"IN_AS"})
      BY <1>8, <2>3, <3>1
    <3>3. Len(log) + RankIn(new, p) \in 1..n
      BY <1>1, <1>6, <1>14, <2>3
    <3>4. m[Len(log) + RankIn(new, p)] = BlockEntry(Current[p])
      BY <1>14, <2>3
    <3>5. QED
      BY <3>2, <3>3, <3>4 DEF GoodBlock, BlockMeta, BlockEntry
  <2>4. QED
    BY <2>1, <2>2, <2>3
<1>15. QED
  BY <1>2, <1>12, <1>13, <1>14 DEF GoodRecipe, recipe, queries

-----------------------------------------------------------------------------
(* Segments that are written. *)

LEMMA CurrentProps ==
    ASSUME FInv, HasSegment
    PROVE  /\ Current \in Seq(Block) /\ EndOffset \in Nat
           /\ job.image \in Images /\ segments \in Nat /\ segments + 1 \in 1..Len(job.image)
           /\ \A sm : sm.cksum = Current /\ sm.end_offset = EndOffset =>
                         IsSegment(sm, job.image, segments + 1)
           /\ \A sm : IsSegment(sm, job.image, segments) =>
                         IsSegment(sm, job.image, segments + 1) /\ sm.end_offset # EndOffset
<1>1. job.image \in Images /\ segments \in Nat /\ segments < Len(job.image)
  BY DEF FInv, Stages, HasSegment
<1>2. Len(job.image) \in Nat /\ segments + 1 \in 1..Len(job.image) /\ segments + 1 \in Nat
  BY <1>1, ImageTypes
<1>3. Current \in Seq(Block)
  BY <1>1, <1>2, ImageTypes DEF Current
<1>4. EndOffset \in Nat
  BY <1>1, <1>2, EndProps DEF EndOffset
<1>5. \A sm : sm.cksum = Current /\ sm.end_offset = EndOffset => IsSegment(sm, job.image, segments + 1)
  BY <1>1 DEF IsSegment, Current, EndOffset
<1>6. ASSUME NEW sm, IsSegment(sm, job.image, segments)
      PROVE  IsSegment(sm, job.image, segments + 1) /\ sm.end_offset # EndOffset
  <2>1. PICK k \in 1..segments : job.image[k] = sm.cksum /\ EndIn(job.image, k) = sm.end_offset
    BY <1>6 DEF IsSegment
  <2>2. k \in 1..(segments + 1) /\ k \in 1..Len(job.image) /\ k # segments + 1
    BY <1>1, <1>2
  <2>3. EndIn(job.image, k) # EndIn(job.image, segments + 1)
    BY <1>1, <1>2, <2>2, EndProps
  <2>4. QED
    BY <2>1, <2>2, <2>3 DEF IsSegment, EndOffset
<1>7. QED
  BY <1>1, <1>2, <1>3, <1>4, <1>5, <1>6

(* What is in place stays so when the recipe, or the buffer, gets the next segment,
   and when the recipe gets those of the buffer. *)
LEMMA NextInPlace ==
    ASSUME FInv, HasSegment, NEW recipe \in Seq(SM), NEW buffer \in Seq(PB),
           InPlace(recipe, buffer, job.image, segments),
           NEW sm, sm.cksum = Current, sm.end_offset = EndOffset
    PROVE  /\ sm \in SM => InPlace(Append(recipe, sm), buffer, job.image, segments + 1)
           /\ sm \in PB => InPlace(recipe, Append(buffer, sm), job.image, segments + 1)
<1>1. /\ IsSegment(sm, job.image, segments + 1)
      /\ \A x : IsSegment(x, job.image, segments) =>
                   IsSegment(x, job.image, segments + 1) /\ x.end_offset # sm.end_offset
  BY CurrentProps
<1>2. ASSUME NEW T, NEW s \in Seq(T), sm \in T, Distinct(s),
             \A j \in 1..Len(s) : IsSegment(s[j], job.image, segments)
      PROVE  /\ Distinct(Append(s, sm))
             /\ \A j \in 1..Len(Append(s, sm)) :
                    /\ IsSegment(Append(s, sm)[j], job.image, segments + 1)
                    /\ \/ j \in 1..Len(s) /\ Append(s, sm)[j] = s[j]
                       \/ Append(s, sm)[j] = sm
  <2>1. /\ Len(s) \in Nat /\ Len(Append(s, sm)) = Len(s) + 1
        /\ \A j \in 1..Len(s) : Append(s, sm)[j] = s[j]
        /\ Append(s, sm)[Len(s) + 1] = sm
    BY <1>2, AppendProperties, LenProperties
  <2>2. \A j \in 1..Len(Append(s, sm)) : j \in 1..Len(s) \/ j = Len(s) + 1
    BY <2>1
  <2>3. \A j \in 1..Len(s) : s[j].end_offset # sm.end_offset /\ IsSegment(s[j], job.image, segments + 1)
    BY <1>1, <1>2
  <2>4. Distinct(Append(s, sm))
    BY <1>2, <2>1, <2>2, <2>3 DEF Distinct
  <2>5. QED
    BY <1>1, <2>1, <2>2, <2>3, <2>4
<1>3. ASSUME sm \in SM
      PROVE  InPlace(Append(recipe, sm), buffer, job.image, segments + 1)
  BY <1>1, <1>2, <1>3 DEF InPlace
<1>4. ASSUME sm \in PB
      PROVE  InPlace(recipe, Append(buffer, sm), job.image, segments + 1)
  BY <1>1, <1>2, <1>4 DEF InPlace
<1>5. QED
  BY <1>3, <1>4

LEMMA SavedInPlace ==
    ASSUME NEW recipe \in Seq(SM), NEW buffer \in Seq(PB), NEW saved \in Seq(SM),
           NEW image, NEW n, InPlace(recipe, buffer, image, n), Len(saved) = Len(buffer),
           \A k \in 1..Len(buffer) : /\ saved[k].cksum = buffer[k].cksum
                                     /\ saved[k].end_offset = buffer[k].end_offset
    PROVE  InPlace(recipe \o saved, << >>, image, n)
<1> DEFINE s == recipe \o saved
<1>1. /\ Len(recipe) \in Nat /\ Len(saved) \in Nat /\ Len(s) = Len(recipe) + Len(saved)
      /\ \A j \in 1..(Len(recipe) + Len(saved)) :
             s[j] = IF j <= Len(recipe) THEN recipe[j] ELSE saved[j - Len(recipe)]
  BY ConcatProperties, LenProperties
<1>2. \A j \in 1..Len(s) :
          \/ j \in 1..Len(recipe) /\ s[j] = recipe[j]
          \/ /\ j \notin 1..Len(recipe) /\ j - Len(recipe) \in 1..Len(buffer)
             /\ s[j] = saved[j - Len(recipe)]
  BY <1>1
<1>3. \A i, j \in 1..Len(s) : i - Len(recipe) = j - Len(recipe) => i = j
  BY <1>1
<1> HIDE DEF s
<1>4. \A k \in 1..Len(buffer) : IsSegment(saved[k], image, n)
  BY DEF InPlace, IsSegment
<1>5. \A j \in 1..Len(s) : IsSegment(s[j], image, n)
  BY <1>2, <1>4 DEF InPlace
<1>6. ASSUME NEW i \in 1..Len(s), NEW j \in 1..Len(s), s[i].end_offset = s[j].end_offset
      PROVE  i = j
  <2>1. CASE i \in 1..Len(recipe) /\ j \in 1..Len(recipe)
    BY <1>2, <1>6, <2>1 DEF InPlace, Distinct
  <2>2. \A x \in 1..Len(recipe), y \in 1..Len(s) : y \notin 1..Len(recipe) =>
            s[x].end_offset # s[y].end_offset
    <3> TAKE x \in 1..Len(recipe), y \in 1..Len(s)
    <3> HAVE y \notin 1..Len(recipe)
    <3>1. x \in 1..Len(s) /\ s[x] = recipe[x]
      BY <1>1
    <3>2. y - Len(recipe) \in 1..Len(buffer) /\ s[y] = saved[y - Len(recipe)]
      BY <1>2
    <3>3. recipe[x].end_offset # buffer[y - Len(recipe)].end_offset
      BY <3>2 DEF InPlace
    <3>4. QED
      BY <3>1, <3>2, <3>3
  <2>3. CASE (i \in 1..Len(recipe)) # (j \in 1..Len(recipe))
    BY <1>6, <2>2, <2>3
  <2>4. CASE i \notin 1..Len(recipe) /\ j \notin 1..Len(recipe)
    <3>1. /\ i - Len(recipe) \in 1..Len(buffer) /\ j - Len(recipe) \in 1..Len(buffer)
          /\ s[i] = saved[i - Len(recipe)] /\ s[j] = saved[j - Len(recipe)]
      BY <1>2, <2>4
    <3>2. buffer[i - Len(recipe)].end_offset = buffer[j - Len(recipe)].end_offset
      BY <1>6, <3>1
    <3>3. i - Len(recipe) = j - Len(recipe)
      BY <3>1, <3>2 DEF InPlace, Distinct
    <3>4. QED
      BY <1>3, <3>3
  <2>5. QED
    BY <2>1, <2>2, <2>3, <2>4
<1>7. Distinct(s)
  BY <1>6 DEF Distinct
<1>8. QED
  BY <1>5, <1>7 DEF InPlace, Distinct, s

(* The recipes of a buffer, saved behind the store. *)
LEMMA SavedProps ==
    ASSUME NEW l \in Seq(Entry), NEW buffer \in Seq(PB),
           NEW R, R = [k \in DOMAIN buffer |-> RecipeEntry(buffer[k].recipe)]
    PROVE  /\ R \in Seq(Entry) /\ Len(R) = Len(buffer)
           /\ SaveRecipes(buffer, Len(l)) \in Seq(SM)
           /\ Len(SaveRecipes(buffer, Len(l))) = Len(buffer)
           /\ \A k \in 1..Len(buffer) :
                  /\ SaveRecipes(buffer, Len(l))[k].cksum = buffer[k].cksum
                  /\ SaveRecipes(buffer, Len(l))[k].end_offset = buffer[k].end_offset
                  /\ GoodRecipe(buffer[k].recipe, buffer[k].cksum, l \o R, Len(l \o R)) =>
                         GoodSegment(SaveRecipes(buffer, Len(l))[k], l \o R, Len(l \o R))
<1> DEFINE saved == SaveRecipes(buffer, Len(l))
<1>1. DOMAIN buffer = 1..Len(buffer) /\ Len(buffer) \in Nat /\ Len(l) \in Nat
  BY LenProperties
<1>2. \A k \in 1..Len(buffer) : buffer[k] \in PB
  BY ElementOfSeq
<1>3. \A k \in 1..Len(buffer) : RecipeEntry(buffer[k].recipe) \in Entry
  BY <1>2 DEF RecipeEntry, Entry, PB
<1>4. [k \in 1..Len(buffer) |-> RecipeEntry(buffer[k].recipe)] \in Seq(Entry)
  BY <1>1, <1>3, IsASeq
<1>5. R \in Seq(Entry) /\ Len(R) = Len(buffer)
  BY <1>1, <1>4, LenProperties
<1>6. \A k \in 1..Len(buffer) :
          SegmentMeta(buffer[k].cksum, buffer[k].end_offset, Len(l) + k) \in SM
  BY <1>1, <1>2 DEF SegmentMeta, SM, PB
<1>7. [k \in 1..Len(buffer) |->
          SegmentMeta(buffer[k].cksum, buffer[k].end_offset, Len(l) + k)] \in Seq(SM)
  BY <1>1, <1>6, IsASeq
<1>8. saved = [k \in 1..Len(buffer) |->
                  SegmentMeta(buffer[k].cksum, buffer[k].end_offset, Len(l) + k)]
  BY <1>1 DEF SaveRecipes
<1> HIDE DEF saved
<1>9. saved \in Seq(SM) /\ Len(saved) = Len(buffer)
  BY <1>1, <1>7, <1>8, LenProperties
<1>10. /\ Len(l \o R) = Len(l) + Len(buffer)
       /\ \A k \in 1..Len(buffer) : (l \o R)[Len(l) + k] = RecipeEntry(buffer[k].recipe)
  <2>1. /\ Len(l \o R) = Len(l) + Len(R)
        /\ \A i \in 1..(Len(l) + Len(R)) : (l \o R)[i] = IF i <= Len(l) THEN l[i] ELSE R[i - Len(l)]
    BY <1>5, ConcatProperties
  <2>2. ASSUME NEW k \in 1..Len(buffer)
        PROVE  (l \o R)[Len(l) + k] = R[k]
    <3>1. Len(l) + k \in 1..(Len(l) + Len(R)) /\ ~(Len(l) + k <= Len(l)) /\ Len(l) + k - Len(l) = k
      BY <1>1, <1>5
    <3>2. QED
      BY <2>1, <3>1
  <2>3. QED
    BY <1>1, <1>5, <2>1, <2>2
<1>11. ASSUME NEW k \in 1..Len(buffer)
       PROVE  /\ saved[k].cksum = buffer[k].cksum
              /\ saved[k].end_offset = buffer[k].end_offset
              /\ GoodRecipe(buffer[k].recipe, buffer[k].cksum, l \o R, Len(l \o R)) =>
                     GoodSegment(saved[k], l \o R, Len(l \o R))
  <2>1. /\ saved[k].cksum = buffer[k].cksum /\ saved[k].end_offset = buffer[k].end_offset
        /\ saved[k].handle = Len(l) + k
    BY <1>8 DEF SegmentMeta
  <2>2. Len(l) + k \in 1..Len(l \o R)
    BY <1>1, <1>10
  <2>3. (l \o R)[Len(l) + k].kind = "recipe" /\ (l \o R)[Len(l) + k].recipe = buffer[k].recipe
    BY <1>10 DEF RecipeEntry
  <2>4. QED
    BY <2>1, <2>2, <2>3 DEF GoodSegment
<1>12. QED
  BY <1>5, <1>9, <1>11 DEF saved

LEMMA StoreProps ==
    ASSUME FInv, Types, HasSegment,
           NEW reply, \A n \in DOMAIN Select(Current, Asked) : reply[n].offset \in Nat,
           StoreSegment(reply)
    PROVE  /\ log' \in Seq(Entry) /\ Len(log) <= Len(log')
           /\ \A i \in 1..Len(log) : log'[i] = log[i]
           /\ snapshotRecipe' \in Seq(SM) /\ pending' \in Seq(PB)
           /\ Len(snapshotRecipe') + Len(pending') = segments + 1
           /\ Len(pending') < DF_MAX_PENDING
           /\ InPlace(snapshotRecipe, pending, job.image, segments)
              => InPlace(snapshotRecipe', pending', job.image, segments + 1)
           /\ /\ reply \in BatchGet(Select(Current, Asked))
              /\ \A j \in 1..Len(parentRecipe) : GoodSegment(parentRecipe[j], log, Len(log))
              /\ Made(snapshotRecipe, pending, log)
              => Made(snapshotRecipe', pending', log')
<1> DEFINE new == {p \in Asked : ~reply[RankIn(Asked, p)].found}
           D == [n \in 1..Cardinality(new) |-> BlockEntry(Select(Current, new)[n])]
           pb == [cksum |-> Current, end_offset |-> EndOffset, recipe |-> RecipeOf(reply, new)]
           buffer == Append(pending, pb)
           full == TooMany(buffer)
           R == [k \in DOMAIN buffer |-> RecipeEntry(buffer[k].recipe)]
           l == log \o D
           saved == SaveRecipes(buffer, Len(l))
<1>1. Current \in Seq(Block) /\ EndOffset \in Nat /\ segments \in Nat
  BY CurrentProps
<1>2. /\ log \in Seq(Entry) /\ snapshotRecipe \in Seq(SM) /\ pending \in Seq(PB)
      /\ Len(log) \in Nat /\ Len(snapshotRecipe) \in Nat /\ Len(pending) \in Nat
      /\ Len(snapshotRecipe) + Len(pending) = segments
      /\ Len(pending) < DF_MAX_PENDING
  BY LenProperties DEF Types, HasSegment
<1>3. DF_MAX_PENDING \in Nat /\ DF_MAX_PENDING > 0
  BY SnapshotAssumption
<1>4. new \in SUBSET (1..Len(Current)) /\ RecipeOf(reply, new) \in Seq(BM)
  BY <1>1, RecipeProps
<1> HIDE DEF new
<1>5. /\ Cardinality(new) \in Nat
      /\ Select(Current, new) \in Seq(Block) /\ Len(Select(Current, new)) = Cardinality(new)
      /\ \A p \in new : Select(Current, new)[RankIn(new, p)] = Current[p]
  BY <1>1, <1>4, SelectProps
<1>6. D \in Seq(Entry) /\ Len(D) = Cardinality(new)
  <2>1. \A n \in 1..Cardinality(new) : Select(Current, new)[n] \in Block
    BY <1>5, ElementOfSeq
  <2>2. \A n \in 1..Cardinality(new) : BlockEntry(Select(Current, new)[n]) \in Entry
    <3>1. << >> \in Seq(BM)
      OBVIOUS
    <3>2. QED
      BY <2>1, <3>1 DEF BlockEntry, Entry
  <2>3. D \in Seq(Entry)
    BY <1>5, <2>2, IsASeq
  <2>4. QED
    BY <1>5, <2>3, LenProperties
<1>7. \A p \in new : RankIn(new, p) \in 1..Cardinality(new) /\ D[RankIn(new, p)] = BlockEntry(Current[p])
  <2> TAKE p \in new
  <2>1. Len(Current) \in Nat
    BY <1>1, LenProperties
  <2>2. RankIn(new, p) \in 1..Cardinality(new)
    BY <1>4, <2>1, RankProps
  <2>3. QED
    BY <1>5, <2>2
<1>8. pb \in PB
  BY <1>1, <1>4 DEF PB
<1> HIDE DEF pb
<1>9. /\ buffer \in Seq(PB) /\ Len(buffer) = Len(pending) + 1
      /\ \A j \in 1..Len(pending) : buffer[j] = pending[j]
      /\ buffer[Len(pending) + 1] = pb
  BY <1>2, <1>8, AppendProperties
<1>10. /\ log' = log \o D \o (IF full THEN R ELSE << >>)
       /\ pending' = IF full THEN << >> ELSE buffer
       /\ snapshotRecipe' = snapshotRecipe \o (IF full THEN SaveRecipes(buffer, Len(log) + Len(D)) ELSE << >>)
  BY DEF StoreSegment, new, pb
<1> HIDE DEF D, buffer
<1>11. /\ l \in Seq(Entry) /\ Len(l) = Len(log) + Cardinality(new)
       /\ \A i \in 1..Len(log) : l[i] = log[i]
       /\ \A p \in new : l[Len(log) + RankIn(new, p)] = BlockEntry(Current[p])
  <2>1. /\ l \in Seq(Entry) /\ Len(l) = Len(log) + Len(D)
        /\ \A i \in 1..(Len(log) + Len(D)) : l[i] = IF i <= Len(log) THEN log[i] ELSE D[i - Len(log)]
    BY <1>2, <1>6, ConcatProperties
  <2>2. ASSUME NEW p \in new
        PROVE  l[Len(log) + RankIn(new, p)] = BlockEntry(Current[p])
    <3>1. RankIn(new, p) \in Nat /\ RankIn(new, p) >= 1 /\ RankIn(new, p) <= Len(D)
      BY <1>5, <1>6, <1>7
    <3>2. /\ Len(log) + RankIn(new, p) \in 1..(Len(log) + Len(D))
          /\ ~(Len(log) + RankIn(new, p) <= Len(log))
          /\ (Len(log) + RankIn(new, p)) - Len(log) = RankIn(new, p)
      BY <1>2, <1>5, <1>6, <3>1
    <3>3. QED
      BY <1>7, <2>1, <3>2
  <2>3. ASSUME NEW i \in 1..Len(log)
        PROVE  l[i] = log[i]
    BY <1>2, <1>5, <1>6, <2>1
  <2>4. QED
    BY <1>6, <2>1, <2>2, <2>3
<1> HIDE DEF l
<1>12. /\ R \in Seq(Entry) /\ Len(R) = Len(buffer)
       /\ saved \in Seq(SM) /\ Len(saved) = Len(buffer)
       /\ \A k \in 1..Len(buffer) :
              /\ saved[k].cksum = buffer[k].cksum /\ saved[k].end_offset = buffer[k].end_offset
              /\ GoodRecipe(buffer[k].recipe, buffer[k].cksum, l \o R, Len(l \o R)) =>
                     GoodSegment(saved[k], l \o R, Len(l \o R))
  BY <1>9, <1>11, SavedProps
<1> HIDE DEF R, saved
<1>13. log' = IF full THEN l \o R ELSE l
  <2>1. l \o << >> = l
    BY <1>11, ConcatEmptySeq
  <2>2. log' = l \o (IF full THEN R ELSE << >>)
    BY <1>10 DEF l
  <2>3. QED
    BY <2>1, <2>2
<1>14. snapshotRecipe' = IF full THEN snapshotRecipe \o saved ELSE snapshotRecipe
  <2>1. snapshotRecipe \o << >> = snapshotRecipe
    BY <1>2, ConcatEmptySeq
  <2>2. saved = SaveRecipes(buffer, Len(log) + Len(D))
    BY <1>6, <1>11 DEF saved
  <2>3. QED
    BY <1>10, <2>1, <2>2
<1>15. /\ l \o R \in Seq(Entry) /\ Len(l \o R) = Len(l) + Len(R)
       /\ \A i \in 1..Len(l) : (l \o R)[i] = l[i]
  <2>1. /\ l \o R \in Seq(Entry) /\ Len(l \o R) = Len(l) + Len(R)
        /\ \A i \in 1..(Len(l) + Len(R)) : (l \o R)[i] = IF i <= Len(l) THEN l[i] ELSE R[i - Len(l)]
    <3>1. l \in Seq(Entry) /\ R \in Seq(Entry)
      BY <1>11, <1>12
    <3>2. QED
      BY <3>1, ConcatProperties
  <2>2. Len(l) \in Nat /\ Len(R) \in Nat
    BY <1>11, <1>12, LenProperties
  <2>3. QED
    BY <2>1, <2>2
<1>16. /\ log' \in Seq(Entry) /\ Len(log') \in Nat
       /\ Len(log) + Cardinality(new) <= Len(log') /\ Len(log) <= Len(log')
       /\ \A i \in 1..(Len(log) + Cardinality(new)) : log'[i] = l[i]
  BY <1>2, <1>5, <1>9, <1>11, <1>12, <1>13, <1>15
<1>17. \A i \in 1..Len(log) : log'[i] = log[i]
  BY <1>2, <1>5, <1>11, <1>16
<1>18. /\ snapshotRecipe' \in Seq(SM) /\ pending' \in Seq(PB)
       /\ Len(snapshotRecipe') + Len(pending') = segments + 1
       /\ Len(pending') < DF_MAX_PENDING
  <2>1. CASE full
    <3>1. pending' = << >> /\ snapshotRecipe' = snapshotRecipe \o saved
      BY <1>10, <1>14, <2>1
    <3>2. snapshotRecipe \o saved \in Seq(SM) /\ Len(snapshotRecipe \o saved) = Len(snapshotRecipe) + Len(saved)
      BY <1>2, <1>12, ConcatProperties
    <3>3. << >> \in Seq(PB) /\ Len(<< >>) = 0
      OBVIOUS
    <3>4. Len(saved) = Len(pending) + 1 /\ segments \in Nat
      BY <1>1, <1>9, <1>12
    <3>5. snapshotRecipe' \in Seq(SM) /\ Len(snapshotRecipe') = Len(snapshotRecipe) + Len(saved)
      BY <3>1, <3>2
    <3>6. pending' \in Seq(PB) /\ Len(pending') = 0
      BY <3>1, <3>3
    <3>7. Len(snapshotRecipe') + Len(pending') = segments + 1
      <4>1. Len(snapshotRecipe) + (Len(pending) + 1) = segments + 1
        BY <1>2, <3>4
      <4>2. QED
        BY <1>2, <3>4, <3>5, <3>6, <4>1
    <3>8. Len(pending') < DF_MAX_PENDING
      BY <1>3, <3>6
    <3>9. QED
      BY <3>5, <3>6, <3>7, <3>8
  <2>2. CASE ~full
    <3>1. pending' = buffer /\ snapshotRecipe' = snapshotRecipe
      BY <1>10, <1>14, <2>2
    <3>2. ~(Len(buffer) >= DF_MAX_PENDING)
      BY <2>2 DEF TooMany
    <3>3. QED
      BY <1>1, <1>2, <1>3, <1>9, <3>1, <3>2
  <2>3. QED
    BY <2>1, <2>2
<1>19. ASSUME reply \in BatchGet(Select(Current, Asked)),
              \A j \in 1..Len(parentRecipe) : GoodSegment(parentRecipe[j], log, Len(log)),
              Made(snapshotRecipe, pending, log)
       PROVE  Made(snapshotRecipe', pending', log')
  <2>1. /\ \A recipe, data : GoodRecipe(recipe, data, log, Len(log)) =>
                                 GoodRecipe(recipe, data, log', Len(log'))
        /\ \A sm : GoodSegment(sm, log, Len(log)) => GoodSegment(sm, log', Len(log'))
    BY <1>2, <1>16, <1>17, GoodStays
  <2>2. GoodRecipe(pb.recipe, pb.cksum, log', Len(log'))
    <3>1. pb.recipe = RecipeOf(reply, new) /\ pb.cksum = Current
      BY DEF pb
    <3>2. \A p \in new : log'[Len(log) + RankIn(new, p)] = BlockEntry(Current[p])
      BY <1>2, <1>5, <1>7, <1>11, <1>16
    <3>3. GoodRecipe(RecipeOf(reply, new), Current, log', Len(log'))
      BY <1>1, <1>16, <1>17, <1>19, <3>2, RecipeProps DEF new
    <3>4. QED
      BY <3>1, <3>3
  <2>3. ASSUME NEW k \in 1..Len(buffer)
        PROVE  GoodRecipe(buffer[k].recipe, buffer[k].cksum, log', Len(log'))
    <3>1. CASE k = Len(pending) + 1
      <4>1. buffer[k] = pb /\ pb.cksum = Current
        BY <1>9, <3>1 DEF pb
      <4>2. QED
        BY <2>2, <4>1
    <3>2. CASE k # Len(pending) + 1
      <4>1. k \in 1..Len(pending) /\ buffer[k] = pending[k]
        BY <1>2, <1>9, <3>2
      <4>2. QED
        BY <1>19, <2>1, <4>1 DEF Made
    <3>3. QED
      BY <3>1, <3>2
  <2>4. \A j \in 1..Len(snapshotRecipe) : GoodSegment(snapshotRecipe[j], log', Len(log'))
    BY <1>19, <2>1 DEF Made
  <2>5. CASE full
    <3>1. pending' = << >> /\ snapshotRecipe' = snapshotRecipe \o saved /\ log' = l \o R
      BY <1>10, <1>13, <1>14, <2>5
    <3>2. \A k \in 1..Len(saved) : GoodSegment(saved[k], log', Len(log'))
      BY <1>12, <2>3, <3>1
    <3>3. ASSUME NEW j \in 1..Len(snapshotRecipe')
          PROVE  GoodSegment(snapshotRecipe'[j], log', Len(log'))
      <4>1. /\ Len(snapshotRecipe') = Len(snapshotRecipe) + Len(saved)
            /\ \A i \in 1..(Len(snapshotRecipe) + Len(saved)) : snapshotRecipe'[i] =
                   IF i <= Len(snapshotRecipe) THEN snapshotRecipe[i] ELSE saved[i - Len(snapshotRecipe)]
        <5>1. snapshotRecipe \in Seq(SM) /\ saved \in Seq(SM)
          BY <1>2, <1>12
        <5>2. snapshotRecipe' = snapshotRecipe \o saved
          BY <3>1
        <5>3. /\ Len(snapshotRecipe \o saved) = Len(snapshotRecipe) + Len(saved)
              /\ \A i \in 1..(Len(snapshotRecipe) + Len(saved)) : (snapshotRecipe \o saved)[i] =
                     IF i <= Len(snapshotRecipe) THEN snapshotRecipe[i] ELSE saved[i - Len(snapshotRecipe)]
          BY <5>1, ConcatProperties
        <5>4. QED
          BY <5>2, <5>3
      <4>2. Len(saved) \in Nat
        BY <1>12, LenProperties
      <4>3. CASE j <= Len(snapshotRecipe)
        <5>1. j \in 1..Len(snapshotRecipe) /\ snapshotRecipe'[j] = snapshotRecipe[j]
          BY <1>2, <4>1, <4>2, <4>3
        <5>2. QED
          BY <2>4, <5>1
      <4>4. CASE ~(j <= Len(snapshotRecipe))
        <5>1. /\ j - Len(snapshotRecipe) \in 1..Len(saved)
              /\ snapshotRecipe'[j] = saved[j - Len(snapshotRecipe)]
          BY <1>2, <4>1, <4>2, <4>4
        <5>2. QED
          BY <3>2, <5>1
      <4>5. QED
        BY <4>3, <4>4
    <3>4. Len(pending') = 0
      BY <3>1
    <3>5. QED
      BY <3>3, <3>4 DEF Made
  <2>6. CASE ~full
    <3>1. pending' = buffer /\ snapshotRecipe' = snapshotRecipe
      BY <1>10, <1>14, <2>6
    <3>2. QED
      BY <2>3, <2>4, <3>1 DEF Made
  <2>7. QED
    BY <2>5, <2>6
<1>20. ASSUME InPlace(snapshotRecipe, pending, job.image, segments)
       PROVE  InPlace(snapshotRecipe', pending', job.image, segments + 1)
  <2>1. pb.cksum = Current /\ pb.end_offset = EndOffset
    BY DEF pb
  <2>2. InPlace(snapshotRecipe, Append(pending, pb), job.image, segments + 1)
    BY <1>2, <1>8, <1>20, <2>1, NextInPlace
  <2>3. InPlace(snapshotRecipe, buffer, job.image, segments + 1)
    BY <2>2 DEF buffer
  <2>4. InPlace(snapshotRecipe \o saved, << >>, job.image, segments + 1)
    BY <1>2, <1>9, <1>12, <2>3, SavedInPlace
  <2>5. CASE full
    BY <1>10, <1>14, <2>4, <2>5
  <2>6. CASE ~full
    BY <1>10, <1>14, <2>3, <2>6
  <2>7. QED
    BY <2>5, <2>6
<1>21. QED
  BY <1>16, <1>17, <1>18, <1>19, <1>20

-----------------------------------------------------------------------------
(* The types and the places of the segments, with every fault. *)

LEMMA InitTInv == Init => TInv
<1> SUFFICES ASSUME Init
             PROVE  TInv
  OBVIOUS
<1>1. DF_MAX_PENDING > 0 /\ DF_MAX_PENDING \in Nat
  BY SnapshotAssumption
<1>2. << >> \in Seq(Entry) /\ << >> \in Seq(SM) /\ << >> \in Seq(PB) /\ Len(<< >>) = 0
  OBVIOUS
<1>3. log \in Seq(Entry) /\ synced \in 0..Len(log)
  BY <1>2 DEF Init
<1>4. \A id \in SnapshotId : metas[id].recipe \in Seq(SM)
  BY <1>2 DEF Init, NoMeta
<1>5. /\ parentRecipe \in Seq(SM) /\ snapshotRecipe \in Seq(SM) /\ pending \in Seq(PB)
      /\ Len(snapshotRecipe) = 0 /\ Len(pending) = 0 /\ segments = 0 /\ pc = "none"
      /\ DOMAIN answers = {}
  BY <1>2 DEF Init
<1>6. Types
  BY <1>1, <1>3, <1>4, <1>5 DEF Types
<1>7. PlacedOnDisk
  BY DEF Init, PlacedOnDisk
<1>8. QED
  BY <1>5, <1>6, <1>7 DEF TInv, Placed

(* A finished snapshot of which nothing changes stays in place. *)
LEMMA PlacedStays ==
    ASSUME PlacedOnDisk,
           \A id \in SnapshotId : completed'[id] # NoData \/ id \in sound' =>
               /\ completed[id] # NoData \/ id \in sound
               /\ metas'[id] = metas[id] /\ completed'[id] = completed[id]
    PROVE  PlacedOnDisk'
BY DEF PlacedOnDisk

(* When a run begins and when it ends nothing is in its memory. *)
LEMMA EmptyMemory ==
    ASSUME Types, PlacedOnDisk', log' \in Seq(Entry), synced' \in 0..Len(log'), metas' = metas,
           parentRecipe' \in Seq(SM), segments' = 0, snapshotRecipe' = << >>, pending' = << >>,
           answers' = << >>
    PROVE  TInv'
<1>1. DF_MAX_PENDING > 0 /\ DF_MAX_PENDING \in Nat
  BY SnapshotAssumption
<1>2. << >> \in Seq(SM) /\ << >> \in Seq(PB) /\ Len(<< >>) = 0 /\ DOMAIN (<< >>) = {}
  OBVIOUS
<1>3. Types'
  BY <1>1, <1>2 DEF Types
<1>4. \A image, n : InPlace(<< >>, << >>, image, n)
  BY <1>2 DEF InPlace, Distinct
<1>5. QED
  BY <1>3, <1>4 DEF TInv, Placed

(* The answers to the questions of a segment, whether the servers gave them or not. *)
LEMMA ReplyTypes ==
    ASSUME Types, NEW queries, NEW reply \in BatchGet(queries) \cup BatchGetFailed(queries)
    PROVE  DOMAIN reply = DOMAIN queries /\ \A n \in DOMAIN queries : reply[n].offset \in Nat
<1>1. CASE reply \in BatchGet(queries)
  <2>1. PICK known \in SUBSET {queries[n] : n \in {m \in DOMAIN queries : InCds(queries[m])}} :
            reply = [n \in DOMAIN queries |-> IF queries[n] \in known
                                             THEN [found |-> TRUE, offset |-> Offset(queries[n])]
                                             ELSE NotFound]
    BY <1>1 DEF BatchGet
  <2>2. DOMAIN reply = DOMAIN queries
    BY <2>1
  <2>3. ASSUME NEW n \in DOMAIN queries
        PROVE  reply[n].offset \in Nat
    <3>1. CASE reply[n].found
      BY <1>1, <3>1, CdsProps
    <3>2. CASE ~reply[n].found
      BY <2>1, <3>2 DEF NotFound
    <3>3. QED
      BY <3>1, <3>2
  <2>4. QED
    BY <2>2, <2>3
<1>2. CASE reply \in BatchGetFailed(queries)
  <2>1. PICK garbage \in {NotFound, [found |-> TRUE, offset |-> 0]} :
            reply = [n \in DOMAIN queries |-> IF n \in DOMAIN answers THEN answers[n] ELSE garbage]
    BY <1>2 DEF BatchGetFailed
  <2>2. garbage.offset \in Nat
    BY DEF NotFound
  <2>3. QED
    BY <2>1, <2>2 DEF Types
<1>3. QED
  BY <1>1, <1>2

LEMMA BeginTypes ==
    ASSUME FInv, TInv, NEW id \in SnapshotId, NEW image \in Images,
           NEW parent \in SnapshotId \cup {NoSnapshot}, Begin(id, image, parent)
    PROVE  TInv'
<1>1. /\ UNCHANGED <<log, synced, metas, completed, sound>>
      /\ segments' = 0 /\ snapshotRecipe' = << >> /\ pending' = << >> /\ answers' = << >>
  BY DEF Begin, diskVars
<1>2. parentRecipe' \in Seq(SM)
  <2>1. << >> \in Seq(SM)
    OBVIOUS
  <2>2. \/ parentRecipe' = << >>
        \/ parent \in SnapshotId /\ parentRecipe' = metas[parent].recipe
    <3>1. CASE parent # NoSnapshot /\ metas[parent].exists
      BY <3>1 DEF Begin
    <3>2. CASE ~(parent # NoSnapshot /\ metas[parent].exists)
      BY <3>2 DEF Begin
    <3>3. QED
      BY <3>1, <3>2
  <2>3. QED
    BY <2>1, <2>2 DEF TInv, Types
<1>3. PlacedOnDisk'
  BY <1>1, PlacedStays DEF TInv, Placed
<1>4. QED
  BY <1>1, <1>2, <1>3, EmptyMemory DEF TInv, Types

LEMMA SegmentInParentTypes ==
    ASSUME FInv, TInv, SegmentInParent
    PROVE  TInv'
<1> DEFINE sm == SegmentMeta(Current, EndOffset, ParentSegment.handle)
<1>1. /\ UNCHANGED <<log, synced, metas, completed, sound, pc, job, parentRecipe, pending, answers>>
      /\ snapshotRecipe' = Append(snapshotRecipe, sm) /\ segments' = segments + 1
      /\ HasSegment /\ HasParentSegment /\ pc = "segments"
  BY DEF SegmentInParent, SameAsParent, HasSegment, diskVars, historyVars
<1>2. Current \in Seq(Block) /\ EndOffset \in Nat /\ segments \in Nat
  BY <1>1, CurrentProps
<1>3. /\ parentRecipe \in Seq(SM) /\ snapshotRecipe \in Seq(SM) /\ pending \in Seq(PB)
      /\ Len(snapshotRecipe) + Len(pending) = segments
  BY DEF TInv, Types
<1>4. DOMAIN parentRecipe = 1..Len(parentRecipe) /\ Len(snapshotRecipe) \in Nat /\ Len(pending) \in Nat
  BY <1>3, LenProperties
<1>5. ParentSegment \in SM
  BY <1>1, <1>3, <1>4, ElementOfSeq DEF HasParentSegment, ParentSegment
<1>6. sm \in SM /\ sm.cksum = Current /\ sm.end_offset = EndOffset
  BY <1>2, <1>5 DEF SM, SegmentMeta
<1> HIDE DEF sm
<1>7. snapshotRecipe' \in Seq(SM) /\ Len(snapshotRecipe') = Len(snapshotRecipe) + 1
  BY <1>1, <1>3, <1>6, AppendProperties
<1>8. Len(snapshotRecipe') + Len(pending') = segments'
  <2>1. Len(pending') = Len(pending) /\ segments' = segments + 1
    BY <1>1
  <2>2. QED
    BY <1>2, <1>3, <1>4, <1>7, <2>1
<1>9. Types'
  BY <1>1, <1>7, <1>8 DEF TInv, Types
<1>10. InPlace(snapshotRecipe, pending, job.image, segments)
  BY <1>1 DEF TInv, Placed
<1>11. InPlace(snapshotRecipe', pending', job'.image, segments')
  <2>1. InPlace(Append(snapshotRecipe, sm), pending, job.image, segments + 1)
    BY <1>1, <1>3, <1>6, <1>10, NextInPlace
  <2>2. QED
    BY <1>1, <2>1
<1>12. PlacedOnDisk'
  BY <1>1, PlacedStays DEF TInv, Placed
<1>13. QED
  BY <1>9, <1>11, <1>12 DEF TInv, Placed

LEMMA WriteSegmentTypes ==
    ASSUME FInv, TInv, WriteSegment
    PROVE  TInv'
<1>1. PICK reply \in BatchGet(Select(Current, Asked)) \cup BatchGetFailed(Select(Current, Asked)) :
          /\ StoreSegment(reply)
          /\ \/ answers' = << >>
             \/ answers' = [n \in DOMAIN reply \cup DOMAIN answers |->
                               IF n \in DOMAIN reply THEN reply[n] ELSE answers[n]]
  BY DEF WriteSegment
<1>2. /\ UNCHANGED <<synced, metas, completed, sound, pc, job, parentRecipe>>
      /\ segments' = segments + 1 /\ HasSegment /\ pc = "segments"
  BY DEF WriteSegment, HasSegment, historyVars
<1>3. /\ DOMAIN reply = DOMAIN Select(Current, Asked)
      /\ \A n \in DOMAIN Select(Current, Asked) : reply[n].offset \in Nat
  BY ReplyTypes DEF TInv
<1>4. /\ log' \in Seq(Entry) /\ Len(log) <= Len(log')
      /\ snapshotRecipe' \in Seq(SM) /\ pending' \in Seq(PB)
      /\ Len(snapshotRecipe') + Len(pending') = segments + 1
      /\ Len(pending') < DF_MAX_PENDING
      /\ InPlace(snapshotRecipe, pending, job.image, segments)
         => InPlace(snapshotRecipe', pending', job.image, segments + 1)
  BY <1>1, <1>2, <1>3, StoreProps DEF TInv
<1>5. \A n \in DOMAIN answers' : answers'[n].offset \in Nat
  <2>1. CASE answers' = << >>
    BY <2>1
  <2>2. CASE answers' = [n \in DOMAIN reply \cup DOMAIN answers |->
                            IF n \in DOMAIN reply THEN reply[n] ELSE answers[n]]
    BY <1>3, <2>2 DEF TInv, Types
  <2>3. QED
    BY <1>1, <2>1, <2>2
<1>6. synced' \in 0..Len(log')
  <2>1. Len(log) \in Nat /\ Len(log') \in Nat /\ synced \in 0..Len(log)
    BY <1>4, LenProperties DEF TInv, Types
  <2>2. QED
    BY <1>2, <1>4, <2>1
<1>7. Types'
  BY <1>2, <1>4, <1>5, <1>6 DEF TInv, Types
<1>8. PlacedOnDisk'
  BY <1>2, PlacedStays DEF TInv, Placed
<1>9. InPlace(snapshotRecipe', pending', job'.image, segments')
  BY <1>2, <1>4 DEF TInv, Placed
<1>10. QED
  BY <1>7, <1>8, <1>9 DEF TInv, Placed

LEMMA FlushAndCloseTypes ==
    ASSUME FInv, TInv, FlushAndClose
    PROVE  TInv'
<1>1. /\ pc = "close" /\ synced' = Len(log) /\ UNCHANGED <<log, metas>>
      /\ completed' = [completed EXCEPT ![job.id] = job.image]
      /\ sound' \subseteq sound \cup {job.id}
      /\ parentRecipe' = << >> /\ segments' = 0 /\ snapshotRecipe' = << >> /\ pending' = << >>
      /\ answers' = << >>
  BY DEF FlushAndClose, CloseStore
<1>2. /\ log \in Seq(Entry) /\ Len(log) \in Nat
      /\ Len(snapshotRecipe) \in Nat /\ Len(pending) \in Nat
      /\ Len(snapshotRecipe) + Len(pending) = segments /\ Len(pending) < DF_MAX_PENDING
      /\ DF_MAX_PENDING \in Nat
  BY SnapshotAssumption, LenProperties DEF TInv, Types
<1>3. /\ job.id \in SnapshotId /\ metas[job.id].recipe = snapshotRecipe /\ segments = Len(job.image)
      /\ completed'[job.id] = job.image
      /\ \A id \in SnapshotId : id # job.id => completed'[id] = completed[id]
  BY <1>1 DEF FInv, Stages, IsFunction
<1>4. InPlace(snapshotRecipe, << >>, job.image, segments)
  BY <1>1 DEF TInv, Placed, InPlace, Distinct
<1>5. ASSUME NEW id \in SnapshotId, completed'[id] # NoData \/ id \in sound'
      PROVE  /\ Len(completed'[id]) - Len(metas'[id].recipe) < DF_MAX_PENDING
             /\ InPlace(metas'[id].recipe, << >>, completed'[id], Len(completed'[id]))
  <2>1. CASE id = job.id
    <3>1. completed'[id] = job.image /\ metas'[id].recipe = snapshotRecipe
      BY <1>1, <1>3, <2>1
    <3>2. Len(job.image) - Len(snapshotRecipe) < DF_MAX_PENDING
      BY <1>2, <1>3
    <3>3. QED
      BY <1>3, <1>4, <3>1, <3>2
  <2>2. CASE id # job.id
    BY <1>1, <1>3, <1>5, <2>2 DEF TInv, Placed, PlacedOnDisk
  <2>3. QED
    BY <2>1, <2>2
<1>6. PlacedOnDisk'
  BY <1>5 DEF PlacedOnDisk
<1>7. parentRecipe' \in Seq(SM)
  BY <1>1
<1>8. QED
  BY <1>1, <1>2, <1>6, <1>7, EmptyMemory DEF TInv

(* What a process that dies leaves of the store. *)
LEMMA DieLog ==
    ASSUME TInv, Die
    PROVE  /\ log' \in Seq(Entry) /\ synced \in Nat /\ synced' = Len(log') /\ synced <= synced'
           /\ synced' \in Nat /\ \A i \in 1..synced' : log'[i] = log[i]
<1>1. PICK n \in synced..Len(log) : log' = SubSeq(log, 1, n) /\ synced' = n
  BY DEF Die
<1>2. log \in Seq(Entry) /\ Len(log) \in Nat /\ synced \in Nat /\ synced <= Len(log)
  BY LenProperties DEF TInv, Types
<1>3. n \in Nat /\ synced <= n /\ n <= Len(log)
  BY <1>1, <1>2
<1>4. \A i \in 1..n : log[i] \in Entry
  BY <1>2, <1>3, ElementOfSeq
<1>5. /\ log' \in Seq(Entry) /\ Len(log') = n
      /\ \A i \in 1..n : log'[i] = log[i]
  <2>1. /\ log' \in Seq(Entry) /\ Len(log') = IF 1 <= n THEN n - 1 + 1 ELSE 0
        /\ \A i \in 1..(n - 1 + 1) : log'[i] = log[1 + i - 1]
    BY <1>1, <1>3, <1>4, SubSeqProperties
  <2>2. QED
    BY <1>3, <2>1
<1>6. QED
  BY <1>1, <1>2, <1>3, <1>5

LEMMA DieTypes ==
    ASSUME FInv, TInv, Die
    PROVE  TInv'
<1>1. /\ UNCHANGED <<metas, completed, sound>>
      /\ parentRecipe' = << >> /\ segments' = 0 /\ snapshotRecipe' = << >> /\ pending' = << >>
      /\ answers' = << >>
  BY DEF Die
<1>2. log' \in Seq(Entry) /\ synced' \in 0..Len(log')
  BY DieLog
<1>3. PlacedOnDisk'
  BY <1>1, PlacedStays DEF TInv, Placed
<1>4. parentRecipe' \in Seq(SM)
  BY <1>1
<1>5. QED
  BY <1>1, <1>2, <1>3, <1>4, EmptyMemory DEF TInv

LEMMA NextTInv ==
    ASSUME FInv, TInv, [Next]_vars
    PROVE  TInv'
<1>1. Types /\ Placed /\ PlacedOnDisk
  BY DEF TInv, Placed
<1>2. CASE EndOfImage
  <2>1. /\ pc # "none"
        /\ UNCHANGED <<log, synced, metas, completed, sound, job, parentRecipe,
                     segments, snapshotRecipe, pending, answers>>
    BY <1>2 DEF EndOfImage, diskVars, memoryVars, historyVars
  <2>2. QED
    BY <1>1, <2>1 DEF TInv, Types, Placed, PlacedOnDisk
<1>3. CASE RemoveMeta
  <2>1. /\ pc = "meta"
        /\ UNCHANGED <<log, synced, pc, job, parentRecipe, segments, snapshotRecipe, pending, answers>>
        /\ metas' = [metas EXCEPT ![job.id] = NoMeta]
        /\ completed' = [completed EXCEPT ![job.id] = NoData] /\ sound' = sound \ {job.id}
    BY <1>3 DEF RemoveMeta, memoryVars
  <2>2. \A id \in SnapshotId : metas'[id] = metas[id] \/ metas'[id] = NoMeta
    BY <2>1 DEF FInv, Stages, IsFunction
  <2>3. \A id \in SnapshotId : completed'[id] # NoData \/ id \in sound' =>
            /\ completed[id] # NoData \/ id \in sound
            /\ metas'[id] = metas[id] /\ completed'[id] = completed[id]
    BY <2>1 DEF FInv, Stages, IsFunction
  <2>4. << >> \in Seq(SM)
    OBVIOUS
  <2>5. Types'
    BY <1>1, <2>1, <2>2, <2>4 DEF Types, NoMeta
  <2>6. PlacedOnDisk'
    BY <1>1, <2>3, PlacedStays
  <2>7. QED
    BY <1>1, <2>1, <2>5, <2>6 DEF TInv, Placed
<1>4. CASE SaveMeta
  <2>1. /\ pc = "meta" /\ pc' = "filters" /\ metas[job.id] = NoMeta
        /\ UNCHANGED <<log, synced, completed, sound, job, parentRecipe,
                     segments, snapshotRecipe, pending, answers>>
        /\ metas' = [metas EXCEPT ![job.id] = [exists |-> TRUE, recipe |-> snapshotRecipe]]
    BY <1>4 DEF SaveMeta, memoryVars, historyVars
  <2>2. completed[job.id] = NoData /\ job.id \notin sound
    BY <2>1 DEF FInv, Stages, NoMeta
  <2>3. \A id \in SnapshotId : metas'[id] = metas[id] \/ metas'[id].recipe = snapshotRecipe
    BY <2>1 DEF FInv, Stages, IsFunction
  <2>4. \A id \in SnapshotId : completed'[id] # NoData \/ id \in sound' => metas'[id] = metas[id]
    BY <2>1, <2>2 DEF FInv, Stages, IsFunction
  <2>5. Types'
    <3>1. \A id \in SnapshotId : metas'[id].recipe \in Seq(SM)
      BY <1>1, <2>3 DEF Types
    <3>2. QED
      BY <1>1, <2>1, <3>1 DEF Types
  <2>6. PlacedOnDisk'
    BY <1>1, <2>1, <2>4, PlacedStays
  <2>7. QED
    BY <1>1, <2>1, <2>5, <2>6 DEF TInv, Placed
<1>5. CASE SaveFilters
  <2>1. /\ pc # "none"
        /\ UNCHANGED <<log, synced, metas, completed, sound, job, parentRecipe,
                     segments, snapshotRecipe, pending, answers>>
    BY <1>5 DEF SaveFilters, memoryVars, historyVars
  <2>2. QED
    BY <1>1, <2>1 DEF TInv, Types, Placed, PlacedOnDisk
<1>6. CASE Sync
  <2>1. /\ synced' = Len(log)
        /\ UNCHANGED <<log, metas, completed, sound, pc, job, parentRecipe,
                  segments, snapshotRecipe, pending, answers>>
    BY <1>6 DEF Sync, memoryVars, historyVars
  <2>2. synced' \in 0..Len(log')
    BY <1>1, <2>1, LenProperties DEF Types
  <2>3. QED
    BY <1>1, <2>1, <2>2 DEF TInv, Types, Placed, PlacedOnDisk
<1>7. CASE UNCHANGED vars
  <2>1. UNCHANGED <<log, synced, metas, completed, sound, pc, job, parentRecipe,
                  segments, snapshotRecipe, pending, answers>>
    BY <1>7 DEF vars, diskVars, memoryVars, historyVars
  <2>2. QED
    BY <1>1, <2>1 DEF TInv, Types, Placed, PlacedOnDisk
<1>8. QED
  BY <1>2, <1>3, <1>4, <1>5, <1>6, <1>7, BeginTypes, SegmentInParentTypes, WriteSegmentTypes,
     FlushAndCloseTypes, DieTypes DEF Next

LEMMA AlwaysTInv == Spec => [](FInv /\ TInv)
<1>1. Init => TInv
  BY InitTInv
<1>2. FInv /\ TInv /\ [Next]_vars => TInv'
  BY NextTInv
<1>3. QED
  BY <1>1, <1>2, AlwaysFInv, PTL DEF Spec

(* The types of the variables: what a failed BatchGet leaves is typed, a recipe and
   the buffer have together the segments that were read, and the buffer never
   reaches a batch. *)
THEOREM SnapshotTypes == Spec => []TypeOK
<1>1. FInv /\ TInv => TypeOK
  <2> SUFFICES ASSUME FInv, TInv
               PROVE  TypeOK
    OBVIOUS
  <2>1. ASSUME NEW n \in DOMAIN log
        PROVE  \/ log[n].kind = "block" /\ log[n].data \in Block
               \/ log[n].kind = "recipe" /\ \A k \in DOMAIN log[n].recipe : IsBlockMeta(log[n].recipe[k])
    <3>1. log[n] \in Entry
      BY LenProperties, ElementOfSeq DEF TInv, Types
    <3>2. CASE log[n] \in [kind : {"block"}, data : Block, recipe : {<< >>}]
      BY <3>2
    <3>3. CASE log[n] \in [kind : {"recipe"}, data : {"none"}, recipe : Seq(BM)]
      <4>1. log[n].kind = "recipe" /\ log[n].recipe \in Seq(BM)
        BY <3>3
      <4>2. \A k \in DOMAIN log[n].recipe : log[n].recipe[k] \in BM
        BY <4>1, LenProperties, ElementOfSeq
      <4>3. QED
        BY <4>1, <4>2 DEF BM, IsBlockMeta
    <3>4. QED
      BY <3>1, <3>2, <3>3 DEF Entry
  <2>2. ASSUME NEW id \in SnapshotId, NEW k \in DOMAIN metas[id].recipe
        PROVE  IsSegmentMeta(metas[id].recipe[k])
    <3>1. metas[id].recipe[k] \in SM
      BY LenProperties, ElementOfSeq DEF TInv, Types
    <3>2. \A p \in DOMAIN metas[id].recipe[k].cksum : metas[id].recipe[k].cksum[p] \in Block
      BY <3>1, LenProperties, ElementOfSeq DEF SM
    <3>3. QED
      BY <3>1, <3>2 DEF SM, IsSegmentMeta
  <2>3. segments \in 0..Len(job.image)
    <3>1. CASE pc = "none"
      BY <3>1 DEF FInv, Stages, NoData
    <3>2. CASE pc # "none"
      <4>1. job.image \in Images /\ segments \in Nat /\ segments <= Len(job.image)
        BY <3>2 DEF FInv, Stages
      <4>2. QED
        BY <4>1, ImageTypes
    <3>3. QED
      BY <3>1, <3>2
  <2>4. QED
    BY <2>1, <2>2, <2>3 DEF FInv, Stages, FilterSteps, TInv, Types, TypeOK
<1>2. QED
  BY <1>1, AlwaysTInv, PTL

(* The recipe of a snapshot whose write ended has segments of its data, each at most
   once, and lacks fewer than a batch, whatever the servers of the CDS answered and
   whether its ancestors are still there (UpdateSnapshotRecipe, SaveSnapshotMeta). *)
THEOREM RecipesInPlace == Spec => []PlacedOnDisk
<1>1. FInv /\ TInv => PlacedOnDisk
  BY DEF TInv, Placed
<1>2. QED
  BY <1>1, AlwaysTInv, PTL

-----------------------------------------------------------------------------
(* What is in the store, when the servers answer. *)

LEMMA InitRInv == Init => RInv
BY DEF Init, RInv, OnDisk, InMemory

(* What is synced stays, and what sound snapshots need with it. *)
LEMMA OnDiskStays ==
    ASSUME TInv, RInv, synced' \in Nat, synced <= synced',
           \A i \in 1..synced : log'[i] = log[i],
           \A id \in sound' : id \in sound /\ metas'[id] = metas[id]
    PROVE  OnDisk'
<1>1. synced \in Nat
  BY LenProperties DEF TInv, Types
<1>2. \A sm : GoodSegment(sm, log, synced) => GoodSegment(sm, log', synced')
  BY <1>1, GoodStays
<1>3. QED
  BY <1>2 DEF RInv, OnDisk

LEMMA BeginStep ==
    ASSUME TInv, RInv, NEW id \in SnapshotId, NEW image \in Images,
           NEW parent \in SnapshotId \cup {NoSnapshot}, Begin(id, image, parent)
    PROVE  RInv'
<1>1. /\ UNCHANGED <<log, synced, metas, sound>>
      /\ snapshotRecipe' = << >> /\ pending' = << >>
  BY DEF Begin, diskVars
<1>2. synced \in Nat /\ Len(log) \in Nat /\ synced <= Len(log)
  BY LenProperties DEF TInv, Types
<1>3. OnDisk'
  BY <1>1, <1>2, OnDiskStays
<1>4. Len(<< >>) = 0
  OBVIOUS
<1>5. Made(snapshotRecipe', pending', log')
  BY <1>1, <1>4 DEF Made
<1>6. CASE parent # NoSnapshot /\ metas[parent].exists
  <2>1. job'.parent = parent /\ parentRecipe' = metas[parent].recipe
    BY <1>6 DEF Begin
  <2>2. \A sm : GoodSegment(sm, log, synced) => GoodSegment(sm, log', Len(log'))
    BY <1>1, <1>2, GoodStays
  <2>3. ASSUME parent \in sound
        PROVE  \A j \in 1..Len(parentRecipe') : GoodSegment(parentRecipe'[j], log', Len(log'))
    BY <2>1, <2>2, <2>3 DEF RInv, OnDisk
  <2>4. InMemory'
    BY <1>1, <1>5, <1>6, <2>1, <2>3 DEF InMemory
  <2>5. QED
    BY <1>3, <2>4 DEF RInv
<1>7. CASE ~(parent # NoSnapshot /\ metas[parent].exists)
  <2>1. job'.parent = NoSnapshot /\ parentRecipe' = << >>
    BY <1>7 DEF Begin
  <2>2. InMemory'
    BY <1>4, <1>5, <2>1 DEF InMemory
  <2>3. QED
    BY <1>3, <2>2 DEF RInv
<1>8. QED
  BY <1>6, <1>7

LEMMA SegmentInParentStep ==
    ASSUME FInv, TInv, RInv, SegmentInParent
    PROVE  RInv'
<1> DEFINE sm == SegmentMeta(Current, EndOffset, ParentSegment.handle)
<1>1. /\ UNCHANGED <<log, synced, metas, sound, pc, job, parentRecipe, pending>>
      /\ snapshotRecipe' = Append(snapshotRecipe, sm)
      /\ HasSegment /\ HasParentSegment /\ ParentSegment.cksum = Current /\ pc = "segments"
  BY DEF SegmentInParent, SameAsParent, HasSegment, diskVars, historyVars
<1>2. /\ DOMAIN parentRecipe = 1..Len(parentRecipe) /\ synced \in Nat
      /\ parentRecipe \in Seq(SM) /\ snapshotRecipe \in Seq(SM)
  BY LenProperties DEF TInv, Types
<1>3. sm.cksum = Current /\ sm.handle = ParentSegment.handle /\ sm \in SM
  <2>1. ParentSegment \in SM
    BY <1>1, <1>2, ElementOfSeq DEF HasParentSegment, ParentSegment
  <2>2. QED
    BY <1>1, <2>1, CurrentProps DEF SM, SegmentMeta
<1> HIDE DEF sm
<1>4. /\ Len(snapshotRecipe') = Len(snapshotRecipe) + 1 /\ Len(snapshotRecipe) \in Nat
      /\ \A j \in 1..Len(snapshotRecipe) : snapshotRecipe'[j] = snapshotRecipe[j]
      /\ snapshotRecipe'[Len(snapshotRecipe) + 1] = sm
  BY <1>1, <1>2, <1>3, AppendProperties, LenProperties
<1>5. OnDisk'
  BY <1>1, <1>2, OnDiskStays
<1>6. ASSUME \A j \in 1..Len(parentRecipe) : GoodSegment(parentRecipe[j], log, Len(log)),
             Made(snapshotRecipe, pending, log)
      PROVE  Made(snapshotRecipe', pending', log')
  <2>1. GoodSegment(sm, log, Len(log))
    <3>1. GoodSegment(ParentSegment, log, Len(log))
      BY <1>1, <1>2, <1>6 DEF HasParentSegment, ParentSegment
    <3>2. QED
      BY <1>1, <1>3, <3>1 DEF GoodSegment
  <2>2. ASSUME NEW j \in 1..Len(snapshotRecipe')
        PROVE  GoodSegment(snapshotRecipe'[j], log, Len(log))
    <3>1. CASE j = Len(snapshotRecipe) + 1
      BY <1>4, <2>1, <3>1
    <3>2. CASE j # Len(snapshotRecipe) + 1
      <4>1. j \in 1..Len(snapshotRecipe)
        BY <1>4, <3>2
      <4>2. QED
        BY <1>4, <1>6, <4>1 DEF Made
    <3>3. QED
      BY <3>1, <3>2
  <2>3. QED
    BY <1>1, <1>6, <2>2 DEF Made
<1>7. InMemory'
  BY <1>1, <1>6 DEF RInv, InMemory
<1>8. QED
  BY <1>5, <1>7 DEF RInv

LEMMA WriteSegmentStep ==
    ASSUME "cds-down" \notin Faults, FInv, TInv, RInv, WriteSegment
    PROVE  RInv'
<1>1. PICK reply \in BatchGet(Select(Current, Asked)) : StoreSegment(reply)
  BY DEF WriteSegment
<1>2. UNCHANGED <<synced, metas, sound, pc, job, parentRecipe>> /\ HasSegment /\ pc = "segments"
  BY DEF WriteSegment, HasSegment, historyVars
<1>3. \A n \in DOMAIN Select(Current, Asked) : reply[n].offset \in Nat
  BY ReplyTypes DEF TInv
<1>4. /\ log' \in Seq(Entry) /\ Len(log) <= Len(log')
      /\ \A i \in 1..Len(log) : log'[i] = log[i]
      /\ /\ \A j \in 1..Len(parentRecipe) : GoodSegment(parentRecipe[j], log, Len(log))
         /\ Made(snapshotRecipe, pending, log)
         => Made(snapshotRecipe', pending', log')
  BY <1>1, <1>2, <1>3, StoreProps DEF TInv
<1>5. Len(log) \in Nat /\ Len(log') \in Nat /\ synced \in Nat /\ synced <= Len(log)
  BY <1>4, LenProperties DEF TInv, Types
<1>6. OnDisk'
  BY <1>2, <1>4, <1>5, OnDiskStays
<1>7. \A sm : GoodSegment(sm, log, Len(log)) => GoodSegment(sm, log', Len(log'))
  BY <1>4, <1>5, GoodStays
<1>8. InMemory'
  BY <1>2, <1>4, <1>7 DEF RInv, InMemory
<1>9. QED
  BY <1>6, <1>8 DEF RInv

LEMMA FlushAndCloseStep ==
    ASSUME FInv, TInv, RInv, FlushAndClose
    PROVE  RInv'
<1>1. /\ pc = "close" /\ pc' = "none" /\ synced' = Len(log) /\ UNCHANGED <<log, metas>>
      /\ sound' = IF job.parent \in sound \cup {NoSnapshot} THEN sound \cup {job.id} ELSE sound
  BY DEF FlushAndClose, CloseStore
<1>2. synced \in Nat /\ Len(log) \in Nat /\ synced <= Len(log)
  BY LenProperties DEF TInv, Types
<1>3. metas[job.id].recipe = snapshotRecipe
  BY <1>1 DEF FInv, Stages
<1>4. \A sm : GoodSegment(sm, log, synced) => GoodSegment(sm, log', synced')
  BY <1>1, <1>2, GoodStays
<1>5. ASSUME NEW id \in sound', NEW j \in 1..Len(metas'[id].recipe)
      PROVE  GoodSegment(metas'[id].recipe[j], log', synced')
  <2>1. CASE id \in sound
    BY <1>1, <1>4, <1>5, <2>1 DEF RInv, OnDisk
  <2>2. CASE id \notin sound
    <3>1. id = job.id /\ job.parent \in sound \cup {NoSnapshot}
      BY <1>1, <2>2
    <3>2. Made(snapshotRecipe, pending, log)
      BY <1>1, <3>1 DEF RInv, InMemory
    <3>3. QED
      BY <1>1, <1>3, <1>5, <3>1, <3>2 DEF Made
  <2>3. QED
    BY <2>1, <2>2
<1>6. OnDisk'
  BY <1>5 DEF OnDisk
<1>7. QED
  BY <1>1, <1>6 DEF RInv, InMemory

LEMMA DieStep ==
    ASSUME TInv, RInv, Die
    PROVE  RInv'
<1>1. pc' = "none" /\ UNCHANGED <<metas, sound>>
  BY DEF Die
<1>2. /\ synced \in Nat /\ synced' \in Nat /\ synced <= synced'
      /\ \A i \in 1..synced' : log'[i] = log[i]
  BY DieLog
<1>3. \A i \in 1..synced : log'[i] = log[i]
  BY <1>2
<1>4. OnDisk'
  BY <1>1, <1>2, <1>3, OnDiskStays
<1>5. QED
  BY <1>1, <1>4 DEF RInv, InMemory

LEMMA NextRInv ==
    ASSUME "cds-down" \notin Faults, FInv, TInv, RInv, [Next]_vars
    PROVE  RInv'
<1>1. OnDisk /\ InMemory /\ synced \in Nat /\ synced <= Len(log) /\ Len(log) \in Nat
  BY LenProperties DEF RInv, TInv, Types
<1>2. CASE EndOfImage
  <2>1. pc # "none" /\ UNCHANGED <<log, synced, metas, sound, job, parentRecipe, snapshotRecipe, pending>>
    BY <1>2 DEF EndOfImage, diskVars, memoryVars, historyVars
  <2>2. QED
    BY <1>1, <2>1 DEF RInv, OnDisk, InMemory
<1>3. CASE RemoveMeta
  <2>1. /\ UNCHANGED <<log, synced, pc, job, parentRecipe, snapshotRecipe, pending>>
        /\ metas' = [metas EXCEPT ![job.id] = NoMeta] /\ sound' = sound \ {job.id}
    BY <1>3 DEF RemoveMeta, memoryVars
  <2>2. \A id \in sound' : id \in sound /\ metas'[id] = metas[id]
    BY <2>1 DEF FInv, Stages, IsFunction
  <2>3. OnDisk'
    BY <1>1, <2>1, <2>2, OnDiskStays
  <2>4. InMemory'
    BY <1>1, <2>1 DEF InMemory
  <2>5. QED
    BY <2>3, <2>4 DEF RInv
<1>4. CASE SaveMeta
  <2>1. /\ pc = "meta" /\ metas[job.id] = NoMeta
        /\ UNCHANGED <<log, synced, sound, job, parentRecipe, snapshotRecipe, pending>>
        /\ metas' = [metas EXCEPT ![job.id] = [exists |-> TRUE, recipe |-> snapshotRecipe]]
    BY <1>4 DEF SaveMeta, memoryVars, historyVars
  <2>2. job.id \notin sound
    BY <2>1 DEF FInv, Stages, NoMeta
  <2>3. \A id \in sound' : id \in sound /\ metas'[id] = metas[id]
    BY <2>1, <2>2 DEF FInv, Stages, IsFunction
  <2>4. OnDisk'
    <3>1. synced' = synced /\ log' = log
      BY <2>1
    <3>2. QED
      BY <1>1, <2>3, <3>1, OnDiskStays
  <2>5. InMemory'
    BY <1>1, <2>1 DEF InMemory
  <2>6. QED
    BY <2>4, <2>5 DEF RInv
<1>5. CASE SaveFilters
  <2>1. pc # "none" /\ UNCHANGED <<log, synced, metas, sound, job, parentRecipe, snapshotRecipe, pending>>
    BY <1>5 DEF SaveFilters, memoryVars, historyVars
  <2>2. QED
    BY <1>1, <2>1 DEF RInv, OnDisk, InMemory
<1>6. CASE Sync
  <2>1. /\ synced' = Len(log)
        /\ UNCHANGED <<log, metas, sound, pc, job, parentRecipe, snapshotRecipe, pending>>
    BY <1>6 DEF Sync, memoryVars, historyVars
  <2>2. OnDisk'
    BY <1>1, <2>1, OnDiskStays
  <2>3. InMemory'
    BY <1>1, <2>1 DEF InMemory
  <2>4. QED
    BY <2>2, <2>3 DEF RInv
<1>7. CASE UNCHANGED vars
  <2>1. UNCHANGED <<log, synced, metas, sound, pc, job, parentRecipe, snapshotRecipe, pending>>
    BY <1>7 DEF vars, diskVars, memoryVars, historyVars
  <2>2. QED
    BY <1>1, <2>1 DEF RInv, OnDisk, InMemory
<1>8. QED
  BY <1>2, <1>3, <1>4, <1>5, <1>6, <1>7, BeginStep, SegmentInParentStep, WriteSegmentStep,
     FlushAndCloseStep, DieStep DEF Next

LEMMA AlwaysRInv ==
    ASSUME "cds-down" \notin Faults
    PROVE  Spec => [](FInv /\ TInv /\ RInv)
<1>1. Init => RInv
  BY InitRInv
<1>2. FInv /\ TInv /\ RInv /\ [Next]_vars => RInv'
  BY NextRInv
<1>3. QED
  BY <1>1, <1>2, AlwaysTInv, PTL DEF Spec

LEMMA CardinalityUpto ==
    ASSUME NEW n \in Nat
    PROVE  IsFiniteSet(1..n) /\ Cardinality(1..n) = n
BY FS_Interval

(* The segments in the recipe of a sound snapshot, in its data, and from the store. *)
LEMMA SoundSegments ==
    ASSUME FInv, TInv, RInv, NEW id \in sound
    PROVE  /\ id \in SnapshotId /\ DOMAIN completed[id] = 1..Len(completed[id])
           /\ completed[id] \in Images \cup {NoData}
           /\ DOMAIN metas[id].recipe = 1..Len(metas[id].recipe) /\ Len(metas[id].recipe) \in Nat
           /\ Len(completed[id]) - Len(metas[id].recipe) < DF_MAX_PENDING
           /\ Distinct(metas[id].recipe)
           /\ \A j \in 1..Len(metas[id].recipe) :
                  LET sm == metas[id].recipe[j]
                  IN  IsSegment(sm, completed[id], Len(completed[id])) /\ Restores(sm, sm.cksum)
<1>1. id \in SnapshotId /\ completed[id] \in Images \cup {NoData}
  BY DEF FInv, Stages
<1>2. DOMAIN completed[id] = 1..Len(completed[id])
  <2>1. DOMAIN NoData = 1..Len(NoData)
    BY DEF NoData
  <2>2. QED
    BY <1>1, <2>1, ImageTypes
<1>3. /\ metas[id].recipe \in Seq(SM) /\ Len(metas[id].recipe) \in Nat
      /\ DOMAIN metas[id].recipe = 1..Len(metas[id].recipe)
  BY <1>1, LenProperties DEF TInv, Types
<1>4. /\ Len(completed[id]) - Len(metas[id].recipe) < DF_MAX_PENDING
      /\ InPlace(metas[id].recipe, << >>, completed[id], Len(completed[id]))
  BY <1>1 DEF TInv, Placed, PlacedOnDisk
<1>5. ASSUME NEW j \in 1..Len(metas[id].recipe)
      PROVE  Restores(metas[id].recipe[j], metas[id].recipe[j].cksum)
  <2>1. GoodSegment(metas[id].recipe[j], log, synced)
    BY DEF RInv, OnDisk
  <2>2. metas[id].recipe[j] \in SM
    BY <1>3, ElementOfSeq
  <2>3. synced \in Nat /\ synced <= Len(log)
    BY LenProperties DEF TInv, Types
  <2>4. QED
    BY <2>1, <2>2, <2>3, GoodRestores DEF TInv
<1>6. QED
  BY <1>1, <1>2, <1>3, <1>4, <1>5 DEF InPlace

(* Every segment in the recipe of a snapshot whose write ended, and those of all
   its ancestors, restores as a segment of its data, and the recipe lacks fewer
   segments than a batch: whichever processes died, before or after, whatever was
   lost with them or written over the ancestors, when the servers of the CDS
   answer (UpdateSnapshotRecipe, FlushAndClose). *)
THEOREM SoundRecipesRestore ==
    ASSUME "cds-down" \notin Faults
    PROVE  Spec => []RecipesRestore
<1>1. FInv /\ TInv /\ RInv => RecipesRestore
  <2> SUFFICES ASSUME FInv, TInv, RInv, NEW id \in sound
               PROVE  /\ Len(completed[id]) - Len(metas[id].recipe) < DF_MAX_PENDING
                      /\ \A j \in DOMAIN metas[id].recipe : \E k \in DOMAIN completed[id] :
                             /\ metas[id].recipe[j].cksum = completed[id][k]
                             /\ Restores(metas[id].recipe[j], completed[id][k])
    BY DEF RecipesRestore
  <2>1. /\ DOMAIN completed[id] = 1..Len(completed[id])
        /\ DOMAIN metas[id].recipe = 1..Len(metas[id].recipe)
        /\ Len(completed[id]) - Len(metas[id].recipe) < DF_MAX_PENDING
        /\ \A j \in 1..Len(metas[id].recipe) :
               /\ IsSegment(metas[id].recipe[j], completed[id], Len(completed[id]))
               /\ Restores(metas[id].recipe[j], metas[id].recipe[j].cksum)
    BY SoundSegments
  <2>2. QED
    BY <2>1 DEF IsSegment
<1>2. QED
  BY <1>1, AlwaysRInv, PTL

(* Of a snapshot whose write ended, and those of all its ancestors, all but the
   segments of the last batch are in the recipe at their offsets and restore, and
   the recipe has nothing else: with every interleaving of runs and crashes, when
   the servers of the CDS answer (snapshot_write, snapshot_read). *)
THEOREM SnapshotSoundRestores ==
    ASSUME "cds-down" \notin Faults
    PROVE  Spec => []SoundRestores
<1>1. FInv /\ TInv /\ RInv => SoundRestores
  <2> SUFFICES ASSUME FInv, TInv, RInv, NEW id \in sound
               PROVE  /\ Len(completed[id]) - Cardinality(Restored(id)) < DF_MAX_PENDING
                      /\ Len(metas[id].recipe) = Cardinality(Restored(id))
    BY DEF SoundRestores
  <2> DEFINE recipe == metas[id].recipe
             image == completed[id]
             Place(j) == CHOOSE k \in 1..Len(image) :
                             image[k] = recipe[j].cksum /\ EndIn(image, k) = recipe[j].end_offset
             place == [j \in 1..Len(recipe) |-> Place(j)]
  <2>1. /\ DOMAIN image = 1..Len(image) /\ DOMAIN recipe = 1..Len(recipe)
        /\ Len(recipe) \in Nat /\ Len(image) - Len(recipe) < DF_MAX_PENDING
        /\ Distinct(recipe)
        /\ \A j \in 1..Len(recipe) : /\ IsSegment(recipe[j], image, Len(image))
                                     /\ Restores(recipe[j], recipe[j].cksum)
    BY SoundSegments
  <2>2. \A m, n \in 1..Len(image) : EndIn(image, m) = EndIn(image, n) => m = n
    <3>1. CASE image \in Images
      BY <3>1, EndProps
    <3>2. CASE image = NoData
      <4>1. \A m \in 1..Len(image) : FALSE
        BY <3>2 DEF NoData
      <4>2. QED
        BY <4>1
    <3>3. QED
      BY <3>1, <3>2, SoundSegments
  <2>3. \A j \in 1..Len(recipe) :
            /\ Place(j) \in 1..Len(image) /\ image[Place(j)] = recipe[j].cksum
            /\ EndIn(image, Place(j)) = recipe[j].end_offset
    BY <2>1 DEF IsSegment
  <2>4. Restored(id) = {k \in 1..Len(image) : \E j \in 1..Len(recipe) :
                            recipe[j].end_offset = EndIn(image, k) /\ Restores(recipe[j], image[k])}
    BY <2>1 DEF Restored
  <2> HIDE DEF recipe, image, Place
  <2>5. \A j \in 1..Len(recipe) : Place(j) \in Restored(id)
    BY <2>1, <2>3, <2>4
  <2>6. \A i, j \in 1..Len(recipe) : Place(i) = Place(j) => i = j
    BY <2>1, <2>3 DEF Distinct
  <2>7. \A k \in Restored(id) : \E j \in 1..Len(recipe) : Place(j) = k
    BY <2>2, <2>3, <2>4
  <2>8. place \in Bijection(1..Len(recipe), Restored(id))
    BY <2>5, <2>6, <2>7 DEF Bijection, Injection, Surjection, IsInjective
  <2>9. IsFiniteSet(1..Len(recipe)) /\ Cardinality(1..Len(recipe)) = Len(recipe)
    <3>1. Len(recipe) \in Nat
      BY <2>1
    <3>2. QED
      BY <3>1, CardinalityUpto
  <2>10. Cardinality(Restored(id)) = Len(recipe)
    <3>1. ExistsBijection(1..Len(recipe), Restored(id))
      BY <2>8 DEF ExistsBijection
    <3>2. QED
      BY <2>9, <3>1, FS_Bijection
  <2>11. QED
    BY <2>1, <2>10 DEF recipe, image
<1>2. QED
  BY <1>1, AlwaysRInv, PTL
=============================================================================
