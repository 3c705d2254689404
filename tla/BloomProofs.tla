---------------------------- MODULE BloomProofs ----------------------------
(***************************************************************************)
(* Theorems about Bloom, for every value of its constants: whatever the    *)
(* hash functions, the sizes and the elements are.                         *)
(***************************************************************************)
EXTENDS Bloom, SequenceTheorems, WellFoundedInduction, TLAPS

Start == 0..(CKSUM_LEN - 1)

(* A filter has all the functions it counts. *)
IsFilter(f) ==
    /\ f.mHashFunctions \in Seq(Start)
    /\ f.mHashFunctionNum \in 0..Len(f.mHashFunctions)

(* What was added to the filter that is in a file, is in it. *)
StreamRight(st) ==
    /\ st.used \in Seq(Start)
    /\ \A elem \in st.added : \A i \in 1..Len(st.used) :
           Position(st.used[i], elem, st.mTotalBits) \in st.mBitsSpace

FiltersRight ==
    /\ filter = [k \in Kind |-> filter[k]]
    /\ members = [k \in Kind |-> members[k]]
    /\ \A k \in Kind : IsFilter(filter[k])

FilesRight ==
    /\ files = [s \in SnapshotId |-> [k \in Kind |-> files[s][k]]]
    /\ \A s \in SnapshotId, k \in Kind : StreamRight(files[s][k])

(* No filter file is older than vm.meta, and what is being written to it, or was
   just read from it, is what it holds. *)
MetaRight ==
    /\ vmMeta.state = "absent" => pc = "none"
    /\ pc = "meta" => vmMeta.state = "empty"
    /\ vmMeta.state = "absent" \/ pc = "meta" =>
           \A s \in SnapshotId, k \in Kind : files[s][k].state = "absent"
    /\ pc = "filters" /\ vmMeta.state = "whole" => items = vmMeta.filter_num_items

(* The inductive invariant: what was added is found, in memory and on disk. *)
IInv ==
    /\ current \in SnapshotId
    /\ FiltersRight
    /\ FilesRight
    /\ NoFalseNegative
    /\ MetaRight
    /\ SameTotalBits

-----------------------------------------------------------------------------
(* The operations of a filter. *)

LEMMA ExistDef ==
    ASSUME NEW f, NEW elem
    PROVE  Exist(f, elem) <=>
               \A i \in 1..f.mHashFunctionNum :
                   Position(f.mHashFunctions[i], elem, f.mTotalBits) \in f.mBitsSpace
BY DEF Exist, PositionsOf

(* A new filter has the functions it was given. *)
LEMMA NewFilterProps ==
    ASSUME NEW n, NEW functions \in Seq(Start)
    PROVE  IsFilter(NewFilter(n, functions))
<1>1. Len(functions) \in Nat
  BY LenProperties
<1>2. QED
  BY <1>1 DEF IsFilter, NewFilter, BloomFilter

(* Adding keeps what the filter finds, and it finds what is added. *)
LEMMA AddElementsProps ==
    ASSUME NEW f, IsFilter(f), NEW elems
    PROVE  /\ IsFilter(AddElements(f, elems))
           /\ AddElements(f, elems).mTotalBits = f.mTotalBits
           /\ \A elem : Exist(f, elem) => Exist(AddElements(f, elems), elem)
           /\ \A elem \in elems : Exist(AddElements(f, elems), elem)
<1> DEFINE new == UNION {PositionsOf(f, elem) : elem \in elems}
           g == AddElements(f, elems)
<1>1. g = [mTotalBits |-> f.mTotalBits, mBitsSpace |-> f.mBitsSpace \cup new,
           mHashFunctions |-> f.mHashFunctions, mHashFunctionNum |-> f.mHashFunctionNum]
  BY DEF AddElements, WithBits, BloomFilter
<1>2. \A elem \in elems : PositionsOf(f, elem) \subseteq new
  OBVIOUS
<1> HIDE DEF new, g
<1>3. \A elem : PositionsOf(g, elem) = PositionsOf(f, elem)
  BY <1>1 DEF PositionsOf
<1>4. IsFilter(g) /\ g.mTotalBits = f.mTotalBits
  BY <1>1 DEF IsFilter
<1>5. \A elem : Exist(f, elem) => Exist(g, elem)
  BY <1>1, <1>3 DEF Exist
<1>6. \A elem \in elems : Exist(g, elem)
  BY <1>1, <1>2, <1>3 DEF Exist
<1>7. QED
  BY <1>4, <1>5, <1>6 DEF g

LEMMA ClearedProps ==
    ASSUME NEW f, IsFilter(f)
    PROVE  IsFilter(Cleared(f)) /\ Cleared(f).mTotalBits = f.mTotalBits
BY DEF Cleared, WithBits, BloomFilter, IsFilter

LEMMA ResetProps ==
    ASSUME NEW f, IsFilter(f), NEW functions \in Seq(Start)
    PROVE  IsFilter(ResetTo(f, functions)) /\ ResetTo(f, functions).mTotalBits = f.mTotalBits
<1>1. /\ f.mHashFunctions \o functions \in Seq(Start)
      /\ Len(f.mHashFunctions \o functions) = Len(f.mHashFunctions) + Len(functions)
  BY ConcatProperties DEF IsFilter
<1>2. Len(f.mHashFunctions) \in Nat /\ Len(functions) \in Nat
  BY LenProperties DEF IsFilter
<1>3. ResetTo(f, functions) =
          [mTotalBits |-> f.mTotalBits, mBitsSpace |-> {},
           mHashFunctions |-> f.mHashFunctions \o functions, mHashFunctionNum |-> Len(functions)]
  BY DEF ResetTo, BloomFilter
<1>4. QED
  BY <1>1, <1>2, <1>3 DEF IsFilter

(* A file holds what its filter finds. *)
LEMMA StreamProps ==
    ASSUME NEW f, IsFilter(f), NEW added, \A elem \in added : Exist(f, elem)
    PROVE  StreamRight(Stream(f, added)) /\ Stream(f, added).mTotalBits = f.mTotalBits
<1> DEFINE n == f.mHashFunctionNum
           used == SubSeq(f.mHashFunctions, 1, n)
<1>1. Len(f.mHashFunctions) \in Nat /\ f.mHashFunctions \in Seq(Start) /\ n \in 0..Len(f.mHashFunctions)
  BY LenProperties DEF IsFilter
<1>2. \A i \in 1..n : f.mHashFunctions[i] \in Start
  BY <1>1, ElementOfSeq
<1>3. used \in Seq(Start) /\ Len(used) = n /\ \A i \in 1..n : used[i] = f.mHashFunctions[i]
  BY <1>1, <1>2, SubSeqProperties
<1>4. \A elem \in added : \A i \in 1..n :
          Position(f.mHashFunctions[i], elem, f.mTotalBits) \in f.mBitsSpace
  BY ExistDef
<1>5. /\ Stream(f, added).used = used /\ Stream(f, added).added = added
      /\ Stream(f, added).mTotalBits = f.mTotalBits
      /\ Stream(f, added).mBitsSpace = f.mBitsSpace
  BY DEF Stream
<1> HIDE DEF used, n
<1>6. QED
  BY <1>3, <1>4, <1>5 DEF StreamRight

(* A filter that is loaded finds what its file holds. *)
LEMMA DeserializedProps ==
    ASSUME NEW f, IsFilter(f), NEW st, StreamRight(st)
    PROVE  /\ IsFilter(Deserialized(f, st))
           /\ Deserialized(f, st).mTotalBits = st.mTotalBits
           /\ SameFunctions(f, st) => \A elem \in st.added :
                  Exist(Deserialized(f, st), elem)
<1> DEFINE g == Deserialized(f, st)
<1>1. g = [mTotalBits |-> st.mTotalBits, mBitsSpace |-> st.mBitsSpace,
           mHashFunctions |-> f.mHashFunctions, mHashFunctionNum |-> f.mHashFunctionNum]
  BY DEF Deserialized, WithBits, BloomFilter
<1> HIDE DEF g
<1>2. IsFilter(g) /\ g.mTotalBits = st.mTotalBits
  BY <1>1 DEF IsFilter
<1>3. ASSUME SameFunctions(f, st), NEW elem \in st.added
      PROVE  Exist(g, elem)
  <2>1. f.mHashFunctionNum \in Nat /\ Len(st.used) \in Nat
    BY LenProperties DEF IsFilter, StreamRight
  <2>2. SUFFICES ASSUME NEW i \in 1..f.mHashFunctionNum
                 PROVE  Position(f.mHashFunctions[i], elem, st.mTotalBits) \in st.mBitsSpace
    BY <1>1, ExistDef
  <2>3. i \in 1..Len(st.used) /\ f.mHashFunctions[i] = st.used[i]
    BY <1>3, <2>1 DEF SameFunctions
  <2>4. QED
    BY <1>3, <2>3 DEF StreamRight
<1>4. QED
  BY <1>2, <1>3 DEF g

(* A merge keeps what both have. *)
LEMMA MergedProps ==
    ASSUME NEW f, IsFilter(f), NEW st, StreamRight(st), NEW n
    PROVE  /\ IsFilter(Merged(f, st, n))
           /\ Merged(f, st, n).mTotalBits = f.mTotalBits
           /\ f.mTotalBits # st.mTotalBits => Merged(f, st, n) = f
           /\ SameFunctions(f, st) => \A elem \in st.added :
                  Exist(f, elem) => Exist(Merged(f, st, n), elem)
<1>1. CASE f.mTotalBits # st.mTotalBits
  <2>1. Merged(f, st, n) = f
    BY <1>1 DEF Merged
  <2>2. QED
    BY <2>1
<1>2. CASE f.mTotalBits = st.mTotalBits
  <2> DEFINE bits == {p \in f.mBitsSpace : p < n => p \in st.mBitsSpace}
             g == Merged(f, st, n)
  <2>1. g = [mTotalBits |-> f.mTotalBits, mBitsSpace |-> bits,
             mHashFunctions |-> f.mHashFunctions, mHashFunctionNum |-> f.mHashFunctionNum]
    BY <1>2 DEF Merged, WithBits, BloomFilter
  <2>2. f.mBitsSpace \cap st.mBitsSpace \subseteq bits
    OBVIOUS
  <2> HIDE DEF bits, g
  <2>3. IsFilter(g) /\ g.mTotalBits = f.mTotalBits
    BY <2>1 DEF IsFilter
  <2>4. ASSUME SameFunctions(f, st), NEW elem \in st.added, Exist(f, elem)
        PROVE  Exist(g, elem)
    <3>1. f.mHashFunctionNum \in Nat /\ Len(st.used) \in Nat
      BY LenProperties DEF IsFilter, StreamRight
    <3>2. SUFFICES ASSUME NEW i \in 1..f.mHashFunctionNum
                   PROVE  Position(f.mHashFunctions[i], elem, f.mTotalBits) \in bits
      BY <2>1, ExistDef
    <3>3. i \in 1..Len(st.used) /\ f.mHashFunctions[i] = st.used[i]
      BY <2>4, <3>1 DEF SameFunctions
    <3>4. Position(f.mHashFunctions[i], elem, f.mTotalBits) \in st.mBitsSpace
      BY <1>2, <2>4, <3>3 DEF StreamRight
    <3>5. Position(f.mHashFunctions[i], elem, f.mTotalBits) \in f.mBitsSpace
      BY <2>4, ExistDef
    <3>6. QED
      BY <2>2, <3>4, <3>5
  <2>5. QED
    BY <1>2, <2>3, <2>4 DEF g
<1>3. QED
  BY <1>1, <1>2

LEMMA NoStreamRight ==
    ASSUME NEW state
    PROVE  StreamRight(NoStream(state))
BY DEF StreamRight, NoStream

LEMMA CutStreamRight ==
    ASSUME NEW total, NEW bits
    PROVE  StreamRight(CutStream(total, bits))
BY DEF StreamRight, CutStream

-----------------------------------------------------------------------------
(* The steps. *)

(* One filter is replaced by one that finds its new members. *)
LEMMA FilterStep ==
    ASSUME IInv, NEW k \in Kind, NEW g, NEW M,
           IsFilter(g), \A elem \in M : Exist(g, elem),
           filter' = [filter EXCEPT ![k] = g],
           members' = [members EXCEPT ![k] = M]
    PROVE  /\ FiltersRight' /\ NoFalseNegative'
           /\ \A j \in Kind : filter'[j] = IF j = k THEN g ELSE filter[j]
<1>1. \A j \in Kind : /\ filter'[j] = IF j = k THEN g ELSE filter[j]
                      /\ members'[j] = IF j = k THEN M ELSE members[j]
  BY DEF IInv, FiltersRight
<1>2. filter' = [j \in Kind |-> filter'[j]] /\ members' = [j \in Kind |-> members'[j]]
  BY DEF IInv, FiltersRight
<1>3. FiltersRight'
  BY <1>1, <1>2 DEF IInv, FiltersRight
<1>4. NoFalseNegative'
  BY <1>1 DEF IInv, NoFalseNegative
<1>5. QED
  BY <1>1, <1>3, <1>4

(* As before, and the size of the filter does not change. *)
LEMMA FilterStepSize ==
    ASSUME IInv, NEW k \in Kind, NEW g, NEW M,
           IsFilter(g), \A elem \in M : Exist(g, elem),
           vmMeta.state = "whole" => g.mTotalBits = filter[k].mTotalBits,
           filter' = [filter EXCEPT ![k] = g],
           members' = [members EXCEPT ![k] = M],
           pc = "ready", UNCHANGED <<disk, pc, current, items>>
    PROVE  IInv'
<1>1. /\ FiltersRight' /\ NoFalseNegative'
      /\ \A j \in Kind : filter'[j] = IF j = k THEN g ELSE filter[j]
  BY FilterStep
<1>2. SameTotalBits'
  BY <1>1 DEF IInv, SameTotalBits, disk
<1>3. QED
  BY <1>1, <1>2 DEF IInv, FilesRight, MetaRight, disk

(* The filters are gone, or were never there. *)
LEMMA ForgetStep ==
    ASSUME IInv, Forget
    PROVE  FiltersRight' /\ NoFalseNegative'
<1>1. << >> \in Seq(Start) /\ Len(<< >>) = 0
  BY EmptySeq
<1>2. IsFilter(NoFilter)
  BY <1>1 DEF IsFilter, NoFilter, BloomFilter
<1>3. FiltersRight'
  BY <1>2 DEF FiltersRight, Forget
<1>4. NoFalseNegative'
  BY DEF NoFalseNegative, Forget
<1>5. QED
  BY <1>3, <1>4

(* One file of the snapshot is replaced. *)
LEMMA FileStep ==
    ASSUME IInv, NEW k \in Kind, NEW st, StreamRight(st), SetFile(k, st)
    PROVE  /\ FilesRight'
           /\ \A s \in SnapshotId, j \in Kind :
                  files'[s][j] = IF s = current /\ j = k THEN st ELSE files[s][j]
<1>1. \A s \in SnapshotId : files[s] = [j \in Kind |-> files[s][j]]
  BY DEF IInv, FilesRight
<1>2. files = [s \in SnapshotId |-> files[s]]
  BY DEF IInv, FilesRight
<1>3. files' = [s \in SnapshotId |->
                   IF s = current THEN [files[s] EXCEPT ![k] = st] ELSE files[s]]
  BY <1>2 DEF SetFile, IInv
<1>4. \A s \in SnapshotId, j \in Kind :
          files'[s][j] = IF s = current /\ j = k THEN st ELSE files[s][j]
  BY <1>1, <1>3
<1>5. \A s \in SnapshotId : files'[s] = [j \in Kind |-> files'[s][j]]
  BY <1>1, <1>3
<1>6. files' = [s \in SnapshotId |-> [j \in Kind |-> files'[s][j]]]
  BY <1>3, <1>5
<1>7. QED
  BY <1>4, <1>6 DEF FilesRight, IInv

LEMMA InitIInv ==
    ASSUME Init
    PROVE  IInv
<1>1. << >> \in Seq(Start) /\ Len(<< >>) = 0
  BY EmptySeq
<1>2. IsFilter(NoFilter)
  BY <1>1 DEF IsFilter, NoFilter, BloomFilter
<1>3. FiltersRight
  BY <1>2 DEF FiltersRight, Init
<1>4. FilesRight
  BY NoStreamRight DEF FilesRight, Init
<1>5. NoFalseNegative
  BY DEF NoFalseNegative, Init
<1>6. MetaRight /\ SameTotalBits /\ current \in SnapshotId
  BY DEF MetaRight, SameTotalBits, Init, Meta, NoStream
<1>7. QED
  BY <1>3, <1>4, <1>5, <1>6 DEF IInv

LEMMA NextIInv ==
    ASSUME IInv, [Next]_vars
    PROVE  IInv'
<1>1. ASSUME NEW s \in SnapshotId, NEW size \in SnapshotSizes, CreateMeta(s, size)
      PROVE  IInv'
  BY <1>1 DEF CreateMeta, Meta, IInv, FiltersRight, FilesRight, NoFalseNegative, MetaRight,
              SameTotalBits
<1>2. ASSUME NEW s \in SnapshotId, NEW size \in SnapshotSizes, ReadMeta(s, size)
      PROVE  IInv'
  BY <1>2 DEF ReadMeta, disk, IInv, FiltersRight, FilesRight, NoFalseNegative, MetaRight,
              SameTotalBits
<1>3. CASE WriteMeta
  BY <1>3 DEF WriteMeta, Meta, IInv, FiltersRight, FilesRight, NoFalseNegative, MetaRight,
              SameTotalBits
<1>4. CASE InitBloomFilters
  <2> DEFINE functions(k) == SubSeq(kBloomFilterFunctions, FirstFunction(k),
                                    FirstFunction(k) + NUM_FUNCS - 1)
  <2>1. \A k \in Kind : functions(k) \in Seq(Start)
    <3>1. TAKE k \in Kind
    <3>2. /\ kBloomFilterFunctions \in Seq(Start) /\ Len(kBloomFilterFunctions) \in Nat
          /\ NUM_FUNCS \in 1..Len(kBloomFilterFunctions)
          /\ SecondFunctions \in 1..Len(kBloomFilterFunctions)
          /\ SecondFunctions + NUM_FUNCS - 1 <= Len(kBloomFilterFunctions)
      BY BloomAssumption, LenProperties DEF Start
    <3>3. /\ FirstFunction(k) \in 1..Len(kBloomFilterFunctions)
          /\ FirstFunction(k) + NUM_FUNCS - 1 \in FirstFunction(k)..Len(kBloomFilterFunctions)
      BY <3>2 DEF FirstFunction
    <3>4. \A i \in FirstFunction(k)..(FirstFunction(k) + NUM_FUNCS - 1) :
              kBloomFilterFunctions[i] \in Start
      BY <3>2, <3>3, ElementOfSeq
    <3>5. QED
      BY <3>2, <3>3, <3>4, SubSeqProperties
  <2>2. \A k \in Kind : /\ filter'[k] = NewFilter(ItemsOf(k, items), functions(k))
                        /\ members'[k] = {}
    BY <1>4 DEF InitBloomFilters
  <2>3. filter' = [k \in Kind |-> filter'[k]] /\ members' = [k \in Kind |-> members'[k]]
    BY <1>4 DEF InitBloomFilters
  <2> HIDE DEF functions
  <2>4. \A k \in Kind : IsFilter(filter'[k])
    BY <2>1, <2>2, NewFilterProps
  <2>5. \A k \in Kind : filter'[k].mTotalBits = TotalBits(ItemsOf(k, items))
    <3>1. \A n, fs : NewFilter(n, fs).mTotalBits = TotalBits(n)
      BY DEF NewFilter, BloomFilter
    <3>2. QED
      BY <2>2, <3>1
  <2>6. FiltersRight' /\ NoFalseNegative'
    BY <2>2, <2>3, <2>4 DEF FiltersRight, NoFalseNegative
  <2>7. SameTotalBits'
    BY <1>4, <2>5 DEF SameTotalBits, IInv, MetaRight, InitBloomFilters, disk
  <2>8. QED
    BY <1>4, <2>6, <2>7 DEF InitBloomFilters, IInv, FilesRight, MetaRight, disk
<1>5. ASSUME NEW segment \in SUBSET Element, UpdateBloomFilters(segment)
      PROVE  IInv'
  <2>1. \A k \in Kind : /\ filter'[k] = AddElements(filter[k], segment)
                        /\ members'[k] = members[k] \cup segment
    BY <1>5 DEF UpdateBloomFilters
  <2>2. filter' = [k \in Kind |-> filter'[k]] /\ members' = [k \in Kind |-> members'[k]]
    BY <1>5 DEF UpdateBloomFilters
  <2>3. \A k \in Kind : IsFilter(filter[k])
    BY DEF IInv, FiltersRight
  <2>4. \A k \in Kind : IsFilter(filter'[k]) /\ filter'[k].mTotalBits = filter[k].mTotalBits
    BY <2>1, <2>3, AddElementsProps
  <2>5. \A k \in Kind : \A elem \in members'[k] : Exist(filter'[k], elem)
    BY <2>1, <2>3, AddElementsProps DEF IInv, NoFalseNegative
  <2>6. FiltersRight'
    BY <2>2, <2>4 DEF FiltersRight
  <2>7. NoFalseNegative'
    BY <2>5 DEF NoFalseNegative
  <2>8. SameTotalBits'
    BY <1>5, <2>4 DEF UpdateBloomFilters, SameTotalBits, IInv, disk
  <2>9. QED
    BY <1>5, <2>6, <2>7, <2>8 DEF UpdateBloomFilters, IInv, FilesRight, MetaRight, disk
<1>6. ASSUME NEW k \in Kind, Clear(k)
      PROVE  IInv'
  <2>1. IsFilter(filter[k])
    BY DEF IInv, FiltersRight
  <2>2. /\ IsFilter(Cleared(filter[k])) /\ Cleared(filter[k]).mTotalBits = filter[k].mTotalBits
    BY <2>1, ClearedProps
  <2>3. /\ filter' = [filter EXCEPT ![k] = Cleared(filter[k])]
        /\ members' = [members EXCEPT ![k] = {}]
        /\ pc = "ready" /\ UNCHANGED <<disk, pc, current, items>>
    BY <1>6 DEF Clear
  <2>4. QED
    BY <2>2, <2>3, FilterStepSize
<1>7. ASSUME NEW k \in Kind, NEW functions \in ResetFunctions, Reset(k, functions)
      PROVE  IInv'
  <2>1. IsFilter(filter[k]) /\ functions \in Seq(Start)
    BY BloomAssumption DEF IInv, FiltersRight, Start
  <2>2. /\ IsFilter(ResetTo(filter[k], functions))
        /\ ResetTo(filter[k], functions).mTotalBits = filter[k].mTotalBits
    BY <2>1, ResetProps
  <2>3. /\ filter' = [filter EXCEPT ![k] = ResetTo(filter[k], functions)]
        /\ members' = [members EXCEPT ![k] = {}]
        /\ pc = "ready" /\ UNCHANGED <<disk, pc, current, items>>
    BY <1>7 DEF Reset
  <2>4. QED
    BY <2>2, <2>3, FilterStepSize
<1>8. ASSUME NEW k \in Kind, NEW s \in SnapshotId, LoadBloomFilter(k, s)
      PROVE  IInv'
  <2> DEFINE st == files[s][k]
             g == Deserialized(filter[k], st)
             M == IF SameFunctions(filter[k], st) THEN st.added ELSE {}
  <2>1. IsFilter(filter[k]) /\ StreamRight(st)
    BY DEF IInv, FiltersRight, FilesRight
  <2>2. /\ IsFilter(g) /\ g.mTotalBits = st.mTotalBits
        /\ SameFunctions(filter[k], st) => \A elem \in st.added : Exist(g, elem)
    BY <2>1, DeserializedProps
  <2>3. /\ filter' = [filter EXCEPT ![k] = g]
        /\ members' = [members EXCEPT ![k] = M]
        /\ pc = "ready" /\ UNCHANGED <<disk, pc, current, items>>
        /\ st.state \in {"whole", "cut"}
    BY <1>8 DEF LoadBloomFilter
  <2>4. vmMeta.state = "whole" => st.mTotalBits = filter[k].mTotalBits
    BY <2>3 DEF IInv, SameTotalBits
  <2>5. \A elem \in M : Exist(g, elem)
    BY <2>2
  <2> HIDE DEF st, g, M
  <2>6. QED
    BY <2>2, <2>3, <2>4, <2>5, FilterStepSize
<1>9. ASSUME NEW k \in Kind, NEW s \in SnapshotId, NEW n, Merge(k, s, n)
      PROVE  IInv'
  <2> DEFINE st == files[s][k]
             g == Merged(filter[k], st, n)
             M == IF filter[k].mTotalBits # st.mTotalBits THEN members[k]
                  ELSE IF SameFunctions(filter[k], st) THEN members[k] \cap st.added
                  ELSE {}
  <2>1. IsFilter(filter[k]) /\ StreamRight(st)
    BY DEF IInv, FiltersRight, FilesRight
  <2>2. /\ IsFilter(g) /\ g.mTotalBits = filter[k].mTotalBits
        /\ filter[k].mTotalBits # st.mTotalBits => g = filter[k]
        /\ SameFunctions(filter[k], st) =>
               \A elem \in st.added : Exist(filter[k], elem) => Exist(g, elem)
    BY <2>1, MergedProps
  <2>3. members = [j \in Kind |-> members[j]]
    BY DEF IInv, FiltersRight
  <2>4. /\ filter' = [filter EXCEPT ![k] = g]
        /\ members' = [members EXCEPT ![k] = M]
        /\ pc = "ready" /\ UNCHANGED <<disk, pc, current, items>>
    BY <1>9, <2>3 DEF Merge
  <2>5. \A elem \in members[k] : Exist(filter[k], elem)
    BY DEF IInv, NoFalseNegative
  <2>6. \A elem \in M : Exist(g, elem)
    BY <2>2, <2>5
  <2> HIDE DEF st, g, M
  <2>7. QED
    BY <2>2, <2>4, <2>6, FilterStepSize
<1>10. CASE SaveBloomFilters
  BY <1>10 DEF SaveBloomFilters, Saves, disk, IInv, FiltersRight, FilesRight, NoFalseNegative,
               MetaRight, SameTotalBits
<1>11. ASSUME NEW k \in Kind, CreateFile(k)
       PROVE  IInv'
  <2>1. SetFile(k, NoStream("empty")) /\ StreamRight(NoStream("empty"))
    BY <1>11, NoStreamRight DEF CreateFile
  <2>2. /\ FilesRight'
        /\ \A s \in SnapshotId, j \in Kind :
               files'[s][j] = IF s = current /\ j = k THEN NoStream("empty") ELSE files[s][j]
    BY <2>1, FileStep
  <2>3. NoStream("empty").state = "empty"
    BY DEF NoStream
  <2>4. pc \in {"save primary", "save secondary"} /\ pc' \in {"write primary", "write secondary"}
    BY <1>11 DEF CreateFile, Kind, Saves, Writes
  <2>5. SameTotalBits'
    BY <1>11, <2>2, <2>3, <2>4 DEF CreateFile, SameTotalBits, IInv
  <2>6. QED
    BY <1>11, <2>2, <2>4, <2>5 DEF CreateFile, IInv, FiltersRight, NoFalseNegative, MetaRight
<1>12. ASSUME NEW k \in Kind, WriteFile(k)
       PROVE  IInv'
  <2> DEFINE st == Stream(filter[k], members[k])
  <2>1. IsFilter(filter[k]) /\ \A elem \in members[k] : Exist(filter[k], elem)
    BY DEF IInv, FiltersRight, NoFalseNegative
  <2>2. StreamRight(st) /\ st.mTotalBits = filter[k].mTotalBits
    BY <2>1, StreamProps
  <2>3. SetFile(k, st)
    BY <1>12 DEF WriteFile
  <2> HIDE DEF st
  <2>4. /\ FilesRight'
        /\ \A s \in SnapshotId, j \in Kind :
               files'[s][j] = IF s = current /\ j = k THEN st ELSE files[s][j]
    BY <2>2, <2>3, FileStep
  <2>5. pc \in {"write primary", "write secondary"} /\ pc' \in {"save secondary", "ready"}
    BY <1>12 DEF WriteFile, Kind, Saves, Writes
  <2>6. vmMeta' = vmMeta /\ filter' = filter /\ current' = current /\ items' = items
        /\ members' = members
    BY <1>12 DEF WriteFile
  <2>7. SameTotalBits'
    BY <2>2, <2>4, <2>5, <2>6 DEF SameTotalBits, IInv
  <2>8. QED
    BY <2>4, <2>5, <2>6, <2>7 DEF IInv, FiltersRight, NoFalseNegative, MetaRight
<1>13. CASE Exit
  <2>1. FiltersRight' /\ NoFalseNegative'
    BY <1>13, ForgetStep DEF Exit
  <2>2. MetaRight' /\ SameTotalBits' /\ FilesRight' /\ current' \in SnapshotId
    BY <1>13 DEF Exit, Forget, disk, IInv, FilesRight, MetaRight, SameTotalBits
  <2>3. QED
    BY <2>1, <2>2 DEF IInv
<1>14. ASSUME NEW s \in SnapshotId, RemoveBloomFilters(s)
       PROVE  IInv'
  <2>1. /\ files = [t \in SnapshotId |-> files[t]]
        /\ files' = [files EXCEPT ![s] = [k \in Kind |-> NoStream("absent")]]
    BY <1>14 DEF RemoveBloomFilters, IInv, FilesRight
  <2>2. \A t \in SnapshotId, k \in Kind :
            files'[t][k] = IF t = s THEN NoStream("absent") ELSE files[t][k]
    BY <2>1
  <2>3. files' = [t \in SnapshotId |-> [k \in Kind |-> files'[t][k]]]
    BY <2>1 DEF IInv, FilesRight
  <2>4. FilesRight'
    <3>1. StreamRight(NoStream("absent"))
      BY NoStreamRight
    <3>2. \A t \in SnapshotId, k \in Kind : StreamRight(files'[t][k])
      BY <2>2, <3>1 DEF IInv, FilesRight
    <3>3. QED
      BY <2>3, <3>2 DEF FilesRight
  <2>5. NoStream("absent").state = "absent"
    BY DEF NoStream
  <2>6. SameTotalBits'
    BY <1>14, <2>2, <2>5 DEF RemoveBloomFilters, SameTotalBits, IInv
  <2>7. QED
    BY <1>14, <2>2, <2>4, <2>5, <2>6
    DEF RemoveBloomFilters, IInv, FiltersRight, NoFalseNegative, MetaRight
<1>15. ASSUME NEW k \in Kind, NEW n, CutFile(k, n)
       PROVE  IInv'
  <2>1. PICK bits : SetFile(k, CutStream(filter[k].mTotalBits, bits))
    BY <1>15 DEF CutFile
  <2>2. StreamRight(CutStream(filter[k].mTotalBits, bits))
    BY CutStreamRight
  <2>3. CutStream(filter[k].mTotalBits, bits).mTotalBits = filter[k].mTotalBits
    BY DEF CutStream
  <2> DEFINE st == CutStream(filter[k].mTotalBits, bits)
  <2> HIDE DEF st
  <2>4. /\ FilesRight'
        /\ \A s \in SnapshotId, j \in Kind :
               files'[s][j] = IF s = current /\ j = k THEN st ELSE files[s][j]
    BY <2>1, <2>2, FileStep DEF st
  <2>5. FiltersRight' /\ NoFalseNegative'
    BY <1>15, ForgetStep DEF CutFile
  <2>6. /\ pc \in {"write primary", "write secondary"} /\ pc' = "none"
        /\ vmMeta' = vmMeta /\ current' = current
    BY <1>15 DEF CutFile, Forget, Kind, Writes
  <2>7. SameTotalBits'
    BY <2>3, <2>4, <2>6 DEF st, SameTotalBits, IInv
  <2>8. QED
    BY <2>4, <2>5, <2>6, <2>7 DEF IInv, MetaRight
<1>16. CASE UNCHANGED vars
  BY <1>16 DEF vars, IInv, FiltersRight, FilesRight, NoFalseNegative, MetaRight, SameTotalBits
<1>17. QED
  BY <1>1, <1>2, <1>3, <1>4, <1>5, <1>6, <1>7, <1>8, <1>9, <1>10, <1>11, <1>12, <1>13, <1>14,
     <1>15, <1>16 DEF Next

LEMMA AlwaysIInv == Spec => []IInv
<1>1. Init => IInv
  BY InitIInv
<1>2. IInv /\ [Next]_vars => IInv'
  BY NextIInv
<1>3. QED
  BY <1>1, <1>2, PTL DEF Spec

-----------------------------------------------------------------------------
(* False negatives are not possible: however often the filters of a VM are filled,
   saved, cut, loaded, cleared, reset and merged (bloom_filter.h and .hpp), and for
   any hash functions and sizes, a filter finds everything that was added to it. *)
THEOREM NeverFalseNegative == Spec => []NoFalseNegative
<1>1. IInv => NoFalseNegative
  BY DEF IInv
<1>2. QED
  BY <1>1, AlwaysIInv, PTL

(* InitBloomFilters gives the filters of one kind one size for the life of the VM,
   for snapshots of any sizes, unless a process died before it wrote vm.meta. *)
THEOREM OneSize == Spec => []SameTotalBits
<1>1. IInv => SameTotalBits
  BY DEF IInv
<1>2. QED
  BY <1>1, AlwaysIInv, PTL

-----------------------------------------------------------------------------
(* The hash functions give numbers. *)

(* One step of the hash stays a natural number. *)
LEMMA HornerStep ==
    ASSUME NEW a \in Nat, NEW b \in Nat, NEW c \in Nat
    PROVE  a * b + c \in Nat
OBVIOUS

(* The function that HashForChecksum defines, up to n. *)
IsVal(f, cksum, start, n) ==
    f = [k \in 0..n |-> IF k = 0 THEN 0
                        ELSE f[k - 1] * BASE + cksum[(start + HASH_LEN - k) % CKSUM_LEN]]

LEMMA LeastNat ==
    ASSUME NEW S \in SUBSET Nat, S # {}
    PROVE  \E n \in S : \A m \in S : n <= m
<1>1. IsWellFoundedOn(OpToRel(<, Nat), Nat)
  BY NatLessThanWellFounded
<1>2. PICK n \in S : \A m \in S : ~(<<m, n>> \in OpToRel(<, Nat))
  BY <1>1, WFMin
<1>3. \A m \in S : ~(m < n)
  BY <1>2 DEF OpToRel
<1>4. QED
  BY <1>3

LEMMA ValExists ==
    ASSUME NEW cksum, NEW start
    PROVE  \A n \in Nat : \E f : IsVal(f, cksum, start, n)
<1> DEFINE S == {n \in Nat : ~\E f : IsVal(f, cksum, start, n)}
           Step(v, k) == v * BASE + cksum[(start + HASH_LEN - k) % CKSUM_LEN]
<1>0. \A f, n : IsVal(f, cksum, start, n) <=>
          f = [k \in 0..n |-> IF k = 0 THEN 0 ELSE Step(f[k - 1], k)]
  BY DEF IsVal
<1> HIDE DEF Step
<1> SUFFICES ASSUME S # {}
             PROVE  FALSE
  OBVIOUS
<1>1. PICK n \in S : \A m \in S : n <= m
  BY LeastNat
<1>2. CASE n = 0
  <2>1. IsVal([k \in 0..0 |-> 0], cksum, start, 0)
    BY DEF IsVal
  <2>2. QED
    BY <1>2, <2>1
<1>3. CASE n # 0
  <2>1. n - 1 \in Nat /\ n - 1 \notin S
    BY <1>1, <1>3
  <2>2. PICK f : IsVal(f, cksum, start, n - 1)
    BY <2>1
  <2> DEFINE g == [k \in 0..n |-> IF k = n THEN Step(f[n - 1], n) ELSE f[k]]
  <2>3. \A k \in 0..(n - 1) : g[k] = f[k]
    BY <2>1
  <2>4. ASSUME NEW k \in 0..n
        PROVE  g[k] = IF k = 0 THEN 0 ELSE Step(g[k - 1], k)
    <3>1. CASE k = n
      BY <1>3, <2>1, <2>3, <3>1
    <3>2. CASE k # n
      <4>1. k \in 0..(n - 1)
        BY <2>1, <3>2
      <4>2. f[k] = IF k = 0 THEN 0 ELSE Step(f[k - 1], k)
        BY <1>0, <2>2, <4>1
      <4>3. k # 0 => k - 1 \in 0..(n - 1)
        BY <4>1
      <4>4. QED
        BY <2>3, <4>1, <4>2, <4>3
    <3>3. QED
      BY <3>1, <3>2
  <2> HIDE DEF g
  <2>5. g = [k \in 0..n |-> g[k]]
    BY DEF g
  <2>6. IsVal(g, cksum, start, n)
    BY <2>4, <2>5 DEF IsVal, Step
  <2>7. QED
    BY <2>6
<1>4. QED
  BY <1>2, <1>3

LEMMA HashNat ==
    ASSUME NEW elem \in Element, NEW start \in Start
    PROVE  HashForChecksum(elem, start) \in Nat
<1>1. /\ HASH_LEN \in Nat /\ CKSUM_LEN \in Nat \ {0} /\ BASE \in Nat
      /\ elem \in [0..(CKSUM_LEN - 1) -> 0..(BASE - 1)]
  BY BloomAssumption
<1> DEFINE val == CHOOSE f : IsVal(f, elem, start, HASH_LEN)
<1>2. IsVal(val, elem, start, HASH_LEN)
  <2>1. \E f : IsVal(f, elem, start, HASH_LEN)
    BY <1>1, ValExists
  <2>2. QED
    BY <2>1
<1>3. HashForChecksum(elem, start) = val[HASH_LEN]
  BY DEF HashForChecksum, IsVal
<1> HIDE DEF val
<1> DEFINE digit(k) == elem[(start + HASH_LEN - k) % CKSUM_LEN]
<1>4. ASSUME NEW k \in 0..HASH_LEN
      PROVE  digit(k) \in Nat
  <2>1. start + HASH_LEN - k \in Nat
    BY <1>1 DEF Start
  <2>2. (start + HASH_LEN - k) % CKSUM_LEN \in 0..(CKSUM_LEN - 1)
    BY <1>1, <2>1
  <2>3. QED
    BY <1>1, <2>2
<1>5. \A k \in 0..HASH_LEN : val[k] = IF k = 0 THEN 0 ELSE val[k - 1] * BASE + digit(k)
  BY <1>2 DEF IsVal
<1> HIDE DEF digit
<1> DEFINE Bad == {k \in 0..HASH_LEN : val[k] \notin Nat}
<1>6. Bad = {}
  <2> SUFFICES ASSUME Bad # {}
               PROVE  FALSE
    OBVIOUS
  <2>1. Bad \in SUBSET Nat
    BY <1>1
  <2>2. PICK k \in Bad : \A j \in Bad : k <= j
    BY <2>1, LeastNat
  <2>3. k # 0
    BY <1>1, <1>5, <2>2
  <2>4. k - 1 \in 0..HASH_LEN /\ k - 1 \notin Bad
    BY <1>1, <2>2, <2>3
  <2>5. val[k - 1] \in Nat /\ digit(k) \in Nat
    BY <1>4, <2>2, <2>4
  <2>6. val[k - 1] * BASE + digit(k) \in Nat
    BY <1>1, <2>5, HornerStep
  <2>7. QED
    BY <1>5, <2>2, <2>3, <2>6
<1>7. QED
  BY <1>1, <1>3, <1>6

(* Every position is one of a filter that has bits. *)
LEMMA PositionInRange ==
    ASSUME NEW elem \in Element, NEW start \in Start, NEW total \in Nat, total > 0
    PROVE  Position(start, elem, total) \in 0..(total - 1)
<1>1. HashForChecksum(elem, start) \in Nat
  BY HashNat
<1>2. QED
  BY <1>1 DEF Position, CalculatePosition

LEMMA TotalBitsPositive ==
    ASSUME NEW n \in Nat, n > 0
    PROVE  TotalBits(n) \in Nat /\ TotalBits(n) > 0
<1>1. n * BITS_PER_ITEM \in Nat \ {0} /\ BYTE \in Nat \ {0}
  BY BloomAssumption
<1> DEFINE a == n * BITS_PER_ITEM
<1>2. a + BYTE - 1 \in Nat /\ a + BYTE - 1 >= BYTE
  BY <1>1
<1> HIDE DEF a
<1>3. (a + BYTE - 1) \div BYTE \in Nat /\ (a + BYTE - 1) \div BYTE > 0
  BY <1>1, <1>2
<1>4. ((a + BYTE - 1) \div BYTE) * BYTE \in Nat /\ ((a + BYTE - 1) \div BYTE) * BYTE > 0
  BY <1>1, <1>3
<1>5. QED
  BY <1>4 DEF TotalBits, a

-----------------------------------------------------------------------------
(* The types: no bit of a filter or of a file is out of its range. *)

InRange(bits, total) == total \in Nat /\ bits \subseteq 0..(total - 1)

(* The sizes are right, and a filter that is in use has bits. *)
FilterTypes ==
    \A k \in Kind :
        /\ InRange(filter[k].mBitsSpace, filter[k].mTotalBits)
        /\ members[k] \subseteq Element
        /\ pc \notin {"none", "meta", "filters"} => filter[k].mTotalBits > 0

SizedStream(st) == IsStream(st) /\ (st.state \in {"whole", "cut"} => st.mTotalBits > 0)

FileTypes == \A s \in SnapshotId, k \in Kind : SizedStream(files[s][k])

ProcessTypes ==
    /\ vmMeta.state \in {"absent", "empty", "whole"} /\ vmMeta.filter_num_items \in Nat
    /\ pc \in {"none", "meta", "filters", "ready"} \cup {Saves(k) : k \in Kind}
                \cup {Writes(k) : k \in Kind}
    /\ items \in Nat

TInv == FilterTypes /\ FileTypes /\ ProcessTypes

LEMMA NoStreamTyped ==
    ASSUME NEW state \in {"absent", "empty"}
    PROVE  SizedStream(NoStream(state))
BY DEF SizedStream, IsStream, NoStream

LEMMA ItemsOfNat ==
    ASSUME NEW k \in Kind, NEW n \in Nat, n > 0
    PROVE  ItemsOf(k, n) \in Nat /\ ItemsOf(k, n) > 0
BY DEF ItemsOf

(* One filter is replaced by one with bits, and those in its range. *)
LEMMA FilterTyped ==
    ASSUME IInv, TInv, NEW k \in Kind, NEW g, NEW M,
           InRange(g.mBitsSpace, g.mTotalBits), g.mTotalBits > 0, M \subseteq Element,
           filter' = [filter EXCEPT ![k] = g],
           members' = [members EXCEPT ![k] = M],
           UNCHANGED <<disk, pc, items>>
    PROVE  TInv'
<1>1. \A j \in Kind : /\ filter'[j] = IF j = k THEN g ELSE filter[j]
                      /\ members'[j] = IF j = k THEN M ELSE members[j]
  BY DEF IInv, FiltersRight
<1>2. FilterTypes'
  BY <1>1 DEF TInv, FilterTypes
<1>3. QED
  BY <1>2 DEF TInv, FileTypes, ProcessTypes, disk

(* One file of the snapshot is replaced. *)
LEMMA FileTyped ==
    ASSUME IInv, TInv, NEW k \in Kind, NEW st, SizedStream(st), SetFile(k, st)
    PROVE  FileTypes'
<1>1. files = [s \in SnapshotId |-> [j \in Kind |-> files[s][j]]]
  BY DEF IInv, FilesRight
<1>2. \A s \in SnapshotId, j \in Kind :
          files'[s][j] = IF s = current /\ j = k THEN st ELSE files[s][j]
  BY <1>1 DEF SetFile
<1>3. QED
  BY <1>2 DEF TInv, FileTypes

LEMMA ForgetTyped ==
    ASSUME Forget
    PROVE  FilterTypes'
BY DEF Forget, FilterTypes, NoFilter, BloomFilter, InRange

(* The bits that are set for elements. *)
LEMMA AddElementsTyped ==
    ASSUME NEW f, IsFilter(f), InRange(f.mBitsSpace, f.mTotalBits), f.mTotalBits > 0,
           NEW elems \in SUBSET Element
    PROVE  LET g == AddElements(f, elems)
           IN  InRange(g.mBitsSpace, g.mTotalBits) /\ g.mTotalBits = f.mTotalBits
<1> DEFINE new == UNION {PositionsOf(f, elem) : elem \in elems}
<1>1. /\ AddElements(f, elems).mTotalBits = f.mTotalBits
      /\ AddElements(f, elems).mBitsSpace = f.mBitsSpace \cup new
  BY DEF AddElements, WithBits, BloomFilter
<1>2. ASSUME NEW elem \in elems
      PROVE  PositionsOf(f, elem) \subseteq 0..(f.mTotalBits - 1)
  <2>1. Len(f.mHashFunctions) \in Nat
    BY LenProperties DEF IsFilter
  <2>2. \A i \in 1..f.mHashFunctionNum : f.mHashFunctions[i] \in Start
    BY <2>1, ElementOfSeq DEF IsFilter
  <2>3. elem \in Element /\ f.mTotalBits \in Nat
    BY DEF InRange
  <2>4. \A i \in 1..f.mHashFunctionNum :
            Position(f.mHashFunctions[i], elem, f.mTotalBits) \in 0..(f.mTotalBits - 1)
    BY <2>2, <2>3, PositionInRange
  <2>5. QED
    BY <2>4 DEF PositionsOf
<1>3. new \subseteq 0..(f.mTotalBits - 1)
  BY <1>2
<1> HIDE DEF new
<1>4. QED
  BY <1>1, <1>3 DEF InRange

LEMMA InitTInv == Init => TInv
<1> SUFFICES ASSUME Init
             PROVE  TInv
  OBVIOUS
<1>1. FilterTypes
  BY DEF Init, FilterTypes, NoFilter, BloomFilter, InRange
<1>2. FileTypes
  BY NoStreamTyped DEF Init, FileTypes
<1>3. ProcessTypes
  BY DEF Init, ProcessTypes, Meta
<1>4. QED
  BY <1>1, <1>2, <1>3 DEF TInv

LEMMA NextTInv == IInv /\ TInv /\ [Next]_vars => TInv'
<1> SUFFICES ASSUME IInv, TInv, [Next]_vars
             PROVE  TInv'
  OBVIOUS
<1>1. ASSUME NEW s \in SnapshotId, NEW size \in SnapshotSizes, CreateMeta(s, size)
      PROVE  TInv'
  <2>1. size \in Nat
    BY BloomAssumption
  <2>2. /\ vmMeta' = Meta("empty", 0) /\ pc' = "meta" /\ items' = size
        /\ UNCHANGED <<files, filter, members>>
    BY <1>1 DEF CreateMeta
  <2>3. QED
    BY <2>1, <2>2 DEF Meta, TInv, FilterTypes, FileTypes, ProcessTypes
<1>2. ASSUME NEW s \in SnapshotId, NEW size \in SnapshotSizes, ReadMeta(s, size)
      PROVE  TInv'
  <2>1. items' \in Nat
    BY <1>2, BloomAssumption DEF ReadMeta, TInv, ProcessTypes
  <2>2. pc' = "filters" /\ UNCHANGED <<disk, filter, members>>
    BY <1>2 DEF ReadMeta
  <2>3. QED
    BY <2>1, <2>2 DEF TInv, FilterTypes, FileTypes, ProcessTypes, disk
<1>3. CASE WriteMeta
  BY <1>3 DEF WriteMeta, Meta, TInv, FilterTypes, FileTypes, ProcessTypes
<1>4. CASE InitBloomFilters
  <2>1. items \in Nat /\ items > 0 /\ pc' = "ready" /\ UNCHANGED <<disk, items>>
    BY <1>4 DEF InitBloomFilters, TInv, ProcessTypes
  <2>2. \A k \in Kind : /\ filter'[k].mTotalBits = TotalBits(ItemsOf(k, items))
                        /\ filter'[k].mBitsSpace = {} /\ members'[k] = {}
    BY <1>4 DEF InitBloomFilters, NewFilter, BloomFilter
  <2>3. \A k \in Kind : TotalBits(ItemsOf(k, items)) \in Nat /\ TotalBits(ItemsOf(k, items)) > 0
    BY <2>1, ItemsOfNat, TotalBitsPositive
  <2>4. FilterTypes'
    BY <2>2, <2>3 DEF FilterTypes, InRange
  <2>5. QED
    BY <2>1, <2>4 DEF TInv, FileTypes, ProcessTypes, disk
<1>5. ASSUME NEW segment \in SUBSET Element, UpdateBloomFilters(segment)
      PROVE  TInv'
  <2>1. /\ pc = "ready" /\ UNCHANGED <<disk, pc, items>>
        /\ \A k \in Kind : /\ filter'[k] = AddElements(filter[k], segment)
                           /\ members'[k] = members[k] \cup segment
    BY <1>5 DEF UpdateBloomFilters
  <2>2. ASSUME NEW k \in Kind
        PROVE  /\ InRange(filter'[k].mBitsSpace, filter'[k].mTotalBits)
               /\ filter'[k].mTotalBits > 0 /\ members'[k] \subseteq Element
    <3>1. /\ IsFilter(filter[k]) /\ InRange(filter[k].mBitsSpace, filter[k].mTotalBits)
          /\ filter[k].mTotalBits > 0 /\ members[k] \subseteq Element
      BY <2>1 DEF IInv, FiltersRight, TInv, FilterTypes
    <3>2. QED
      BY <2>1, <3>1, AddElementsTyped
  <2>3. FilterTypes'
    BY <2>2 DEF FilterTypes
  <2>4. QED
    BY <2>1, <2>3 DEF TInv, FileTypes, ProcessTypes, disk
<1>6. ASSUME NEW k \in Kind, Clear(k)
      PROVE  TInv'
  <2>1. /\ filter' = [filter EXCEPT ![k] = Cleared(filter[k])]
        /\ members' = [members EXCEPT ![k] = {}]
        /\ pc = "ready" /\ UNCHANGED <<disk, pc, items>>
    BY <1>6 DEF Clear
  <2>2. /\ InRange(Cleared(filter[k]).mBitsSpace, Cleared(filter[k]).mTotalBits)
        /\ Cleared(filter[k]).mTotalBits > 0
    BY <2>1 DEF Cleared, WithBits, BloomFilter, InRange, TInv, FilterTypes
  <2>3. QED
    BY <2>1, <2>2, FilterTyped
<1>7. ASSUME NEW k \in Kind, NEW functions \in ResetFunctions, Reset(k, functions)
      PROVE  TInv'
  <2>1. /\ filter' = [filter EXCEPT ![k] = ResetTo(filter[k], functions)]
        /\ members' = [members EXCEPT ![k] = {}]
        /\ pc = "ready" /\ UNCHANGED <<disk, pc, items>>
    BY <1>7 DEF Reset
  <2>2. /\ InRange(ResetTo(filter[k], functions).mBitsSpace, ResetTo(filter[k], functions).mTotalBits)
        /\ ResetTo(filter[k], functions).mTotalBits > 0
    BY <2>1 DEF ResetTo, BloomFilter, InRange, TInv, FilterTypes
  <2>3. QED
    BY <2>1, <2>2, FilterTyped
<1>8. ASSUME NEW k \in Kind, NEW s \in SnapshotId, LoadBloomFilter(k, s)
      PROVE  TInv'
  <2> DEFINE st == files[s][k]
             g == Deserialized(filter[k], st)
             M == IF SameFunctions(filter[k], st) THEN st.added ELSE {}
  <2>1. /\ filter' = [filter EXCEPT ![k] = g]
        /\ members' = [members EXCEPT ![k] = M]
        /\ st.state \in {"whole", "cut"} /\ UNCHANGED <<disk, pc, items>>
    BY <1>8 DEF LoadBloomFilter
  <2>2. g.mTotalBits = st.mTotalBits /\ g.mBitsSpace = st.mBitsSpace
    BY DEF Deserialized, WithBits, BloomFilter
  <2>3. SizedStream(st)
    BY DEF TInv, FileTypes
  <2> HIDE DEF st, g
  <2>4. InRange(g.mBitsSpace, g.mTotalBits) /\ g.mTotalBits > 0 /\ M \subseteq Element
    BY <2>1, <2>2, <2>3 DEF SizedStream, IsStream, InRange
  <2> HIDE DEF M
  <2>5. QED
    BY <2>1, <2>4, FilterTyped
<1>9. ASSUME NEW k \in Kind, NEW s \in SnapshotId, NEW n, Merge(k, s, n)
      PROVE  TInv'
  <2> DEFINE st == files[s][k]
             g == Merged(filter[k], st, n)
             M == IF filter[k].mTotalBits # st.mTotalBits THEN members[k]
                  ELSE IF SameFunctions(filter[k], st) THEN members[k] \cap st.added
                  ELSE {}
  <2>1. members = [j \in Kind |-> members[j]]
    BY DEF IInv, FiltersRight
  <2>2. /\ filter' = [filter EXCEPT ![k] = g]
        /\ members' = [members EXCEPT ![k] = M]
        /\ pc = "ready" /\ UNCHANGED <<disk, pc, items>>
    BY <1>9, <2>1 DEF Merge
  <2>3. /\ InRange(filter[k].mBitsSpace, filter[k].mTotalBits) /\ filter[k].mTotalBits > 0
        /\ members[k] \subseteq Element
    BY <2>2 DEF TInv, FilterTypes
  <2>4. g.mTotalBits = filter[k].mTotalBits /\ g.mBitsSpace \subseteq filter[k].mBitsSpace
    BY DEF Merged, WithBits, BloomFilter
  <2>5. M \subseteq Element
    BY <2>3
  <2> HIDE DEF st, g, M
  <2>6. InRange(g.mBitsSpace, g.mTotalBits) /\ g.mTotalBits > 0
    BY <2>3, <2>4 DEF InRange
  <2>7. QED
    BY <2>2, <2>5, <2>6, FilterTyped
<1>10. CASE SaveBloomFilters
  BY <1>10 DEF SaveBloomFilters, Kind, disk, TInv, FilterTypes, FileTypes, ProcessTypes
<1>11. ASSUME NEW k \in Kind, CreateFile(k)
       PROVE  TInv'
  <2>1. /\ SetFile(k, NoStream("empty")) /\ pc = Saves(k) /\ pc' = Writes(k)
        /\ UNCHANGED <<vmMeta, items, filter, members>>
    BY <1>11 DEF CreateFile
  <2>2. FileTypes'
    BY <2>1, NoStreamTyped, FileTyped
  <2>3. pc \notin {"none", "meta", "filters"}
    BY <2>1 DEF Saves
  <2>4. FilterTypes'
    BY <2>1, <2>3 DEF TInv, FilterTypes
  <2>5. QED
    BY <2>1, <2>2, <2>4 DEF TInv, ProcessTypes
<1>12. ASSUME NEW k \in Kind, WriteFile(k)
       PROVE  TInv'
  <2> DEFINE st == Stream(filter[k], members[k])
  <2>1. /\ SetFile(k, st) /\ pc = Writes(k) /\ UNCHANGED <<vmMeta, items, filter, members>>
        /\ pc' = IF k = "primary" THEN Saves("secondary") ELSE "ready"
    BY <1>12 DEF WriteFile
  <2>2. pc \notin {"none", "meta", "filters"}
    BY <2>1 DEF Writes
  <2>3. SizedStream(st)
    BY <2>2 DEF TInv, FilterTypes, InRange, SizedStream, IsStream, Stream
  <2> HIDE DEF st
  <2>4. FileTypes'
    BY <2>1, <2>3, FileTyped
  <2>5. FilterTypes'
    BY <2>1, <2>2 DEF TInv, FilterTypes
  <2>6. QED
    BY <2>1, <2>4, <2>5 DEF TInv, ProcessTypes, Kind
<1>13. CASE Exit
  <2>1. FilterTypes'
    BY <1>13, ForgetTyped DEF Exit
  <2>2. QED
    BY <1>13, <2>1 DEF Exit, Forget, disk, TInv, FileTypes, ProcessTypes
<1>14. ASSUME NEW s \in SnapshotId, RemoveBloomFilters(s)
       PROVE  TInv'
  <2>1. /\ files = [t \in SnapshotId |-> files[t]]
        /\ files' = [files EXCEPT ![s] = [k \in Kind |-> NoStream("absent")]]
        /\ UNCHANGED <<vmMeta, pc, items, filter, members>>
    BY <1>14 DEF RemoveBloomFilters, IInv, FilesRight
  <2>2. \A t \in SnapshotId, k \in Kind :
            files'[t][k] = IF t = s THEN NoStream("absent") ELSE files[t][k]
    BY <2>1
  <2>3. FileTypes'
    BY <2>2, NoStreamTyped DEF TInv, FileTypes
  <2>4. QED
    BY <2>1, <2>3 DEF TInv, FilterTypes, ProcessTypes
<1>15. ASSUME NEW k \in Kind, NEW n \in 0..filter[k].mTotalBits, CutFile(k, n)
       PROVE  TInv'
  <2>1. InRange(filter[k].mBitsSpace, filter[k].mTotalBits) /\ filter[k].mTotalBits > 0
    BY <1>15 DEF CutFile, Writes, TInv, FilterTypes
  <2>2. PICK rest \in {{}, n..(filter[k].mTotalBits - 1)} :
            SetFile(k, CutStream(filter[k].mTotalBits, {p \in filter[k].mBitsSpace : p < n} \cup rest))
    BY <1>15 DEF CutFile
  <2> DEFINE bits == {p \in filter[k].mBitsSpace : p < n} \cup rest
             st == CutStream(filter[k].mTotalBits, bits)
  <2>3. bits \subseteq 0..(filter[k].mTotalBits - 1)
    BY <2>1, <2>2 DEF InRange
  <2> HIDE DEF bits
  <2>4. SizedStream(st)
    BY <2>1, <2>3 DEF SizedStream, IsStream, CutStream, InRange
  <2>5. SetFile(k, st)
    BY <2>2 DEF bits
  <2> HIDE DEF st
  <2>6. FileTypes'
    BY <2>4, <2>5, FileTyped
  <2>7. Forget /\ UNCHANGED vmMeta
    BY <1>15 DEF CutFile
  <2>8. FilterTypes'
    BY <2>7, ForgetTyped
  <2>9. QED
    BY <2>6, <2>7, <2>8 DEF Forget, TInv, ProcessTypes
<1>16. CASE UNCHANGED vars
  BY <1>16 DEF vars, TInv, FilterTypes, FileTypes, ProcessTypes
<1>17. QED
  BY <1>1, <1>2, <1>3, <1>4, <1>5, <1>6, <1>7, <1>8, <1>9, <1>10, <1>11, <1>12, <1>13, <1>14,
     <1>15, <1>16 DEF Next

(* Every bit that a filter sets or loads is one that its BitSet has (the BitSet of
   bloom_filter.hpp throws on others): for any hash functions and sizes, through cut
   files and Resets. *)
THEOREM BloomTypes == Spec => []TypeOK
<1>1. IInv /\ TInv => TypeOK
  <2> SUFFICES ASSUME IInv, TInv
               PROVE  TypeOK
    OBVIOUS
  <2>1. \A k \in Kind :
            /\ filter[k].mBitsSpace \subseteq 0..(filter[k].mTotalBits - 1)
            /\ filter[k].mHashFunctionNum \in 0..Len(filter[k].mHashFunctions)
            /\ members[k] \subseteq Element
    BY DEF TInv, FilterTypes, InRange, IInv, FiltersRight, IsFilter
  <2>2. QED
    BY <2>1 DEF TypeOK, TInv, FileTypes, SizedStream, ProcessTypes
<1>2. Init => IInv /\ TInv
  BY InitIInv, InitTInv
<1>3. IInv /\ TInv /\ [Next]_vars => (IInv /\ TInv)'
  BY NextIInv, NextTInv
<1>4. QED
  BY <1>1, <1>2, <1>3, PTL DEF Spec
=============================================================================
