----------------------------- MODULE CdsProofs -----------------------------
(***************************************************************************)
(* Theorems about Cds, for every value of its constants: whatever the      *)
(* blocks, their sizes, the traces and the bounds are.                     *)
(*                                                                         *)
(* While every trace extends the one before it, the traces prescribe one   *)
(* offset for each of their blocks.  Layout(t, m, off) says that off are   *)
(* the offsets of the first m - 1 blocks of the trace t, with off[m] the   *)
(* end of the last of them; all files, entries and recipes follow it.      *)
(***************************************************************************)
EXTENDS Cds, SequenceTheorems, WellFoundedInduction, TLAPS

Layout(t, m, off) ==
    /\ m \in 1..(Len(t) + 1) /\ off \in [1..m -> Nat]
    /\ off[1] = 0
    /\ \A k \in 1..(m - 1) : Acceptable(t[k]) /\ off[k + 1] = off[k] + Size[t[k]]
    /\ \A i, j \in 1..m : i <= j => off[i] <= off[j]

(* The file has its cells where the layout has them, and none beyond. *)
Laid(f, t, m, off) ==
    /\ Len(f) <= off[m]
    /\ \A k \in 1..(m - 1) : \A n \in 1..Size[t[k]] :
           off[k] + n <= Len(f) => f[off[k] + n] = <<t[k], n>>

Placed(b, offset, t, m, off) == \E k \in 1..(m - 1) : t[k] = b /\ off[k] = offset

-----------------------------------------------------------------------------
(* Sequences of cells. *)

LEMMA SizeNat == \A b \in Block : Size[b] \in Nat
BY CdsAssumption

LEMMA DataProps ==
    ASSUME NEW b \in Block
    PROVE  /\ Data(b) \in Seq(Block \X Nat)
           /\ Len(Data(b)) = Size[b]
           /\ \A n \in 1..Size[b] : Data(b)[n] = <<b, n>>
<1>1. Size[b] \in Nat
  BY SizeNat
<1>2. \A n \in 1..Size[b] : <<b, n>> \in Block \X Nat
  OBVIOUS
<1>3. [n \in 1..Size[b] |-> <<b, n>>] \in Seq(Block \X Nat)
  BY <1>1, <1>2, IsASeq
<1>4. Len([n \in 1..Size[b] |-> <<b, n>>]) = Size[b]
  BY <1>1, <1>3, LenProperties
<1>5. QED
  BY <1>3, <1>4 DEF Data

LEMMA PrefixProps ==
    ASSUME NEW S, NEW s \in Seq(S), NEW p \in Prefixes(s)
    PROVE  /\ p \in Seq(S)
           /\ Len(p) \in 0..Len(s)
           /\ \A n \in 1..Len(p) : p[n] = s[n]
<1>1. PICK l \in 0..Len(s) : p = SubSeq(s, 1, l)
  BY DEF Prefixes
<1>2. Len(s) \in Nat
  BY LenProperties
<1>3. \A n \in 1..l : s[n] \in S
  BY <1>2, ElementOfSeq
<1>4. QED
  BY <1>1, <1>2, <1>3, SubSeqProperties

LEMMA WholePrefix ==
    ASSUME NEW S, NEW s \in Seq(S)
    PROVE  s \in Prefixes(s)
<1>1. Len(s) \in Nat /\ SubSeq(s, 1, Len(s)) = s
  BY LenProperties, SubSeqFull
<1>2. Len(s) \in 0..Len(s)
  BY <1>1
<1>3. \E l \in 0..Len(s) : SubSeq(s, 1, l) = s
  BY <1>1, <1>2
<1>4. QED
  BY <1>3, Zenon DEF Prefixes

(* ReadAt gives the cells after the offset, as many as the block has or the
   file holds. *)
LEMMA ReadAtProps ==
    ASSUME NEW f \in Seq(Cells), NEW offset \in Nat, NEW b \in Block
    PROVE  /\ ReadAt(f, offset, b) \in Seq(Cells)
           /\ \A n \in 1..Len(ReadAt(f, offset, b)) :
                  offset + n <= Len(f) /\ ReadAt(f, offset, b)[n] = f[offset + n]
           /\ offset + Size[b] <= Len(f) => Len(ReadAt(f, offset, b)) = Size[b]
<1> DEFINE last == Min({offset + Size[b], Len(f)})
<1>1. Size[b] \in Nat /\ Len(f) \in Nat
  BY SizeNat, LenProperties
<1>2. \E x \in {offset + Size[b], Len(f)} : \A y \in {offset + Size[b], Len(f)} : x <= y
  BY <1>1
<1>3. last \in {offset + Size[b], Len(f)} /\ last <= offset + Size[b] /\ last <= Len(f)
  BY <1>2 DEF Min
<1>4. ReadAt(f, offset, b) = SubSeq(f, offset + 1, last)
  BY DEF ReadAt
<1> HIDE DEF last
<1>5. last \in Nat /\ (offset + Size[b] <= Len(f) => last = offset + Size[b])
  BY <1>1, <1>3
<1>6. \A i \in (offset + 1)..last : f[i] \in Cells
  BY <1>1, <1>3, <1>5, ElementOfSeq
<1>7. /\ SubSeq(f, offset + 1, last) \in Seq(Cells)
      /\ Len(SubSeq(f, offset + 1, last)) =
             IF offset + 1 <= last THEN last - (offset + 1) + 1 ELSE 0
      /\ \A i \in 1..(last - (offset + 1) + 1) :
             SubSeq(f, offset + 1, last)[i] = f[offset + 1 + i - 1]
  BY <1>3, <1>5, <1>6, SubSeqProperties
<1>8. QED
  BY <1>1, <1>3, <1>4, <1>5, <1>7

LEMMA DataCells ==
    ASSUME NEW b \in Block, Acceptable(b)
    PROVE  Data(b) \in Seq(Cells)
<1>1. Size[b] \in Nat /\ RESERVED_REGION_SIZE \in Nat /\ Size[b] <= RESERVED_REGION_SIZE
  BY SizeNat, CdsAssumption DEF Acceptable
<1>2. \A n \in 1..Size[b] : <<b, n>> \in Cells
  BY <1>1 DEF Cells
<1>3. QED
  BY <1>1, <1>2, IsASeq DEF Data

-----------------------------------------------------------------------------
(* The layout of a trace, and the files that follow it. *)

LEMMA LayoutTypes ==
    ASSUME NEW t \in Seq(Block), NEW m, NEW off, Layout(t, m, off)
    PROVE  /\ m \in Nat /\ m >= 1 /\ m <= Len(t) + 1
           /\ \A k \in 1..m : off[k] \in Nat
           /\ \A k \in 1..(m - 1) : t[k] \in Block /\ Size[t[k]] \in Nat
<1>1. Len(t) \in Nat /\ m \in 1..(Len(t) + 1) /\ off \in [1..m -> Nat]
  BY LenProperties DEF Layout
<1>2. \A k \in 1..(m - 1) : k \in 1..Len(t)
  BY <1>1
<1>3. QED
  BY <1>1, <1>2, ElementOfSeq, SizeNat

(* What is read in full where a block was placed, is the block. *)
LEMMA ReadPlaced ==
    ASSUME NEW t \in Seq(Block), NEW m, NEW off, Layout(t, m, off),
           NEW f \in Seq(Cells), Laid(f, t, m, off),
           NEW b \in Block, NEW offset \in Nat, Placed(b, offset, t, m, off),
           NEW got \in Prefixes(ReadAt(f, offset, b)), Len(got) = Size[b]
    PROVE  got = Data(b)
<1>1. PICK k \in 1..(m - 1) : t[k] = b /\ off[k] = offset
  BY DEF Placed
<1> DEFINE read == ReadAt(f, offset, b)
<1>2. /\ read \in Seq(Cells)
      /\ \A n \in 1..Len(read) : offset + n <= Len(f) /\ read[n] = f[offset + n]
  BY ReadAtProps
<1> HIDE DEF read
<1>3. /\ got \in Seq(Cells) /\ Len(got) \in 0..Len(read)
      /\ \A n \in 1..Len(got) : got[n] = read[n]
  BY <1>2, PrefixProps DEF read
<1>4. Len(read) \in Nat /\ Size[b] \in Nat
  BY <1>2, LenProperties, SizeNat
<1>5. \A n \in 1..Size[b] : got[n] = <<b, n>>
  <2> TAKE n \in 1..Size[b]
  <2>1. n \in 1..Len(read) /\ got[n] = read[n]
    BY <1>3, <1>4
  <2>2. off[k] + n <= Len(f) /\ got[n] = f[off[k] + n]
    BY <1>1, <1>2, <2>1
  <2>3. QED
    BY <1>1, <2>2 DEF Laid
<1>6. Cells \subseteq Block \X Nat
  BY CdsAssumption DEF Cells
<1>7. got \in Seq(Block \X Nat)
  BY <1>3, <1>6, SeqMonotonic
<1>8. /\ Data(b) \in Seq(Block \X Nat) /\ Len(Data(b)) = Len(got)
      /\ \A n \in 1..Len(got) : Data(b)[n] = got[n]
  BY <1>5, DataProps
<1>9. QED
  BY <1>7, <1>8, SeqEqual

(* A file that reaches the end of the layout has every block that was placed. *)
LEMMA PlacedInWhole ==
    ASSUME NEW t \in Seq(Block), NEW m, NEW off, Layout(t, m, off),
           NEW f \in Seq(Cells), Laid(f, t, m, off), Len(f) = off[m],
           NEW b \in Block, NEW offset \in Nat, Placed(b, offset, t, m, off)
    PROVE  ReadAt(f, offset, b) = Data(b)
<1>1. PICK k \in 1..(m - 1) : t[k] = b /\ off[k] = offset
  BY DEF Placed
<1>2. m \in Nat /\ k + 1 \in 1..m /\ m \in 1..m /\ k + 1 <= m
  BY LayoutTypes
<1>3. off[k + 1] <= off[m] /\ off[k + 1] = offset + Size[b]
  BY <1>1, <1>2 DEF Layout
<1> DEFINE read == ReadAt(f, offset, b)
<1>4. read \in Seq(Cells) /\ Len(read) = Size[b]
  BY <1>3, ReadAtProps
<1> HIDE DEF read
<1>5. read \in Prefixes(read)
  BY <1>4, WholePrefix
<1>6. QED
  BY <1>4, <1>5, ReadPlaced DEF read

LEMMA LaidPrefix ==
    ASSUME NEW t \in Seq(Block), NEW m, NEW off, Layout(t, m, off),
           NEW f \in Seq(Cells), Laid(f, t, m, off), NEW p \in Prefixes(f)
    PROVE  p \in Seq(Cells) /\ Laid(p, t, m, off)
<1>1. /\ p \in Seq(Cells) /\ Len(p) \in 0..Len(f)
      /\ \A n \in 1..Len(p) : p[n] = f[n]
  BY PrefixProps
<1>2. Len(f) \in Nat /\ m \in 1..m /\ off[m] \in Nat
  BY LenProperties, LayoutTypes
<1>3. Len(p) <= off[m]
  BY <1>1, <1>2 DEF Laid
<1>4. ASSUME NEW k \in 1..(m - 1), NEW n \in 1..Size[t[k]], off[k] + n <= Len(p)
      PROVE  p[off[k] + n] = <<t[k], n>>
  <2>1. off[k] \in Nat /\ Size[t[k]] \in Nat
    BY LayoutTypes
  <2>2. off[k] + n \in 1..Len(p) /\ off[k] + n <= Len(f)
    BY <1>1, <1>2, <1>4, <2>1
  <2>3. QED
    BY <1>1, <2>2 DEF Laid
<1>5. QED
  BY <1>1, <1>3, <1>4 DEF Laid

LEMMA WithinSum ==
    ASSUME NEW i \in Nat, i >= 1, NEW a \in Nat, NEW b \in Nat, i <= a
    PROVE  i \in 1..(a + b)
OBVIOUS

(* The block behind the last whole one, written at the end of the file. *)
LEMMA LaidWrite ==
    ASSUME NEW t \in Seq(Block), NEW m, NEW off, Layout(t, m, off),
           NEW f \in Seq(Cells), Laid(f, t, m, off),
           NEW k \in 1..(m - 1), Len(f) = off[k]
    PROVE  /\ f \o Data(t[k]) \in Seq(Cells)
           /\ Len(f \o Data(t[k])) = off[k + 1]
           /\ Laid(f \o Data(t[k]), t, m, off)
<1> DEFINE g == f \o Data(t[k])
<1>1. t[k] \in Block /\ Size[t[k]] \in Nat /\ m \in Nat /\ k + 1 \in 1..m /\ m \in 1..m
  BY LayoutTypes
<1>2. Acceptable(t[k]) /\ off[k + 1] = off[k] + Size[t[k]] /\ off[k + 1] <= off[m]
  BY <1>1 DEF Layout
<1>3. /\ Data(t[k]) \in Seq(Cells) /\ Len(Data(t[k])) = Size[t[k]]
      /\ \A n \in 1..Size[t[k]] : Data(t[k])[n] = <<t[k], n>>
  BY <1>1, <1>2, DataCells, DataProps
<1>4. /\ g \in Seq(Cells) /\ Len(g) = off[k] + Size[t[k]]
      /\ \A i \in 1..(off[k] + Size[t[k]]) :
             g[i] = IF i <= off[k] THEN f[i] ELSE Data(t[k])[i - off[k]]
  <2>1. /\ f \o Data(t[k]) \in Seq(Cells) /\ Len(f \o Data(t[k])) = Len(f) + Len(Data(t[k]))
        /\ \A i \in 1..(Len(f) + Len(Data(t[k]))) :
               (f \o Data(t[k]))[i] = IF i <= Len(f) THEN f[i] ELSE Data(t[k])[i - Len(f)]
    BY <1>3, ConcatProperties
  <2>2. QED
    BY <1>3, <2>1
<1> HIDE DEF g
<1>5. ASSUME NEW j \in 1..(m - 1), NEW n \in 1..Size[t[j]], off[j] + n <= Len(g)
      PROVE  g[off[j] + n] = <<t[j], n>>
  <2>1. /\ off[j] \in Nat /\ off[k] \in Nat /\ Size[t[j]] \in Nat
        /\ j \in 1..m /\ j + 1 \in 1..m /\ k \in 1..m
    BY <1>1, LayoutTypes
  <2>2. off[j + 1] = off[j] + Size[t[j]]
    BY DEF Layout
  <2>3. CASE j < k
    <3>1. off[j + 1] <= off[k]
      BY <2>1, <2>3 DEF Layout
    <3>2. off[j] + n <= Len(f)
      BY <2>1, <2>2, <3>1
    <3>3. f[off[j] + n] = <<t[j], n>>
      BY <3>2 DEF Laid
    <3>4. off[j] + n \in 1..(off[k] + Size[t[k]]) /\ off[j] + n <= off[k]
      <4>1. n \in Nat /\ off[j] + n \in Nat /\ off[j] + n >= 1
        BY <2>1
      <4>2. off[j] + n <= off[k] /\ off[k] <= off[k] + Size[t[k]]
        BY <1>1, <2>1, <3>2, <4>1
      <4>3. off[k] \in Nat /\ Size[t[k]] \in Nat
        BY <1>1, <2>1, Zenon
      <4>4. off[j] + n \in 1..(off[k] + Size[t[k]])
        BY <4>1, <4>2, <4>3, WithinSum, Zenon
      <4>5. QED
        BY <4>2, <4>4
    <3>5. g[off[j] + n] = f[off[j] + n]
      BY <1>4, <3>4
    <3>6. QED
      BY <3>3, <3>5, Zenon
  <2>4. CASE j = k
    <3>1. /\ off[k] + n \in 1..(off[k] + Size[t[k]]) /\ ~(off[k] + n <= off[k])
          /\ (off[k] + n) - off[k] = n /\ n \in 1..Size[t[k]]
      BY <1>1, <2>1, <2>4
    <3>2. g[off[k] + n] = Data(t[k])[n]
      BY <1>4, <3>1
    <3>3. QED
      BY <1>3, <2>4, <3>1, <3>2
  <2>5. CASE j > k
    <3>1. off[k + 1] <= off[j]
      BY <1>1, <2>1, <2>5 DEF Layout
    <3>2. QED
      BY <1>2, <1>4, <1>5, <2>1, <3>1
  <2>6. QED
    BY <2>3, <2>4, <2>5
<1>6. QED
  BY <1>2, <1>4, <1>5 DEF Laid, g

(* One block more in the layout: no file has it yet. *)
LEMMA LayoutGrows ==
    ASSUME NEW t \in Seq(Block), NEW m, NEW off, Layout(t, m, off),
           m <= Len(t), Acceptable(t[m])
    PROVE  \E more :
               /\ Layout(t, m + 1, more)
               /\ \A k \in 1..m : more[k] = off[k]
               /\ \A f \in Seq(Cells) : Laid(f, t, m, off) => Laid(f, t, m + 1, more)
               /\ \A b, offset : Placed(b, offset, t, m, off) => Placed(b, offset, t, m + 1, more)
<1>1. m \in Nat /\ m >= 1 /\ (\A k \in 1..m : off[k] \in Nat)
  BY LayoutTypes
<1>2. m \in 1..Len(t) /\ t[m] \in Block /\ Size[t[m]] \in Nat
  BY <1>1, LenProperties, ElementOfSeq, SizeNat
<1> DEFINE more == [k \in 1..(m + 1) |-> IF k = m + 1 THEN off[m] + Size[t[m]] ELSE off[k]]
<1>3. /\ more \in [1..(m + 1) -> Nat]
      /\ \A k \in 1..m : more[k] = off[k]
      /\ more[m + 1] = off[m] + Size[t[m]]
  BY <1>1, <1>2
<1> HIDE DEF more
<1>4. Layout(t, m + 1, more)
  <2>1. m + 1 \in 1..(Len(t) + 1) /\ (m + 1) - 1 = m
    BY <1>1, LenProperties
  <2>2. more[1] = 0
    BY <1>1, <1>3 DEF Layout
  <2>3. \A k \in 1..m : Acceptable(t[k]) /\ more[k + 1] = more[k] + Size[t[k]]
    <3> TAKE k \in 1..m
    <3>1. CASE k = m
      BY <1>3, <3>1
    <3>2. CASE k # m
      <4>1. k \in 1..(m - 1) /\ k + 1 \in 1..m
        BY <1>1, <3>2
      <4>2. QED
        BY <1>3, <4>1 DEF Layout
    <3>3. QED
      BY <3>1, <3>2
  <2>4. \A i, j \in 1..(m + 1) : i <= j => more[i] <= more[j]
    <3>1. \A i \in 1..m : off[i] <= off[m]
      BY <1>1 DEF Layout
    <3>2. \A i, j \in 1..m : i <= j => off[i] <= off[j]
      BY DEF Layout
    <3>3. ASSUME NEW i \in 1..(m + 1), NEW j \in 1..(m + 1), i <= j
          PROVE  more[i] <= more[j]
      <4>1. CASE j \in 1..m
        BY <1>1, <1>3, <3>2, <3>3, <4>1
      <4>2. CASE i \in 1..m /\ j = m + 1
        <5>1. off[i] \in Nat /\ off[m] \in Nat /\ off[i] <= off[m] /\ more[i] = off[i]
          BY <1>1, <1>3, <3>1, <4>2
        <5>2. QED
          BY <1>2, <1>3, <4>2, <5>1
      <4>3. CASE i = m + 1 /\ j = m + 1
        BY <1>1, <1>2, <1>3, <4>3
      <4>4. QED
        BY <1>1, <3>3, <4>1, <4>2, <4>3
    <3>4. QED
      BY <3>3
  <2>5. QED
    BY <1>3, <2>1, <2>2, <2>3, <2>4 DEF Layout
<1>5. ASSUME NEW f \in Seq(Cells), Laid(f, t, m, off)
      PROVE  Laid(f, t, m + 1, more)
  <2>1. Len(f) \in Nat /\ Len(f) <= off[m] /\ off[m] \in Nat
    BY <1>1, <1>5, LenProperties DEF Laid
  <2>2. ASSUME NEW k \in 1..m, NEW n \in 1..Size[t[k]], more[k] + n <= Len(f)
        PROVE  f[more[k] + n] = <<t[k], n>>
    <3>1. CASE k = m
      BY <1>2, <1>3, <2>1, <2>2, <3>1
    <3>2. CASE k # m
      <4>1. k \in 1..(m - 1)
        BY <1>1, <3>2
      <4>2. QED
        BY <1>3, <1>5, <2>2, <4>1 DEF Laid
    <3>3. QED
      BY <3>1, <3>2
  <2>3. Len(f) <= more[m + 1] /\ (m + 1) - 1 = m
    BY <1>1, <1>2, <1>3, <2>1
  <2>4. QED
    BY <2>2, <2>3 DEF Laid
<1>6. \A b, offset : Placed(b, offset, t, m, off) => Placed(b, offset, t, m + 1, more)
  BY <1>1, <1>3 DEF Placed
<1>7. QED
  BY <1>3, <1>4, <1>5, <1>6

(* A trace that extends another one keeps its layout. *)
LEMMA LayoutKept ==
    ASSUME NEW t \in Seq(Block), NEW u \in Seq(Block), IsPrefix(t, u),
           NEW m, NEW off, Layout(t, m, off)
    PROVE  /\ Layout(u, m, off)
           /\ \A f : Laid(f, t, m, off) => Laid(f, u, m, off)
           /\ \A b, offset : Placed(b, offset, t, m, off) => Placed(b, offset, u, m, off)
<1>1. /\ Len(t) \in Nat /\ Len(u) \in Nat /\ Len(t) <= Len(u)
      /\ SubSeq(t, 1, Len(t)) = SubSeq(u, 1, Len(t))
  BY LenProperties DEF IsPrefix
<1>2. SubSeq(t, 1, Len(t)) = t
  BY SubSeqFull
<1>3. \A i \in 1..Len(t) : u[i] \in Block
  BY <1>1, ElementOfSeq
<1>4. \A i \in 1..Len(t) : SubSeq(u, 1, Len(t))[i] = u[i]
  BY <1>1, <1>3, SubSeqProperties
<1>5. \A k \in 1..(m - 1) : u[k] = t[k]
  BY <1>1, <1>2, <1>4, LayoutTypes
<1>6. m \in 1..(Len(u) + 1)
  BY <1>1, LayoutTypes
<1>7. QED
  BY <1>5, <1>6 DEF Layout, Laid, Placed

-----------------------------------------------------------------------------
(* The inductive invariant. *)

LoaderType ==
    [pc : {"none", "create", "set", "write"}, trace : Seq(Block), k : Nat \ {0}, offset : Nat]

(* The types, and what the loader is at. *)
Types ==
    /\ files \in Seq(Seq(Cells)) /\ lastTrace \in Seq(Block)
    /\ current \in 0..Len(files) /\ reader \in 0..Len(files)
    /\ DOMAIN index \subseteq Block /\ \A b \in DOMAIN index : index[b] \in Nat
    /\ DOMAIN cache \subseteq Block /\ \A b \in DOMAIN cache : Len(cache[b]) = Size[b]
    /\ loader \in LoaderType
    /\ verifier = [x \in DOMAIN verifier |-> verifier[x]] /\ "pc" \in DOMAIN verifier
    /\ verifier.pc \in {"none", "check"}
    /\ recorded \subseteq Block \X Nat
    /\ answer = NoAnswer \/ answer[1] \in Block
    /\ finished \in BOOLEAN /\ grown \in BOOLEAN

LoaderRight ==
    /\ loader.pc # "none" => loader.trace = lastTrace /\ ~finished
    /\ loader.pc = "create" => loader.k = 1 /\ loader.offset = 0
    /\ Loading => current # 0 /\ loader.offset = Len(files[current])
    /\ loader.pc = "write" => HasBlock
    /\ finished => current # 0

(* All files, memcached and the recipes follow one layout of the last trace; the
   loader does not go beyond it, and gets to its end. *)
Follows(m, off) ==
    /\ \A i \in 1..Len(files) : Laid(files[i], lastTrace, m, off)
    /\ \A b \in DOMAIN index : Placed(b, index[b], lastTrace, m, off)
    /\ \A r \in recorded : Placed(r[1], r[2], lastTrace, m, off)
    /\ Loading => loader.k <= m /\ loader.offset = off[loader.k]
    /\ loader.pc = "write" => loader.k < m
    /\ finished => Len(files[current]) = off[m]

OneLayout == grown => \E m, off : Layout(lastTrace, m, off) /\ Follows(m, off)

CacheRight == grown => \A b \in DOMAIN cache : cache[b] = Data(b)

TInv == Types /\ LoaderRight

IInv == TInv /\ OneLayout /\ CacheRight /\ ReadRight

-----------------------------------------------------------------------------
(* A file that is replaced. *)
LEMMA FileReplaced ==
    ASSUME NEW fs \in Seq(Seq(Cells)), NEW i \in 1..Len(fs), NEW f \in Seq(Cells)
    PROVE  /\ [fs EXCEPT ![i] = f] \in Seq(Seq(Cells))
           /\ Len([fs EXCEPT ![i] = f]) = Len(fs)
           /\ \A j \in 1..Len(fs) : [fs EXCEPT ![i] = f][j] = IF j = i THEN f ELSE fs[j]
BY ExceptSeq

(* A file that is created is empty, and the others stay. *)
LEMMA FileCreated ==
    ASSUME NEW fs \in Seq(Seq(Cells))
    PROVE  /\ Append(fs, << >>) \in Seq(Seq(Cells))
           /\ Len(fs) \in Nat /\ Len(Append(fs, << >>)) = Len(fs) + 1
           /\ \A j \in 1..Len(fs) : Append(fs, << >>)[j] = fs[j]
           /\ Append(fs, << >>)[Len(fs) + 1] = << >>
           /\ << >> \in Seq(Cells) /\ Len(<< >>) = 0
<1>1. << >> \in Seq(Cells) /\ Len(<< >>) = 0
  BY EmptySeq
<1>2. QED
  BY <1>1, AppendProperties, LenProperties

(* Where the loader is, while it loads. *)
LEMMA LoadingProps ==
    ASSUME TInv
    PROVE  /\ Loading => current \in 1..Len(files) /\ files[current] \in Seq(Cells)
           /\ HasBlock => /\ loader.k \in 1..Len(loader.trace)
                          /\ loader.trace[loader.k] \in Block
                          /\ Acceptable(loader.trace[loader.k])
                          /\ Size[loader.trace[loader.k]] \in Nat
<1> USE DEF TInv, Types, LoaderRight
<1>1. /\ Len(files) \in Nat /\ loader.trace \in Seq(Block) /\ loader.k \in Nat \ {0}
      /\ Len(loader.trace) \in Nat
  BY LenProperties DEF LoaderType
<1>2. ASSUME Loading PROVE current \in 1..Len(files) /\ files[current] \in Seq(Cells)
  <2>1. current \in 1..Len(files)
    BY <1>1, <1>2
  <2>2. QED
    BY <2>1, ElementOfSeq
<1>3. ASSUME HasBlock
      PROVE  /\ loader.k \in 1..Len(loader.trace) /\ loader.trace[loader.k] \in Block
             /\ Acceptable(loader.trace[loader.k]) /\ Size[loader.trace[loader.k]] \in Nat
  <2>1. loader.k \in 1..Len(loader.trace) /\ Acceptable(loader.trace[loader.k])
    BY <1>1, <1>3 DEF HasBlock
  <2>2. QED
    BY <1>1, <2>1, ElementOfSeq, SizeNat
<1>4. QED
  BY <1>2, <1>3

LEMMA InitTInv == Init => TInv
<1> SUFFICES ASSUME Init PROVE TInv
  OBVIOUS
<1>1. files \in Seq(Seq(Cells)) /\ lastTrace \in Seq(Block) /\ << >> \in Seq(Block) /\ Len(files) = 0
  BY EmptySeq DEF Init
<1>2. verifier = [x \in DOMAIN verifier |-> verifier[x]] /\ "pc" \in DOMAIN verifier /\ verifier.pc = "none"
  BY DEF Init, IdleVerifier
<1>3. DOMAIN index = {} /\ DOMAIN cache = {}
  BY DEF Init
<1>4. loader \in LoaderType
  BY <1>1 DEF Init, Idle, LoaderType
<1>5. Types
  <2>1. current \in 0..Len(files) /\ reader \in 0..Len(files)
    BY <1>1 DEF Init
  <2>2. recorded = {} /\ answer = NoAnswer /\ finished = FALSE /\ grown = TRUE
    BY DEF Init
  <2>3. QED
    BY <1>1, <1>2, <1>3, <1>4, <2>1, <2>2, Zenon DEF Types
<1>6. LoaderRight
  BY DEF Init, LoaderRight, Loading, Idle
<1>7. QED
  BY <1>5, <1>6 DEF TInv

LEMMA NextTInv == TInv /\ [Next]_vars => TInv'
<1> SUFFICES ASSUME TInv, [Next]_vars PROVE TInv'
  OBVIOUS
<1> USE DEF TInv, Types, LoaderRight
<1>0. Len(files) \in Nat
  BY LenProperties
<1>1. CASE UNCHANGED vars
  BY <1>1 DEF vars, fileVars, history, Loading, HasBlock
<1>2. ASSUME NEW trace \in Traces, BeginLoad(trace) PROVE TInv'
  <2>1. trace \in Seq(Block) /\ << >> \in Seq(Block)
    BY CdsAssumption, EmptySeq
  <2>2. /\ loader' = [pc |-> "create", trace |-> trace, k |-> 1, offset |-> 0]
        /\ loader'.pc = "create" /\ loader'.trace = trace /\ loader'.k = 1 /\ loader'.offset = 0
    BY <1>2 DEF BeginLoad, Idle
  <2>3. current' = 0 /\ finished' = FALSE /\ lastTrace' = trace /\ grown' \in BOOLEAN
    BY <1>2 DEF BeginLoad
  <2>4. loader' \in LoaderType
    BY <2>1, <2>2 DEF LoaderType
  <2>5. Types'
    <3>1. UNCHANGED <<files, index, cache, verifier, recorded, reader, answer>>
      BY <1>2 DEF BeginLoad
    <3>2. current' \in 0..Len(files') /\ reader' \in 0..Len(files')
      BY <1>0, <2>3, <3>1
    <3>3. lastTrace' \in Seq(Block) /\ finished' \in BOOLEAN
      BY <2>1, <2>3
    <3>4. QED
      BY <2>3, <2>4, <3>1, <3>2, <3>3
  <2>6. LoaderRight'
    BY <2>2, <2>3 DEF Loading
  <2>7. QED
    BY <2>5, <2>6
<1>3. CASE CreateFile
  <2>1. files' = Append(files, << >>) /\ current' = Len(files') /\ Len(files') = Len(files) + 1
    BY <1>3, FileCreated DEF CreateFile
  <2>2. files' \in Seq(Seq(Cells)) /\ files'[current'] = << >> /\ Len(files'[current']) = 0
    BY <2>1, FileCreated
  <2>3. /\ loader' = [loader EXCEPT !.pc = "set"] /\ loader.pc = "create"
        /\ loader'.pc = "set" /\ loader'.trace = loader.trace /\ loader'.offset = loader.offset
    BY <1>3 DEF CreateFile
  <2>4. loader' \in LoaderType
    BY <2>3 DEF LoaderType
  <2>5. current' \in 0..Len(files') /\ reader \in 0..Len(files') /\ current' # 0
    BY <1>0, <2>1
  <2>6. Types'
    BY <1>3, <2>2, <2>4, <2>5 DEF CreateFile, history
  <2>7. LoaderRight'
    BY <1>0, <1>3, <2>1, <2>2, <2>3, <2>5 DEF CreateFile, history, Loading
  <2>8. QED
    BY <2>6, <2>7
<1>4. CASE SetIndex
  <2>1. loader.trace[loader.k] \in Block /\ HasBlock
    BY <1>4, LoadingProps DEF SetIndex
  <2>2. DOMAIN index' \subseteq Block /\ \A b \in DOMAIN index' : index'[b] \in Nat
    <3> DEFINE b == loader.trace[loader.k]
    <3>1. CASE index' = Put(index, b, loader.offset)
      <4>1. loader.offset \in Nat
        BY DEF LoaderType
      <4>2. QED
        BY <2>1, <3>1, <4>1 DEF Put
    <3>2. CASE index' = index
      BY <3>2
    <3>3. CASE index' = Forget(index, b)
      BY <3>3 DEF Forget
    <3>4. QED
      BY <1>4, <3>1, <3>2, <3>3 DEF SetIndex
  <2>3. /\ loader' = [loader EXCEPT !.pc = "write"] /\ loader.pc = "set"
        /\ loader'.pc = "write" /\ loader'.trace = loader.trace /\ loader'.k = loader.k
        /\ loader'.offset = loader.offset
    BY <1>4 DEF SetIndex
  <2>4. loader' \in LoaderType
    BY <2>3 DEF LoaderType
  <2>5. Types'
    BY <1>4, <2>2, <2>4 DEF SetIndex, fileVars, history
  <2>6. LoaderRight'
    BY <1>4, <2>1, <2>3 DEF SetIndex, fileVars, history, Loading, HasBlock
  <2>7. QED
    BY <2>5, <2>6
<1>5. CASE WriteBlock
  <2> DEFINE b == loader.trace[loader.k]
             new == files[current] \o Data(b)
  <2>1. /\ loader.pc = "write" /\ b \in Block /\ Acceptable(b) /\ Size[b] \in Nat
        /\ current \in 1..Len(files) /\ files[current] \in Seq(Cells)
    BY <1>5, LoadingProps DEF WriteBlock, Loading
  <2>2. new \in Seq(Cells) /\ Len(new) = loader.offset + Size[b]
    <3>1. Data(b) \in Seq(Cells) /\ Len(Data(b)) = Size[b]
      BY <2>1, DataCells, DataProps
    <3>2. Len(files[current]) = loader.offset
      BY <2>1 DEF Loading
    <3> HIDE DEF b
    <3>3. /\ files[current] \o Data(b) \in Seq(Cells)
          /\ Len(files[current] \o Data(b)) = Len(files[current]) + Len(Data(b))
      BY <2>1, <3>1, ConcatProperties
    <3>4. QED
      BY <3>1, <3>2, <3>3, Zenon DEF new
  <2>3. /\ files' = [files EXCEPT ![current] = new]
        /\ loader' = [loader EXCEPT !.pc = "set", !.k = @ + 1, !.offset = @ + Size[b]]
    BY <1>5 DEF WriteBlock
  <2>4. /\ loader'.pc = "set" /\ loader'.trace = loader.trace
        /\ loader'.offset = loader.offset + Size[b]
    BY <2>3
  <2> HIDE DEF new, b
  <2>5. files' \in Seq(Seq(Cells)) /\ Len(files') = Len(files) /\ files'[current] = new
    BY <2>1, <2>2, <2>3, FileReplaced
  <2>6. loader' \in LoaderType
    <3>1. Size[b] \in Nat
      BY <2>1
    <3>2. loader.k + 1 \in Nat \ {0} /\ loader.offset + Size[b] \in Nat /\ loader.trace \in Seq(Block)
      BY <3>1 DEF LoaderType
    <3>3. loader' = [pc |-> "set", trace |-> loader.trace, k |-> loader.k + 1,
                     offset |-> loader.offset + Size[b]]
      BY <2>3 DEF LoaderType
    <3>4. QED
      BY <3>2, <3>3 DEF LoaderType
  <2>7. Types'
    BY <1>5, <2>5, <2>6 DEF WriteBlock, history
  <2>8. LoaderRight'
    BY <1>5, <2>1, <2>2, <2>4, <2>5 DEF WriteBlock, history, Loading
  <2>9. QED
    BY <2>7, <2>8
<1>6. CASE EndLoad
  <2>1. loader' = Idle /\ loader'.pc = "none" /\ finished' = TRUE /\ loader.pc = "set"
    BY <1>6 DEF EndLoad, Idle
  <2>2. loader' \in LoaderType
    BY <2>1, EmptySeq DEF Idle, LoaderType
  <2>3. Types'
    BY <1>6, <2>1, <2>2 DEF EndLoad, fileVars
  <2>4. LoaderRight'
    BY <1>6, <2>1 DEF EndLoad, fileVars, Loading
  <2>5. QED
    BY <2>3, <2>4
<1>7. CASE LoaderDies
  <2>1. loader' = Idle /\ loader'.pc = "none" /\ loader.pc # "none"
    BY <1>7 DEF LoaderDies, Idle
  <2>2. loader' \in LoaderType
    BY <2>1, EmptySeq DEF Idle, LoaderType
  <2>3. files' \in Seq(Seq(Cells)) /\ Len(files') = Len(files)
    <3>1. CASE loader.pc = "create"
      BY <1>7, <3>1 DEF LoaderDies
    <3>2. CASE loader.pc # "create"
      <4> DEFINE tail == IF loader.pc = "write" THEN Data(loader.trace[loader.k]) ELSE << >>
      <4>1. Loading /\ current \in 1..Len(files) /\ files[current] \in Seq(Cells)
        BY <2>1, <3>2, LoadingProps DEF Loading, LoaderType
      <4>2. tail \in Seq(Cells)
        BY LoadingProps, DataCells, EmptySeq
      <4>3. files[current] \o tail \in Seq(Cells)
        BY <4>1, <4>2, ConcatProperties
      <4>4. PICK left \in Prefixes(files[current] \o tail) : files' = [files EXCEPT ![current] = left]
        BY <1>7, <3>2 DEF LoaderDies
      <4>5. left \in Seq(Cells)
        BY <4>3, <4>4, PrefixProps
      <4>6. QED
        BY <4>1, <4>4, <4>5, FileReplaced
    <3>3. QED
      BY <3>1, <3>2
  <2>4. Types'
    BY <1>7, <2>2, <2>3 DEF LoaderDies, history
  <2>5. LoaderRight'
    BY <1>7, <2>1 DEF LoaderDies, history, Loading
  <2>6. QED
    BY <2>4, <2>5
<1>8. ASSUME NEW b \in Block, Evict(b) PROVE TInv'
  <2>1. DOMAIN index' \subseteq Block /\ \A c \in DOMAIN index' : index'[c] \in Nat
    BY <1>8 DEF Evict, Forget
  <2>2. DOMAIN cache' \subseteq Block /\ \A c \in DOMAIN cache' : Len(cache'[c]) = Size[c]
    BY <1>8 DEF Evict, Forget
  <2>3. QED
    BY <1>8, <2>1, <2>2 DEF Evict, fileVars, history, Loading, HasBlock
<1>9. ASSUME NEW b \in Block, Record(b) PROVE TInv'
  BY <1>9 DEF Record, fileVars, history, Loading, HasBlock
<1>10. CASE OpenData
  <2>1. CASE current # 0
    BY <1>10, <2>1 DEF OpenData, fileVars, history, Loading, HasBlock
  <2>2. CASE current = 0
    <3>1. files' = Append(files, << >>) /\ Len(files') = Len(files) + 1 /\ files' \in Seq(Seq(Cells))
      BY <1>10, <2>2, FileCreated DEF OpenData
    <3>2. ~Loading /\ ~finished
      BY <2>2
    <3>3. current' = Len(files') /\ reader' = Len(files') /\ current' # 0
      BY <1>0, <1>10, <2>2, <3>1 DEF OpenData
    <3>4. Types'
      BY <1>0, <1>10, <3>1, <3>3 DEF OpenData, history
    <3>5. LoaderRight'
      BY <1>10, <3>2, <3>3 DEF OpenData, history, Loading
    <3>6. QED
      BY <3>4, <3>5
  <2>3. QED
    BY <2>1, <2>2
<1>11. CASE CloseData
  BY <1>0, <1>11 DEF CloseData, fileVars, history, Loading, HasBlock
<1>12. ASSUME NEW r \in recorded, ReadCache(r[1]) PROVE TInv'
  <2>1. r[1] \in Block /\ answer'[1] = r[1]
    BY <1>12 DEF ReadCache
  <2>2. QED
    BY <1>12, <2>1 DEF ReadCache, fileVars, history, Loading, HasBlock
<1>13. ASSUME NEW r \in recorded, ReadFile(r[1], r[2]) PROVE TInv'
  <2>1. r[1] \in Block
    OBVIOUS
  <2>2. PICK got : IF Len(got) = Size[r[1]]
                   THEN /\ answer' = <<r[1], got>>
                        /\ cache' \in {Put(cache, r[1], got), cache}
                        /\ UNCHANGED reader
                   ELSE reader' = 0 /\ answer' = NoAnswer /\ UNCHANGED cache
    BY <1>13 DEF ReadFile
  <2>3. DOMAIN cache' \subseteq Block /\ \A b \in DOMAIN cache' : Len(cache'[b]) = Size[b]
    <3>1. CASE cache' = Put(cache, r[1], got) /\ Len(got) = Size[r[1]]
      BY <2>1, <3>1 DEF Put
    <3>2. CASE cache' = cache
      BY <3>2
    <3>3. QED
      BY <2>2, <3>1, <3>2
  <2>4. reader' \in 0..Len(files) /\ (answer' = NoAnswer \/ answer'[1] \in Block)
    BY <1>0, <2>1, <2>2
  <2>5. QED
    BY <1>13, <2>3, <2>4 DEF ReadFile, fileVars, history, Loading, HasBlock
<1>14. ASSUME NEW trace \in Traces, BeginVerify(trace) PROVE TInv'
  <2>1. verifier'.pc = "check" /\ "pc" \in DOMAIN verifier' /\ verifier' = [x \in DOMAIN verifier' |-> verifier'[x]]
    BY <1>14 DEF BeginVerify, IdleVerifier
  <2>2. QED
    BY <1>14, <2>1 DEF BeginVerify, fileVars, history, Loading, HasBlock
<1>15. CASE VerifyBlock
  <2>1. verifier'.pc = verifier.pc /\ DOMAIN verifier' = DOMAIN verifier /\ verifier' = [x \in DOMAIN verifier' |-> verifier'[x]]
    <3>1. PICK hit : verifier' = [verifier EXCEPT
              !.k = @ + 1, !.offset = @ + Size[verifier.trace[verifier.k]], !.clean = @ /\ hit]
      BY <1>15, Zenon DEF VerifyBlock
    <3>2. QED
      BY <3>1
  <2>2. QED
    BY <1>15, <2>1 DEF VerifyBlock, fileVars, history, Loading, HasBlock
<1>16. CASE EndVerify
  <2>1. verifier'.pc = "none" /\ DOMAIN verifier' = DOMAIN verifier /\ verifier' = [x \in DOMAIN verifier' |-> verifier'[x]]
    BY <1>16 DEF EndVerify
  <2>2. QED
    BY <1>16, <2>1 DEF EndVerify, fileVars, history, Loading, HasBlock
<1>17. QED
  BY <1>1, <1>2, <1>3, <1>4, <1>5, <1>6, <1>7, <1>8, <1>9, <1>10, <1>11, <1>12, <1>13, <1>14,
     <1>15, <1>16 DEF Next

-----------------------------------------------------------------------------
(* Every step keeps one layout. *)

LEMMA EmptyLaid ==
    ASSUME NEW t \in Seq(Block), NEW m, NEW off, Layout(t, m, off)
    PROVE  Laid(<< >>, t, m, off)
<1>1. Len(<< >>) = 0 /\ m \in 1..m /\ (\A k \in 1..m : off[k] \in Nat)
  BY LayoutTypes
<1>2. ASSUME NEW k \in 1..(m - 1), NEW n \in 1..Size[t[k]] PROVE ~(off[k] + n <= 0)
  BY LayoutTypes
<1>3. QED
  BY <1>1, <1>2 DEF Laid

(* What no step of the loader, of memcached or of snapshot_write did. *)
LEMMA LayoutUnchanged ==
    ASSUME OneLayout, UNCHANGED <<files, current, index, loader, recorded, finished, lastTrace, grown>>
    PROVE  OneLayout'
BY DEF OneLayout, Follows, Loading

LEMMA LayoutBeginLoad ==
    ASSUME TInv, OneLayout, NEW trace \in Traces, BeginLoad(trace)
    PROVE  OneLayout'
<1> SUFFICES ASSUME grown' PROVE \E m, off : Layout(trace, m, off) /\ Follows(m, off)'
  BY DEF OneLayout, BeginLoad
<1>1. grown /\ IsPrefix(lastTrace, trace)
  BY DEF BeginLoad
<1>2. PICK m, off : Layout(lastTrace, m, off) /\ Follows(m, off)
  BY <1>1 DEF OneLayout
<1>3. lastTrace \in Seq(Block) /\ trace \in Seq(Block)
  BY CdsAssumption DEF TInv, Types
<1>4. /\ Layout(trace, m, off)
      /\ \A f : Laid(f, lastTrace, m, off) => Laid(f, trace, m, off)
      /\ \A b, offset : Placed(b, offset, lastTrace, m, off) => Placed(b, offset, trace, m, off)
  BY <1>1, <1>2, <1>3, LayoutKept
<1>5. /\ loader'.pc = "create" /\ lastTrace' = trace /\ finished' = FALSE
      /\ UNCHANGED <<files, index, recorded>>
  BY DEF BeginLoad, Idle
<1>6. Follows(m, off)'
  BY <1>2, <1>4, <1>5 DEF Follows, Loading
<1>7. QED
  BY <1>4, <1>6

LEMMA LayoutCreateFile ==
    ASSUME TInv, OneLayout, CreateFile
    PROVE  OneLayout'
<1> SUFFICES ASSUME grown PROVE \E m, off : Layout(lastTrace, m, off) /\ Follows(m, off)'
  BY DEF OneLayout, CreateFile, history
<1>1. PICK m, off : Layout(lastTrace, m, off) /\ Follows(m, off)
  BY DEF OneLayout
<1>2. lastTrace \in Seq(Block) /\ files \in Seq(Seq(Cells))
  BY DEF TInv, Types
<1>3. /\ files' = Append(files, << >>) /\ loader'.pc = "set" /\ loader'.k = 1
      /\ loader'.offset = 0 /\ finished' = FALSE
      /\ UNCHANGED <<index, recorded, lastTrace>>
  BY DEF CreateFile, history, TInv, Types, LoaderRight, LoaderType
<1>4. \A i \in 1..Len(files') : Laid(files'[i], lastTrace, m, off)
  <2>1. /\ Len(files) \in Nat /\ Len(files') = Len(files) + 1
        /\ \A j \in 1..Len(files) : files'[j] = files[j]
        /\ files'[Len(files) + 1] = << >>
    BY <1>2, <1>3, FileCreated
  <2>2. Laid(<< >>, lastTrace, m, off)
    BY <1>1, <1>2, EmptyLaid
  <2>3. \A i \in 1..Len(files') : i \in 1..Len(files) \/ i = Len(files) + 1
    BY <2>1
  <2>4. QED
    BY <1>1, <2>1, <2>2, <2>3 DEF Follows
<1>5. 1 <= m /\ off[1] = 0
  BY <1>1, <1>2, LayoutTypes DEF Layout
<1>6. Follows(m, off)'
  BY <1>1, <1>3, <1>4, <1>5 DEF Follows, Loading
<1>7. QED
  BY <1>1, <1>6

LEMMA LayoutSetIndex ==
    ASSUME TInv, OneLayout, SetIndex
    PROVE  OneLayout'
<1> SUFFICES ASSUME grown PROVE \E m, off : Layout(lastTrace, m, off) /\ Follows(m, off)'
  BY DEF OneLayout, SetIndex, history
<1>1. PICK m, off : Layout(lastTrace, m, off) /\ Follows(m, off)
  BY DEF OneLayout
<1> DEFINE b == lastTrace[loader.k]
<1>2. /\ lastTrace \in Seq(Block) /\ loader.trace = lastTrace /\ loader.pc = "set" /\ HasBlock
      /\ loader.offset = off[loader.k] /\ loader.k <= m /\ ~finished
  BY <1>1 DEF SetIndex, TInv, Types, LoaderRight, Follows, Loading
<1>3. loader.k \in 1..Len(lastTrace) /\ Acceptable(b)
  BY <1>2, LoadingProps
<1>4. /\ loader'.pc = "write" /\ loader'.k = loader.k /\ loader'.offset = off[loader.k]
      /\ finished' = finished /\ UNCHANGED <<files, recorded, lastTrace>>
      /\ index' \in {Put(index, b, off[loader.k]), index, Forget(index, b)}
  BY <1>2 DEF SetIndex, fileVars, history, TInv, Types, LoaderType
<1> HIDE DEF b
<1>5. \A c \in DOMAIN index' :
          \/ c = b /\ index'[c] = off[loader.k]
          \/ c \in DOMAIN index /\ index'[c] = index[c]
  <2>1. CASE index' = Put(index, b, off[loader.k])
    BY <2>1 DEF Put
  <2>2. CASE index' = index
    BY <2>2
  <2>3. CASE index' = Forget(index, b)
    BY <2>3 DEF Forget
  <2>4. QED
    BY <1>4, <2>1, <2>2, <2>3
<1>6. m \in Nat /\ m >= 1
  BY <1>1, <1>2, LayoutTypes
<1>7. CASE loader.k < m
  <2>1. Placed(b, off[loader.k], lastTrace, m, off)
    BY <1>3, <1>6, <1>7 DEF Placed, b
  <2>2. \A c \in DOMAIN index' : Placed(c, index'[c], lastTrace, m, off)
    BY <1>1, <1>5, <2>1 DEF Follows
  <2>3. Follows(m, off)'
    BY <1>1, <1>2, <1>4, <1>7, <2>2 DEF Follows, Loading
  <2>4. QED
    BY <1>1, <2>3
<1>8. CASE loader.k = m
  <2>1. m <= Len(lastTrace) /\ Acceptable(lastTrace[m])
    BY <1>3, <1>8 DEF b
  <2>2. PICK more :
            /\ Layout(lastTrace, m + 1, more)
            /\ \A k \in 1..m : more[k] = off[k]
            /\ \A f \in Seq(Cells) : Laid(f, lastTrace, m, off) => Laid(f, lastTrace, m + 1, more)
            /\ \A c, offset : Placed(c, offset, lastTrace, m, off)
                              => Placed(c, offset, lastTrace, m + 1, more)
    BY <1>1, <1>2, <2>1, LayoutGrows
  <2>3. more[m] = off[m]
    BY <1>6, <2>2
  <2>4. Placed(b, off[m], lastTrace, m + 1, more)
    BY <1>6, <1>8, <2>3 DEF Placed, b
  <2>5. \A c \in DOMAIN index' : Placed(c, index'[c], lastTrace, m + 1, more)
    BY <1>1, <1>5, <1>8, <2>2, <2>4 DEF Follows
  <2>6. \A i \in 1..Len(files) : Laid(files[i], lastTrace, m + 1, more)
    <3>1. \A i \in 1..Len(files) : files[i] \in Seq(Cells)
      BY ElementOfSeq DEF TInv, Types
    <3>2. QED
      BY <1>1, <2>2, <3>1 DEF Follows
  <2>7. \A r \in recorded : Placed(r[1], r[2], lastTrace, m + 1, more)
    BY <1>1, <2>2 DEF Follows
  <2>8. loader'.k <= m + 1 /\ loader'.k < m + 1 /\ loader'.offset = more[loader'.k]
    BY <1>4, <1>6, <1>8, <2>3
  <2>9. Follows(m + 1, more)'
    BY <1>2, <1>4, <2>5, <2>6, <2>7, <2>8 DEF Follows
  <2>10. QED
    BY <2>2, <2>9
<1>9. QED
  BY <1>2, <1>3, <1>6, <1>7, <1>8

LEMMA LayoutWriteBlock ==
    ASSUME TInv, OneLayout, WriteBlock
    PROVE  OneLayout'
<1> SUFFICES ASSUME grown PROVE \E m, off : Layout(lastTrace, m, off) /\ Follows(m, off)'
  BY DEF OneLayout, WriteBlock, history
<1>1. PICK m, off : Layout(lastTrace, m, off) /\ Follows(m, off)
  BY DEF OneLayout
<1> DEFINE k == loader.k
           new == files[current] \o Data(lastTrace[k])
<1>2. /\ lastTrace \in Seq(Block) /\ loader.trace = lastTrace /\ loader.pc = "write"
      /\ Loading /\ HasBlock /\ k \in Nat \ {0} /\ k < m /\ ~finished
      /\ loader.offset = off[k] /\ loader.offset = Len(files[current])
      /\ files \in Seq(Seq(Cells))
  BY <1>1 DEF WriteBlock, TInv, Types, LoaderRight, LoaderType, Follows, Loading
<1>3. current \in 1..Len(files) /\ files[current] \in Seq(Cells) /\ Laid(files[current], lastTrace, m, off)
  BY <1>1, <1>2, LoadingProps DEF Follows
<1>4. m \in Nat /\ k \in 1..(m - 1) /\ k + 1 <= m
  BY <1>1, <1>2, LayoutTypes
<1>5. new \in Seq(Cells) /\ Len(new) = off[k + 1] /\ Laid(new, lastTrace, m, off)
  <2>1. Len(files[current]) = off[k] /\ lastTrace \in Seq(Block)
    BY <1>2
  <2>2. Layout(lastTrace, m, off) /\ k \in 1..(m - 1)
    BY <1>1, <1>4
  <2> DEFINE f == files[current]
  <2>3. f \in Seq(Cells) /\ Laid(f, lastTrace, m, off) /\ Len(f) = off[k]
    BY <1>3, <2>1
  <2>4. new = f \o Data(lastTrace[k])
    OBVIOUS
  <2> HIDE DEF k, f, new
  <2>5. /\ f \o Data(lastTrace[k]) \in Seq(Cells)
        /\ Len(f \o Data(lastTrace[k])) = off[k + 1]
        /\ Laid(f \o Data(lastTrace[k]), lastTrace, m, off)
    BY <2>1, <2>2, <2>3, LaidWrite
  <2>6. QED
    BY <2>4, <2>5
<1>6. off[k + 1] = off[k] + Size[lastTrace[k]]
  BY <1>1, <1>4 DEF Layout
<1>7. files' = [files EXCEPT ![current] = new]
  BY <1>2 DEF WriteBlock
<1>8. /\ loader'.pc = "set" /\ loader'.k = k + 1 /\ loader'.offset = off[k + 1]
      /\ finished' = finished /\ UNCHANGED <<current, index, recorded, lastTrace>>
  BY <1>2, <1>6 DEF WriteBlock, history, TInv, Types, LoaderType
<1> HIDE DEF new, k
<1>9. /\ Len(files') = Len(files)
      /\ \A j \in 1..Len(files) : files'[j] = IF j = current THEN new ELSE files[j]
  BY <1>2, <1>3, <1>5, <1>7, FileReplaced
<1>10. \A i \in 1..Len(files') : Laid(files'[i], lastTrace, m, off)
  BY <1>1, <1>5, <1>9 DEF Follows
<1>11. Follows(m, off)'
  BY <1>1, <1>2, <1>4, <1>8, <1>10 DEF Follows, Loading
<1>12. QED
  BY <1>1, <1>11

LEMMA LayoutEndLoad ==
    ASSUME TInv, OneLayout, EndLoad
    PROVE  OneLayout'
<1> SUFFICES ASSUME grown PROVE \E m, off : Layout(lastTrace, m, off) /\ Follows(m, off)'
  BY DEF OneLayout, EndLoad
<1>1. PICK m, off : Layout(lastTrace, m, off) /\ Follows(m, off)
  BY DEF OneLayout
<1>2. /\ lastTrace \in Seq(Block) /\ loader.trace = lastTrace /\ loader.pc = "set"
      /\ Loading /\ ~HasBlock /\ loader.k \in Nat \ {0} /\ loader.k <= m
      /\ loader.offset = off[loader.k] /\ loader.offset = Len(files[current])
  BY <1>1 DEF EndLoad, TInv, Types, LoaderRight, LoaderType, Follows, Loading
<1>3. loader.k = m
  <2>1. m \in Nat /\ Len(lastTrace) \in Nat /\ m <= Len(lastTrace) + 1
    BY <1>1, <1>2, LayoutTypes, LenProperties
  <2>2. ASSUME loader.k < m PROVE FALSE
    <3>1. loader.k \in 1..(m - 1) /\ loader.k <= Len(lastTrace)
      BY <1>2, <2>1, <2>2
    <3>2. Acceptable(lastTrace[loader.k])
      BY <1>1, <3>1 DEF Layout
    <3>3. QED
      BY <1>2, <3>1, <3>2 DEF HasBlock
  <2>3. QED
    BY <1>2, <2>1, <2>2
<1>4. loader'.pc = "none" /\ UNCHANGED <<files, current, index, recorded, lastTrace>>
  BY DEF EndLoad, Idle, fileVars
<1>5. Follows(m, off)'
  BY <1>1, <1>2, <1>3, <1>4 DEF Follows, Loading
<1>6. QED
  BY <1>1, <1>5

LEMMA LayoutLoaderDies ==
    ASSUME TInv, OneLayout, LoaderDies
    PROVE  OneLayout'
<1> SUFFICES ASSUME grown PROVE \E m, off : Layout(lastTrace, m, off) /\ Follows(m, off)'
  BY DEF OneLayout, LoaderDies, history
<1>1. PICK m, off : Layout(lastTrace, m, off) /\ Follows(m, off)
  BY DEF OneLayout
<1>2. /\ lastTrace \in Seq(Block) /\ loader.pc # "none" /\ loader.trace = lastTrace /\ ~finished
      /\ files \in Seq(Seq(Cells)) /\ loader.pc \in {"none", "create", "set", "write"}
      /\ loader.k \in Nat \ {0}
  BY DEF LoaderDies, TInv, Types, LoaderRight, LoaderType
<1>3. loader'.pc = "none" /\ finished' = finished /\ UNCHANGED <<index, recorded, lastTrace>>
  BY DEF LoaderDies, Idle, history
<1>4. \A i \in 1..Len(files') : Laid(files'[i], lastTrace, m, off)
  <2>1. CASE loader.pc = "create"
    BY <1>1, <2>1 DEF LoaderDies, Follows
  <2>2. CASE loader.pc # "create"
    <3> DEFINE tail == IF loader.pc = "write" THEN Data(lastTrace[loader.k]) ELSE << >>
    <3>1. Loading /\ current \in 1..Len(files) /\ files[current] \in Seq(Cells)
      BY <1>2, <2>2, LoadingProps DEF Loading
    <3>2. /\ Laid(files[current], lastTrace, m, off)
          /\ Len(files[current]) = off[loader.k]
      BY <1>1, <3>1 DEF Follows, TInv, LoaderRight
    <3>3. files[current] \o tail \in Seq(Cells) /\ Laid(files[current] \o tail, lastTrace, m, off)
      <4>1. CASE loader.pc = "write"
        <5>1. loader.k < m /\ m \in Nat
          BY <1>1, <1>2, <4>1, LayoutTypes DEF Follows
        <5>2. loader.k \in 1..(m - 1)
          BY <1>2, <5>1
        <5>3. QED
          BY <1>1, <1>2, <3>1, <3>2, <4>1, <5>2, LaidWrite
      <4>2. CASE loader.pc # "write"
        BY <3>1, <3>2, <4>2, ConcatEmptySeq
      <4>3. QED
        BY <4>1, <4>2
    <3>4. PICK left \in Prefixes(files[current] \o tail) : files' = [files EXCEPT ![current] = left]
      BY <1>2, <2>2 DEF LoaderDies
    <3> HIDE DEF tail
    <3>5. left \in Seq(Cells) /\ Laid(left, lastTrace, m, off)
      BY <1>1, <1>2, <3>3, <3>4, LaidPrefix
    <3>6. /\ Len(files') = Len(files)
          /\ \A j \in 1..Len(files) : files'[j] = IF j = current THEN left ELSE files[j]
      BY <1>2, <3>1, <3>4, <3>5, FileReplaced
    <3>7. QED
      BY <1>1, <3>5, <3>6 DEF Follows
  <2>3. QED
    BY <2>1, <2>2
<1>5. Follows(m, off)'
  BY <1>1, <1>2, <1>3, <1>4 DEF Follows, Loading
<1>6. QED
  BY <1>1, <1>5

LEMMA LayoutMemcached ==
    ASSUME TInv, OneLayout, NEW b \in Block, Evict(b) \/ Record(b)
    PROVE  OneLayout'
<1> SUFFICES ASSUME grown PROVE \E m, off : Layout(lastTrace, m, off) /\ Follows(m, off)'
  BY DEF OneLayout, Evict, Record, history
<1>1. PICK m, off : Layout(lastTrace, m, off) /\ Follows(m, off)
  BY DEF OneLayout
<1>2. UNCHANGED <<files, current, loader, finished, lastTrace>>
  BY DEF Evict, Record, fileVars, history
<1>3. \A c \in DOMAIN index' : c \in DOMAIN index /\ index'[c] = index[c]
  BY DEF Evict, Record, Forget
<1>4. \A r \in recorded' : Placed(r[1], r[2], lastTrace, m, off)
  BY <1>1 DEF Follows, Evict, Record
<1>5. Follows(m, off)'
  BY <1>1, <1>2, <1>3, <1>4 DEF Follows, Loading
<1>6. QED
  BY <1>1, <1>2, <1>5

LEMMA LayoutOpenData ==
    ASSUME TInv, OneLayout, OpenData
    PROVE  OneLayout'
<1>1. CASE current # 0
  BY <1>1, LayoutUnchanged DEF OpenData, fileVars, history
<1>2. CASE current = 0
  <2> SUFFICES ASSUME grown PROVE \E m, off : Layout(lastTrace, m, off) /\ Follows(m, off)'
    BY DEF OneLayout, OpenData, history
  <2>1. PICK m, off : Layout(lastTrace, m, off) /\ Follows(m, off)
    BY DEF OneLayout
  <2>2. /\ lastTrace \in Seq(Block) /\ files \in Seq(Seq(Cells)) /\ ~Loading /\ ~finished
        /\ files' = Append(files, << >>)
        /\ UNCHANGED <<index, recorded, loader, finished, lastTrace>>
    BY <1>2 DEF OpenData, history, TInv, Types, LoaderRight
  <2>3. \A i \in 1..Len(files') : Laid(files'[i], lastTrace, m, off)
    <3>1. /\ Len(files) \in Nat /\ Len(files') = Len(files) + 1
          /\ \A j \in 1..Len(files) : files'[j] = files[j]
          /\ files'[Len(files) + 1] = << >>
      BY <2>2, FileCreated
    <3>2. Laid(<< >>, lastTrace, m, off)
      BY <2>1, <2>2, EmptyLaid
    <3>3. \A i \in 1..Len(files') : i \in 1..Len(files) \/ i = Len(files) + 1
      BY <3>1
    <3>4. QED
      BY <2>1, <3>1, <3>2, <3>3 DEF Follows
  <2>4. Follows(m, off)'
    BY <2>1, <2>2, <2>3 DEF Follows, Loading
  <2>5. QED
    BY <2>1, <2>4
<1>3. QED
  BY <1>1, <1>2

LEMMA NextOneLayout ==
    ASSUME TInv, OneLayout, [Next]_vars
    PROVE  OneLayout'
<1>1. CASE UNCHANGED vars
  BY <1>1, LayoutUnchanged DEF vars, fileVars, history
<1>2. ASSUME NEW trace \in Traces, BeginVerify(trace) PROVE OneLayout'
  BY <1>2, LayoutUnchanged DEF BeginVerify, fileVars, history
<1>3. CASE CloseData
  BY <1>3, LayoutUnchanged DEF CloseData, fileVars, history
<1>4. ASSUME NEW r \in recorded, ReadCache(r[1]) \/ ReadFile(r[1], r[2]) PROVE OneLayout'
  BY <1>4, LayoutUnchanged DEF ReadCache, ReadFile, fileVars, history
<1>5. CASE VerifyBlock \/ EndVerify
  BY <1>5, LayoutUnchanged DEF VerifyBlock, EndVerify, fileVars, history
<1>6. QED
  BY <1>1, <1>2, <1>3, <1>4, <1>5, LayoutBeginLoad, LayoutCreateFile, LayoutSetIndex,
     LayoutWriteBlock, LayoutEndLoad, LayoutLoaderDies, LayoutMemcached, LayoutOpenData DEF Next

-----------------------------------------------------------------------------
(* What is cached and answered. *)

LEMMA ReadFileRight ==
    ASSUME TInv, OneLayout, CacheRight, ReadRight,
           NEW r \in recorded, ReadFile(r[1], r[2]), grown
    PROVE  CacheRight' /\ ReadRight'
<1>1. PICK m, off : Layout(lastTrace, m, off) /\ Follows(m, off)
  BY DEF OneLayout
<1>2. /\ r[1] \in Block /\ r[2] \in Nat /\ lastTrace \in Seq(Block)
      /\ files \in Seq(Seq(Cells)) /\ reader \in 0..Len(files) /\ reader # 0
  BY DEF TInv, Types, ReadFile
<1>3. Len(files) \in Nat /\ reader \in 1..Len(files) /\ files[reader] \in Seq(Cells)
  <2>1. Len(files) \in Nat
    BY <1>2, LenProperties
  <2>2. reader \in 1..Len(files)
    BY <1>2, <2>1
  <2>3. QED
    BY <1>2, <2>1, <2>2, ElementOfSeq
<1>4. Laid(files[reader], lastTrace, m, off) /\ Placed(r[1], r[2], lastTrace, m, off)
  BY <1>1, <1>3 DEF Follows
<1>5. PICK got \in FromFile(reader, r[2], r[1]) :
          IF Len(got) = Size[r[1]]
          THEN /\ answer' = <<r[1], got>>
               /\ cache' \in {Put(cache, r[1], got), cache}
               /\ UNCHANGED reader
          ELSE reader' = 0 /\ answer' = NoAnswer /\ UNCHANGED cache
  BY DEF ReadFile
<1>6. got \in Prefixes(ReadAt(files[reader], r[2], r[1]))
  <2> DEFINE whole == ReadAt(files[reader], r[2], r[1])
  <2>1. whole \in Seq(Cells)
    BY <1>2, <1>3, ReadAtProps
  <2>2. whole \in Prefixes(whole)
    BY <2>1, WholePrefix
  <2>3. QED
    BY <1>5, <2>2 DEF FromFile
<1>7. CASE Len(got) = Size[r[1]]
  <2>1. got = Data(r[1])
    BY <1>1, <1>2, <1>3, <1>4, <1>6, <1>7, ReadPlaced
  <2>2. ReadRight'
    BY <1>5, <1>7, <2>1 DEF ReadRight
  <2>3. CacheRight'
    <3>1. \A b \in DOMAIN cache : cache[b] = Data(b)
      BY DEF CacheRight
    <3>2. CASE cache' = Put(cache, r[1], got)
      BY <2>1, <3>1, <3>2 DEF CacheRight, Put
    <3>3. CASE cache' = cache
      BY <3>1, <3>3 DEF CacheRight
    <3>4. QED
      BY <1>5, <1>7, <3>2, <3>3
  <2>4. QED
    BY <2>2, <2>3
<1>8. CASE Len(got) # Size[r[1]]
  BY <1>5, <1>8 DEF ReadRight, CacheRight
<1>9. QED
  BY <1>7, <1>8

LEMMA NextReadRight ==
    ASSUME TInv, OneLayout, CacheRight, ReadRight, [Next]_vars
    PROVE  CacheRight' /\ ReadRight'
<1> USE DEF CacheRight, ReadRight
<1>1. CASE UNCHANGED vars
  BY <1>1 DEF vars, history
<1>2. ASSUME NEW trace \in Traces, BeginLoad(trace) PROVE CacheRight' /\ ReadRight'
  BY <1>2 DEF BeginLoad
<1>3. CASE CreateFile \/ SetIndex \/ WriteBlock \/ LoaderDies
  <2>1. UNCHANGED <<cache, answer, grown>>
    BY <1>3 DEF CreateFile, SetIndex, WriteBlock, LoaderDies, history
  <2>2. QED
    BY <2>1
<1>4. CASE EndLoad
  BY <1>4 DEF EndLoad
<1>5. ASSUME NEW b \in Block, Evict(b) \/ Record(b) PROVE CacheRight' /\ ReadRight'
  BY <1>5 DEF Evict, Record, Forget, history
<1>6. CASE OpenData
  BY <1>6 DEF OpenData, history
<1>7. CASE CloseData
  BY <1>7 DEF CloseData, history
<1>8. ASSUME NEW r \in recorded, ReadCache(r[1]) PROVE CacheRight' /\ ReadRight'
  BY <1>8 DEF ReadCache, Cached, history
<1>9. ASSUME NEW r \in recorded, ReadFile(r[1], r[2]) PROVE CacheRight' /\ ReadRight'
  <2>1. grown' = grown
    BY <1>9 DEF ReadFile, history
  <2>2. QED
    BY <1>9, <2>1, ReadFileRight
<1>10. CASE VerifyBlock \/ EndVerify
  BY <1>10 DEF VerifyBlock, EndVerify, history
<1>11. ASSUME NEW trace \in Traces, BeginVerify(trace) PROVE CacheRight' /\ ReadRight'
  BY <1>11 DEF BeginVerify, history
<1>12. QED
  BY <1>1, <1>2, <1>3, <1>4, <1>5, <1>6, <1>7, <1>8, <1>9, <1>10, <1>11 DEF Next

-----------------------------------------------------------------------------
LEMMA InitIInv == Init => IInv
<1> SUFFICES ASSUME Init PROVE IInv
  OBVIOUS
<1>1. TInv
  BY InitTInv
<1>2. OneLayout
  <2> DEFINE off == [k \in 1..1 |-> 0]
  <2>1. Layout(lastTrace, 1, off)
    <3>1. Len(lastTrace) = 0
      BY EmptySeq DEF Init
    <3>2. QED
      BY <3>1 DEF Layout
  <2>2. Len(files) = 0 /\ DOMAIN index = {} /\ recorded = {} /\ loader.pc = "none" /\ ~finished
    BY EmptySeq DEF Init, Idle
  <2>3. Follows(1, off)
    BY <2>2 DEF Follows, Loading
  <2>4. QED
    BY <2>1, <2>3 DEF OneLayout
<1>3. CacheRight /\ ReadRight
  BY DEF Init, CacheRight, ReadRight
<1>4. QED
  BY <1>1, <1>2, <1>3 DEF IInv

LEMMA NextIInv == IInv /\ [Next]_vars => IInv'
BY NextTInv, NextOneLayout, NextReadRight DEF IInv

LEMMA SpecIInv == Spec => []IInv
BY InitIInv, NextIInv, PTL DEF Spec

LEMMA TInvTypeOK == TInv => TypeOK
<1> SUFFICES ASSUME TInv PROVE TypeOK
  OBVIOUS
<1> USE DEF TInv, Types, LoaderRight
<1>1. \A f \in DOMAIN files : Range(files[f]) \subseteq Cells
  <2>1. DOMAIN files = 1..Len(files)
    BY LenProperties
  <2>2. ASSUME NEW f \in 1..Len(files) PROVE Range(files[f]) \subseteq Cells
    <3>1. files[f] \in Seq(Cells)
      BY ElementOfSeq
    <3>2. DOMAIN files[f] = 1..Len(files[f])
      BY <3>1, LenProperties
    <3>3. \A i \in 1..Len(files[f]) : files[f][i] \in Cells
      BY <3>1, ElementOfSeq
    <3>4. QED
      BY <3>2, <3>3 DEF Range
  <2>3. QED
    BY <2>1, <2>2
<1>2. loader.pc \in {"none", "create", "set", "write"}
  BY DEF LoaderType
<1>3. QED
  BY <1>1, <1>2 DEF TypeOK

LEMMA FinishedReadableFollows ==
    ASSUME TInv, OneLayout
    PROVE  FinishedReadable
<1> SUFFICES ASSUME grown, finished, NEW r \in recorded PROVE ReadsAt(r[1], r[2])
  BY DEF FinishedReadable
<1>1. PICK m, off : Layout(lastTrace, m, off) /\ Follows(m, off)
  BY DEF OneLayout
<1>2. /\ r[1] \in Block /\ r[2] \in Nat /\ lastTrace \in Seq(Block)
      /\ files \in Seq(Seq(Cells)) /\ current \in 0..Len(files) /\ current # 0
  BY DEF TInv, Types, LoaderRight
<1>3. current \in 1..Len(files) /\ files[current] \in Seq(Cells)
  <2>1. Len(files) \in Nat
    BY <1>2, LenProperties
  <2>2. current \in 1..Len(files)
    BY <1>2, <2>1
  <2>3. QED
    BY <1>2, <2>2, ElementOfSeq
<1>4. /\ Laid(files[current], lastTrace, m, off) /\ Len(files[current]) = off[m]
      /\ Placed(r[1], r[2], lastTrace, m, off)
  BY <1>1, <1>3 DEF Follows
<1>5. QED
  BY <1>1, <1>2, <1>3, <1>4, PlacedInWhole DEF ReadsAt

(* The variables of the common data store keep their types, and while it loads,
   the offset cds_loader counts is the length of the file it writes. *)
THEOREM CdsTypes == Spec => []TypeOK
<1>1. IInv => TypeOK
  BY TInvTypeOK DEF IInv
<1>2. QED
  BY <1>1, SpecIInv, PTL

(* CdsData::Read returns the data of the block that was asked for, or fails: with
   any traces that extend one another, loads that die, entries that memcached
   loses and files that are removed under a reader. *)
THEOREM ReadsAreRight == Spec => []ReadRight
<1>1. IInv => ReadRight
  BY DEF IInv
<1>2. QED
  BY <1>1, SpecIInv, PTL

(* When cds_loader has ended, every block that a recipe ever recorded is in the data
   file at the offset recorded, if the traces extended one another. *)
THEOREM RecipesReadable == Spec => []FinishedReadable
<1>1. IInv => FinishedReadable
  BY FinishedReadableFollows DEF IInv
<1>2. QED
  BY <1>1, SpecIInv, PTL

-----------------------------------------------------------------------------
(***************************************************************************)
(* cds_verify.  Whatever was loaded before, the load of the last trace     *)
(* follows the layout of that trace that goes as far as the loader does.   *)
(* A clean verification of the same trace that began after that load did   *)
(* has compared memcached with this layout, and what the loader sets       *)
(* meanwhile follows it, too.                                              *)
(***************************************************************************)

Maximal(t, m, off) == Layout(t, m, off) /\ ~(m <= Len(t) /\ Acceptable(t[m]))

VerifierType ==
    [pc : {"none", "check"}, trace : Seq(Block), k : Nat \ {0}, offset : Nat, clean : BOOLEAN,
     seen : Nat]

VTypes ==
    /\ verifier \in VerifierType
    /\ loads \in Nat /\ verifier.seen <= loads
    /\ verifier.pc = "none" /\ verifier.clean => verifier.k > Len(verifier.trace)
    /\ \A b \in DOMAIN index : Acceptable(b)

LoadFollows(m, off) ==
    /\ Loading => /\ loader.k <= m /\ loader.offset = off[loader.k]
                  /\ Laid(files[current], lastTrace, m, off)
    /\ finished => /\ Laid(files[current], lastTrace, m, off)
                   /\ Len(files[current]) = off[m]

Relevant == verifier.trace = lastTrace /\ verifier.seen = loads /\ verifier.clean

CheckFollows(m, off) ==
    Relevant =>
        /\ verifier.k <= m /\ verifier.offset = off[verifier.k]
        /\ \A j \in 1..(verifier.k - 1) :
               lastTrace[j] \in DOMAIN index =>
                   Placed(lastTrace[j], index[lastTrace[j]], lastTrace, m, off)

LastLoad == \A m, off : Maximal(lastTrace, m, off) => LoadFollows(m, off) /\ CheckFollows(m, off)

LEMMA LeastNat ==
    ASSUME NEW S \in SUBSET Nat, S # {}
    PROVE  \E n \in S : \A m \in S : n <= m
<1>1. IsWellFoundedOn(OpToRel(<, Nat), Nat)
  BY NatLessThanWellFounded
<1>2. PICK n \in S : \A m \in S : ~(<<m, n>> \in OpToRel(<, Nat))
  BY <1>1, WFMin
<1>3. \A m \in S : ~(m < n)
  BY <1>2 DEF OpToRel
<1>4. QED
  BY <1>3

(* Every trace has a layout that goes as far as it can. *)
LEMMA MaximalExists ==
    ASSUME NEW t \in Seq(Block)
    PROVE  \E m, off : Maximal(t, m, off)
<1> DEFINE Left == {n \in Nat : \E m, off : Layout(t, m, off) /\ n = Len(t) + 1 - m}
<1>1. Len(t) \in Nat
  BY LenProperties
<1>2. Layout(t, 1, [k \in 1..1 |-> 0])
  BY <1>1 DEF Layout
<1>3. Left # {}
  <2>1. Len(t) + 1 - 1 \in Left
    BY <1>1, <1>2
  <2>2. QED
    BY <2>1
<1>4. PICK n \in Left : \A l \in Left : n <= l
  <2>1. Left \in SUBSET Nat
    OBVIOUS
  <2>2. QED
    BY <1>3, <2>1, LeastNat
<1>5. PICK m, off : Layout(t, m, off) /\ n = Len(t) + 1 - m
  BY <1>4
<1>6. ASSUME m <= Len(t), Acceptable(t[m])
      PROVE  FALSE
  <2>1. PICK more : Layout(t, m + 1, more)
    BY <1>5, <1>6, LayoutGrows
  <2>2. m \in Nat /\ m + 1 <= Len(t) + 1
    BY <1>5, <2>1, LayoutTypes
  <2>3. Len(t) + 1 - (m + 1) \in Left
    BY <1>1, <2>1, <2>2
  <2>4. QED
    BY <1>1, <1>4, <1>5, <2>2, <2>3
<1>7. QED
  BY <1>5, <1>6 DEF Maximal

LEMMA MaximalTypes ==
    ASSUME NEW t \in Seq(Block), NEW m, NEW off, Maximal(t, m, off)
    PROVE  /\ Layout(t, m, off) /\ m \in Nat /\ m >= 1 /\ off[1] = 0
           /\ \A k \in 1..m : off[k] \in Nat
           /\ \A k \in 1..m : k <= Len(t) /\ Acceptable(t[k]) => k < m
<1>1. Layout(t, m, off) /\ m \in Nat /\ m >= 1 /\ \A k \in 1..m : off[k] \in Nat
  BY LayoutTypes DEF Maximal
<1>2. off[1] = 0
  BY <1>1 DEF Layout
<1>3. ASSUME NEW k \in 1..m, k <= Len(t), Acceptable(t[k])
      PROVE  k < m
  <2>1. k # m
    BY <1>3 DEF Maximal
  <2>2. QED
    BY <1>1, <2>1
<1>4. QED
  BY <1>1, <1>2, <1>3

(* What SetIndex and Evict do to the entries. *)
LEMMA PutAndForget ==
    ASSUME NEW b, NEW v, index' \in {Put(index, b, v), index, Forget(index, b)}
    PROVE  \A c \in DOMAIN index' :
               \/ c = b /\ index'[c] = v
               \/ c \in DOMAIN index /\ index'[c] = index[c]
<1>1. CASE index' = Put(index, b, v)
  BY <1>1 DEF Put
<1>2. CASE index' = index
  BY <1>2
<1>3. CASE index' = Forget(index, b)
  BY <1>3 DEF Forget
<1>4. QED
  BY <1>1, <1>2, <1>3

LEMMA InitVTypes == Init => VTypes
<1> SUFFICES ASSUME Init
             PROVE  VTypes
  OBVIOUS
<1>1. verifier = IdleVerifier /\ loads = 0 /\ index = << >>
  BY DEF Init
<1>2. verifier \in VerifierType /\ verifier.seen = 0 /\ verifier.clean = FALSE
  BY <1>1, EmptySeq DEF IdleVerifier, VerifierType
<1>3. QED
  BY <1>1, <1>2 DEF VTypes

LEMMA VerifyBlockStep ==
    ASSUME VTypes, VerifyBlock
    PROVE  /\ verifier.pc = "check" /\ verifier.k \in 1..Len(verifier.trace)
           /\ verifier.trace \in Seq(Block)
           /\ \E hit \in {FALSE, Hit(verifier.trace[verifier.k], verifier.offset)} :
                 /\ verifier'.clean = (verifier.clean /\ hit)
                 /\ verifier'.clean \in BOOLEAN
           /\ verifier'.pc = "check" /\ verifier'.trace = verifier.trace
           /\ verifier'.k = verifier.k + 1 /\ verifier'.seen = verifier.seen
           /\ verifier'.offset = verifier.offset + Size[verifier.trace[verifier.k]]
           /\ verifier' \in VerifierType
<1> DEFINE b == verifier.trace[verifier.k]
<1>1. /\ verifier \in VerifierType /\ verifier.pc = "check" /\ verifier.trace \in Seq(Block)
      /\ verifier.k \in Nat \ {0} /\ verifier.k <= Len(verifier.trace) /\ verifier.offset \in Nat
      /\ verifier.clean \in BOOLEAN /\ verifier.seen \in Nat
  BY DEF VTypes, VerifierType, VerifyBlock
<1>2. verifier.k \in 1..Len(verifier.trace) /\ b \in Block /\ Size[b] \in Nat
  <2>1. verifier.k \in 1..Len(verifier.trace)
    BY <1>1, LenProperties
  <2>2. QED
    BY <1>1, <2>1, ElementOfSeq, SizeNat
<1>3. PICK hit \in {FALSE, Hit(b, verifier.offset)} :
          verifier' = [verifier EXCEPT !.k = @ + 1, !.offset = @ + Size[b], !.clean = @ /\ hit]
  BY Zenon DEF VerifyBlock
<1>4. hit \in BOOLEAN /\ (verifier.clean /\ hit) \in BOOLEAN
  BY <1>1, <1>3 DEF Hit
<1> HIDE DEF b
<1>5. verifier' = [pc |-> "check", trace |-> verifier.trace, k |-> verifier.k + 1,
                   offset |-> verifier.offset + Size[b], clean |-> verifier.clean /\ hit,
                   seen |-> verifier.seen]
  BY <1>1, <1>3 DEF VerifierType
<1>6. verifier' \in VerifierType
  <2>1. verifier.k + 1 \in Nat \ {0} /\ verifier.offset + Size[b] \in Nat
    BY <1>1, <1>2
  <2>2. QED
    BY <1>1, <1>4, <1>5, <2>1 DEF VerifierType
<1>7. verifier'.clean = (verifier.clean /\ hit) /\ verifier'.clean \in BOOLEAN
  BY <1>4, <1>5
<1>8. /\ verifier'.pc = "check" /\ verifier'.trace = verifier.trace
      /\ verifier'.k = verifier.k + 1 /\ verifier'.seen = verifier.seen
      /\ verifier'.offset = verifier.offset + Size[b]
  BY <1>5
<1>9. QED
  BY <1>1, <1>2, <1>3, <1>6, <1>7, <1>8 DEF b

LEMMA NextVTypes == TInv /\ VTypes /\ [Next]_vars => VTypes'
<1> SUFFICES ASSUME TInv, VTypes, [Next]_vars
             PROVE  VTypes'
  OBVIOUS
<1>1. ASSUME UNCHANGED <<verifier, loads, index>>
      PROVE  VTypes'
  BY <1>1 DEF VTypes
<1>2. ASSUME NEW trace \in Traces, BeginLoad(trace)
      PROVE  VTypes'
  <2>1. loads' = loads + 1 /\ UNCHANGED <<verifier, index>>
    BY <1>2 DEF BeginLoad
  <2>2. verifier.seen \in Nat
    BY DEF VTypes, VerifierType
  <2>3. QED
    BY <2>1, <2>2 DEF VTypes
<1>3. CASE SetIndex
  <2> DEFINE b == loader.trace[loader.k]
  <2>1. /\ HasBlock /\ UNCHANGED <<verifier, loads>>
        /\ index' \in {Put(index, b, loader.offset), index, Forget(index, b)}
    BY <1>3 DEF SetIndex, history
  <2>2. \A c \in DOMAIN index' : c = b \/ c \in DOMAIN index
    BY <2>1, PutAndForget
  <2>3. Acceptable(b)
    BY <2>1, LoadingProps
  <2>4. QED
    BY <2>1, <2>2, <2>3 DEF VTypes
<1>4. ASSUME NEW b \in Block, Evict(b)
      PROVE  VTypes'
  BY <1>4 DEF Evict, Forget, VTypes, history
<1>5. ASSUME NEW trace \in Traces, BeginVerify(trace)
      PROVE  VTypes'
  <2>1. verifier' = [pc |-> "check", trace |-> trace, k |-> 1, offset |-> 0, clean |-> TRUE,
                     seen |-> loads]
    BY <1>5 DEF BeginVerify, IdleVerifier
  <2>2. trace \in Seq(Block) /\ loads \in Nat
    BY CdsAssumption DEF VTypes
  <2>3. verifier' \in VerifierType /\ verifier'.pc = "check" /\ verifier'.seen <= loads
    BY <2>1, <2>2 DEF VerifierType
  <2>4. QED
    BY <1>5, <2>2, <2>3 DEF BeginVerify, VTypes, history
<1>6. CASE VerifyBlock
  <2>1. UNCHANGED <<loads, index>>
    BY <1>6 DEF VerifyBlock, history
  <2>2. QED
    BY <1>6, <2>1, VerifyBlockStep DEF VTypes
<1>7. CASE EndVerify
  <2>1. /\ verifier.k > Len(verifier.trace) /\ UNCHANGED <<loads, index>>
        /\ verifier' = [verifier EXCEPT !.pc = "none"]
    BY <1>7 DEF EndVerify, history
  <2>2. /\ verifier' \in VerifierType /\ verifier'.seen = verifier.seen
        /\ verifier'.k = verifier.k /\ verifier'.trace = verifier.trace
    BY <2>1 DEF VTypes, VerifierType
  <2>3. QED
    BY <2>1, <2>2 DEF VTypes
<1>8. [Next]_vars =>
          \/ UNCHANGED <<verifier, loads, index>>
          \/ \E trace \in Traces : BeginLoad(trace) \/ BeginVerify(trace)
          \/ SetIndex \/ VerifyBlock \/ EndVerify \/ \E b \in Block : Evict(b)
  BY DEF Next, CreateFile, WriteBlock, EndLoad, LoaderDies, Record, OpenData, CloseData,
         ReadCache, ReadFile, vars, fileVars, history
<1>9. QED
  BY <1>1, <1>2, <1>3, <1>4, <1>5, <1>6, <1>7, <1>8

(* The load keeps to the layout. *)
LEMMA LoadFollowsNext ==
    ASSUME TInv, [Next]_vars, UNCHANGED lastTrace, NEW m, NEW off,
           Maximal(lastTrace, m, off), LoadFollows(m, off)
    PROVE  LoadFollows(m, off)'
<1>1. /\ lastTrace \in Seq(Block) /\ files \in Seq(Seq(Cells)) /\ Len(files) \in Nat
      /\ loader.k \in Nat \ {0} /\ loader.pc \in {"none", "create", "set", "write"}
      /\ loader.pc # "none" => loader.trace = lastTrace /\ ~finished
      /\ finished => current \in 1..Len(files)
  BY LenProperties DEF TInv, Types, LoaderRight, LoaderType
<1>2. /\ Layout(lastTrace, m, off) /\ m \in Nat /\ m >= 1 /\ off[1] = 0
      /\ \A k \in 1..m : k <= Len(lastTrace) /\ Acceptable(lastTrace[k]) => k < m
  BY <1>1, MaximalTypes
<1>3. Len(lastTrace) \in Nat
  BY <1>1, LenProperties
<1>4. ASSUME UNCHANGED <<files, current, loader, finished>>
      PROVE  LoadFollows(m, off)'
  BY <1>4 DEF LoadFollows, Loading
<1>5. ASSUME NEW trace \in Traces, BeginLoad(trace)
      PROVE  LoadFollows(m, off)'
  BY <1>5 DEF BeginLoad, Idle, LoadFollows, Loading
<1>6. CASE CreateFile
  <2>1. /\ files' = Append(files, << >>) /\ current' = Len(files') /\ finished' = finished
        /\ loader.pc = "create" /\ loader'.k = 1 /\ loader'.offset = 0
    BY <1>6 DEF CreateFile, history, TInv, Types, LoaderRight, LoaderType
  <2>2. files'[current'] = << >> /\ ~finished'
    BY <1>1, <2>1, FileCreated
  <2>3. Laid(<< >>, lastTrace, m, off)
    BY <1>1, <1>2, EmptyLaid
  <2>4. QED
    BY <1>2, <2>1, <2>2, <2>3 DEF LoadFollows
<1>7. CASE SetIndex
  <2>1. /\ loader.pc = "set" /\ loader'.k = loader.k /\ loader'.offset = loader.offset
        /\ UNCHANGED <<files, current, finished>>
    BY <1>7 DEF SetIndex, fileVars, history, TInv, Types, LoaderType
  <2>2. QED
    BY <2>1 DEF LoadFollows, Loading
<1>8. CASE WriteBlock
  <2> DEFINE k == loader.k
             f == files[current]
             new == f \o Data(lastTrace[k])
  <2>1. /\ loader.pc = "write" /\ Loading /\ HasBlock /\ loader.trace = lastTrace /\ ~finished
        /\ k <= m /\ loader.offset = off[k] /\ Len(f) = off[k] /\ Laid(f, lastTrace, m, off)
        /\ current \in 1..Len(files) /\ f \in Seq(Cells)
    BY <1>1, <1>8, LoadingProps DEF WriteBlock, LoadFollows, Loading, TInv, LoaderRight
  <2>2. k \in 1..(m - 1) /\ k + 1 <= m
    <3>1. k \in 1..m /\ k <= Len(lastTrace) /\ Acceptable(lastTrace[k])
      BY <1>1, <1>2, <2>1 DEF HasBlock
    <3>2. k < m
      BY <1>2, <3>1
    <3>3. QED
      BY <1>1, <1>2, <3>2
  <2>3. off[k + 1] = off[k] + Size[lastTrace[k]]
    BY <1>2, <2>2 DEF Layout
  <2>4. /\ files' = [files EXCEPT ![current] = new] /\ UNCHANGED <<current, finished>>
        /\ loader'.k = k + 1 /\ loader'.offset = off[k + 1]
    BY <1>8, <2>1, <2>3 DEF WriteBlock, history, TInv, Types, LoaderType
  <2> HIDE DEF k, f
  <2>5. new \in Seq(Cells) /\ Laid(new, lastTrace, m, off)
    BY <1>1, <1>2, <2>1, <2>2, LaidWrite
  <2> HIDE DEF new
  <2>6. files'[current'] = new
    BY <1>1, <2>1, <2>4, <2>5, FileReplaced
  <2>7. QED
    BY <2>1, <2>2, <2>4, <2>5, <2>6 DEF LoadFollows
<1>9. CASE EndLoad
  <2>1. /\ loader.pc = "set" /\ Loading /\ ~HasBlock /\ loader.trace = lastTrace
        /\ loader.k <= m /\ loader.offset = off[loader.k] /\ Laid(files[current], lastTrace, m, off)
        /\ Len(files[current]) = off[loader.k]
    BY <1>1, <1>9 DEF EndLoad, LoadFollows, Loading, TInv, LoaderRight
  <2>2. loader.k = m
    <3>1. ASSUME loader.k < m
          PROVE  FALSE
      <4>1. loader.k \in 1..(m - 1) /\ loader.k <= Len(lastTrace)
        BY <1>1, <1>2, <1>3, <3>1, LayoutTypes
      <4>2. Acceptable(lastTrace[loader.k])
        BY <1>2, <4>1 DEF Layout
      <4>3. QED
        BY <2>1, <4>1, <4>2 DEF HasBlock
    <3>2. QED
      BY <1>1, <1>2, <2>1, <3>1
  <2>3. loader'.pc = "none" /\ UNCHANGED <<files, current>>
    BY <1>9 DEF EndLoad, Idle, fileVars
  <2>4. QED
    BY <2>1, <2>2, <2>3 DEF LoadFollows, Loading
<1>10. CASE LoaderDies
  <2>1. loader'.pc = "none" /\ finished' = finished /\ loader.pc # "none"
    BY <1>10 DEF LoaderDies, Idle, history
  <2>2. QED
    BY <1>1, <2>1 DEF LoadFollows, Loading
<1>11. CASE OpenData
  <2>1. CASE current # 0
    BY <1>4, <1>11, <2>1 DEF OpenData, fileVars, history
  <2>2. CASE current = 0
    <3>1. ~Loading /\ ~finished /\ UNCHANGED <<loader, finished>>
      BY <1>11, <2>2 DEF OpenData, history, TInv, LoaderRight
    <3>2. QED
      BY <3>1 DEF LoadFollows, Loading
  <2>3. QED
    BY <2>1, <2>2
<1>12. [Next]_vars =>
           \/ UNCHANGED <<files, current, loader, finished>>
           \/ \E trace \in Traces : BeginLoad(trace)
           \/ CreateFile \/ SetIndex \/ WriteBlock \/ EndLoad \/ LoaderDies \/ OpenData
  BY DEF Next, BeginVerify, Evict, Record, CloseData, ReadCache, ReadFile, VerifyBlock, EndVerify,
         vars, fileVars, history
<1>13. QED
  BY <1>4, <1>5, <1>6, <1>7, <1>8, <1>9, <1>10, <1>11, <1>12

(* What the verification saw stays as right as it was. *)
LEMMA CheckKept ==
    ASSUME NEW m, NEW off, CheckFollows(m, off),
           verifier'.trace = verifier.trace, verifier'.k = verifier.k,
           verifier'.offset = verifier.offset, verifier'.clean = verifier.clean,
           verifier'.seen = verifier.seen, UNCHANGED <<lastTrace, loads>>,
           \A b \in DOMAIN index' : \/ b \in DOMAIN index /\ index'[b] = index[b]
                                    \/ Placed(b, index'[b], lastTrace, m, off)
    PROVE  CheckFollows(m, off)'
BY DEF CheckFollows, Relevant

LEMMA CheckFollowsNext ==
    ASSUME TInv, VTypes, [Next]_vars, UNCHANGED <<lastTrace, loads>>, NEW m, NEW off,
           Maximal(lastTrace, m, off), LoadFollows(m, off), CheckFollows(m, off)
    PROVE  CheckFollows(m, off)'
<1>1. /\ lastTrace \in Seq(Block) /\ loader.k \in Nat \ {0}
      /\ loader.pc # "none" => loader.trace = lastTrace
  BY DEF TInv, Types, LoaderRight, LoaderType
<1>2. /\ Layout(lastTrace, m, off) /\ m \in Nat /\ m >= 1 /\ off[1] = 0
      /\ \A k \in 1..m : k <= Len(lastTrace) /\ Acceptable(lastTrace[k]) => k < m
  BY <1>1, MaximalTypes
<1>3. ASSUME UNCHANGED <<verifier, index>>
      PROVE  CheckFollows(m, off)'
  BY <1>3, CheckKept
<1>4. CASE SetIndex
  <2> DEFINE b == lastTrace[loader.k]
  <2>1. /\ loader.pc = "set" /\ Loading /\ HasBlock /\ loader.trace = lastTrace
        /\ loader.k <= m /\ loader.offset = off[loader.k] /\ UNCHANGED verifier
        /\ index' \in {Put(index, b, off[loader.k]), index, Forget(index, b)}
    BY <1>1, <1>4 DEF SetIndex, LoadFollows, Loading
  <2>2. loader.k \in 1..(m - 1)
    <3>1. loader.k \in 1..m /\ loader.k <= Len(lastTrace) /\ Acceptable(lastTrace[loader.k])
      BY <1>1, <1>2, <2>1 DEF HasBlock
    <3>2. loader.k < m
      BY <1>2, <3>1
    <3>3. QED
      BY <1>1, <1>2, <3>2
  <2>3. Placed(b, off[loader.k], lastTrace, m, off)
    BY <2>2 DEF Placed
  <2>4. \A c \in DOMAIN index' :
            \/ c = b /\ index'[c] = off[loader.k]
            \/ c \in DOMAIN index /\ index'[c] = index[c]
    BY <2>1, PutAndForget
  <2> HIDE DEF b
  <2>5. QED
    BY <2>1, <2>3, <2>4, CheckKept
<1>5. ASSUME NEW b \in Block, Evict(b)
      PROVE  CheckFollows(m, off)'
  <2>1. UNCHANGED verifier /\ \A c \in DOMAIN index' : c \in DOMAIN index /\ index'[c] = index[c]
    BY <1>5 DEF Evict, Forget
  <2>2. QED
    BY <2>1, CheckKept
<1>6. ASSUME NEW trace \in Traces, BeginVerify(trace)
      PROVE  CheckFollows(m, off)'
  <2>1. verifier'.k = 1 /\ verifier'.offset = 0
    BY <1>6 DEF BeginVerify, IdleVerifier
  <2>2. \A j \in 1..(1 - 1) : FALSE
    OBVIOUS
  <2>3. QED
    BY <1>2, <2>1, <2>2 DEF CheckFollows
<1>7. CASE VerifyBlock
  <2> DEFINE k == verifier.k
             b == verifier.trace[k]
  <2>1. /\ k \in 1..Len(verifier.trace) /\ verifier.trace \in Seq(Block)
        /\ verifier'.trace = verifier.trace /\ verifier'.k = k + 1
        /\ verifier'.seen = verifier.seen /\ verifier'.offset = verifier.offset + Size[b]
    BY <1>7, VerifyBlockStep
  <2>2. PICK hit \in {FALSE, Hit(b, verifier.offset)} :
            verifier'.clean = (verifier.clean /\ hit) /\ verifier'.clean \in BOOLEAN
    BY <1>7, VerifyBlockStep
  <2>3. index' = index
    BY <1>7 DEF VerifyBlock
  <2> SUFFICES ASSUME Relevant'
               PROVE  /\ k + 1 <= m /\ verifier.offset + Size[b] = off[k + 1]
                      /\ \A j \in 1..k : lastTrace[j] \in DOMAIN index =>
                             Placed(lastTrace[j], index[lastTrace[j]], lastTrace, m, off)
    <3>1. k \in Nat /\ (k + 1) - 1 = k
      BY <2>1
    <3>2. QED
      BY <2>1, <2>3, <3>1 DEF CheckFollows
  <2>4. verifier.clean /\ Hit(b, verifier.offset)
    <3>1. verifier.clean \in BOOLEAN
      BY DEF VTypes, VerifierType
    <3>2. verifier.clean /\ hit
      BY <2>2, <3>1 DEF Relevant
    <3>3. QED
      BY <2>2, <3>2
  <2>5. Relevant
    BY <2>1, <2>4 DEF Relevant
  <2>6. /\ k <= m /\ verifier.offset = off[k] /\ verifier.trace = lastTrace
        /\ \A j \in 1..(k - 1) : lastTrace[j] \in DOMAIN index =>
               Placed(lastTrace[j], index[lastTrace[j]], lastTrace, m, off)
    BY <2>5 DEF CheckFollows, Relevant
  <2>7. b \in DOMAIN index /\ index[b] = off[k] /\ Acceptable(b) /\ b = lastTrace[k]
    BY <2>4, <2>6 DEF Hit, VTypes
  <2> HIDE DEF k, b
  <2>8. Len(verifier.trace) \in Nat
    BY <2>1, LenProperties
  <2>9. k \in 1..(m - 1) /\ k + 1 <= m
    <3>1. k \in 1..m /\ k <= Len(lastTrace) /\ Acceptable(lastTrace[k])
      BY <1>2, <2>1, <2>6, <2>7, <2>8
    <3>2. k < m
      BY <1>2, <3>1
    <3>3. QED
      BY <1>2, <3>1, <3>2
  <2>10. off[k + 1] = off[k] + Size[b]
    BY <1>2, <2>7, <2>9 DEF Layout
  <2>11. Placed(lastTrace[k], index[lastTrace[k]], lastTrace, m, off)
    BY <2>7, <2>9 DEF Placed
  <2>12. \A j \in 1..k : j = k \/ j \in 1..(k - 1)
    BY <2>9
  <2>13. QED
    BY <2>6, <2>9, <2>10, <2>11, <2>12
<1>8. CASE EndVerify
  <2>1. /\ verifier'.trace = verifier.trace /\ verifier'.k = verifier.k
        /\ verifier'.offset = verifier.offset /\ verifier'.clean = verifier.clean
        /\ verifier'.seen = verifier.seen /\ UNCHANGED index
    BY <1>8 DEF EndVerify, VTypes, VerifierType
  <2>2. QED
    BY <2>1, CheckKept
<1>9. [Next]_vars =>
          \/ UNCHANGED <<verifier, index>>
          \/ \E trace \in Traces : BeginVerify(trace)
          \/ SetIndex \/ VerifyBlock \/ EndVerify \/ \E b \in Block : Evict(b)
  BY DEF Next, BeginLoad, CreateFile, WriteBlock, EndLoad, LoaderDies, Record, OpenData, CloseData,
         ReadCache, ReadFile, vars, fileVars, history
<1>10. QED
  BY <1>3, <1>4, <1>5, <1>6, <1>7, <1>8, <1>9

LEMMA InitLastLoad == Init => LastLoad
<1> SUFFICES ASSUME Init
             PROVE  LastLoad
  OBVIOUS
<1>1. ~Loading /\ ~finished /\ ~Relevant
  BY DEF Init, Idle, IdleVerifier, Loading, Relevant
<1>2. QED
  BY <1>1 DEF LastLoad, LoadFollows, CheckFollows

LEMMA NextLastLoad == TInv /\ VTypes /\ LastLoad /\ [Next]_vars => LastLoad'
<1> SUFFICES ASSUME TInv, VTypes, LastLoad, [Next]_vars
             PROVE  LastLoad'
  OBVIOUS
<1>1. CASE UNCHANGED <<lastTrace, loads>>
  <2> SUFFICES ASSUME NEW m, NEW off, Maximal(lastTrace, m, off)
               PROVE  LoadFollows(m, off)' /\ CheckFollows(m, off)'
    BY <1>1 DEF LastLoad
  <2>1. LoadFollows(m, off) /\ CheckFollows(m, off)
    BY DEF LastLoad
  <2>2. QED
    BY <1>1, <2>1, LoadFollowsNext, CheckFollowsNext
<1>2. ASSUME NEW trace \in Traces, BeginLoad(trace)
      PROVE  LastLoad'
  <2>1. loads' = loads + 1 /\ loader'.pc = "create" /\ ~finished' /\ verifier' = verifier
    BY <1>2 DEF BeginLoad, Idle
  <2>2. verifier.seen \in Nat /\ loads \in Nat /\ verifier.seen <= loads
    BY DEF VTypes, VerifierType
  <2>3. ~Relevant' /\ ~Loading'
    BY <2>1, <2>2 DEF Relevant, Loading
  <2>4. QED
    BY <2>1, <2>3 DEF LastLoad, LoadFollows, CheckFollows
<1>3. [Next]_vars => UNCHANGED <<lastTrace, loads>> \/ \E trace \in Traces : BeginLoad(trace)
  BY DEF Next, BeginVerify, CreateFile, SetIndex, WriteBlock, EndLoad, LoaderDies, Evict, Record,
         OpenData, CloseData, ReadCache, ReadFile, VerifyBlock, EndVerify, vars, fileVars, history
<1>4. QED
  BY <1>1, <1>2, <1>3

LEMMA VerifiedRightFollows ==
    ASSUME TInv, VTypes, LastLoad
    PROVE  VerifiedRight
<1> SUFFICES ASSUME verifier.pc = "none", verifier.clean, verifier.seen = loads, finished,
                    lastTrace = verifier.trace, NEW b \in DOMAIN index \cap Range(lastTrace)
             PROVE  ReadsAt(b, index[b])
  BY DEF VerifiedRight
<1>1. /\ lastTrace \in Seq(Block) /\ files \in Seq(Seq(Cells)) /\ Len(files) \in Nat
      /\ current \in 1..Len(files) /\ b \in Block /\ index[b] \in Nat
  BY LenProperties DEF TInv, Types, LoaderRight
<1>2. PICK m, off : Maximal(lastTrace, m, off)
  BY <1>1, MaximalExists
<1>3. /\ Layout(lastTrace, m, off) /\ Relevant
      /\ LoadFollows(m, off) /\ CheckFollows(m, off)
  BY <1>2 DEF LastLoad, Maximal, Relevant
<1>4. /\ Laid(files[current], lastTrace, m, off) /\ Len(files[current]) = off[m]
      /\ files[current] \in Seq(Cells)
  BY <1>1, <1>3, ElementOfSeq DEF LoadFollows
<1>5. DOMAIN lastTrace = 1..Len(lastTrace) /\ Len(lastTrace) \in Nat
  BY <1>1, LenProperties
<1>6. PICK j \in 1..Len(lastTrace) : lastTrace[j] = b
  BY <1>5 DEF Range
<1>7. verifier.k \in Nat /\ verifier.k > Len(lastTrace)
  BY DEF VTypes, VerifierType
<1>8. j \in 1..(verifier.k - 1)
  BY <1>5, <1>7
<1>9. Placed(b, index[b], lastTrace, m, off)
  BY <1>3, <1>6, <1>8 DEF CheckFollows
<1>10. QED
  BY <1>1, <1>3, <1>4, <1>9, PlacedInWhole DEF ReadsAt

(* If cds_verify finds every block of the trace that was loaded last where the trace
   has it, memcached says of each of these blocks where it is, or nothing: whatever
   was loaded before, whichever sets failed, and with the load running beside it. *)
THEOREM CleanVerification == Spec => []VerifiedRight
<1>1. Init => TInv /\ VTypes /\ LastLoad
  BY InitTInv, InitVTypes, InitLastLoad
<1>2. TInv /\ VTypes /\ LastLoad /\ [Next]_vars => (TInv /\ VTypes /\ LastLoad)'
  BY NextTInv, NextVTypes, NextLastLoad
<1>3. TInv /\ VTypes /\ LastLoad => VerifiedRight
  BY VerifiedRightFollows
<1>4. QED
  BY <1>1, <1>2, <1>3, PTL DEF Spec
=============================================================================
