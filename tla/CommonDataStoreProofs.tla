----------------------- MODULE CommonDataStoreProofs -----------------------
(***************************************************************************)
(* Theorems about CommonDataStore, for every value of its constants.       *)
(*                                                                         *)
(* The records of the index are FlattenSeq of the records of its logs, and *)
(* so are the records of a partition: the first part proves that FlattenSeq*)
(* goes along with Append, by the least length at which it would not.      *)
(***************************************************************************)
EXTENDS CommonDataStore, SequenceTheorems, WellFoundedInduction, TLAPS

LEMMA LeastNat ==
    ASSUME NEW S \in SUBSET Nat, S # {}
    PROVE  \E n \in S : \A m \in S : n <= m
<1>1. IsWellFoundedOn(OpToRel(<, Nat), Nat)
  BY NatLessThanWellFounded
<1>2. PICK n \in S : \A m \in S : ~(<<m, n>> \in OpToRel(<, Nat))
  BY <1>1, WFMin
<1>3. \A m \in S : ~(m < n)
  BY <1>2 DEF OpToRel
<1>4. QED
  BY <1>3

-----------------------------------------------------------------------------
(* FlattenSeq. *)

IsFlat(f, seqs, n) ==
    f = [i \in 1..n |-> IF i = 1 THEN seqs[i] ELSE f[i - 1] \o seqs[i]]

LEMMA FlatAt ==
    ASSUME NEW f, NEW seqs, NEW n, IsFlat(f, seqs, n), NEW i \in 1..n
    PROVE  f[i] = IF i = 1 THEN seqs[i] ELSE f[i - 1] \o seqs[i]
BY DEF IsFlat

LEMMA FlatExists ==
    ASSUME NEW seqs
    PROVE  \A n \in Nat \ {0} : \E f : IsFlat(f, seqs, n)
<1> DEFINE S == {n \in Nat \ {0} : ~\E f : IsFlat(f, seqs, n)}
<1> SUFFICES ASSUME S # {}
             PROVE  FALSE
  OBVIOUS
<1>1. PICK n \in S : \A m \in S : n <= m
  BY LeastNat
<1>2. CASE n = 1
  <2>1. IsFlat([i \in 1..1 |-> seqs[i]], seqs, 1)
    BY DEF IsFlat
  <2>2. QED
    BY <1>2, <2>1
<1>3. CASE n # 1
  <2>1. n \in Nat /\ n - 1 \in Nat \ {0} /\ n - 1 \notin S
    BY <1>1, <1>3
  <2>2. PICK f : IsFlat(f, seqs, n - 1)
    BY <2>1
  <2> DEFINE g == [i \in 1..n |-> IF i = n THEN f[n - 1] \o seqs[n] ELSE f[i]]
  <2>3. \A i \in 1..(n - 1) : g[i] = f[i]
    BY <2>1
  <2>4. ASSUME NEW i \in 1..n
        PROVE  g[i] = IF i = 1 THEN seqs[i] ELSE g[i - 1] \o seqs[i]
    <3>1. CASE i = n
      <4>1. n - 1 \in 1..(n - 1) /\ n \in 1..n
        BY <2>1
      <4>2. g[n] = f[n - 1] \o seqs[n]
        BY <4>1
      <4>3. g[n - 1] = f[n - 1]
        BY <2>3, <4>1
      <4>4. QED
        BY <1>3, <3>1, <4>2, <4>3
    <3>2. CASE i # n
      <4>1. i \in 1..(n - 1)
        BY <2>1, <3>2
      <4>2. f[i] = IF i = 1 THEN seqs[i] ELSE f[i - 1] \o seqs[i]
        BY <2>2, <4>1 DEF IsFlat
      <4>3. i # 1 => i - 1 \in 1..(n - 1)
        BY <4>1
      <4>4. QED
        BY <2>3, <4>1, <4>2, <4>3
    <3>3. QED
      BY <3>1, <3>2
  <2> HIDE DEF g
  <2>5. g = [i \in 1..n |-> g[i]]
    BY DEF g
  <2>6. IsFlat(g, seqs, n)
    BY <2>4, <2>5 DEF IsFlat
  <2>7. QED
    BY <2>6
<1>4. QED
  BY <1>2, <1>3

Agree(f, g, n) == \A i \in 1..n : f[i] = g[i]

(* What a flattening gives up to some length does not depend on what is behind. *)
LEMMA FlatAgrees ==
    ASSUME NEW sa, NEW sb, NEW m \in Nat, NEW k \in Nat, NEW fa, NEW fb,
           IsFlat(fa, sa, m), IsFlat(fb, sb, k), m <= k, Agree(sa, sb, m)
    PROVE  Agree(fa, fb, m)
<1> DEFINE S == {i \in 1..m : fa[i] # fb[i]}
<1> SUFFICES ASSUME S # {}
             PROVE  FALSE
  BY DEF Agree
<1>0. S \in SUBSET Nat
  OBVIOUS
<1>1. PICK i \in S : \A j \in S : i <= j
  BY <1>0, LeastNat
<1>2. i \in 1..m /\ i \in 1..k /\ fa[i] # fb[i]
  BY <1>1
<1>3. /\ fa[i] = IF i = 1 THEN sa[i] ELSE fa[i - 1] \o sa[i]
      /\ fb[i] = IF i = 1 THEN sb[i] ELSE fb[i - 1] \o sb[i]
  BY <1>2, FlatAt
<1>4. i # 1 => i - 1 \in 1..m /\ i - 1 \notin S
  BY <1>1, <1>2
<1>5. i # 1 => fa[i - 1] = fb[i - 1]
  BY <1>4
<1>6. QED
  BY <1>2, <1>3, <1>5 DEF Agree

LEMMA FlatType ==
    ASSUME NEW R, NEW seqs \in Seq(Seq(R)), NEW f, IsFlat(f, seqs, Len(seqs))
    PROVE  \A i \in 1..Len(seqs) : f[i] \in Seq(R)
<1> DEFINE S == {i \in 1..Len(seqs) : f[i] \notin Seq(R)}
<1> SUFFICES ASSUME S # {}
             PROVE  FALSE
  OBVIOUS
<1>0. Len(seqs) \in Nat /\ S \in SUBSET Nat
  BY LenProperties
<1>1. PICK i \in S : \A k \in S : i <= k
  BY <1>0, LeastNat
<1>2. i \in 1..Len(seqs) /\ seqs[i] \in Seq(R)
  BY <1>1, ElementOfSeq
<1>3. f[i] = IF i = 1 THEN seqs[i] ELSE f[i - 1] \o seqs[i]
  BY <1>2, FlatAt
<1>4. i # 1 => i - 1 \in 1..Len(seqs) /\ i - 1 \notin S
  BY <1>0, <1>1, <1>2
<1>5. i # 1 => f[i - 1] \in Seq(R)
  BY <1>4
<1>6. i # 1 => f[i - 1] \o seqs[i] \in Seq(R)
  BY <1>2, <1>5, ConcatProperties
<1>7. QED
  BY <1>1, <1>2, <1>3, <1>6

LEMMA FlattenSeqIs ==
    ASSUME NEW R, NEW seqs \in Seq(R), seqs # << >>
    PROVE  \E f : IsFlat(f, seqs, Len(seqs)) /\ FlattenSeq(seqs) = f[Len(seqs)]
<1> DEFINE f == CHOOSE f : IsFlat(f, seqs, Len(seqs))
<1>1. Len(seqs) \in Nat \ {0}
  BY EmptySeq
<1>2. IsFlat(f, seqs, Len(seqs))
  BY <1>1, FlatExists
<1>3. FlattenSeq(seqs) = f[Len(seqs)]
  BY <1>1 DEF FlattenSeq, IsFlat
<1> HIDE DEF f
<1>4. QED
  BY <1>2, <1>3

LEMMA FlattenEmpty == FlattenSeq(<< >>) = << >>
BY EmptySeq DEF FlattenSeq

LEMMA FlattenType ==
    ASSUME NEW R, NEW seqs \in Seq(Seq(R))
    PROVE  FlattenSeq(seqs) \in Seq(R)
<1>1. CASE seqs = << >>
  BY <1>1, FlattenEmpty, EmptySeq
<1>2. CASE seqs # << >>
  <2>1. PICK f : IsFlat(f, seqs, Len(seqs)) /\ FlattenSeq(seqs) = f[Len(seqs)]
    BY <1>2, FlattenSeqIs
  <2>2. Len(seqs) \in 1..Len(seqs)
    BY <1>2, EmptySeq
  <2>3. QED
    BY <2>1, <2>2, FlatType
<1>3. QED
  BY <1>1, <1>2

LEMMA FlattenAppend ==
    ASSUME NEW R, NEW seqs \in Seq(Seq(R)), NEW s \in Seq(R)
    PROVE  FlattenSeq(Append(seqs, s)) = FlattenSeq(seqs) \o s
<1>0. PICK t, n, k : t = Append(seqs, s) /\ n = Len(seqs) /\ k = Len(seqs) + 1
  OBVIOUS
<1>1. /\ n \in Nat /\ k \in Nat /\ n <= k /\ k = n + 1 /\ k \in 1..k /\ k - 1 = n
      /\ t \in Seq(Seq(R)) /\ t # << >> /\ Len(t) = k
      /\ \A i \in 1..n : seqs[i] = t[i]
      /\ t[k] = s
  <2>1. Len(seqs) \in Nat
    BY LenProperties
  <2>2. /\ t \in Seq(Seq(R)) /\ t # << >> /\ Len(t) = Len(seqs) + 1
        /\ \A i \in 1..Len(seqs) : t[i] = seqs[i]
        /\ t[Len(seqs) + 1] = s
    BY <1>0, AppendProperties
  <2>3. QED
    BY <1>0, <2>1, <2>2
<1>2. PICK g : IsFlat(g, t, k) /\ FlattenSeq(t) = g[k]
  BY <1>1, FlattenSeqIs
<1>3. g[k] = IF k = 1 THEN t[k] ELSE g[k - 1] \o t[k]
  BY <1>1, <1>2, FlatAt
<1>4. CASE seqs = << >>
  <2>1. FlattenSeq(seqs) \o s = s
    BY <1>4, FlattenEmpty, ConcatEmptySeq
  <2>2. k = 1
    BY <1>0, <1>4, EmptySeq
  <2>3. QED
    BY <1>0, <1>1, <1>2, <1>3, <2>1, <2>2
<1>5. CASE seqs # << >>
  <2>1. n \in 1..n /\ k # 1
    BY <1>0, <1>1, <1>5, EmptySeq
  <2>2. PICK f : IsFlat(f, seqs, n) /\ FlattenSeq(seqs) = f[n]
    BY <1>0, <1>5, FlattenSeqIs
  <2>3. Agree(f, g, n)
    <3>1. IsFlat(f, seqs, n) /\ IsFlat(g, t, k)
      BY <1>2, <2>2
    <3>2. Agree(seqs, t, n)
      BY <1>1 DEF Agree
    <3>3. n \in Nat /\ k \in Nat /\ n <= k
      BY <1>1
    <3>4. QED
      BY <3>1, <3>2, <3>3, FlatAgrees
  <2>4. QED
    BY <1>0, <1>1, <1>2, <1>3, <2>1, <2>2, <2>3 DEF Agree
<1>6. QED
  BY <1>4, <1>5

-----------------------------------------------------------------------------
(* The records of logs, and the records of a partition among them. *)

LEMMA RecordsOfEmpty == RecordsOf(<< >>) = << >>
<1>1. [n \in DOMAIN << >> |-> << >>[n].records] = << >>
  OBVIOUS
<1>2. QED
  BY <1>1, FlattenEmpty DEF RecordsOf

LEMMA RecordsOfAppend ==
    ASSUME NEW logs \in Seq(IndexLog), NEW l \in IndexLog
    PROVE  /\ RecordsOf(logs) \in Seq(IndexRecord)
           /\ RecordsOf(Append(logs, l)) = RecordsOf(logs) \o l.records
<1> DEFINE map == [n \in DOMAIN logs |-> logs[n].records]
           all == Append(logs, l)
           mapAll == [n \in DOMAIN all |-> all[n].records]
<1>1. /\ Len(logs) \in Nat /\ DOMAIN logs = 1..Len(logs)
      /\ all \in Seq(IndexLog) /\ DOMAIN all = 1..(Len(logs) + 1)
      /\ \A n \in 1..Len(logs) : all[n] = logs[n]
      /\ all[Len(logs) + 1] = l
      /\ l.records \in Seq(IndexRecord)
  BY AppendProperties, LenProperties DEF IndexLog
<1> HIDE DEF all
<1>2. /\ \A n \in 1..Len(logs) : logs[n].records \in Seq(IndexRecord)
      /\ \A n \in 1..(Len(logs) + 1) : all[n].records \in Seq(IndexRecord)
  <2>1. \A n \in 1..Len(logs) : logs[n] \in IndexLog
    BY ElementOfSeq
  <2>2. \A n \in 1..(Len(logs) + 1) : n \in 1..Len(logs) \/ n = Len(logs) + 1
    BY <1>1
  <2>3. \A n \in 1..(Len(logs) + 1) : all[n] \in IndexLog
    BY <1>1, <2>1, <2>2
  <2>4. QED
    BY <2>1, <2>3 DEF IndexLog
<1>3. /\ map \in Seq(Seq(IndexRecord)) /\ Len(map) = Len(logs)
      /\ \A n \in 1..Len(logs) : map[n] = logs[n].records
  BY <1>1, <1>2
<1>4. /\ mapAll \in Seq(Seq(IndexRecord)) /\ Len(mapAll) = Len(logs) + 1
      /\ \A n \in 1..(Len(logs) + 1) : mapAll[n] = all[n].records
  BY <1>1, <1>2
<1>5. RecordsOf(logs) = FlattenSeq(map) /\ RecordsOf(all) = FlattenSeq(mapAll)
  BY DEF RecordsOf
<1> HIDE DEF map, mapAll
<1>6. /\ Append(map, l.records) \in Seq(Seq(IndexRecord))
      /\ Len(Append(map, l.records)) = Len(logs) + 1
      /\ \A n \in 1..Len(logs) : Append(map, l.records)[n] = map[n]
      /\ Append(map, l.records)[Len(logs) + 1] = l.records
  BY <1>1, <1>3, AppendProperties
<1>7. \A n \in 1..Len(mapAll) : mapAll[n] = Append(map, l.records)[n]
  <2>1. \A n \in 1..Len(mapAll) : n \in 1..Len(logs) \/ n = Len(logs) + 1
    BY <1>1, <1>4
  <2>2. ASSUME NEW n \in 1..Len(logs)
        PROVE  mapAll[n] = Append(map, l.records)[n]
    <3>1. n \in 1..(Len(logs) + 1)
      BY <1>1
    <3>2. mapAll[n] = all[n].records /\ all[n] = logs[n]
      BY <1>1, <1>4, <3>1
    <3>3. Append(map, l.records)[n] = map[n] /\ map[n] = logs[n].records
      BY <1>3, <1>6
    <3>4. QED
      BY <3>2, <3>3
  <2>3. mapAll[Len(logs) + 1] = Append(map, l.records)[Len(logs) + 1]
    BY <1>1, <1>4, <1>6
  <2>4. QED
    BY <2>1, <2>2, <2>3
<1>8. mapAll = Append(map, l.records)
  BY <1>4, <1>6, <1>7, SeqEqual
<1>9. FlattenSeq(map) \in Seq(IndexRecord)
  BY <1>3, FlattenType
<1>10. FlattenSeq(mapAll) = FlattenSeq(map) \o l.records
  BY <1>1, <1>3, <1>8, FlattenAppend
<1>11. QED
  BY <1>5, <1>9, <1>10 DEF all

LEMMA LogTypes ==
    /\ Torn \in IndexLog /\ Torn.records = << >>
    /\ \A records \in Seq(IndexRecord) :
           Log(records) \in IndexLog /\ Log(records).records = records
<1>1. << >> \in Seq(IndexRecord)
  BY EmptySeq
<1>2. QED
  BY <1>1 DEF Torn, Log, IndexLog

LEMMA RecordsOfTorn ==
    ASSUME NEW logs \in Seq(IndexLog)
    PROVE  RecordsOf(Append(logs, Torn)) = RecordsOf(logs)
<1>1. /\ RecordsOf(logs) \in Seq(IndexRecord)
      /\ RecordsOf(Append(logs, Torn)) = RecordsOf(logs) \o << >>
  BY LogTypes, RecordsOfAppend
<1>2. QED
  BY <1>1, ConcatEmptySeq

LEMMA OfPartitionEmpty ==
    ASSUME NEW j
    PROVE  OfPartition(j, << >>) = << >>
<1>1. [n \in DOMAIN << >> |->
          IF mod(<< >>[n]) = j THEN <<<< >>[n]>> ELSE << >>] = << >>
  OBVIOUS
<1>2. QED
  BY <1>1, FlattenEmpty DEF OfPartition

LEMMA OfPartitionAppend ==
    ASSUME NEW j, NEW records \in Seq(IndexRecord), NEW r \in IndexRecord
    PROVE  /\ OfPartition(j, records) \in Seq(IndexRecord)
           /\ OfPartition(j, Append(records, r)) =
                  IF mod(r) = j THEN Append(OfPartition(j, records), r)
                  ELSE OfPartition(j, records)
<1> DEFINE own(x) == IF mod(x) = j THEN <<x>> ELSE << >>
           map == [n \in DOMAIN records |-> own(records[n])]
           all == Append(records, r)
           mapAll == [n \in DOMAIN all |-> own(all[n])]
<1>1. /\ Len(records) \in Nat /\ DOMAIN records = 1..Len(records)
      /\ all \in Seq(IndexRecord) /\ DOMAIN all = 1..(Len(records) + 1)
      /\ \A n \in 1..Len(records) : all[n] = records[n]
      /\ all[Len(records) + 1] = r
  BY AppendProperties, LenProperties
<1>2. \A x \in IndexRecord : own(x) \in Seq(IndexRecord)
  OBVIOUS
<1>3. OfPartition(j, records) = FlattenSeq(map) /\ OfPartition(j, all) = FlattenSeq(mapAll)
  BY DEF OfPartition
<1>4. own(r) = IF mod(r) = j THEN <<r>> ELSE << >>
  OBVIOUS
<1> HIDE DEF own, all
<1>5. /\ \A n \in 1..Len(records) : own(records[n]) \in Seq(IndexRecord)
      /\ \A n \in 1..(Len(records) + 1) : own(all[n]) \in Seq(IndexRecord)
  BY <1>1, <1>2, ElementOfSeq, LenProperties
<1>6. /\ map \in Seq(Seq(IndexRecord)) /\ Len(map) = Len(records)
      /\ \A n \in 1..Len(records) : map[n] = own(records[n])
  BY <1>1, <1>5
<1>7. /\ mapAll \in Seq(Seq(IndexRecord)) /\ Len(mapAll) = Len(records) + 1
      /\ \A n \in 1..(Len(records) + 1) : mapAll[n] = own(all[n])
  BY <1>1, <1>5
<1> HIDE DEF map, mapAll
<1>8. own(r) \in Seq(IndexRecord)
  BY <1>2
<1>9. /\ Append(map, own(r)) \in Seq(Seq(IndexRecord))
      /\ Len(Append(map, own(r))) = Len(records) + 1
      /\ \A n \in 1..Len(records) : Append(map, own(r))[n] = map[n]
      /\ Append(map, own(r))[Len(records) + 1] = own(r)
  BY <1>6, <1>8, AppendProperties
<1>10. \A n \in 1..Len(mapAll) : mapAll[n] = Append(map, own(r))[n]
  BY <1>1, <1>6, <1>7, <1>9
<1>11. mapAll = Append(map, own(r))
  BY <1>7, <1>9, <1>10, SeqEqual
<1>12. FlattenSeq(map) \in Seq(IndexRecord)
  BY <1>6, FlattenType
<1>13. FlattenSeq(mapAll) = FlattenSeq(map) \o own(r)
  BY <1>6, <1>8, <1>11, FlattenAppend
<1>14. FlattenSeq(map) \o own(r) =
           IF mod(r) = j THEN Append(FlattenSeq(map), r) ELSE FlattenSeq(map)
  BY <1>4, <1>12, ConcatEmptySeq, AppendIsConcat
<1>15. QED
  BY <1>3, <1>12, <1>13, <1>14 DEF all

-----------------------------------------------------------------------------
(* Prefixes of the index, the partition of a record, and what AddTo does. *)

LEMMA PrefixOfAppend ==
    ASSUME NEW S, NEW s \in Seq(S), NEW e \in S, NEW n \in 0..Len(s)
    PROVE  SubSeq(Append(s, e), 1, n) = SubSeq(s, 1, n)
<1>1. n \in Int /\ Len(s) \in Nat
  BY LenProperties
<1>2. CASE n = 0
  BY <1>1, <1>2, SubSeqEmpty
<1>3. CASE n # 0
  <2>1. Append(s, e) = s \o <<e>> /\ <<e>> \in Seq(S)
    BY AppendIsConcat
  <2>2. 1 \in 1..Len(s) /\ n \in 1..Len(s)
    BY <1>1, <1>3
  <2>3. QED
    BY <2>1, <2>2, SubSeqOfConcat1
<1>4. QED
  BY <1>2, <1>3

LEMMA PrefixNext ==
    ASSUME NEW S, NEW s \in Seq(S), NEW n \in Nat, n < Len(s)
    PROVE  /\ SubSeq(s, 1, n) \in Seq(S) /\ s[n + 1] \in S
           /\ SubSeq(s, 1, n + 1) = Append(SubSeq(s, 1, n), s[n + 1])
<1>1. Len(s) \in Nat /\ n + 1 \in 1..Len(s) /\ 1 \in 1..Len(s)
  BY LenProperties
<1>2. \A i \in 1..n : s[i] \in S
  <2>1. \A i \in 1..n : i \in 1..Len(s)
    BY <1>1
  <2>2. QED
    BY <2>1, ElementOfSeq
<1>3. SubSeq(s, 1, n) \in Seq(S)
  BY <1>2, SubSeqProperties
<1>4. s[n + 1] \in S
  BY <1>1, ElementOfSeq
<1>5. SubSeq(s, 1, n + 1) = SubSeq(s, 1, (n + 1) - 1) \o <<s[n + 1]>>
  <2>1. n + 1 \in 1..Len(s) /\ n + 1 >= 1
    BY <1>1
  <2>2. QED
    BY <1>1, <2>1, SubSeqRecursiveSecond
<1>6. (n + 1) - 1 = n
  OBVIOUS
<1>7. QED
  BY <1>3, <1>4, <1>5, <1>6, AppendIsConcat

LEMMA PrefixType ==
    ASSUME NEW S, NEW s \in Seq(S), NEW n \in 0..Len(s)
    PROVE  SubSeq(s, 1, n) \in Seq(S)
<1>1. Len(s) \in Nat /\ \A i \in 1..n : i \in 1..Len(s)
  BY LenProperties
<1>2. \A i \in 1..n : s[i] \in S
  BY <1>1, ElementOfSeq
<1>3. QED
  BY <1>2, SubSeqProperties

LEMMA PartOfRecord ==
    ASSUME NEW r \in IndexRecord
    PROVE  mod(r) \in Part
<1>1. Sha1[r.mSha1Index] \in Nat
  BY CommonDataStoreAssumption DEF IndexRecord
<1>2. \A a \in Nat, b \in Nat \ {0} : a % b \in 0..(b - 1)
  OBVIOUS
<1>3. QED
  BY <1>1, <1>2, CommonDataStoreAssumption DEF mod, Part

LEMMA AddToIs ==
    ASSUME NEW held \in Seq(IndexRecord), NEW logs \in Seq(IndexLog),
           NEW r \in IndexRecord, NEW new, new = AddTo([held |-> held, logs |-> logs], r)
    PROVE  /\ new.held \in Seq(IndexRecord) /\ new.logs \in Seq(IndexLog)
           /\ Len(new.held) < IndexInterval
           /\ RecordsOf(new.logs) \o new.held = Append(RecordsOf(logs) \o held, r)
<1>0. PICK all : all = Append(held, r)
  OBVIOUS
<1>1. all \in Seq(IndexRecord) /\ Len(all) \in Nat
  BY <1>0, AppendProperties, LenProperties
<1>2. new = IF Len(all) >= IndexInterval
            THEN [held |-> << >>, logs |-> Append(logs, Log(all))]
            ELSE [held |-> all, logs |-> logs]
  BY <1>0 DEF AddTo
<1>3. RecordsOf(logs) \in Seq(IndexRecord)
  BY LogTypes, RecordsOfAppend
<1>4. RecordsOf(logs) \o all = Append(RecordsOf(logs) \o held, r)
  <2>1. all = held \o <<r>> /\ <<r>> \in Seq(IndexRecord)
    BY <1>0, AppendIsConcat
  <2>2. RecordsOf(logs) \o held \in Seq(IndexRecord)
    BY <1>3, ConcatProperties
  <2>3. (RecordsOf(logs) \o held) \o <<r>> = RecordsOf(logs) \o (held \o <<r>>)
    BY <1>3, <2>1, ConcatAssociative
  <2>4. QED
    BY <2>1, <2>2, <2>3, AppendIsConcat
<1>5. CASE Len(all) >= IndexInterval
  <2>1. new.held = << >> /\ new.logs = Append(logs, Log(all))
    BY <1>2, <1>5
  <2>2. << >> \in Seq(IndexRecord) /\ Len(<< >>) < IndexInterval
    BY EmptySeq, CommonDataStoreAssumption
  <2>3. Log(all) \in IndexLog /\ Log(all).records = all
    BY <1>1, LogTypes
  <2>4. new.logs \in Seq(IndexLog) /\ RecordsOf(new.logs) = RecordsOf(logs) \o all
    <3>1. PICK l \in IndexLog : l = Log(all)
      BY <2>3
    <3>2. RecordsOf(Append(logs, l)) = RecordsOf(logs) \o l.records
      BY RecordsOfAppend
    <3>3. Append(logs, l) \in Seq(IndexLog)
      BY AppendProperties
    <3>4. QED
      BY <2>1, <2>3, <3>1, <3>2, <3>3
  <2>5. RecordsOf(logs) \o all \in Seq(IndexRecord)
    BY <1>1, <1>3, ConcatProperties
  <2>6. RecordsOf(new.logs) \o new.held = RecordsOf(logs) \o all
    BY <2>1, <2>4, <2>5, ConcatEmptySeq
  <2>7. QED
    BY <1>4, <2>1, <2>2, <2>4, <2>6
<1>6. CASE ~(Len(all) >= IndexInterval)
  <2>1. new.held = all /\ new.logs = logs
    BY <1>2, <1>6
  <2>2. Len(all) < IndexInterval
    BY <1>1, <1>6, CommonDataStoreAssumption
  <2>3. QED
    BY <1>1, <1>4, <2>1, <2>2
<1>7. QED
  BY <1>5, <1>6

-----------------------------------------------------------------------------
(* Types. *)

(* What CDSUtility has open is there. *)
OpenExists == pc \in {"open", "append", "index"} => exist = {"data", "index"}

PartTypes ==
    part \in [pc : {"none", "create", "read", "finish", "done"}, read : 0..Len(index),
              left : Seq(IndexRecord), held : [Part -> Seq(IndexRecord)], j : Part]

DiskTypes ==
    /\ data \in Seq(Block \cup {"torn"}) /\ index \in Seq(IndexLog)
    /\ exist \subseteq {"data", "index"} /\ (data # << >> => exist = {"data", "index"})

PartitionTypes == partition \in [Part -> [exists : BOOLEAN, logs : Seq(IndexLog)]]

WriterTypes ==
    /\ pc \in {"none", "create index", "open", "append", "index"}
    /\ batch \in Seq(Block)
    /\ mIndexStream \in Seq(IndexRecord) /\ appended \in Seq(IndexRecord)
    /\ returned \in Seq(IndexRecord) /\ batches \in 0..MaxBatches

HeldBelow == \A i \in Part : Len(part.held[i]) < IndexInterval

Types ==
    /\ DiskTypes /\ OpenExists /\ WriterTypes
    /\ PartitionTypes /\ PartTypes /\ HeldBelow
    /\ generated \in Seq(IndexLog) /\ faults \in 0..MaxFaults

LEMMA TypesGiveTypeOK == Types => TypeOK
BY DEF Types, DiskTypes, WriterTypes, PartitionTypes, PartTypes, HeldBelow, TypeOK

LEMMA NotRunningIs ==
    /\ NotRunning.pc = "none" /\ NotRunning.read = 0 /\ NotRunning.left = << >>
    /\ NotRunning.held = [i \in Part |-> << >>] /\ NotRunning.j = 0
    /\ NotRunning.j \in Part
    /\ NotRunning.left \in Seq(IndexRecord)
    /\ NotRunning.held \in [Part -> Seq(IndexRecord)]
    /\ \A i \in Part : Len(NotRunning.held[i]) < IndexInterval
<1>1. << >> \in Seq(IndexRecord) /\ Len(<< >>) = 0
  BY EmptySeq
<1>2. QED
  BY <1>1, CommonDataStoreAssumption DEF NotRunning, Part

LEMMA TypeInit == Init => Types
<1> SUFFICES ASSUME Init
             PROVE  Types
  OBVIOUS
<1>1. /\ \A S : << >> \in Seq(S)
      /\ MaxBatches \in Nat /\ MaxFaults \in Nat
  BY EmptySeq, CommonDataStoreAssumption
<1>2. DiskTypes /\ OpenExists /\ WriterTypes
  BY <1>1 DEF Init, DiskTypes, OpenExists, WriterTypes
<1>3. PartitionTypes
  BY <1>1 DEF Init, PartitionTypes, NoFile
<1>4. HeldBelow
  BY NotRunningIs DEF Init, HeldBelow
<1>5. PartTypes
  <2>1. Len(index) = 0
    BY EmptySeq DEF Init
  <2>2. QED
    BY <2>1, <1>1, CommonDataStoreAssumption DEF Init, PartTypes, NotRunning, Part
<1>6. generated \in Seq(IndexLog) /\ faults \in 0..MaxFaults
  <2>1. generated = <<Torn>> /\ Torn \in IndexLog
    BY LogTypes DEF Init, NoIndex
  <2>2. <<Torn>> = Append(<< >>, Torn)
    OBVIOUS
  <2>3. generated \in Seq(IndexLog)
    BY <1>1, <2>1
  <2>4. QED
    BY <1>1, <2>3 DEF Init
<1>7. QED
  BY <1>2, <1>3, <1>4, <1>5, <1>6 DEF Types

(* What GeneratePartitionIndex has keeps its types while the index grows. *)
LEMMA PartTypesKept ==
    ASSUME Types, UNCHANGED partVars,
           index' = index \/ \E l \in IndexLog : index' = Append(index, l)
    PROVE  /\ index' \in Seq(IndexLog) /\ PartitionTypes' /\ PartTypes' /\ HeldBelow'
           /\ generated' \in Seq(IndexLog)
<1>1. index \in Seq(IndexLog) /\ Len(index) \in Nat
  BY LenProperties DEF Types, DiskTypes
<1>2. index' \in Seq(IndexLog) /\ Len(index') \in Nat /\ Len(index) <= Len(index')
  <2>1. CASE index' = index
    BY <1>1, <2>1
  <2>2. ASSUME NEW l \in IndexLog, index' = Append(index, l)
        PROVE  index' \in Seq(IndexLog) /\ Len(index') = Len(index) + 1
    BY <1>1, <2>2, AppendProperties
  <2>3. QED
    BY <1>1, <2>1, <2>2
<1>3. PartTypes'
  <2>1. 0..Len(index) \subseteq 0..Len(index')
    BY <1>1, <1>2
  <2>2. PartTypes /\ part' = part
    BY DEF Types, partVars
  <2> HIDE DEF vars
  <2>3. QED
    BY <2>1, <2>2 DEF PartTypes
<1>4. PartitionTypes' /\ HeldBelow' /\ generated' \in Seq(IndexLog)
  BY DEF Types, partVars, PartitionTypes, HeldBelow
<1>5. QED
  BY <1>2, <1>3, <1>4

(* What a step of CDSUtility has to show for its types. *)
WriterStep ==
    /\ UNCHANGED partVars
    /\ index' = index \/ \E l \in IndexLog : index' = Append(index, l)
    /\ data' \in Seq(Block \cup {"torn"})
    /\ exist' \subseteq {"data", "index"}
    /\ data' # << >> => exist' = {"data", "index"}
    /\ OpenExists' /\ WriterTypes' /\ faults' \in 0..MaxFaults

Writes ==
    \/ Open \/ CreateIndex \/ AppendBlock \/ FlushIndex \/ Return \/ Close \/ Die
    \/ \E b \in Batches : BatchAppend(b)
    \/ \E file \in {"data", "index"} : WriteFails(file)

LEMMA WriterSteps ==
    ASSUME Types, Writes
    PROVE  WriterStep
<1> USE DEF storeVars, partVars
<1>0. /\ DiskTypes /\ OpenExists /\ WriterTypes /\ faults \in 0..MaxFaults
      /\ MaxBatches \in Nat /\ MaxFaults \in Nat
      /\ Torn \in IndexLog
      /\ \A S : << >> \in Seq(S)
  BY EmptySeq, LogTypes, CommonDataStoreAssumption DEF Types
<1> USE DEF WriterStep
<1>2. CASE Open
  BY <1>0, <1>2 DEF Open, DiskTypes, OpenExists, WriterTypes
<1>3. CASE CreateIndex
  BY <1>0, <1>3 DEF CreateIndex, DiskTypes, OpenExists, WriterTypes
<1>4. CASE AppendBlock
  <2>1. PICK b : b = Head(batch) /\ b \in Block /\ Tail(batch) \in Seq(Block)
    BY <1>0, <1>4, HeadTailProperties DEF AppendBlock, WriterTypes
  <2>2. Append(data, b) \in Seq(Block \cup {"torn"}) /\ Len(data) + 1 \in Nat
    BY <1>0, <2>1, AppendProperties, LenProperties DEF DiskTypes
  <2>3. CdsIndexRecord(b, Len(data) + 1) \in IndexRecord
    BY <2>1, <2>2 DEF CdsIndexRecord, IndexRecord
  <2>4. /\ AddRecord(mIndexStream, b) \in Seq(IndexRecord)
        /\ AddRecord(appended, b) \in Seq(IndexRecord)
    BY <1>0, <2>3, AppendProperties DEF AddRecord, WriterTypes
  <2>5. /\ data' = Append(data, b) /\ batch' = Tail(batch)
        /\ mIndexStream' = AddRecord(mIndexStream, b) /\ appended' = AddRecord(appended, b)
        /\ pc = "append" /\ pc' \in {"append", "index"}
        /\ UNCHANGED <<index, exist, batches, returned, partVars, faults>>
    BY <1>4, <2>1 DEF AppendBlock
  <2>6. QED
    BY <1>0, <2>1, <2>2, <2>4, <2>5 DEF DiskTypes, OpenExists, WriterTypes
<1>5. CASE FlushIndex
  <2>1. Log(mIndexStream) \in IndexLog
    BY <1>0, LogTypes DEF WriterTypes
  <2>2. /\ index' = Append(index, Log(mIndexStream)) /\ mIndexStream' = << >>
        /\ pc \in {"append", "open", "index"} /\ pc' \in {"append", "none"}
        /\ UNCHANGED <<data, exist, batch, batches, appended, returned, partVars, faults>>
    BY <1>5, <1>0 DEF FlushIndex, AppendIndex, WriterTypes
  <2>3. QED
    BY <1>0, <2>1, <2>2 DEF DiskTypes, OpenExists, WriterTypes
<1>6. CASE Return
  <2>1. returned \o appended \in Seq(IndexRecord)
    BY <1>0, ConcatProperties DEF WriterTypes
  <2>2. QED
    BY <1>0, <1>6, <2>1 DEF Return, DiskTypes, OpenExists, WriterTypes
<1>7. CASE Close
  BY <1>0, <1>7 DEF Close, DiskTypes, OpenExists, WriterTypes
<1>8. CASE Die
  <2>1. Append(data, "torn") \in Seq(Block \cup {"torn"})
    BY <1>0, AppendProperties DEF DiskTypes
  <2>2. data' = data \/ (data' = Append(data, "torn") /\ exist = {"data", "index"})
    <3>1. data' \in {data} \cup IF Writing("data") THEN {Append(data, "torn")} ELSE {}
      BY <1>8 DEF Die
    <3>2. Writing("data") => pc = "append"
      BY DEF Writing
    <3>3. data' = data \/ (data' = Append(data, "torn") /\ Writing("data"))
      BY <3>1
    <3>4. QED
      BY <1>0, <3>2, <3>3 DEF OpenExists
  <2>3. index' = index \/ index' = Append(index, Torn)
    BY <1>8 DEF Die
  <2>4. faults' \in 0..MaxFaults
    BY <1>0, <1>8 DEF Die
  <2>5. /\ pc' = "none" /\ batch' = << >> /\ mIndexStream' = << >> /\ appended' = << >>
        /\ UNCHANGED <<exist, batches, returned, partVars>>
    BY <1>8 DEF Die
  <2>6. QED
    BY <1>0, <2>1, <2>2, <2>3, <2>4, <2>5 DEF DiskTypes, OpenExists, WriterTypes
<1>9. ASSUME NEW b \in Batches, BatchAppend(b)
      PROVE  WriterStep
  <2>1. b \in Seq(Block)
    BY CommonDataStoreAssumption
  <2>2. batches' \in 0..MaxBatches
    BY <1>0, <1>9 DEF BatchAppend, WriterTypes
  <2>3. QED
    BY <1>0, <1>9, <2>1, <2>2 DEF BatchAppend, DiskTypes, OpenExists, WriterTypes
<1>10. ASSUME NEW file \in {"data", "index"}, WriteFails(file)
       PROVE  WriterStep
  <2>1. Append(data, "torn") \in Seq(Block \cup {"torn"})
    BY <1>0, AppendProperties DEF DiskTypes
  <2>2. pc \in {"append", "index"} /\ exist = {"data", "index"}
    BY <1>0, <1>10 DEF WriteFails, Writing, OpenExists
  <2>3. \/ data' = data /\ index' = Append(index, Torn)
        \/ data' = Append(data, "torn") /\ index' = index
    BY <1>10 DEF WriteFails
  <2>4. faults' \in 0..MaxFaults
    BY <1>0, <1>10 DEF WriteFails
  <2>5. /\ pc' = "open" /\ batch' = << >> /\ appended' = << >>
        /\ UNCHANGED <<exist, mIndexStream, batches, returned, partVars>>
    BY <1>10 DEF WriteFails
  <2>6. QED
    BY <1>0, <2>1, <2>2, <2>3, <2>4, <2>5 DEF DiskTypes, OpenExists, WriterTypes
<1>11. QED
  BY <1>2, <1>3, <1>4, <1>5, <1>6, <1>7, <1>8, <1>9, <1>10 DEF Writes

(* What a step of GeneratePartitionIndex has to show for its types. *)
LEMMA PartStepTypes ==
    ASSUME Types, UNCHANGED <<storeVars, writerVars>>,
           PartitionTypes', PartTypes', HeldBelow',
           generated' \in Seq(IndexLog), faults' \in 0..MaxFaults
    PROVE  Types'
BY DEF Types, DiskTypes, OpenExists, WriterTypes, storeVars, writerVars

LEMMA PartSucc ==
    \A j \in Part : j \in Nat /\ (j + 1 # no_partitions => j + 1 \in Part)
<1>1. no_partitions \in Nat
  BY CommonDataStoreAssumption
<1>2. QED
  BY <1>1 DEF Part

LEMMA LogsSet ==
    ASSUME PartitionTypes, NEW j \in Part, NEW logs \in Seq(IndexLog),
           partition' = [partition EXCEPT ![j].logs = logs]
    PROVE  PartitionTypes'
<1>1. partition[j] \in [exists : BOOLEAN, logs : Seq(IndexLog)]
  BY DEF PartitionTypes
<1>2. [partition[j] EXCEPT !.logs = logs] \in [exists : BOOLEAN, logs : Seq(IndexLog)]
  BY <1>1
<1>3. partition' = [partition EXCEPT ![j] = [partition[j] EXCEPT !.logs = logs]]
  OBVIOUS
<1>4. QED
  BY <1>2, <1>3 DEF PartitionTypes

LEMMA PartTypesNext ==
    ASSUME Types,
           \/ Generate \/ CreatePartition \/ ReadRecord \/ DistributeRecord \/ EndOfRecords
           \/ FinishPartition \/ PartitionFails
    PROVE  Types'
<1>0. /\ DiskTypes /\ PartitionTypes /\ PartTypes /\ HeldBelow
      /\ generated \in Seq(IndexLog) /\ faults \in 0..MaxFaults
      /\ MaxFaults \in Nat /\ no_partitions \in Nat \ {0}
      /\ Torn \in IndexLog
      /\ << >> \in Seq(IndexRecord) /\ Len(<< >>) < IndexInterval
      /\ Len(index) \in Nat
  BY EmptySeq, LenProperties, LogTypes, CommonDataStoreAssumption DEF Types, DiskTypes
<1>1. CASE Generate
  <2>1. PartTypes' /\ HeldBelow'
    <3>1. part' = [NotRunning EXCEPT !.pc = "create"] /\ index' = index
      BY <1>1 DEF Generate, storeVars
    <3>2. PartTypes'
      <4>1. part' = [pc |-> "create", read |-> 0, left |-> << >>,
                     held |-> NotRunning.held, j |-> 0]
        BY <3>1 DEF NotRunning
      <4>2. 0 \in 0..Len(index) /\ 0 \in Part
        BY <1>0 DEF Part
      <4>3. QED
        BY <1>0, <3>1, <4>1, <4>2, NotRunningIs DEF PartTypes
    <3>3. part'.held = NotRunning.held
      BY <3>1 DEF NotRunning
    <3>4. QED
      BY <3>2, <3>3, NotRunningIs DEF HeldBelow
  <2>2. QED
    BY <1>0, <1>1, <2>1, PartStepTypes DEF Generate, PartitionTypes
<1>2. CASE CreatePartition
  <2>1. part.j \in Part /\ part.j \in Nat /\ (part.j + 1 # no_partitions => part.j + 1 \in Part)
    <3>1. part.j \in Part
      BY <1>0 DEF PartTypes
    <3>2. QED
      BY <3>1, PartSucc
  <2>2. PartTypes' /\ HeldBelow'
    <3>1. index' = index /\ 0 \in Part
      BY <1>0, <1>2 DEF CreatePartition, storeVars, Part
    <3>2. CASE part.j + 1 = no_partitions
      <4>1. part' = [part EXCEPT !.pc = "read", !.j = 0]
        BY <1>2, <3>2 DEF CreatePartition
      <4>2. QED
        BY <1>0, <3>1, <4>1 DEF PartTypes, HeldBelow
    <3>3. CASE part.j + 1 # no_partitions
      <4>1. part' = [part EXCEPT !.j = @ + 1] /\ part.j + 1 \in Part
        BY <1>2, <2>1, <3>3 DEF CreatePartition
      <4>2. QED
        BY <1>0, <3>1, <4>1 DEF PartTypes, HeldBelow
    <3>4. QED
      BY <3>2, <3>3
  <2>3. PartitionTypes'
    BY <1>0, <1>2, <2>1 DEF CreatePartition, PartitionTypes
  <2>4. QED
    BY <1>0, <1>2, <2>2, <2>3, PartStepTypes DEF CreatePartition
<1>3. CASE ReadRecord
  <2>1. part.read \in Nat /\ part.read < Len(index)
    BY <1>0, <1>3 DEF ReadRecord, HasNext, PartTypes
  <2>2. index[part.read + 1].records \in Seq(IndexRecord)
    <3>1. index[part.read + 1] \in IndexLog
      BY <1>0, <2>1, PrefixNext DEF DiskTypes
    <3>2. QED
      BY <3>1 DEF IndexLog
  <2>3. PartTypes' /\ HeldBelow'
    <3>1. /\ index' = index
          /\ part' = [part EXCEPT !.read = @ + 1, !.left = index[part.read + 1].records]
      BY <1>3 DEF ReadRecord, storeVars
    <3>2. part.read + 1 \in 0..Len(index)
      BY <1>0, <2>1
    <3>3. PartTypes'
      BY <1>0, <2>2, <3>1, <3>2 DEF PartTypes
    <3>4. part'.held = part.held
      BY <1>0, <3>1 DEF PartTypes
    <3>5. QED
      BY <1>0, <3>3, <3>4 DEF HeldBelow
  <2>4. QED
    BY <1>0, <1>3, <2>3, PartStepTypes DEF ReadRecord, PartitionTypes
<1>4. CASE DistributeRecord
  <2>1. PICK r, j, new :
            /\ r = Head(part.left) /\ j = mod(r)
            /\ new = AddTo([held |-> part.held[j], logs |-> partition[j].logs], r)
            /\ partition' = [partition EXCEPT ![j].logs = new.logs]
            /\ part' = [part EXCEPT !.left = Tail(@), !.held[j] = new.held]
    BY <1>4 DEF DistributeRecord
  <2>2. r \in IndexRecord /\ Tail(part.left) \in Seq(IndexRecord)
    BY <1>0, <1>4, <2>1, HeadTailProperties DEF DistributeRecord, PartTypes
  <2>3. /\ j \in Part /\ part.held[j] \in Seq(IndexRecord)
        /\ partition[j].logs \in Seq(IndexLog)
    BY <1>0, <2>1, <2>2, PartOfRecord DEF PartTypes, PartitionTypes
  <2>4. /\ new.held \in Seq(IndexRecord) /\ new.logs \in Seq(IndexLog)
        /\ Len(new.held) < IndexInterval
    BY <2>1, <2>2, <2>3, AddToIs
  <2>5. PartTypes' /\ HeldBelow'
    <3>1. /\ index' = index
          /\ part' = [part EXCEPT !.left = Tail(part.left), !.held[j] = new.held]
      BY <1>4, <2>1 DEF DistributeRecord, storeVars
    <3>2. PartTypes'
      BY <1>0, <2>2, <2>3, <2>4, <3>1 DEF PartTypes
    <3>3. \A i \in Part : part'.held[i] = IF i = j THEN new.held ELSE part.held[i]
      BY <1>0, <2>3, <3>1 DEF PartTypes
    <3>4. QED
      BY <1>0, <2>4, <3>2, <3>3 DEF HeldBelow
  <2>6. PartitionTypes'
    BY <1>0, <2>1, <2>3, <2>4, LogsSet
  <2>7. QED
    BY <1>0, <1>4, <2>5, <2>6, PartStepTypes DEF DistributeRecord
<1>5. CASE EndOfRecords
  <2>1. PartTypes' /\ HeldBelow'
    BY <1>0, <1>5 DEF EndOfRecords, PartTypes, HeldBelow, storeVars
  <2>2. QED
    BY <1>0, <1>5, <2>1, PartStepTypes DEF EndOfRecords, PartitionTypes
<1>6. CASE FinishPartition
  <2>1. /\ part.j \in Part /\ part.j \in Nat /\ part.read \in 0..Len(index)
        /\ part.held[part.j] \in Seq(IndexRecord)
        /\ (part.j + 1 # no_partitions => part.j + 1 \in Part)
    <3>1. part.j \in Part /\ part.read \in 0..Len(index) /\ part.held \in [Part -> Seq(IndexRecord)]
      BY <1>0 DEF PartTypes
    <3>2. part.j \in Nat /\ (part.j + 1 # no_partitions => part.j + 1 \in Part)
      BY <3>1, PartSucc
    <3>3. QED
      BY <3>1, <3>2
  <2>2. PartTypes' /\ HeldBelow'
    <3>1. CASE part.j + 1 = no_partitions
      <4>1. part' = [part EXCEPT !.pc = "done", !.held[part.j] = << >>]
        BY <1>6, <3>1 DEF FinishPartition
      <4>2. QED
        BY <1>0, <1>6, <2>1, <4>1 DEF FinishPartition, PartTypes, HeldBelow, storeVars
    <3>2. CASE part.j + 1 # no_partitions
      <4>1. part' = [part EXCEPT !.j = @ + 1, !.held[part.j] = << >>]
        BY <1>6, <3>2 DEF FinishPartition
      <4>2. QED
        BY <1>0, <1>6, <2>1, <3>2, <4>1 DEF FinishPartition, PartTypes, HeldBelow, storeVars
    <3>3. QED
      BY <3>1, <3>2
  <2>3. PartitionTypes'
    <3>1. Log(part.held[part.j]) \in IndexLog
      BY <2>1, LogTypes
    <3>2. partition[part.j].logs \in Seq(IndexLog)
      BY <1>0, <2>1 DEF PartitionTypes
    <3>3. Append(partition[part.j].logs, Log(part.held[part.j])) \in Seq(IndexLog)
      BY <3>1, <3>2, AppendProperties
    <3>4. PICK logs \in Seq(IndexLog) : partition' = [partition EXCEPT ![part.j].logs = logs]
      BY <1>6, <3>2, <3>3 DEF FinishPartition
    <3>5. QED
      BY <1>0, <2>1, <3>4, LogsSet
  <2>4. generated' \in Seq(IndexLog)
    <3>1. SubSeq(index, 1, part.read) \in Seq(IndexLog)
      BY <1>0, <2>1, PrefixType DEF DiskTypes
    <3>2. QED
      BY <1>0, <1>6, <3>1 DEF FinishPartition
  <2>5. QED
    BY <1>0, <1>6, <2>2, <2>3, <2>4, PartStepTypes DEF FinishPartition
<1>7. CASE PartitionFails
  <2>1. PartTypes' /\ HeldBelow'
    <3>1. part' = NotRunning /\ index' = index
      BY <1>7 DEF PartitionFails, storeVars
    <3>2. QED
      BY <1>0, <3>1, NotRunningIs DEF NotRunning, PartTypes, HeldBelow
  <2>2. PartitionTypes'
    <3>1. CASE partition' = partition
      BY <1>0, <3>1 DEF PartitionTypes
    <3>2. ASSUME NEW j \in Part,
                 partition' = [partition EXCEPT ![j].logs = Append(@, Torn)]
          PROVE  PartitionTypes'
      <4>1. Append(partition[j].logs, Torn) \in Seq(IndexLog)
        BY <1>0, AppendProperties DEF PartitionTypes
      <4>2. QED
        BY <1>0, <3>2, <4>1 DEF PartitionTypes
    <3>3. QED
      BY <1>7, <3>1, <3>2 DEF PartitionFails
  <2>3. faults' \in 0..MaxFaults
    BY <1>0, <1>7 DEF PartitionFails
  <2>4. QED
    BY <1>0, <1>7, <2>1, <2>2, <2>3, PartStepTypes DEF PartitionFails
<1>8. QED
  BY <1>1, <1>2, <1>3, <1>4, <1>5, <1>6, <1>7

LEMMA TypeNext == Types /\ [Next]_vars => Types'
<1> SUFFICES ASSUME Types, [Next]_vars
             PROVE  Types'
  OBVIOUS
<1>1. CASE UNCHANGED vars
  BY <1>1 DEF vars, storeVars, writerVars, partVars, Types, DiskTypes, OpenExists, WriterTypes,
              PartitionTypes, PartTypes, HeldBelow
<1>2. CASE Next
  <2>1. Writes => Types'
    BY WriterSteps, PartTypesKept DEF Types, DiskTypes, WriterStep
  <2>2. QED
    BY <1>2, <2>1, PartTypesNext DEF Next, Writes
<1>3. QED
  BY <1>1, <1>2

LEMMA AlwaysTypes == Spec => []Types
BY TypeInit, TypeNext, PTL DEF Spec

(* The variables of the common data store keep their types, and the stream of a
   partition never holds back a whole interval of index records
   (common_data_store.cpp, GeneratePartitionIndex). *)
THEOREM CommonDataStoreTypes == Spec => []TypeOK
BY AlwaysTypes, TypesGiveTypeOK, PTL

-----------------------------------------------------------------------------
(* The partitions. *)

(* The files of the partitions are made one after the other, before the first record
   is read; and what was never made holds nothing. *)
Made ==
    /\ \A i \in Part : ~partition[i].exists => partition[i].logs = << >>
    /\ part.pc = "create" => \A i \in Part : i < part.j => partition[i].exists
    /\ part.pc \in {"read", "finish"} => \A i \in Part : partition[i].exists

Creating ==
    part.pc = "create" =>
        /\ part.left = << >> /\ part.read = 0
        /\ \A i \in Part : partition[i].logs = << >> /\ part.held[i] = << >>

ReadSoFar == RecordsOf(SubSeq(index, 1, part.read))

(* What partition i holds, in its file and in its stream, are its records among d. *)
Holds(i, d) == RecordsOf(partition[i].logs) \o part.held[i] = OfPartition(i, d)

(* d was distributed: it and what is left are what was read. *)
Distributed(d) == d \o part.left = ReadSoFar /\ \A i \in Part : Holds(i, d)

Distributing ==
    part.pc \in {"read", "finish"} => \E d \in Seq(IndexRecord) : Distributed(d)

Finishing ==
    part.pc = "finish" =>
        part.left = << >> /\ \A i \in Part : i < part.j => part.held[i] = << >>

Reading == part.pc = "read" => part.j = 0

DoneOnce == generated # NoIndex => part.pc = "done"

PartInv ==
    /\ Made /\ Creating /\ Distributing /\ Finishing /\ Reading
    /\ DoneOnce /\ PartitionsRight

LEMMA PartInvInit == Init => PartInv
<1> SUFFICES ASSUME Init
             PROVE  PartInv
  OBVIOUS
<1>1. part.pc = "none" /\ generated = NoIndex
  BY NotRunningIs DEF Init
<1>2. \A i \in Part : partition[i].logs = << >>
  BY DEF Init, NoFile
<1>3. QED
  BY <1>1, <1>2 DEF PartInv, Made, Creating, Distributing, Finishing, Reading, DoneOnce,
                    PartitionsRight

(* CDSUtility does not disturb it: the index keeps what was read. *)
LEMMA PartInvWriter ==
    ASSUME Types, PartInv, WriterStep
    PROVE  PartInv'
<1>1. /\ part' = part /\ partition' = partition /\ generated' = generated
      /\ index \in Seq(IndexLog) /\ part.read \in 0..Len(index)
      /\ index' = index \/ \E l \in IndexLog : index' = Append(index, l)
  BY DEF WriterStep, partVars, Types, DiskTypes, PartTypes
<1>2. SubSeq(index', 1, part.read) = SubSeq(index, 1, part.read)
  BY <1>1, PrefixOfAppend
<1>3. ReadSoFar' = ReadSoFar
  BY <1>1, <1>2 DEF ReadSoFar
<1>4. \A d : Distributed(d)' <=> Distributed(d)
  BY <1>1, <1>3 DEF Distributed, Holds
<1>5. Distributing'
  BY <1>1, <1>4 DEF PartInv, Distributing
<1>6. QED
  BY <1>1, <1>5 DEF PartInv, Made, Creating, Finishing, Reading, DoneOnce, PartitionsRight

LEMMA Fields ==
    ASSUME Types
    PROVE  /\ index \in Seq(IndexLog) /\ Len(index) \in Nat
           /\ part.read \in Nat /\ part.read <= Len(index)
           /\ part.left \in Seq(IndexRecord) /\ part.held \in [Part -> Seq(IndexRecord)]
           /\ part.j \in Part /\ part.j \in Nat
           /\ partition \in [Part -> [exists : BOOLEAN, logs : Seq(IndexLog)]]
           /\ SubSeq(index, 1, part.read) \in Seq(IndexLog)
           /\ ReadSoFar \in Seq(IndexRecord)
<1>1. /\ index \in Seq(IndexLog) /\ part.read \in 0..Len(index)
      /\ part.left \in Seq(IndexRecord) /\ part.held \in [Part -> Seq(IndexRecord)]
      /\ part.j \in Part
      /\ partition \in [Part -> [exists : BOOLEAN, logs : Seq(IndexLog)]]
  BY DEF Types, DiskTypes, PartTypes, PartitionTypes
<1>2. Len(index) \in Nat
  BY <1>1, LenProperties
<1>3. part.j \in Nat
  BY <1>1 DEF Part
<1>4. SubSeq(index, 1, part.read) \in Seq(IndexLog)
  BY <1>1, PrefixType
<1>5. ReadSoFar \in Seq(IndexRecord)
  BY <1>4, LogTypes, RecordsOfAppend DEF ReadSoFar
<1>6. QED
  BY <1>1, <1>2, <1>3, <1>4, <1>5

LEMMA LastPart == \A i, j \in Part : j + 1 = no_partitions => i < j \/ i = j
BY CommonDataStoreAssumption DEF Part

(* The same for a sequence of records, of which one goes to its partition. *)
LEMMA HeadMoves ==
    ASSUME NEW d \in Seq(IndexRecord), NEW left \in Seq(IndexRecord), left # << >>
    PROVE  /\ Head(left) \in IndexRecord
           /\ Append(d, Head(left)) \in Seq(IndexRecord)
           /\ Append(d, Head(left)) \o Tail(left) = d \o left
<1>1. Head(left) \in IndexRecord /\ Tail(left) \in Seq(IndexRecord)
  BY HeadTailProperties
<1>2. Append(d, Head(left)) = d \o <<Head(left)>> /\ <<Head(left)>> \in Seq(IndexRecord)
  BY <1>1, AppendIsConcat
<1>3. left = <<Head(left)>> \o Tail(left)
  BY <1>1, HeadTailProperties, ConcatProperties, SeqEqual
<1>4. (d \o <<Head(left)>>) \o Tail(left) = d \o (<<Head(left)>> \o Tail(left))
  BY <1>1, <1>2, ConcatAssociative
<1>5. QED
  BY <1>1, <1>2, <1>3, <1>4, AppendProperties

LEMMA PartInvGenerate ==
    ASSUME Types, PartInv, Generate
    PROVE  PartInv'
<1>1. /\ part' = [NotRunning EXCEPT !.pc = "create"]
      /\ part.pc = "none" /\ partition' = partition /\ generated' = generated
      /\ \A i \in Part : ~partition[i].exists
  BY DEF Generate
<1>2. /\ part'.pc = "create" /\ part'.left = << >> /\ part'.read = 0
      /\ part'.held = [i \in Part |-> << >>] /\ part'.j = 0
  BY <1>1 DEF NotRunning
<1>3. generated' = NoIndex
  BY <1>1 DEF PartInv, DoneOnce
<1>4. \A i \in Part : partition'[i].logs = << >> /\ part'.held[i] = << >>
  BY <1>1, <1>2 DEF PartInv, Made
<1>5. \A i \in Part : ~(i < 0)
  BY DEF Part
<1>6. Made'
  BY <1>1, <1>2, <1>4, <1>5 DEF Made
<1>7. Creating'
  BY <1>2, <1>4 DEF Creating
<1>8. QED
  BY <1>2, <1>3, <1>6, <1>7 DEF PartInv, Distributing, Finishing, Reading, DoneOnce,
                                PartitionsRight

LEMMA PartInvCreate ==
    ASSUME Types, PartInv, CreatePartition
    PROVE  PartInv'
<1>1. /\ part.pc = "create" /\ generated = NoIndex /\ generated' = generated /\ index' = index
      /\ part.left = << >> /\ part.read = 0
      /\ \A i \in Part : partition[i].logs = << >> /\ part.held[i] = << >>
      /\ \A i \in Part : i < part.j => partition[i].exists
      /\ partition' = [partition EXCEPT ![part.j].exists = TRUE]
  BY DEF CreatePartition, PartInv, Made, Creating, DoneOnce, storeVars
<1>2. \A i \in Part : /\ partition'[i].logs = << >>
                      /\ (i < part.j \/ i = part.j) => partition'[i].exists
  BY <1>1, Fields
<1>3. CASE part.j + 1 = no_partitions
  <2>1. part' = [part EXCEPT !.pc = "read", !.j = 0]
    BY <1>3 DEF CreatePartition
  <2>2. /\ part'.pc = "read" /\ part'.left = << >> /\ part'.read = 0 /\ part'.held = part.held
        /\ part'.j = 0
    BY <1>1, <2>1 DEF Types, PartTypes
  <2>3. \A i \in Part : partition'[i].exists
    <3>1. \A i \in Part : i < part.j \/ i = part.j
      BY <1>3, LastPart, Fields
    <3>2. QED
      BY <1>2, <3>1, Zenon
  <2>4. ReadSoFar' = << >>
    <3>1. SubSeq(index', 1, part'.read) = << >>
      BY <2>2, SubSeqEmpty
    <3>2. QED
      BY <3>1, RecordsOfEmpty DEF ReadSoFar
  <2>5. << >> \in Seq(IndexRecord) /\ << >> \o << >> = << >>
    BY EmptySeq, ConcatEmptySeq
  <2>6. \A i \in Part : Holds(i, << >>)'
    <3>1. \A i \in Part : partition'[i].logs = << >> /\ part'.held[i] = << >>
      BY <1>1, <1>2, <2>2
    <3>2. \A i : OfPartition(i, << >>) = << >>
      BY OfPartitionEmpty
    <3>3. QED
      BY <2>5, <3>1, <3>2, RecordsOfEmpty DEF Holds
  <2>7. Distributed(<< >>)'
    BY <2>2, <2>4, <2>5, <2>6 DEF Distributed
  <2>8. Distributing'
    BY <2>5, <2>7 DEF Distributing
  <2>9. QED
    BY <1>1, <1>2, <2>2, <2>3, <2>8 DEF PartInv, Made, Creating, Finishing, Reading, DoneOnce,
                                       PartitionsRight
<1>4. CASE part.j + 1 # no_partitions
  <2>1. part' = [part EXCEPT !.j = @ + 1]
    BY <1>4 DEF CreatePartition
  <2>2. /\ part'.pc = "create" /\ part'.left = << >> /\ part'.read = 0 /\ part'.held = part.held
        /\ part'.j = part.j + 1
    BY <1>1, <2>1 DEF Types, PartTypes
  <2>3. \A i \in Part : i < part.j + 1 => i < part.j \/ i = part.j
    BY Fields DEF Part
  <2>4. QED
    BY <1>1, <1>2, <2>2, <2>3 DEF PartInv, Made, Creating, Distributing, Finishing, Reading,
                                 DoneOnce, PartitionsRight
<1>5. QED
  BY <1>3, <1>4

LEMMA PartInvRead ==
    ASSUME Types, PartInv, ReadRecord
    PROVE  PartInv'
<1>1. /\ part.pc = "read" /\ part.left = << >> /\ part.read < Len(index)
      /\ part.j = 0 /\ generated = NoIndex /\ generated' = generated
      /\ partition' = partition /\ index' = index
      /\ \A i \in Part : partition[i].exists
      /\ part' = [part EXCEPT !.read = @ + 1, !.left = index[part.read + 1].records]
  BY DEF ReadRecord, HasNext, PartInv, Made, Reading, DoneOnce, storeVars
<1>2. /\ part'.pc = "read" /\ part'.read = part.read + 1 /\ part'.j = 0
      /\ part'.left = index[part.read + 1].records /\ part'.held = part.held
  BY <1>1 DEF Types, PartTypes
<1>3. PICK d \in Seq(IndexRecord) : Distributed(d)
  BY <1>1 DEF PartInv, Distributing
<1>4. d = ReadSoFar
  BY <1>1, <1>3, ConcatEmptySeq DEF Distributed
<1>5. PICK l : /\ l \in IndexLog /\ l = index[part.read + 1]
               /\ SubSeq(index, 1, part.read + 1) = Append(SubSeq(index, 1, part.read), l)
  <2>1. index \in Seq(IndexLog) /\ part.read \in Nat
    BY Fields
  <2>2. /\ index[part.read + 1] \in IndexLog
        /\ SubSeq(index, 1, part.read + 1) =
               Append(SubSeq(index, 1, part.read), index[part.read + 1])
    BY <1>1, <2>1, PrefixNext
  <2>3. QED
    BY <2>2
<1>6. ReadSoFar' = ReadSoFar \o l.records
  <2>1. SubSeq(index, 1, part.read) \in Seq(IndexLog)
    BY Fields
  <2>2. RecordsOf(Append(SubSeq(index, 1, part.read), l)) = ReadSoFar \o l.records
    BY <1>5, <2>1, RecordsOfAppend DEF ReadSoFar
  <2>3. QED
    BY <1>1, <1>2, <1>5, <2>2 DEF ReadSoFar
<1>7. Distributed(d)'
  BY <1>1, <1>2, <1>3, <1>4, <1>5, <1>6 DEF Distributed, Holds
<1>8. Distributing'
  BY <1>7 DEF Distributing
<1>9. QED
  BY <1>1, <1>2, <1>8 DEF PartInv, Made, Creating, Finishing, Reading, DoneOnce, PartitionsRight

LEMMA PartInvDistribute ==
    ASSUME Types, PartInv, DistributeRecord
    PROVE  PartInv'
<1>1. /\ part.pc = "read" /\ part.left # << >>
      /\ part.j = 0 /\ generated = NoIndex /\ generated' = generated /\ index' = index
      /\ \A i \in Part : partition[i].exists
  BY DEF DistributeRecord, PartInv, Made, Reading, DoneOnce, storeVars
<1>2. PICK r, j, new :
          /\ r = Head(part.left) /\ j = mod(r)
          /\ new = AddTo([held |-> part.held[j], logs |-> partition[j].logs], r)
          /\ partition' = [partition EXCEPT ![j].logs = new.logs]
          /\ part' = [part EXCEPT !.left = Tail(part.left), !.held[j] = new.held]
  BY DEF DistributeRecord
<1>3. PICK d \in Seq(IndexRecord) : Distributed(d)
  BY <1>1 DEF PartInv, Distributing
<1>4. /\ r \in IndexRecord /\ Append(d, r) \in Seq(IndexRecord)
      /\ Append(d, r) \o Tail(part.left) = d \o part.left
  BY <1>1, <1>2, Fields, HeadMoves
<1>5. /\ j \in Part /\ part.held[j] \in Seq(IndexRecord)
      /\ partition[j].logs \in Seq(IndexLog)
  BY <1>2, <1>4, Fields, PartOfRecord
<1>6. RecordsOf(new.logs) \o new.held =
          Append(RecordsOf(partition[j].logs) \o part.held[j], r)
  <2>1. PICK held, logs : held = part.held[j] /\ logs = partition[j].logs
    OBVIOUS
  <2>2. /\ held \in Seq(IndexRecord) /\ logs \in Seq(IndexLog) /\ r \in IndexRecord
        /\ new = AddTo([held |-> held, logs |-> logs], r)
    BY <1>2, <1>4, <1>5, <2>1
  <2>3. RecordsOf(new.logs) \o new.held = Append(RecordsOf(logs) \o held, r)
    BY <2>2, AddToIs
  <2>4. QED
    BY <2>1, <2>3
<1>7. /\ part'.pc = "read" /\ part'.read = part.read /\ part'.j = 0
      /\ part'.left = Tail(part.left)
      /\ \A i \in Part : part'.held[i] = IF i = j THEN new.held ELSE part.held[i]
  BY <1>1, <1>2, <1>5 DEF Types, PartTypes
<1>8. \A i \in Part : /\ partition'[i].exists
                      /\ partition'[i].logs = IF i = j THEN new.logs ELSE partition[i].logs
  BY <1>1, <1>2, <1>5, Fields
<1>9. ASSUME NEW i \in Part
      PROVE  Holds(i, Append(d, r))'
  <2>1. OfPartition(i, Append(d, r)) =
            IF j = i THEN Append(OfPartition(i, d), r) ELSE OfPartition(i, d)
    BY <1>2, <1>4, OfPartitionAppend
  <2>2. RecordsOf(partition[i].logs) \o part.held[i] = OfPartition(i, d)
    BY <1>3 DEF Distributed, Holds
  <2>3. CASE i = j
    BY <1>6, <1>7, <1>8, <2>1, <2>2, <2>3 DEF Holds
  <2>4. CASE i # j
    BY <1>7, <1>8, <2>1, <2>2, <2>4 DEF Holds
  <2>5. QED
    BY <2>3, <2>4
<1>10. ReadSoFar' = ReadSoFar
  BY <1>1, <1>7 DEF ReadSoFar
<1>11. Distributed(Append(d, r))'
  BY <1>3, <1>4, <1>7, <1>9, <1>10 DEF Distributed
<1>12. Distributing'
  BY <1>4, <1>11 DEF Distributing
<1>13. QED
  BY <1>1, <1>7, <1>8, <1>12 DEF PartInv, Made, Creating, Finishing, Reading, DoneOnce,
                                PartitionsRight

LEMMA PartInvEnd ==
    ASSUME Types, PartInv, EndOfRecords
    PROVE  PartInv'
<1>1. /\ part.pc = "read" /\ part.left = << >> /\ part.j = 0
      /\ generated = NoIndex /\ generated' = generated
      /\ partition' = partition /\ index' = index
      /\ part' = [part EXCEPT !.pc = "finish"]
  BY DEF EndOfRecords, PartInv, Reading, DoneOnce, storeVars
<1>2. /\ part'.pc = "finish" /\ part'.left = << >> /\ part'.j = 0
      /\ part'.held = part.held /\ part'.read = part.read
  BY <1>1 DEF Types, PartTypes
<1>3. PICK d \in Seq(IndexRecord) : Distributed(d)
  BY <1>1 DEF PartInv, Distributing
<1>4. Distributed(d)'
  BY <1>1, <1>2, <1>3 DEF Distributed, Holds, ReadSoFar
<1>5. \A i \in Part : ~(i < 0)
  BY DEF Part
<1>6. Distributing' /\ Finishing'
  BY <1>2, <1>4, <1>5 DEF Distributing, Finishing
<1>7. QED
  BY <1>1, <1>2, <1>6 DEF PartInv, Made, Creating, Reading, DoneOnce, PartitionsRight

LEMMA PartInvFinish ==
    ASSUME Types, PartInv, FinishPartition
    PROVE  PartInv'
<1> DEFINE j == part.j
<1>1. /\ part.pc = "finish" /\ part.left = << >> /\ j \in Part /\ generated = NoIndex
      /\ index' = index
      /\ \A i \in Part : partition[i].exists
      /\ \A i \in Part : i < j => part.held[i] = << >>
      /\ partition' = [partition EXCEPT ![part.j].logs =
             IF part.held[part.j] = << >> THEN @ ELSE Append(@, Log(part.held[part.j]))]
  BY Fields DEF FinishPartition, PartInv, Made, Finishing, DoneOnce, storeVars
<1>2. PICK d \in Seq(IndexRecord) : Distributed(d)
  BY <1>1 DEF PartInv, Distributing
<1>3. d = ReadSoFar
  BY <1>1, <1>2, ConcatEmptySeq DEF Distributed
<1>4. PICK held, logs, logs2 :
          /\ held = part.held[j] /\ logs = partition[j].logs
          /\ logs2 = IF held = << >> THEN logs ELSE Append(logs, Log(held))
          /\ held \in Seq(IndexRecord) /\ logs \in Seq(IndexLog)
  BY <1>1, Fields
<1>5. RecordsOf(logs) \in Seq(IndexRecord) /\ RecordsOf(logs2) = RecordsOf(logs) \o held
  <2>1. RecordsOf(logs) \in Seq(IndexRecord)
    BY <1>4, LogTypes, RecordsOfAppend
  <2>2. PICK l \in IndexLog : l = Log(held) /\ l.records = held
    BY <1>4, LogTypes
  <2>3. RecordsOf(Append(logs, l)) = RecordsOf(logs) \o l.records
    BY <1>4, RecordsOfAppend
  <2>4. RecordsOf(logs) \o << >> = RecordsOf(logs)
    BY <2>1, ConcatEmptySeq
  <2>5. QED
    BY <1>4, <2>1, <2>2, <2>3, <2>4
<1>6. /\ \A i \in Part : partition'[i].logs = IF i = j THEN logs2 ELSE partition[i].logs
      /\ \A i \in Part : partition'[i].exists
  BY <1>1, <1>4, Fields
<1>7. \A i \in Part : Holds(i, d)
  BY <1>2 DEF Distributed
<1>8. CASE part.j + 1 = no_partitions
  <2>1. /\ part' = [part EXCEPT !.pc = "done", !.held[part.j] = << >>]
        /\ generated' = SubSeq(index, 1, part.read)
    BY <1>8 DEF FinishPartition
  <2>2. part'.pc = "done"
    BY <1>1, <2>1 DEF Types, PartTypes
  <2>3. RecordsOf(generated') = d
    BY <1>3, <2>1 DEF ReadSoFar
  <2>4. ASSUME NEW i \in Part
        PROVE  RecordsOf(partition'[i].logs) = OfPartition(i, d)
    <3>1. RecordsOf(partition[i].logs) \o part.held[i] = OfPartition(i, d)
      BY <1>7 DEF Holds
    <3>2. CASE i = j
      BY <1>4, <1>5, <1>6, <3>1, <3>2
    <3>3. CASE i # j
      <4>1. part.held[i] = << >>
        BY <1>1, <1>8, <3>3, LastPart
      <4>2. RecordsOf(partition[i].logs) \in Seq(IndexRecord)
        <5>1. partition[i].logs \in Seq(IndexLog)
          BY Fields
        <5>2. QED
          BY <5>1, LogTypes, RecordsOfAppend
      <4>3. RecordsOf(partition[i].logs) \o << >> = RecordsOf(partition[i].logs)
        BY <4>2, ConcatEmptySeq
      <4>4. QED
        BY <1>6, <3>1, <3>3, <4>1, <4>3
    <3>4. QED
      BY <3>2, <3>3
  <2>5. PartitionsRight'
    BY <2>3, <2>4 DEF PartitionsRight
  <2>6. Made'
    BY <1>6, <2>2, Zenon DEF Made
  <2>7. QED
    BY <2>2, <2>5, <2>6 DEF PartInv, Creating, Distributing, Finishing, Reading, DoneOnce
<1>9. CASE part.j + 1 # no_partitions
  <2>1. /\ part' = [part EXCEPT !.j = @ + 1, !.held[part.j] = << >>]
        /\ generated' = generated
    BY <1>9 DEF FinishPartition
  <2>2. /\ part'.pc = "finish" /\ part'.left = << >> /\ part'.read = part.read
        /\ part'.j = part.j + 1
        /\ \A i \in Part : part'.held[i] = IF i = j THEN << >> ELSE part.held[i]
    BY <1>1, <2>1 DEF Types, PartTypes
  <2>3. ASSUME NEW i \in Part
        PROVE  Holds(i, d)'
    <3>1. RecordsOf(partition[i].logs) \o part.held[i] = OfPartition(i, d)
      BY <1>7 DEF Holds
    <3>2. CASE i = j
      <4>1. RecordsOf(logs2) \o << >> = RecordsOf(logs2)
        BY <1>4, <1>5, ConcatProperties, ConcatEmptySeq
      <4>2. QED
        BY <1>4, <1>5, <1>6, <2>2, <3>1, <3>2, <4>1 DEF Holds
    <3>3. CASE i # j
      BY <1>6, <2>2, <3>1, <3>3 DEF Holds
    <3>4. QED
      BY <3>2, <3>3
  <2>4. Distributed(d)'
    <3>1. ReadSoFar' = ReadSoFar
      BY <1>1, <2>2 DEF ReadSoFar
    <3>2. QED
      BY <1>1, <1>2, <2>2, <2>3, <3>1 DEF Distributed
  <2>5. Distributing'
    BY <2>4 DEF Distributing
  <2>6. Finishing'
    <3>1. \A i \in Part : i < part.j + 1 => i < part.j \/ i = part.j
      BY Fields DEF Part
    <3>2. QED
      BY <1>1, <2>2, <3>1 DEF Finishing
  <2>7. Made'
    BY <1>6, <2>2, Zenon DEF Made
  <2>8. generated' = NoIndex
    BY <1>1, <2>1
  <2>9. QED
    BY <2>2, <2>5, <2>6, <2>7, <2>8 DEF PartInv, Creating, Reading, DoneOnce, PartitionsRight
<1>10. QED
  BY <1>8, <1>9

LEMMA PartInvFails ==
    ASSUME Types, PartInv, PartitionFails
    PROVE  PartInv'
<1>1. /\ part'.pc = "none" /\ generated = NoIndex /\ generated' = generated
  BY NotRunningIs DEF PartitionFails, PartInv, DoneOnce
<1>2. ASSUME NEW i \in Part, ~partition'[i].exists
      PROVE  partition'[i].logs = << >>
  <2>1. CASE UNCHANGED partition
    BY <1>2, <2>1, Zenon DEF PartInv, Made
  <2>2. ASSUME NEW j \in Part, Flushing(j),
               partition' = [partition EXCEPT ![j].logs = Append(@, Torn)]
        PROVE  partition'[i].logs = << >>
    <3>1. part.pc \in {"read", "finish"}
      BY <2>2 DEF Flushing
    <3>2. partition[i].exists
      BY <3>1, Zenon DEF PartInv, Made
    <3>3. partition'[i].exists = partition[i].exists
      BY <2>2, Fields
    <3>4. QED
      BY <1>2, <3>2, <3>3, Zenon
  <2>3. QED
    BY <2>1, <2>2 DEF PartitionFails
<1>3. Made'
  BY <1>1, <1>2, Zenon DEF Made
<1>4. QED
  BY <1>1, <1>3 DEF PartInv, Creating, Distributing, Finishing, Reading, DoneOnce,
                    PartitionsRight

LEMMA PartInvNext == Types /\ PartInv /\ [Next]_vars => PartInv'
<1> SUFFICES ASSUME Types, PartInv, [Next]_vars
             PROVE  PartInv'
  OBVIOUS
<1>1. CASE UNCHANGED vars
  <2>1. WriterStep
    BY <1>1 DEF vars, storeVars, writerVars, partVars, WriterStep, Types, DiskTypes, OpenExists,
                WriterTypes
  <2>2. QED
    BY <2>1, PartInvWriter
<1>2. CASE Writes
  BY <1>2, WriterSteps, PartInvWriter
<1>3. CASE Next /\ ~Writes
  BY <1>3, PartInvGenerate, PartInvCreate, PartInvRead, PartInvDistribute, PartInvEnd,
     PartInvFinish, PartInvFails DEF Next, Writes
<1>4. QED
  BY <1>1, <1>2, <1>3

(* When GeneratePartitionIndex has returned true, each partition holds the records of
   the index with its checksums, in their order, as far as the index was whole: for
   every number of partitions, every interval and every batch, while records are
   appended, and whatever write was cut short before (common_data_store.cpp,
   GeneratePartitionIndex). *)
THEOREM PartitionsHoldIndex == Spec => []PartitionsRight
<1>1. Spec => []PartInv
  BY AlwaysTypes, PartInvInit, PartInvNext, PTL DEF Spec
<1>2. PartInv => PartitionsRight
  BY DEF PartInv
<1>3. QED
  BY <1>1, <1>2, PTL

-----------------------------------------------------------------------------
(* The offsets. *)

(* The record names the log that ends where it says. *)
Located(r) == r.mOffset \in DOMAIN data /\ data[r.mOffset] = r.mSha1Index

AllLocated(records) == \A r \in Range(records) : Located(r)

(* What was appended and is not lost, whether its index record is written or not. *)
AllRecords == RecordsOf(index) \o mIndexStream

OffsetsIncrease(records) ==
    \A m, n \in DOMAIN records : m < n => records[m].mOffset < records[n].mOffset

InPartition(i) == RecordsOf(partition[i].logs) \o part.held[i]

OffsetInv ==
    /\ AllLocated(AllRecords) /\ OffsetsIncrease(AllRecords)
    /\ \A n \in 1..Len(index) : AllLocated(index[n].records)
    /\ \A i \in Part : AllLocated(InPartition(i))
    /\ AllLocated(part.left)
    /\ Range(appended) \subseteq Range(AllRecords)
    /\ Range(returned) \subseteq Range(RecordsOf(index))

LEMMA LocatedIsOffsets == \A records : AllLocated(records) <=> Offsets(records)
BY DEF AllLocated, Located, Offsets, Range

LEMMA RangeEmpty == Range(<< >>) = {}
BY DEF Range

LEMMA RangeOfAppend ==
    ASSUME NEW S, NEW s \in Seq(S), NEW e \in S
    PROVE  Range(Append(s, e)) = Range(s) \cup {e}
<1>1. Append(s, e) = s \o <<e>> /\ <<e>> \in Seq(S)
  BY AppendIsConcat
<1>2. PICK t \in Seq(S) : t = <<e>> /\ Range(t) = {e}
  <2>1. Range(<<e>>) = {e}
    BY DEF Range
  <2>2. QED
    BY <1>1, <2>1
<1>3. Range(s \o t) = Range(s) \cup Range(t)
  BY RangeConcatenation
<1>4. QED
  BY <1>1, <1>2, <1>3

LEMMA RangeOfHeadTail ==
    ASSUME NEW S, NEW s \in Seq(S), s # << >>
    PROVE  Head(s) \in Range(s) /\ Range(Tail(s)) \subseteq Range(s)
<1>1. /\ Tail(s) \in Seq(S) /\ Len(Tail(s)) = Len(s) - 1
      /\ \A i \in 1..Len(Tail(s)) : Tail(s)[i] = s[i + 1]
      /\ Len(s) \in Nat \ {0}
  BY HeadTailProperties, EmptySeq
<1>2. Head(s) = s[1] /\ 1 \in 1..Len(s)
  BY <1>1
<1>3. Head(s) \in Range(s)
  BY <1>2, RangeEquality
<1>4. ASSUME NEW x \in Range(Tail(s))
      PROVE  x \in Range(s)
  <2>1. PICK i \in 1..Len(Tail(s)) : x = Tail(s)[i]
    <3>1. PICK t \in Seq(S) : t = Tail(s)
      BY <1>1
    <3>2. Range(t) = {t[i] : i \in 1..Len(t)}
      BY RangeEquality
    <3>3. QED
      BY <3>1, <3>2
  <2>2. i + 1 \in 1..Len(s) /\ x = s[i + 1]
    BY <1>1, <2>1
  <2>3. QED
    BY <2>2, RangeEquality
<1>5. QED
  BY <1>3, <1>4

(* What is located stays where it is when data are appended. *)
DataGrows == data' = data \/ \E x \in Block \cup {"torn"} : data' = Append(data, x)

LEMMA LocatedStays ==
    ASSUME Types, DataGrows, NEW r, Located(r)
    PROVE  Located(r)'
<1>1. data \in Seq(Block \cup {"torn"}) /\ DOMAIN data = 1..Len(data) /\ Len(data) \in Nat
  BY LenProperties DEF Types, DiskTypes
<1>2. ASSUME NEW x \in Block \cup {"torn"}, data' = Append(data, x)
      PROVE  Located(r)'
  <2>1. /\ data' \in Seq(Block \cup {"torn"}) /\ Len(data') = Len(data) + 1
        /\ \A i \in 1..Len(data) : data'[i] = data[i]
    BY <1>1, <1>2, AppendProperties
  <2>2. DOMAIN data' = 1..(Len(data) + 1)
    BY <2>1, LenProperties
  <2>3. QED
    BY <1>1, <2>1, <2>2 DEF Located
<1>3. QED
  BY <1>2 DEF DataGrows, Located

LEMMA AllLocatedStays ==
    ASSUME Types, DataGrows, NEW records, AllLocated(records)
    PROVE  \A r \in Range(records) : Located(r)'
BY LocatedStays DEF AllLocated

LEMMA IncreasePrefix ==
    ASSUME NEW s \in Seq(IndexRecord), NEW t \in Seq(IndexRecord), OffsetsIncrease(s \o t)
    PROVE  OffsetsIncrease(s)
<1>1. PICK u : u = s \o t
  OBVIOUS
<1>2. /\ u \in Seq(IndexRecord) /\ Len(u) = Len(s) + Len(t)
      /\ \A i \in 1..(Len(s) + Len(t)) : u[i] = IF i <= Len(s) THEN s[i] ELSE t[i - Len(s)]
      /\ Len(s) \in Nat /\ Len(t) \in Nat
      /\ DOMAIN s = 1..Len(s) /\ DOMAIN u = 1..Len(u)
  BY <1>1, ConcatProperties, LenProperties
<1>3. \A i \in 1..Len(s) : i \in 1..Len(u) /\ u[i] = s[i]
  BY <1>2
<1>4. QED
  BY <1>1, <1>2, <1>3 DEF OffsetsIncrease

LEMMA IncreaseAppend ==
    ASSUME Types, NEW s \in Seq(IndexRecord), NEW r \in IndexRecord,
           AllLocated(s), OffsetsIncrease(s), r.mOffset = Len(data) + 1
    PROVE  OffsetsIncrease(Append(s, r))
<1>1. PICK u : u = Append(s, r)
  OBVIOUS
<1>2. /\ u \in Seq(IndexRecord) /\ Len(u) = Len(s) + 1 /\ Len(s) \in Nat
      /\ \A i \in 1..Len(s) : u[i] = s[i]
      /\ u[Len(s) + 1] = r
      /\ DOMAIN s = 1..Len(s) /\ DOMAIN u = 1..(Len(s) + 1)
  BY <1>1, AppendProperties, LenProperties
<1>3. data \in Seq(Block \cup {"torn"}) /\ DOMAIN data = 1..Len(data) /\ Len(data) \in Nat
  BY LenProperties DEF Types, DiskTypes
<1>4. \A i \in 1..Len(s) : s[i].mOffset \in 1..Len(data)
  BY <1>2, <1>3 DEF AllLocated, Located, Range
<1>5. ASSUME NEW m \in DOMAIN u, NEW n \in DOMAIN u, m < n
      PROVE  u[m].mOffset < u[n].mOffset
  <2>1. m \in 1..Len(s) /\ (n \in 1..Len(s) \/ n = Len(s) + 1)
    BY <1>2, <1>5
  <2>2. CASE n \in 1..Len(s)
    <3>1. u[m] = s[m] /\ u[n] = s[n] /\ m \in DOMAIN s /\ n \in DOMAIN s
      BY <1>2, <2>1, <2>2
    <3>2. QED
      BY <1>5, <3>1 DEF OffsetsIncrease
  <2>3. CASE n = Len(s) + 1
    <3>1. u[m] = s[m] /\ u[n] = r /\ s[m].mOffset \in 1..Len(data)
      BY <1>2, <1>4, <2>1, <2>3
    <3>2. QED
      BY <1>3, <3>1
  <2>4. QED
    BY <2>1, <2>2, <2>3
<1>6. QED
  BY <1>1, <1>5 DEF OffsetsIncrease

LEMMA OffsetInvInit == Init => OffsetInv
<1> SUFFICES ASSUME Init
             PROVE  OffsetInv
  OBVIOUS
<1>1. /\ index = << >> /\ mIndexStream = << >> /\ appended = << >> /\ returned = << >>
      /\ part = NotRunning /\ partition = [i \in Part |-> NoFile]
  BY DEF Init
<1>2. << >> \o << >> = << >> /\ Len(<< >>) = 0
  BY EmptySeq, ConcatEmptySeq
<1>3. AllRecords = << >> /\ RecordsOf(index) = << >>
  BY <1>1, <1>2, RecordsOfEmpty DEF AllRecords
<1>4. AllLocated(<< >>) /\ OffsetsIncrease(<< >>)
  <2>1. DOMAIN << >> = {}
    OBVIOUS
  <2>2. QED
    BY <2>1, RangeEmpty DEF AllLocated, OffsetsIncrease
<1>5. \A i \in Part : InPartition(i) = << >>
  BY <1>1, <1>2, NotRunningIs, RecordsOfEmpty DEF InPartition, NoFile
<1>6. part.left = << >>
  BY <1>1, NotRunningIs
<1>7. QED
  BY <1>1, <1>2, <1>3, <1>4, <1>5, <1>6, RangeEmpty DEF OffsetInv

IndexGrows ==
    index' = index \/ index' = Append(index, Torn) \/ index' = Append(index, Log(mIndexStream))

(* What a step of CDSUtility does to the records: nothing, one more, or those that were
   not written are gone. *)
RecordsStay == AllRecords' = AllRecords /\ appended' \in {appended, << >>}

OneMore(b) ==
    LET r == CdsIndexRecord(b, Len(data) + 1)
    IN  /\ data' = Append(data, b) /\ UNCHANGED index
        /\ AllRecords' = Append(AllRecords, r) /\ appended' = Append(appended, r)

StreamLost == AllRecords' = RecordsOf(index) /\ appended' = << >>

RecordsStep ==
    /\ RecordsStay \/ StreamLost \/ \E b \in Block : OneMore(b)
    /\ \/ returned' = returned
       \/ returned' = returned \o appended /\ mIndexStream = << >> /\ AllRecords' = AllRecords
    /\ IndexGrows /\ DataGrows

LEMMA StreamTypes ==
    ASSUME Types
    PROVE  /\ index \in Seq(IndexLog) /\ RecordsOf(index) \in Seq(IndexRecord)
           /\ mIndexStream \in Seq(IndexRecord) /\ AllRecords \in Seq(IndexRecord)
           /\ appended \in Seq(IndexRecord) /\ returned \in Seq(IndexRecord)
           /\ data \in Seq(Block \cup {"torn"}) /\ Len(data) \in Nat
           /\ RecordsOf(Append(index, Torn)) = RecordsOf(index)
           /\ RecordsOf(Append(index, Log(mIndexStream))) = AllRecords
           /\ RecordsOf(index) \o << >> = RecordsOf(index)
           /\ AllRecords \o << >> = AllRecords
<1>1. /\ index \in Seq(IndexLog) /\ mIndexStream \in Seq(IndexRecord)
      /\ appended \in Seq(IndexRecord) /\ returned \in Seq(IndexRecord)
      /\ data \in Seq(Block \cup {"torn"})
  BY DEF Types, DiskTypes, WriterTypes
<1>2. RecordsOf(index) \in Seq(IndexRecord)
  BY <1>1, LogTypes, RecordsOfAppend
<1>3. AllRecords \in Seq(IndexRecord)
  BY <1>1, <1>2, ConcatProperties DEF AllRecords
<1>4. RecordsOf(Append(index, Log(mIndexStream))) = AllRecords
  <2>1. PICK l \in IndexLog : l = Log(mIndexStream) /\ l.records = mIndexStream
    BY <1>1, LogTypes
  <2>2. RecordsOf(Append(index, l)) = RecordsOf(index) \o l.records
    BY <1>1, RecordsOfAppend
  <2>3. QED
    BY <2>1, <2>2 DEF AllRecords
<1>5. Len(data) \in Nat
  BY <1>1, LenProperties
<1>6. RecordsOf(Append(index, Torn)) = RecordsOf(index)
  BY <1>1, RecordsOfTorn
<1>7. RecordsOf(index) \o << >> = RecordsOf(index) /\ AllRecords \o << >> = AllRecords
  BY <1>2, <1>3, ConcatEmptySeq
<1>8. QED
  BY <1>1, <1>2, <1>3, <1>4, <1>5, <1>6, <1>7

LEMMA RecordsSteps ==
    ASSUME Types, Writes
    PROVE  RecordsStep
<1> USE DEF RecordsStep
<1>1. CASE Open \/ CreateIndex \/ Close \/ \E b \in Batches : BatchAppend(b)
  <2>1. /\ data' = data /\ index' = index /\ mIndexStream' = mIndexStream
        /\ returned' = returned /\ appended' \in {appended, << >>}
    BY <1>1 DEF Open, CreateIndex, Close, BatchAppend, storeVars
  <2>2. QED
    BY <2>1 DEF RecordsStay, AllRecords, IndexGrows, DataGrows
<1>2. CASE AppendBlock
  <2>1. PICK b \in Block : b = Head(batch)
    BY <1>2, HeadTailProperties DEF AppendBlock, Types, WriterTypes
  <2>2. PICK r : r = CdsIndexRecord(b, Len(data) + 1) /\ r \in IndexRecord
    <3>1. Len(data) + 1 \in Nat
      BY StreamTypes
    <3>2. QED
      <4>1. CdsIndexRecord(b, Len(data) + 1) \in IndexRecord
        BY <3>1 DEF CdsIndexRecord, IndexRecord
      <4>2. QED
        BY <4>1
  <2>3. /\ data' = Append(data, b) /\ index' = index /\ returned' = returned
        /\ mIndexStream' = Append(mIndexStream, r) /\ appended' = Append(appended, r)
    BY <1>2, <2>1, <2>2 DEF AppendBlock, AddRecord
  <2>4. AllRecords' = Append(AllRecords, r)
    <3>1. Append(mIndexStream, r) = mIndexStream \o <<r>> /\ <<r>> \in Seq(IndexRecord)
      BY <2>2, StreamTypes, AppendIsConcat
    <3>2. Append(AllRecords, r) = AllRecords \o <<r>>
      BY <2>2, StreamTypes, AppendIsConcat
    <3>3. (RecordsOf(index) \o mIndexStream) \o <<r>> = RecordsOf(index) \o (mIndexStream \o <<r>>)
      <4>1. RecordsOf(index) \in Seq(IndexRecord) /\ mIndexStream \in Seq(IndexRecord)
        BY StreamTypes
      <4>2. QED
        BY <3>1, <4>1, ConcatAssociative
    <3>4. QED
      BY <2>3, <3>1, <3>2, <3>3 DEF AllRecords
  <2>5. OneMore(b)
    BY <2>2, <2>3, <2>4 DEF OneMore
  <2>6. QED
    BY <2>3, <2>5 DEF IndexGrows, DataGrows
<1>3. CASE FlushIndex
  <2>1. /\ data' = data /\ index' = Append(index, Log(mIndexStream)) /\ mIndexStream' = << >>
        /\ returned' = returned /\ appended' = appended
    BY <1>3 DEF FlushIndex, AppendIndex
  <2>2. AllRecords' = AllRecords
    BY <2>1, StreamTypes DEF AllRecords
  <2>3. QED
    BY <2>1, <2>2 DEF RecordsStay, IndexGrows, DataGrows
<1>4. CASE Return
  <2>1. /\ data' = data /\ index' = index /\ mIndexStream' = mIndexStream
        /\ mIndexStream = << >> /\ returned' = returned \o appended /\ appended' = << >>
    BY <1>4 DEF Return, storeVars
  <2>2. QED
    BY <2>1 DEF RecordsStay, AllRecords, IndexGrows, DataGrows
<1>5. CASE Die
  <2>1. /\ data' = data \/ data' = Append(data, "torn")
        /\ index' = index \/ index' = Append(index, Torn)
        /\ mIndexStream' = << >> /\ returned' = returned /\ appended' = << >>
    BY <1>5 DEF Die
  <2>2. AllRecords' = RecordsOf(index)
    BY <2>1, StreamTypes DEF AllRecords
  <2>3. QED
    BY <2>1, <2>2 DEF StreamLost, IndexGrows, DataGrows
<1>6. ASSUME NEW file \in {"data", "index"}, WriteFails(file)
      PROVE  RecordsStep
  <2>1. /\ data' = data \/ data' = Append(data, "torn")
        /\ index' = index \/ index' = Append(index, Torn)
        /\ mIndexStream' = mIndexStream /\ returned' = returned /\ appended' = << >>
    BY <1>6 DEF WriteFails
  <2>2. AllRecords' = AllRecords
    BY <2>1, StreamTypes DEF AllRecords
  <2>3. QED
    BY <2>1, <2>2 DEF RecordsStay, IndexGrows, DataGrows
<1>7. QED
  BY <1>1, <1>2, <1>3, <1>4, <1>5, <1>6 DEF Writes

(* CDSUtility appends. *)
LEMMA OffsetInvWriter ==
    ASSUME Types, OffsetInv, WriterStep, RecordsStep
    PROVE  OffsetInv'
<1>1. /\ part' = part /\ partition' = partition
      /\ DataGrows /\ IndexGrows
  BY DEF WriterStep, partVars, RecordsStep
<1>2. ASSUME NEW records, AllLocated(records)
      PROVE  \A r \in Range(records) : Located(r)'
  BY <1>1, <1>2, AllLocatedStays
<1>3. \A i \in Part : AllLocated(InPartition(i))'
  <2>1. \A i \in Part : InPartition(i)' = InPartition(i)
    BY <1>1 DEF InPartition
  <2>2. \A i \in Part : \A r \in Range(InPartition(i)) : Located(r)'
    BY <1>2 DEF OffsetInv
  <2>3. QED
    BY <2>1, <2>2 DEF AllLocated
<1>4. AllLocated(part.left)'
  <2>1. \A r \in Range(part.left) : Located(r)'
    BY <1>2 DEF OffsetInv
  <2>2. QED
    BY <1>1, <2>1 DEF AllLocated
<1>5. /\ Range(RecordsOf(index)) \subseteq Range(AllRecords)
      /\ Range(mIndexStream) \subseteq Range(AllRecords)
  <2>1. RecordsOf(index) \in Seq(IndexRecord) /\ mIndexStream \in Seq(IndexRecord)
    BY StreamTypes
  <2>2. QED
    BY <2>1, RangeConcatenation DEF AllRecords
<1>6. \A r \in Range(AllRecords) : Located(r)'
  BY <1>2 DEF OffsetInv
<1>7. ASSUME NEW n \in 1..Len(index')
      PROVE  AllLocated(index[n].records)'
  <2>1. ASSUME n \in 1..Len(index), index'[n] = index[n]
        PROVE  AllLocated(index[n].records)'
    <3>1. AllLocated(index[n].records)
      BY <2>1 DEF OffsetInv
    <3>2. \A r \in Range(index[n].records) : Located(r)'
      BY <1>2, <3>1
    <3>3. QED
      BY <2>1, <3>2 DEF AllLocated
  <2>2. ASSUME index'[n].records \in {<< >>, mIndexStream}
        PROVE  AllLocated(index[n].records)'
    BY <1>5, <1>6, <2>2, RangeEmpty DEF AllLocated
  <2>3. ASSUME NEW l \in IndexLog, l.records \in {<< >>, mIndexStream},
               index' = Append(index, l)
        PROVE  AllLocated(index[n].records)'
    <3>1. /\ Len(index') = Len(index) + 1 /\ Len(index) \in Nat
          /\ \A i \in 1..Len(index) : index'[i] = index[i]
          /\ index'[Len(index) + 1] = l
      BY <2>3, StreamTypes, AppendProperties, LenProperties
    <3>2. n \in 1..Len(index) \/ n = Len(index) + 1
      BY <3>1
    <3>3. QED
      BY <2>1, <2>2, <2>3, <3>1, <3>2
  <2>4. CASE index' = index
    BY <2>1, <2>4
  <2>5. CASE index' = Append(index, Torn)
    BY <2>3, <2>5, LogTypes
  <2>6. CASE index' = Append(index, Log(mIndexStream))
    <3>1. Log(mIndexStream) \in IndexLog /\ Log(mIndexStream).records = mIndexStream
      BY StreamTypes, LogTypes
    <3>2. QED
      BY <2>3, <2>6, <3>1
  <2>7. QED
    BY <1>1, <2>4, <2>5, <2>6 DEF IndexGrows
<1>8. RecordsOf(index)' \in {RecordsOf(index), AllRecords}
  BY <1>1, StreamTypes DEF IndexGrows
<1>9. Range(RecordsOf(index)) \subseteq Range(RecordsOf(index)')
  BY <1>5, <1>8
<1>10. Range(returned') \subseteq Range(RecordsOf(index)')
  <2>1. CASE returned' = returned
    BY <1>9, <2>1 DEF OffsetInv
  <2>2. CASE returned' = returned \o appended /\ mIndexStream = << >>
    <3>1. Range(returned') = Range(returned) \cup Range(appended)
      BY <2>2, StreamTypes, RangeConcatenation
    <3>2. AllRecords = RecordsOf(index)
      BY <2>2, StreamTypes DEF AllRecords
    <3>3. QED
      BY <1>9, <3>1, <3>2 DEF OffsetInv
  <2>3. QED
    BY <2>1, <2>2 DEF RecordsStep
<1>11. /\ AllLocated(AllRecords)' /\ OffsetsIncrease(AllRecords)'
       /\ Range(appended') \subseteq Range(AllRecords')
  <2>1. CASE RecordsStay
    BY <1>6, <2>1, RangeEmpty DEF RecordsStay, OffsetInv, AllLocated, OffsetsIncrease
  <2>2. CASE StreamLost
    <3>1. OffsetsIncrease(RecordsOf(index))
      BY StreamTypes, IncreasePrefix DEF OffsetInv, AllRecords
    <3>2. QED
      BY <1>5, <1>6, <2>2, <3>1, RangeEmpty DEF StreamLost, AllLocated, OffsetsIncrease
  <2>3. ASSUME NEW b \in Block, OneMore(b)
        PROVE  /\ AllLocated(AllRecords)' /\ OffsetsIncrease(AllRecords)'
               /\ Range(appended') \subseteq Range(AllRecords')
    <3>1. PICK r : /\ r = CdsIndexRecord(b, Len(data) + 1)
                   /\ data' = Append(data, b)
                   /\ AllRecords' = Append(AllRecords, r) /\ appended' = Append(appended, r)
      BY <2>3 DEF OneMore
    <3>2. Len(data) + 1 \in Nat
      BY StreamTypes
    <3>3. r \in IndexRecord /\ r.mOffset = Len(data) + 1 /\ r.mSha1Index = b
      BY <3>1, <3>2 DEF CdsIndexRecord, IndexRecord
    <3>4. Located(r)'
      <4>1. data \in Seq(Block \cup {"torn"}) /\ b \in Block \cup {"torn"}
        BY StreamTypes
      <4>2. /\ data' \in Seq(Block \cup {"torn"}) /\ Len(data') = Len(data) + 1
            /\ data'[Len(data) + 1] = b
        BY <3>1, <4>1, AppendProperties
      <4>3. DOMAIN data' = 1..(Len(data) + 1)
        BY <4>2, LenProperties
      <4>4. QED
        BY <3>2, <3>3, <4>2, <4>3, StreamTypes DEF Located
    <3>5. /\ Range(AllRecords') = Range(AllRecords) \cup {r}
          /\ Range(appended') = Range(appended) \cup {r}
      BY <3>1, <3>3, StreamTypes, RangeOfAppend
    <3>6. OffsetsIncrease(Append(AllRecords, r))
      BY <3>3, StreamTypes, IncreaseAppend DEF OffsetInv
    <3>7. QED
      BY <1>6, <3>1, <3>4, <3>5, <3>6 DEF OffsetInv, AllLocated, OffsetsIncrease
  <2>4. QED
    BY <2>1, <2>2, <2>3 DEF RecordsStep
<1>12. QED
  BY <1>3, <1>4, <1>7, <1>10, <1>11 DEF OffsetInv

(* GeneratePartitionIndex only moves records. *)
Moves ==
    /\ \A i \in Part : AllLocated(InPartition(i)')
    /\ AllLocated(part.left')

LEMMA OffsetInvMoves ==
    ASSUME OffsetInv, UNCHANGED <<storeVars, writerVars>>, Moves
    PROVE  OffsetInv'
<1>1. /\ data' = data /\ index' = index /\ mIndexStream' = mIndexStream
      /\ appended' = appended /\ returned' = returned
  BY DEF storeVars, writerVars
<1>2. \A r : Located(r)' <=> Located(r)
  BY <1>1 DEF Located
<1>3. (\A i \in Part : AllLocated(InPartition(i))') /\ AllLocated(part.left)'
  BY <1>2 DEF Moves, AllLocated
<1>4. AllLocated(AllRecords)' /\ OffsetsIncrease(AllRecords)'
  BY <1>1, <1>2 DEF OffsetInv, AllLocated, AllRecords, OffsetsIncrease
<1>5. \A n \in 1..Len(index) : AllLocated(index[n].records)'
  BY <1>1, <1>2 DEF OffsetInv, AllLocated
<1>6. QED
  BY <1>1, <1>3, <1>4, <1>5 DEF OffsetInv, AllRecords

LEMMA InPartitionTypes ==
    ASSUME Types, NEW i \in Part
    PROVE  /\ RecordsOf(partition[i].logs) \in Seq(IndexRecord)
           /\ part.held[i] \in Seq(IndexRecord)
           /\ InPartition(i) \in Seq(IndexRecord)
           /\ Range(InPartition(i)) = Range(RecordsOf(partition[i].logs)) \cup Range(part.held[i])
<1>1. partition[i].logs \in Seq(IndexLog) /\ part.held[i] \in Seq(IndexRecord)
  BY Fields
<1>2. RecordsOf(partition[i].logs) \in Seq(IndexRecord)
  BY <1>1, LogTypes, RecordsOfAppend
<1>3. QED
  BY <1>1, <1>2, ConcatProperties, RangeConcatenation DEF InPartition

LEMMA MovesNext ==
    ASSUME Types, OffsetInv, UNCHANGED <<storeVars, writerVars>>,
           \/ Generate \/ CreatePartition \/ ReadRecord \/ DistributeRecord \/ EndOfRecords
           \/ FinishPartition \/ PartitionFails
    PROVE  Moves
<1>0. /\ \A i \in Part : AllLocated(InPartition(i))
      /\ AllLocated(part.left) /\ AllLocated(<< >>)
  BY RangeEmpty DEF OffsetInv, AllLocated
<1>1. (* The stream is emptied and the file keeps its records. *)
      ASSUME NEW i \in Part, part'.held[i] = << >>,
             RecordsOf(partition'[i].logs) = RecordsOf(partition[i].logs)
      PROVE  AllLocated(InPartition(i)')
  <2>1. InPartition(i)' = RecordsOf(partition[i].logs)
    BY <1>1, InPartitionTypes, ConcatEmptySeq DEF InPartition
  <2>2. QED
    BY <1>0, <2>1, InPartitionTypes DEF AllLocated
<1>2. CASE Generate
  <2>1. part'.held = NotRunning.held /\ part'.left = << >> /\ partition' = partition
    BY <1>2 DEF Generate, NotRunning
  <2>2. QED
    BY <1>0, <1>1, <2>1, NotRunningIs DEF Moves
<1>3. CASE CreatePartition \/ EndOfRecords
  <2>1. part'.held = part.held /\ part'.left = part.left
    BY <1>3 DEF CreatePartition, EndOfRecords, Types, PartTypes
  <2>2. \A i \in Part : partition'[i].logs = partition[i].logs
    <3>1. CASE CreatePartition
      BY <3>1, Fields DEF CreatePartition
    <3>2. CASE EndOfRecords
      BY <3>2 DEF EndOfRecords
    <3>3. QED
      BY <1>3, <3>1, <3>2
  <2>3. QED
    BY <1>0, <2>1, <2>2 DEF Moves, InPartition
<1>4. CASE ReadRecord
  <2>1. /\ part.read < Len(index) /\ partition' = partition
        /\ part' = [part EXCEPT !.read = @ + 1, !.left = index[part.read + 1].records]
    BY <1>4 DEF ReadRecord, HasNext
  <2>2. part'.held = part.held /\ part'.left = index[part.read + 1].records
    BY <2>1 DEF Types, PartTypes
  <2>3. part.read + 1 \in 1..Len(index)
    BY <2>1, Fields
  <2>4. AllLocated(index[part.read + 1].records)
    BY <2>3 DEF OffsetInv
  <2>5. QED
    BY <1>0, <2>1, <2>2, <2>4 DEF Moves, InPartition
<1>5. CASE DistributeRecord
  <2>1. PICK r, j, new :
            /\ r = Head(part.left) /\ j = mod(r)
            /\ new = AddTo([held |-> part.held[j], logs |-> partition[j].logs], r)
            /\ partition' = [partition EXCEPT ![j].logs = new.logs]
            /\ part' = [part EXCEPT !.left = Tail(part.left), !.held[j] = new.held]
            /\ part.left # << >>
    BY <1>5 DEF DistributeRecord
  <2>2. /\ r \in IndexRecord /\ r \in Range(part.left)
        /\ Range(Tail(part.left)) \subseteq Range(part.left)
    <3>1. part.left \in Seq(IndexRecord)
      BY Fields
    <3>2. QED
      BY <2>1, <3>1, HeadTailProperties, RangeOfHeadTail
  <2>3. j \in Part
    BY <2>1, <2>2, PartOfRecord
  <2>4. PICK held, logs : /\ held = part.held[j] /\ logs = partition[j].logs
                          /\ held \in Seq(IndexRecord) /\ logs \in Seq(IndexLog)
    BY <2>3, Fields
  <2>5. RecordsOf(new.logs) \o new.held = Append(RecordsOf(logs) \o held, r)
    <3>1. new = AddTo([held |-> held, logs |-> logs], r)
      BY <2>1, <2>4
    <3>2. QED
      BY <2>2, <2>4, <3>1, AddToIs
  <2>6. /\ part'.left = Tail(part.left)
        /\ \A i \in Part : part'.held[i] = IF i = j THEN new.held ELSE part.held[i]
    BY <2>1, <2>3 DEF Types, PartTypes
  <2>7. \A i \in Part : partition'[i].logs = IF i = j THEN new.logs ELSE partition[i].logs
    BY <2>1, <2>3, Fields
  <2>8. InPartition(j)' = Append(InPartition(j), r)
    BY <2>3, <2>4, <2>5, <2>6, <2>7 DEF InPartition
  <2>9. Range(InPartition(j)') = Range(InPartition(j)) \cup {r}
    BY <2>2, <2>3, <2>8, InPartitionTypes, RangeOfAppend
  <2>10. AllLocated(InPartition(j)')
    BY <1>0, <2>2, <2>3, <2>9 DEF AllLocated
  <2>11. \A i \in Part : i # j => InPartition(i)' = InPartition(i)
    BY <2>6, <2>7 DEF InPartition
  <2>12. AllLocated(part.left')
    BY <1>0, <2>2, <2>6 DEF AllLocated
  <2>13. QED
    BY <1>0, <2>10, <2>11, <2>12 DEF Moves
<1>6. CASE FinishPartition
  <2>1. PICK j, held, logs, logs2 :
            /\ j \in Part /\ j = part.j /\ held = part.held[j] /\ logs = partition[j].logs
            /\ logs2 = IF held = << >> THEN logs ELSE Append(logs, Log(held))
            /\ held \in Seq(IndexRecord) /\ logs \in Seq(IndexLog)
    BY Fields
  <2>2. RecordsOf(logs2) \o << >> = RecordsOf(logs) \o held
    <3>1. RecordsOf(logs) \in Seq(IndexRecord)
      BY <2>1, LogTypes, RecordsOfAppend
    <3>2. PICK l \in IndexLog : l = Log(held) /\ l.records = held
      BY <2>1, LogTypes
    <3>3. RecordsOf(Append(logs, l)) = RecordsOf(logs) \o l.records
      BY <2>1, RecordsOfAppend
    <3>4. RecordsOf(logs) \o held \in Seq(IndexRecord)
      BY <2>1, <3>1, ConcatProperties
    <3>5. CASE held = << >>
      BY <2>1, <3>5
    <3>6. CASE held # << >>
      <4>1. RecordsOf(logs2) = RecordsOf(logs) \o held
        BY <2>1, <3>2, <3>3, <3>6
      <4>2. QED
        BY <3>4, <4>1, ConcatEmptySeq
    <3>7. QED
      BY <3>5, <3>6
  <2>3. \A i \in Part : partition'[i].logs = IF i = j THEN logs2 ELSE partition[i].logs
    BY <1>6, <2>1, Fields DEF FinishPartition
  <2>4. /\ part'.left = part.left
        /\ \A i \in Part : part'.held[i] = IF i = j THEN << >> ELSE part.held[i]
    <3>1. CASE part.j + 1 = no_partitions
      <4>1. part' = [part EXCEPT !.pc = "done", !.held[part.j] = << >>]
        BY <1>6, <3>1 DEF FinishPartition
      <4>2. QED
        BY <2>1, <4>1 DEF Types, PartTypes
    <3>2. CASE part.j + 1 # no_partitions
      <4>1. part' = [part EXCEPT !.j = @ + 1, !.held[part.j] = << >>]
        BY <1>6, <3>2 DEF FinishPartition
      <4>2. QED
        BY <2>1, <4>1 DEF Types, PartTypes
    <3>3. QED
      BY <3>1, <3>2
  <2>5. \A i \in Part : InPartition(i)' = InPartition(i)
    BY <2>1, <2>2, <2>3, <2>4 DEF InPartition
  <2>6. QED
    BY <1>0, <2>4, <2>5 DEF Moves
<1>7. CASE PartitionFails
  <2>1. part' = NotRunning
    BY <1>7 DEF PartitionFails
  <2>2. ASSUME NEW i \in Part
        PROVE  RecordsOf(partition'[i].logs) = RecordsOf(partition[i].logs)
    <3>1. partition[i].logs \in Seq(IndexLog)
      BY Fields
    <3>2. partition'[i].logs = partition[i].logs \/ partition'[i].logs = Append(partition[i].logs, Torn)
      <4>1. CASE UNCHANGED partition
        BY <4>1
      <4>2. ASSUME NEW j \in Part,
                   partition' = [partition EXCEPT ![j].logs = Append(@, Torn)]
            PROVE  partition'[i].logs = partition[i].logs \/ partition'[i].logs = Append(partition[i].logs, Torn)
        BY <4>2, Fields
      <4>3. QED
        BY <1>7, <4>1, <4>2 DEF PartitionFails
    <3>3. QED
      BY <3>1, <3>2, RecordsOfTorn
  <2>3. QED
    BY <1>0, <1>1, <2>1, <2>2, NotRunningIs DEF Moves
<1>8. QED
  BY <1>2, <1>3, <1>4, <1>5, <1>6, <1>7

LEMMA OffsetInvNext == Types /\ OffsetInv /\ [Next]_vars => OffsetInv'
<1> SUFFICES ASSUME Types, OffsetInv, [Next]_vars
             PROVE  OffsetInv'
  OBVIOUS
<1>1. CASE UNCHANGED vars
  <2>1. UNCHANGED <<storeVars, writerVars>> /\ part' = part /\ partition' = partition
    BY <1>1 DEF vars, storeVars, writerVars, partVars
  <2>2. Moves
    BY <2>1 DEF Moves, OffsetInv, InPartition
  <2>3. QED
    BY <2>1, <2>2, OffsetInvMoves
<1>2. CASE Writes
  BY <1>2, WriterSteps, RecordsSteps, OffsetInvWriter
<1>3. CASE Next /\ ~Writes
  <2>1. /\ UNCHANGED <<storeVars, writerVars>>
        /\ \/ Generate \/ CreatePartition \/ ReadRecord \/ DistributeRecord \/ EndOfRecords
           \/ FinishPartition \/ PartitionFails
    BY <1>3 DEF Next, Writes, Generate, CreatePartition, ReadRecord, DistributeRecord,
                EndOfRecords, FinishPartition, PartitionFails
  <2>2. QED
    BY <2>1, MovesNext, OffsetInvMoves
<1>4. QED
  BY <1>1, <1>2, <1>3

LEMMA OffsetInvGives ==
    ASSUME Types, OffsetInv
    PROVE  IndexRight
<1>1. /\ RecordsOf(index) \in Seq(IndexRecord) /\ mIndexStream \in Seq(IndexRecord)
      /\ Range(AllRecords) = Range(RecordsOf(index)) \cup Range(mIndexStream)
  BY StreamTypes, RangeConcatenation DEF AllRecords
<1>2. AllLocated(RecordsOf(index)) /\ AllLocated(mIndexStream)
  BY <1>1 DEF OffsetInv, AllLocated
<1>3. \A i \in Part : AllLocated(RecordsOf(partition[i].logs))
  BY InPartitionTypes DEF OffsetInv, AllLocated
<1>4. OffsetsIncrease(RecordsOf(index))
  BY <1>1, IncreasePrefix DEF OffsetInv, AllRecords
<1>5. IsInjective(RecordsOf(index))
  <2>1. PICK s \in Seq(IndexRecord) : s = RecordsOf(index)
    BY <1>1
  <2>2. DOMAIN s = 1..Len(s) /\ Len(s) \in Nat /\ \A n \in 1..Len(s) : s[n].mOffset \in Nat
    <3>1. \A n \in 1..Len(s) : s[n] \in IndexRecord
      BY ElementOfSeq
    <3>2. QED
      BY <3>1, LenProperties DEF IndexRecord
  <2>3. \A m, n \in 1..Len(s) : m < n => s[m] # s[n]
    BY <1>4, <2>1, <2>2 DEF OffsetsIncrease
  <2>4. \A m, n \in 1..Len(s) : m = n \/ m < n \/ n < m
    BY <2>2
  <2>5. QED
    BY <2>1, <2>2, <2>3, <2>4 DEF IsInjective
<1>6. ASSUME NEW n \in DOMAIN returned
      PROVE  \E m \in DOMAIN RecordsOf(index) : RecordsOf(index)[m] = returned[n]
  BY DEF OffsetInv, Range
<1>7. QED
  BY <1>2, <1>3, <1>5, <1>6, LocatedIsOffsets DEF IndexRight

(* Every index record, in the index, in the stream that is not written and in the
   partitions, names the log that ends where it says and that holds its block, no log
   is recorded twice, and what a batch that returned appended is all in the index:
   for every batch and every interval, through failed writes, deaths and reopenings
   (common_data_store.cpp, CDSUtility and GeneratePartitionIndex). *)
THEOREM IndexNamesBlocks == Spec => []IndexRight
<1>1. Spec => []OffsetInv
  BY AlwaysTypes, OffsetInvInit, OffsetInvNext, PTL DEF Spec
<1>2. QED
  BY <1>1, AlwaysTypes, OffsetInvGives, PTL

=============================================================================
